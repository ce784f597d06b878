CONSTANTS
    Threads = {t1, t2, t3}
    a = a
    b = b
    c = c
    Names = {a, b, c}
    Ino <- MCIno
    RootIno = 1
    Objs = {o1, o2, o3, o4}
    None = None
SPECIFICATION Spec
INVARIANTS
    RefsExact
    VisibleIsInitialised
    SbDataScoped
PROPERTY
    LookupReturns
