CONSTANTS
    Threads = {t1, t2}
    a = a
    b = b
    c = c
    Names = {a, b, c}
    Ino <- MCIno
    RootIno = 1
    Objs = {o1, o2, o3}
    None = None
SPECIFICATION SpecLoadFails
INVARIANTS
    RefsExact
