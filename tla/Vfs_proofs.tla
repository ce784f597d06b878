----------------------------- MODULE Vfs_proofs -----------------------------
(***************************************************************************)
(* Proofs about Vfs for every finite set of threads and of names, and any  *)
(* set of inode objects: the counts, the visibility of inodes and the      *)
(* scope of the superblock's data, where loading an inode does not fail.   *)
(***************************************************************************)
EXTENDS Vfs, FiniteSetTheorems, TLAPS

Jobs == Names \cup {Root}
Inos == {0} \cup {InoOf(j) : j \in Jobs}
Holding == {"insert", "new", "filled", "wait", "have"}
Creating == {"insert", "new", "filled"}

ObjTable == [Objs -> [st : {"slab", "raw", "new", "ok"}, ino : Inos, cnt : Nat, data : BOOLEAN]]
Walks == [Threads -> [pc : {"idle", "fill", "find", "alloc"} \cup Holding,
                      job : Jobs, obj : Objs \cup {None}]]

TypeOK ==
    /\ reg \in {"none", "made", "registered"}
    /\ sb \in {"none", "new", "ready", "active", "dying"}
    /\ info \in {"null", "live"}
    /\ dent \in [Jobs -> Objs \cup {None}]
    /\ obj \in ObjTable
    /\ th \in Walks

\* What a thread knows of the object it holds, at each point of iget and init.
ThreadOK(t) ==
    /\ th[t].pc = "idle" => th[t] = Idle
    /\ th[t].pc = "fill" => th[t].job = Root
    /\ th[t].pc \in Holding <=> th[t].obj # None
    /\ th[t].pc = "insert" => obj[th[t].obj].st = "raw"
    /\ th[t].pc \in {"new", "filled"} => obj[th[t].obj].st = "new"
    /\ th[t].pc = "filled" => obj[th[t].obj].data
    /\ th[t].pc = "wait" => obj[th[t].obj].st \in {"new", "ok"}
    /\ th[t].pc = "have" => obj[th[t].obj].st = "ok"
    /\ th[t].pc \in Holding => obj[th[t].obj].ino = InoOf(th[t].job)

\* One lookup at a time per name, and none of a name with a dentry.
JobsDistinct ==
    /\ \A t, u \in Threads :
          th[t].pc # "idle" /\ th[u].pc # "idle" /\ th[t].job = th[u].job => t = u
    /\ \A t \in Threads : th[t].pc # "idle" => dent[th[t].job] = None

\* Whoever is creating an inode shares it only with threads that wait for it.
CreatorAlone ==
    \A t, u \in Threads :
        th[t].pc \in Creating /\ th[u].obj = th[t].obj /\ t # u => th[u].pc = "wait"

\* An inode under construction has a thread constructing it, and a hashed and
\* unlocked one has its data.
ObjOK(o) ==
    /\ obj[o].st \in {"raw", "new"} =>
          \E t \in Threads : th[t].obj = o /\ th[t].pc \in Creating
    /\ obj[o].st = "ok" => obj[o].data
    /\ obj[o].st = "slab" => ~obj[o].data

\* The inode hash has one inode per number.
HashedOnce ==
    \A o, p \in Objs :
        /\ obj[o].st \in {"new", "ok"} /\ obj[p].st \in {"new", "ok"}
        /\ obj[o].ino = obj[p].ino
        => o = p

DentsOK == \A n \in Jobs : dent[n] # None => obj[dent[n]].st = "ok"

NoInodes == (\A o \in Objs : obj[o].st = "slab") /\ \A n \in Jobs : dent[n] = None

\* The stages of a mount.
SbOK ==
    /\ sb \in {"none", "new"} => info = "null" /\ NoInodes
    /\ sb \in {"none", "dying"} => \A t \in Threads : th[t].pc = "idle"
    /\ sb = "new" => \A t \in Threads : th[t].pc \in {"idle", "fill"}
    /\ sb # "new" => \A t \in Threads : th[t].pc # "fill"
    /\ sb \in {"ready", "active"} => info = "live"
    /\ sb = "ready" => /\ \A t \in Threads : th[t].pc # "idle" => th[t].job = Root
                       /\ \A n \in Jobs : dent[n] = None
    /\ sb = "active" => \A t \in Threads : th[t].pc # "idle" => th[t].job # Root
    /\ sb = "dying" => info = "live" \/ NoInodes

\* The inductive invariant.
IInv ==
    /\ TypeOK
    /\ \A t \in Threads : ThreadOK(t)
    /\ JobsDistinct
    /\ CreatorAlone
    /\ \A o \in Objs : ObjOK(o)
    /\ HashedOnce
    /\ DentsOK
    /\ SbOK
    /\ RefsExact

-----------------------------------------------------------------------------
\* What may hold an inode is finite, so the cardinality of a set of holders
\* follows one that comes or goes.
LEMMA HolderSets ==
    ASSUME NEW S \in SUBSET (Threads \cup Jobs)
    PROVE  /\ Cardinality(S) \in Nat
           /\ Cardinality(S) = 0 <=> S = {}
           /\ \A x : x \notin S => Cardinality(S \cup {x}) = Cardinality(S) + 1
           /\ \A x \in S : Cardinality(S \ {x}) = Cardinality(S) - 1
  <1>1. IsFiniteSet(Jobs)
    BY VfsAssumption, FS_AddElement DEF Jobs
  <1>2. IsFiniteSet(Threads \cup Jobs)
    BY <1>1, VfsAssumption, FS_Union, Zenon
  <1>3. IsFiniteSet(S)
    BY <1>2, FS_Subset
  <1>. QED
    BY <1>3, FS_CardinalityType, FS_EmptySet, FS_AddElement, FS_RemoveElement, Zenon

\* Threads and names are different holders.
LEMMA HoldersType ==
    ASSUME TypeOK, NEW o \in Objs
    PROVE  /\ Holders(o) \in SUBSET (Threads \cup Jobs)
           /\ \A t \in Threads : t \in Holders(o) <=> th[t].obj = o
           /\ \A n \in Jobs : n \in Holders(o) <=> dent[n] = o
  BY VfsAssumption DEF TypeOK, ObjTable, Walks, Holders, Jobs

\* The three ways a walk moves on.
LEMMA WalkTypes ==
    ASSUME TypeOK, NEW t \in Threads
    PROVE  /\ \A pc \in Holding : \A o \in Objs : Hold(t, pc, o) => th' \in Walks
           /\ \A pc \in Holding \cup {"alloc"} : Goto(t, pc) => th' \in Walks
           /\ Return(t) => th' \in Walks
  <1>1. \A pc \in Holding : \A o \in Objs : Hold(t, pc, o) => th' \in Walks
    <2>1. SUFFICES ASSUME NEW pc \in Holding, NEW o \in Objs, Hold(t, pc, o)
                   PROVE  th' \in Walks
      BY Zenon
    <2>2. th' = [th EXCEPT ![t] = [th[t] EXCEPT !.pc = pc, !.obj = o]]
      BY <2>1, Zenon DEF Hold, TypeOK, Walks
    <2>3. [th[t] EXCEPT !.pc = pc, !.obj = o]
            \in [pc : {"idle", "fill", "find", "alloc"} \cup Holding,
                 job : Jobs, obj : Objs \cup {None}]
      BY Zenon DEF TypeOK, Walks
    <2>. QED
      BY <2>2, <2>3, Zenon DEF TypeOK, Walks
  <1>2. \A pc \in Holding \cup {"alloc"} : Goto(t, pc) => th' \in Walks
    BY DEF TypeOK, Walks, Goto
  <1>3. Return(t) => th' \in Walks
    BY DEF TypeOK, Walks, Return, Idle, Jobs
  <1>. QED
    BY <1>1, <1>2, <1>3, Zenon

\* Before the module registers, nothing exists.
LEMMA InitIInv == Init => IInv
  <1>. SUFFICES ASSUME Init PROVE IInv
    OBVIOUS
  <1>1. TypeOK
    BY DEF Init, TypeOK, ObjTable, Walks, Slab, Idle, Jobs, Inos, Holding
  <1>2. /\ \A t \in Threads : ThreadOK(t)
        /\ JobsDistinct /\ CreatorAlone
    BY VfsAssumption DEF Init, ThreadOK, JobsDistinct, CreatorAlone, Idle, Holding, Creating, Jobs
  <1>3. /\ \A o \in Objs : ObjOK(o)
        /\ HashedOnce /\ DentsOK /\ SbOK
    BY DEF Init, ObjOK, HashedOnce, DentsOK, SbOK, NoInodes, Slab, Idle, Jobs
  <1>4. RefsExact
    <2>1. ASSUME NEW o \in Objs PROVE Holders(o) = {}
      BY VfsAssumption DEF Init, Holders, Idle
    <2>. QED
      BY <2>1, FS_EmptySet, Zenon DEF Init, RefsExact, Slab
  <1>. QED
    BY <1>1, <1>2, <1>3, <1>4 DEF IInv

\* The mount: get_tree_callback, and fill_super up to the root inode.
LEMMA MountSteps ==
    ASSUME IInv, NEW t \in Threads, GetTree(t) \/ FillSuper(t)
    PROVE  IInv'
  <1>inv. TypeOK /\ (\A u \in Threads : ThreadOK(u)) /\ JobsDistinct /\ CreatorAlone
          /\ (\A p \in Objs : ObjOK(p)) /\ HashedOnce /\ DentsOK /\ SbOK /\ RefsExact
    BY DEF IInv
  <1>th. /\ \A u \in Threads \ {t} : th'[u] = th[u]
         /\ th[t].job = Root /\ th[t].obj = None
         /\ th'[t].job = Root /\ th'[t].obj = None
         /\ th'[t].pc \in {"idle", "fill", "find"}
         /\ th'[t].pc = "idle" => th'[t] = Idle
         /\ dent' = dent /\ obj' = obj /\ reg' = reg
    BY <1>inv, VfsAssumption
    DEF GetTree, FillSuper, Goto, Return, TypeOK, ObjTable, Walks, ThreadOK, Idle, Holding, Jobs
  <1>1. TypeOK'
    BY <1>inv DEF GetTree, FillSuper, Goto, Return, TypeOK, ObjTable, Walks, Idle, Jobs
  <1>2. \A u \in Threads : ThreadOK(u)'
    BY <1>inv, <1>th DEF ThreadOK, Holding, Idle
  <1>alone. /\ \A u \in Threads \ {t} : th[u].pc = "idle"
            /\ NoInodes /\ NoInodes'
    BY <1>inv, <1>th DEF GetTree, FillSuper, JobsDistinct, SbOK, ThreadOK, NoInodes
  <1>3. JobsDistinct' /\ SbOK'
    BY <1>inv, <1>th, <1>alone
    DEF GetTree, FillSuper, Goto, Return, JobsDistinct, SbOK, NoInodes, Idle, Jobs,
        TypeOK, ObjTable, Walks
  <1>4. CreatorAlone' /\ (\A o \in Objs : ObjOK(o)') /\ HashedOnce' /\ DentsOK'
    BY <1>inv, <1>th DEF CreatorAlone, ObjOK, HashedOnce, DentsOK, Creating, ThreadOK, Holding
  <1>5. \A o \in Objs : Holders(o)' = Holders(o)
    BY <1>th, VfsAssumption DEF Holders
  <1>. QED
    BY <1>inv, <1>th, <1>1, <1>2, <1>3, <1>4, <1>5 DEF IInv, RefsExact

\* lookup_trampoline: a lookup of a name that no other thread looks up.
LEMMA LookupStep ==
    ASSUME IInv, NEW t \in Threads, NEW n \in Names, Lookup(t, n)
    PROVE  IInv'
  <1>inv. TypeOK /\ (\A u \in Threads : ThreadOK(u)) /\ JobsDistinct /\ CreatorAlone
          /\ (\A p \in Objs : ObjOK(p)) /\ HashedOnce /\ DentsOK /\ SbOK /\ RefsExact
    BY DEF IInv
  <1>th. /\ \A u \in Threads \ {t} : th'[u] = th[u]
         /\ th'[t] = [pc |-> "find", job |-> n, obj |-> None]
         /\ th[t].obj = None /\ th[t].pc = "idle"
         /\ UNCHANGED <<reg, sb, info, dent, obj>>
    BY <1>inv DEF Lookup, TypeOK, ObjTable, Walks, Idle
  <1>1. TypeOK'
    BY <1>inv DEF Lookup, TypeOK, ObjTable, Walks, Jobs
  <1>2. ASSUME NEW u \in Threads PROVE ThreadOK(u)'
    BY <1>inv, <1>th DEF ThreadOK, Holding, Idle
  <1>3. JobsDistinct' /\ SbOK'
    BY <1>inv, <1>th, VfsAssumption DEF Lookup, JobsDistinct, SbOK, NoInodes, Jobs
  <1>4. CreatorAlone' /\ (\A o \in Objs : ObjOK(o)') /\ HashedOnce' /\ DentsOK'
    BY <1>inv, <1>th DEF CreatorAlone, ObjOK, HashedOnce, DentsOK, Creating, ThreadOK, Holding
  <1>5. \A o \in Objs : Holders(o)' = Holders(o)
    BY <1>th, VfsAssumption DEF Holders
  <1>. QED
    BY <1>inv, <1>th, <1>1, <1>2, <1>3, <1>4, <1>5 DEF IInv, RefsExact

\* The wait for I_NEW ends.
LEMMA WakeStep ==
    ASSUME IInv, NEW t \in Threads, IgetWake(t)
    PROVE  IInv'
  <1>inv. TypeOK /\ (\A u \in Threads : ThreadOK(u)) /\ JobsDistinct /\ CreatorAlone
          /\ (\A p \in Objs : ObjOK(p)) /\ HashedOnce /\ DentsOK /\ SbOK /\ RefsExact
    BY DEF IInv
  <1>th. /\ \A u \in Threads \ {t} : th'[u] = th[u]
         /\ th'[t].pc = "have" /\ th'[t].job = th[t].job /\ th'[t].obj = th[t].obj
         /\ th[t].pc = "wait" /\ obj[th[t].obj].st = "ok"
         /\ UNCHANGED <<reg, sb, info, dent, obj>>
    BY <1>inv DEF IgetWake, Goto, TypeOK, ObjTable, Walks
  <1>1. TypeOK'
    BY <1>inv DEF IgetWake, Goto, TypeOK, ObjTable, Walks, Holding
  <1>2. ASSUME NEW u \in Threads PROVE ThreadOK(u)'
    BY <1>inv, <1>th DEF ThreadOK, Holding, Idle
  <1>3. JobsDistinct' /\ SbOK'
    BY <1>inv, <1>th DEF JobsDistinct, SbOK, NoInodes
  <1>4. CreatorAlone'
    BY <1>inv, <1>th DEF CreatorAlone, Creating, ThreadOK, Holding
  <1>5. (\A o \in Objs : ObjOK(o)') /\ HashedOnce' /\ DentsOK'
    BY <1>inv, <1>th DEF ObjOK, HashedOnce, DentsOK, Creating
  <1>6. \A o \in Objs : Holders(o)' = Holders(o)
    BY <1>th DEF Holders
  <1>. QED
    BY <1>inv, <1>th, <1>1, <1>2, <1>3, <1>4, <1>5, <1>6 DEF IInv, RefsExact

\* iget_locked finds the inode hashed: the thread takes a reference.
LEMMA FindStep ==
    ASSUME IInv, NEW t \in Threads, th[t].pc = "find",
           NEW o \in Hashed(InoOf(th[t].job)), Found(t, o, obj),
           UNCHANGED <<reg, sb, info, dent>>
    PROVE  IInv'
  <1>inv. TypeOK /\ (\A u \in Threads : ThreadOK(u)) /\ JobsDistinct /\ CreatorAlone
          /\ (\A p \in Objs : ObjOK(p)) /\ HashedOnce /\ DentsOK /\ SbOK /\ RefsExact
    BY DEF IInv
  <1>th. /\ \A u \in Threads \ {t} : th'[u] = th[u]
         /\ th'[t].pc = IF obj[o].st = "new" THEN "wait" ELSE "have"
         /\ th'[t].job = th[t].job /\ th'[t].obj = o /\ th[t].obj = None
    BY <1>inv DEF Found, Hold, TypeOK, ObjTable, Walks, ThreadOK, Holding
  <1>obj. /\ o \in Objs /\ obj[o].st \in {"new", "ok"} /\ obj[o].ino = InoOf(th[t].job)
          /\ \A p \in Objs : /\ obj'[p].st = obj[p].st /\ obj'[p].ino = obj[p].ino
                             /\ obj'[p].data = obj[p].data
                             /\ obj'[p].cnt = IF p = o THEN obj[p].cnt + 1 ELSE obj[p].cnt
    BY <1>inv DEF Found, Hashed, TypeOK, ObjTable, Walks
  <1>1. TypeOK'
    <2>1. obj' \in ObjTable
      BY <1>inv, <1>obj DEF Found, TypeOK, ObjTable, Walks
    <2>2. th' \in Walks
      <3>1. PICK pc \in Holding : Hold(t, pc, o)
        BY DEF Found, Holding
      <3>. QED
        BY <1>inv, <1>obj, <3>1, WalkTypes, Zenon
    <2>. QED
      BY <1>inv, <2>1, <2>2, Zenon DEF TypeOK
  <1>2. ASSUME NEW u \in Threads PROVE ThreadOK(u)'
    BY <1>inv, <1>th, <1>obj, VfsAssumption DEF ThreadOK, Holding, Idle, TypeOK, ObjTable, Walks
  <1>3. JobsDistinct' /\ SbOK'
    BY <1>inv, <1>th, <1>obj DEF JobsDistinct, SbOK, NoInodes
  <1>4. CreatorAlone'
    BY <1>inv, <1>th, <1>obj DEF CreatorAlone, Creating, ThreadOK, Holding
  <1>5. ASSUME NEW p \in Objs PROVE ObjOK(p)'
    BY <1>inv, <1>th, <1>obj DEF ObjOK, Creating
  <1>6. HashedOnce' /\ DentsOK'
    BY <1>inv, <1>obj, <1>1 DEF HashedOnce, DentsOK, TypeOK, ObjTable, Walks
  <1>7. ASSUME NEW p \in Objs PROVE obj'[p].cnt = Cardinality(Holders(p)')
    <2>1. /\ t \notin Holders(p)
          /\ Holders(p)' = IF p = o THEN Holders(p) \cup {t} ELSE Holders(p)
      BY <1>inv, <1>th, HoldersType, VfsAssumption DEF Holders, TypeOK, ObjTable, Walks
    <2>. QED
      BY <2>1, <1>inv, <1>obj, HoldersType, HolderSets DEF RefsExact
  <1>. QED
    BY <1>1, <1>2, <1>3, <1>4, <1>5, <1>6, <1>7 DEF IInv, RefsExact

\* iget_locked finds nothing hashed and goes on to allocate.
LEMMA MissStep ==
    ASSUME IInv, NEW t \in Threads, th[t].pc = "find", Goto(t, "alloc"),
           UNCHANGED <<reg, sb, info, dent, obj>>
    PROVE  IInv'
  <1>inv. TypeOK /\ (\A u \in Threads : ThreadOK(u)) /\ JobsDistinct /\ CreatorAlone
          /\ (\A p \in Objs : ObjOK(p)) /\ HashedOnce /\ DentsOK /\ SbOK /\ RefsExact
    BY DEF IInv
  <1>th. /\ \A u \in Threads \ {t} : th'[u] = th[u]
         /\ th'[t].pc = "alloc" /\ th'[t].job = th[t].job /\ th'[t].obj = th[t].obj
    BY <1>inv DEF Goto, TypeOK, ObjTable, Walks
  <1>1. TypeOK'
    BY <1>inv, WalkTypes, Zenon DEF TypeOK, Holding
  <1>2. ASSUME NEW u \in Threads PROVE ThreadOK(u)'
    BY <1>inv, <1>th DEF ThreadOK, Holding, Idle
  <1>3. JobsDistinct' /\ SbOK'
    BY <1>inv, <1>th DEF JobsDistinct, SbOK, NoInodes
  <1>4. CreatorAlone' /\ HashedOnce' /\ DentsOK'
    BY <1>inv, <1>th DEF CreatorAlone, HashedOnce, DentsOK, Creating, ThreadOK, Holding
  <1>5. ASSUME NEW o \in Objs PROVE ObjOK(o)'
    BY <1>inv, <1>th DEF ObjOK, Creating
  <1>6. \A o \in Objs : Holders(o)' = Holders(o)
    BY <1>th DEF Holders
  <1>. QED
    BY <1>inv, <1>1, <1>2, <1>3, <1>4, <1>5, <1>6 DEF IInv, RefsExact

\* alloc_inode_callback takes an object from the slab cache.
LEMMA AllocStep ==
    ASSUME IInv, NEW t \in Threads, th[t].pc = "alloc",
           NEW o \in Objs, obj[o].st = "slab",
           obj' = [obj EXCEPT ![o] = [st |-> "raw", ino |-> InoOf(th[t].job),
                                      cnt |-> 1, data |-> FALSE]],
           Hold(t, "insert", o), UNCHANGED <<reg, sb, info, dent>>
    PROVE  IInv'
  <1>inv. TypeOK /\ (\A u \in Threads : ThreadOK(u)) /\ JobsDistinct /\ CreatorAlone
          /\ (\A p \in Objs : ObjOK(p)) /\ HashedOnce /\ DentsOK /\ SbOK /\ RefsExact
    BY DEF IInv
  <1>th. /\ \A u \in Threads \ {t} : th'[u] = th[u]
         /\ th'[t].pc = "insert" /\ th'[t].job = th[t].job /\ th'[t].obj = o
         /\ th[t].obj = None
    BY <1>inv DEF Hold, TypeOK, ObjTable, Walks, ThreadOK, Holding
  <1>obj. /\ \A p \in Objs \ {o} : obj'[p] = obj[p]
          /\ obj'[o].st = "raw" /\ obj'[o].ino = InoOf(th[t].job)
          /\ obj'[o].cnt = 1 /\ ~obj'[o].data
    BY <1>inv DEF TypeOK, ObjTable, Walks
  <1>free. /\ \A u \in Threads : th[u].obj # o
           /\ \A n \in Jobs : dent[n] # o
    BY <1>inv, VfsAssumption DEF ThreadOK, DentsOK, Holding, TypeOK, ObjTable, Walks
  <1>1. TypeOK'
    <2>1. obj' \in ObjTable
      BY <1>inv DEF TypeOK, ObjTable, Walks, Inos
    <2>2. th' \in Walks
      BY <1>inv, WalkTypes, Zenon DEF Holding
    <2>. QED
      BY <1>inv, <2>1, <2>2, Zenon DEF TypeOK
  <1>2. ASSUME NEW u \in Threads PROVE ThreadOK(u)'
    BY <1>inv, <1>th, <1>obj, <1>free, VfsAssumption
    DEF ThreadOK, Holding, Idle, TypeOK, ObjTable, Walks
  <1>3. JobsDistinct' /\ SbOK'
    BY <1>inv, <1>th DEF JobsDistinct, SbOK, NoInodes
  <1>4. CreatorAlone'
    BY <1>inv, <1>th, <1>free DEF CreatorAlone, Creating, ThreadOK, Holding
  <1>5. ASSUME NEW p \in Objs PROVE ObjOK(p)'
    BY <1>inv, <1>th, <1>obj DEF ObjOK, Creating
  <1>6. HashedOnce' /\ DentsOK'
    BY <1>inv, <1>obj, <1>free, <1>1 DEF HashedOnce, DentsOK, TypeOK, ObjTable, Walks
  <1>7. ASSUME NEW p \in Objs PROVE obj'[p].cnt = Cardinality(Holders(p)')
    <2>1. CASE p = o
      <3>1. Holders(o)' = {t}
        BY <1>inv, <1>th, <1>free, VfsAssumption DEF Holders, TypeOK, ObjTable, Walks
      <3>. QED
        BY <2>1, <3>1, <1>obj, FS_Singleton
    <2>2. CASE p # o
      <3>1. Holders(p)' = Holders(p)
        BY <2>2, <1>inv, <1>th, VfsAssumption DEF Holders, TypeOK, ObjTable, Walks
      <3>. QED
        BY <2>2, <3>1, <1>inv, <1>obj DEF RefsExact
    <2>. QED
      BY <2>1, <2>2
  <1>. QED
    BY <1>1, <1>2, <1>3, <1>4, <1>5, <1>6, <1>7 DEF IInv, RefsExact

\* A walk that returns leaves the superblock as its job says: the mount was the
\* only walk, and a lookup runs only in an active superblock.
LEMMA JobReturns ==
    ASSUME IInv, NEW t \in Threads, th[t].pc \notin {"idle", "fill"}, Return(t)
    PROVE  /\ info = "live"
           /\ th[t].job = Root => \A u \in Threads : th'[u].pc = "idle"
           /\ th[t].job # Root => sb = "active"
           /\ th[t].job # Root =>
                 \A u \in Threads : th'[u].pc # "fill" /\ (th'[u].pc # "idle" => th'[u].job # Root)
  <1>1. TypeOK /\ JobsDistinct /\ SbOK
    BY Zenon DEF IInv
  <1>2. sb \in {"ready", "active"} /\ info = "live"
    BY <1>1 DEF SbOK, TypeOK, ObjTable, Walks
  <1>3. (\A u \in Threads \ {t} : th'[u] = th[u]) /\ th'[t].pc = "idle"
    BY <1>1 DEF Return, TypeOK, ObjTable, Walks, Idle
  <1>4. ASSUME th[t].job = Root PROVE \A u \in Threads : th'[u].pc = "idle"
    <2>1. sb = "ready"
      BY <1>1, <1>2, <1>4, Zenon DEF SbOK
    <2>2. \A u \in Threads \ {t} : th[u].pc = "idle"
      BY <2>1, <1>1, <1>4, Zenon DEF SbOK, JobsDistinct
    <2>. QED
      BY <2>2, <1>3, Zenon
  <1>5. ASSUME th[t].job # Root
        PROVE  sb = "active" /\ \A u \in Threads :
                 th'[u].pc # "fill" /\ (th'[u].pc # "idle" => th'[u].job # Root)
    <2>1. sb = "active"
      BY <1>1, <1>2, <1>5, Zenon DEF SbOK
    <2>. QED
      BY <2>1, <1>1, <1>3 DEF SbOK
  <1>. QED
    BY <1>2, <1>4, <1>5, Zenon

\* alloc_inode_callback returned null: the lookup or the mount fails.
LEMMA AllocFailsStep ==
    ASSUME IInv, NEW t \in Threads, th[t].pc = "alloc", Fail(t),
           UNCHANGED <<reg, info, dent, obj>>
    PROVE  IInv'
  <1>inv. TypeOK /\ (\A u \in Threads : ThreadOK(u)) /\ JobsDistinct /\ CreatorAlone
          /\ (\A p \in Objs : ObjOK(p)) /\ HashedOnce /\ DentsOK /\ SbOK /\ RefsExact
    BY DEF IInv
  <1>th. /\ \A u \in Threads \ {t} : th'[u] = th[u]
         /\ th'[t] = Idle /\ th[t].obj = None
    BY <1>inv DEF Fail, Return, TypeOK, ObjTable, Walks, ThreadOK, Holding
  <1>1. TypeOK'
    <2>1. th' \in Walks
      BY <1>inv, WalkTypes, Zenon DEF Fail
    <2>. QED
      BY <1>inv, <2>1 DEF Fail, TypeOK
  <1>2. ASSUME NEW u \in Threads PROVE ThreadOK(u)'
    BY <1>inv, <1>th DEF ThreadOK, Holding, Idle
  <1>3. JobsDistinct'
    BY <1>inv, <1>th DEF JobsDistinct, Idle
  <1>4. SbOK'
    <2>1. CASE th[t].job = Root
      <3>1. info' = "live" /\ sb' = "dying" /\ \A u \in Threads : th'[u].pc = "idle"
        BY <2>1, JobReturns, Zenon DEF Fail
      <3>. QED
        BY <3>1 DEF SbOK
    <2>2. CASE th[t].job # Root
      <3>1. /\ info' = "live" /\ sb' = "active"
            /\ \A u \in Threads : th'[u].pc # "fill" /\ (th'[u].pc # "idle" => th'[u].job # Root)
        BY <2>2, JobReturns DEF Fail
      <3>. QED
        BY <3>1 DEF SbOK
    <2>. QED
      BY <2>1, <2>2
  <1>5. CreatorAlone' /\ HashedOnce' /\ DentsOK'
    BY <1>inv, <1>th DEF CreatorAlone, HashedOnce, DentsOK, Creating, ThreadOK, Holding, Idle
  <1>6. ASSUME NEW o \in Objs PROVE ObjOK(o)'
    BY <1>inv, <1>th DEF ObjOK, Creating
  <1>7. \A o \in Objs : Holders(o)' = Holders(o)
    BY <1>th, VfsAssumption DEF Holders, Idle
  <1>. QED
    BY <1>inv, <1>1, <1>2, <1>3, <1>4, <1>5, <1>6, <1>7 DEF IInv, RefsExact

\* Under the hash lock another thread's inode is there: the allocated object is
\* destroyed and the other one referenced.
LEMMA InsertLosesStep ==
    ASSUME IInv, NEW t \in Threads, th[t].pc = "insert",
           NEW o \in Hashed(InoOf(th[t].job)),
           Found(t, o, DestroyInode(obj, th[t].obj)),
           UNCHANGED <<reg, sb, info, dent>>
    PROVE  IInv'
  <1>. DEFINE new == th[t].obj
  <1>inv. TypeOK /\ (\A u \in Threads : ThreadOK(u)) /\ JobsDistinct /\ CreatorAlone
          /\ (\A p \in Objs : ObjOK(p)) /\ HashedOnce /\ DentsOK /\ SbOK /\ RefsExact
    BY DEF IInv
  <1>th. /\ \A u \in Threads \ {t} : th'[u] = th[u]
         /\ th'[t].pc = IF obj[o].st = "new" THEN "wait" ELSE "have"
         /\ th'[t].job = th[t].job /\ th'[t].obj = o
    BY <1>inv DEF Found, Hold, TypeOK, ObjTable, Walks
  <1>new. /\ new \in Objs /\ obj[new].st = "raw"
          /\ \A u \in Threads \ {t} : th[u].obj # new
          /\ \A n \in Jobs : dent[n] # new
    BY <1>inv, VfsAssumption
    DEF ThreadOK, CreatorAlone, Creating, Holding, DentsOK, TypeOK, ObjTable, Walks
  <1>o. o \in Objs /\ obj[o].st \in {"new", "ok"} /\ obj[o].ino = InoOf(th[t].job) /\ o # new
    BY <1>new DEF Hashed
  <1>obj. /\ obj'[new] = Slab
          /\ \A p \in Objs \ {new} :
                /\ obj'[p].st = obj[p].st /\ obj'[p].ino = obj[p].ino
                /\ obj'[p].data = obj[p].data
                /\ obj'[p].cnt = IF p = o THEN obj[p].cnt + 1 ELSE obj[p].cnt
    BY <1>inv, <1>new, <1>o DEF Found, DestroyInode, TypeOK, ObjTable, Walks
  <1>1. TypeOK'
    <2>1. obj' \in ObjTable
      <3>1. DestroyInode(obj, new) \in ObjTable
        BY <1>inv, <1>new DEF DestroyInode, Slab, TypeOK, ObjTable, Walks, Inos
      <3>. QED
        BY <3>1, <1>o DEF Found, ObjTable
    <2>2. PICK pc \in Holding : Hold(t, pc, o)
      BY DEF Found, Holding
    <2>. QED
      BY <1>inv, <1>o, <2>1, <2>2, WalkTypes, Zenon DEF TypeOK
  <1>2. ASSUME NEW u \in Threads PROVE ThreadOK(u)'
    BY <1>inv, <1>th, <1>obj, <1>o, <1>new, VfsAssumption
    DEF ThreadOK, Holding, Idle, TypeOK, ObjTable, Walks
  <1>3. JobsDistinct' /\ SbOK'
    BY <1>inv, <1>th, <1>obj DEF JobsDistinct, SbOK, NoInodes
  <1>4. CreatorAlone'
    <2>1. \A u \in Threads : th[u].obj = o /\ u # t => th[u].pc \notin {"insert"}
      BY <1>inv, <1>o DEF ThreadOK
    <2>2. th'[t].pc \notin Creating /\ (obj[o].st = "new" => th'[t].pc = "wait")
      BY <1>th DEF Creating
    <2>3. \A u \in Threads \ {t} : th[u].pc \in Creating /\ th[u].obj = o => obj[o].st = "new"
      BY <2>1, <1>inv DEF ThreadOK, Creating
    <2>4. \A u \in Threads : u # t => th'[u] = th[u]
      BY <1>th, Zenon
    <2>. QED
      <3>1. SUFFICES ASSUME NEW a \in Threads, NEW b \in Threads, th'[a].pc \in Creating,
                            th'[b].obj = th'[a].obj, a # b
                     PROVE  th'[b].pc = "wait"
        BY Zenon DEF CreatorAlone
      <3>2. a # t /\ th'[a] = th[a]
        BY <3>1, <2>2, <2>4, Zenon
      <3>3. CASE b = t
        <4>1. th'[b].obj = o
          BY <3>3, <1>th, Zenon
        <4>. QED
          BY <4>1, <3>1, <3>2, <3>3, <2>2, <2>3
      <3>4. CASE b # t
        BY <3>1, <3>2, <3>4, <2>4, <1>inv, Zenon DEF CreatorAlone
      <3>. QED
        BY <3>3, <3>4, Zenon
  <1>5. ASSUME NEW p \in Objs PROVE ObjOK(p)'
    BY <1>inv, <1>th, <1>obj DEF ObjOK, Creating, Slab
  <1>6. HashedOnce' /\ DentsOK'
    BY <1>inv, <1>obj, <1>new, <1>1 DEF HashedOnce, DentsOK, TypeOK, ObjTable, Walks, Slab
  <1>7. ASSUME NEW p \in Objs PROVE obj'[p].cnt = Cardinality(Holders(p)')
    <2>1. CASE p = new
      <3>1. Holders(p)' = {}
        BY <2>1, <1>inv, <1>th, <1>new, <1>o DEF Holders, TypeOK, ObjTable, Walks
      <3>. QED
        BY <2>1, <3>1, <1>obj, FS_EmptySet DEF Slab
    <2>2. CASE p # new
      <3>1. /\ t \notin Holders(p)
            /\ Holders(p)' = IF p = o THEN Holders(p) \cup {t} ELSE Holders(p)
        BY <2>2, <1>inv, <1>th, HoldersType, VfsAssumption DEF Holders, TypeOK, ObjTable, Walks
      <3>. QED
        BY <2>2, <3>1, <1>inv, <1>obj, HoldersType, HolderSets DEF RefsExact
    <2>. QED
      BY <2>1, <2>2
  <1>. QED
    BY <1>1, <1>2, <1>3, <1>4, <1>5, <1>6, <1>7 DEF IInv, RefsExact

\* ... or it is hashed with I_NEW, the only one under its number.
LEMMA InsertWinsStep ==
    ASSUME IInv, NEW t \in Threads, th[t].pc = "insert", Hashed(InoOf(th[t].job)) = {},
           obj' = [obj EXCEPT ![th[t].obj].st = "new"], Goto(t, "new"),
           UNCHANGED <<reg, sb, info, dent>>
    PROVE  IInv'
  <1>. DEFINE o == th[t].obj
  <1>inv. TypeOK /\ (\A u \in Threads : ThreadOK(u)) /\ JobsDistinct /\ CreatorAlone
          /\ (\A p \in Objs : ObjOK(p)) /\ HashedOnce /\ DentsOK /\ SbOK /\ RefsExact
    BY DEF IInv
  <1>th. /\ \A u \in Threads \ {t} : th'[u] = th[u]
         /\ th'[t].pc = "new" /\ th'[t].job = th[t].job /\ th'[t].obj = o
         /\ UNCHANGED <<reg, sb, info, dent>>
    BY <1>inv DEF Goto, TypeOK, ObjTable, Walks
  <1>o. /\ o \in Objs /\ obj[o].st = "raw" /\ obj[o].ino = InoOf(th[t].job)
        /\ \A u \in Threads \ {t} : th[u].obj = o => th[u].pc = "wait"
        /\ \A n \in Jobs : dent[n] # o
    BY <1>inv, VfsAssumption
    DEF ThreadOK, CreatorAlone, Creating, Holding, DentsOK, TypeOK, ObjTable, Walks
  <1>obj. /\ \A p \in Objs \ {o} : obj'[p] = obj[p]
          /\ obj'[o].st = "new" /\ obj'[o].data = obj[o].data
          /\ obj'[o].ino = obj[o].ino /\ obj'[o].cnt = obj[o].cnt
    BY <1>inv, <1>o DEF ThreadOK, TypeOK, ObjTable, Walks
  <1>1. TypeOK'
    <2>1. obj' \in ObjTable
      BY <1>inv, <1>o DEF TypeOK, ObjTable
    <2>2. th' \in Walks
      BY <1>inv, WalkTypes, Zenon DEF Holding
    <2>. QED
      BY <1>inv, <2>1, <2>2, Zenon DEF TypeOK
  <1>2. ASSUME NEW u \in Threads PROVE ThreadOK(u)'
    BY <1>inv, <1>th, <1>obj, <1>o DEF ThreadOK, Holding, Idle
  <1>3. JobsDistinct' /\ SbOK'
    BY <1>inv, <1>th, <1>obj, <1>o DEF JobsDistinct, SbOK, NoInodes
  <1>4. CreatorAlone'
    BY <1>inv, <1>th, <1>o DEF CreatorAlone, Creating, ThreadOK, Holding
  <1>5. ASSUME NEW p \in Objs PROVE ObjOK(p)'
    BY <1>inv, <1>th, <1>obj DEF ObjOK, Creating
  <1>6. HashedOnce' /\ DentsOK'
    BY <1>inv, <1>th, <1>obj, <1>o, <1>1 DEF Hashed, HashedOnce, DentsOK, TypeOK, ObjTable, Walks
  <1>7. \A p \in Objs : Holders(p)' = Holders(p) /\ obj'[p].cnt = obj[p].cnt
    BY <1>th, <1>obj DEF Holders
  <1>. QED
    BY <1>inv, <1>1, <1>2, <1>3, <1>4, <1>5, <1>6, <1>7 DEF IInv, RefsExact

\* NewINode::init writes the data ...
LEMMA InitDataStep ==
    ASSUME IInv, NEW t \in Threads, InitData(t)
    PROVE  IInv'
  <1>. DEFINE o == th[t].obj
  <1>inv. TypeOK /\ (\A u \in Threads : ThreadOK(u)) /\ JobsDistinct /\ CreatorAlone
          /\ (\A p \in Objs : ObjOK(p)) /\ HashedOnce /\ DentsOK /\ SbOK /\ RefsExact
    BY DEF IInv
  <1>th. /\ \A u \in Threads \ {t} : th'[u] = th[u]
         /\ th'[t].pc = "filled" /\ th'[t].job = th[t].job /\ th'[t].obj = o
         /\ UNCHANGED <<reg, sb, info, dent>>
    BY <1>inv DEF InitData, Goto, TypeOK, ObjTable, Walks
  <1>o. /\ o \in Objs /\ obj[o].st = "new" /\ obj[o].ino = InoOf(th[t].job)
        /\ \A u \in Threads \ {t} : th[u].obj = o => th[u].pc = "wait"
        /\ \A n \in Jobs : dent[n] # o
    BY <1>inv, VfsAssumption
    DEF InitData, ThreadOK, CreatorAlone, Creating, Holding, DentsOK, TypeOK, ObjTable, Walks
  <1>obj. /\ \A p \in Objs \ {o} : obj'[p] = obj[p]
          /\ obj'[o].st = "new" /\ obj'[o].data
          /\ obj'[o].ino = obj[o].ino /\ obj'[o].cnt = obj[o].cnt
    BY <1>inv, <1>o DEF InitData, ThreadOK, TypeOK, ObjTable, Walks
  <1>1. TypeOK'
    <2>1. obj' \in ObjTable
      BY <1>inv, <1>o, Zenon DEF InitData, TypeOK, ObjTable
    <2>2. th' \in Walks
      BY <1>inv, WalkTypes, Zenon DEF InitData, Holding
    <2>. QED
      BY <1>inv, <2>1, <2>2, Zenon DEF InitData, TypeOK
  <1>2. ASSUME NEW u \in Threads PROVE ThreadOK(u)'
    BY <1>inv, <1>th, <1>obj, <1>o, VfsAssumption
    DEF InitData, ThreadOK, Holding, Idle, TypeOK, ObjTable, Walks
  <1>3. JobsDistinct' /\ SbOK'
    BY <1>inv, <1>th, <1>obj, <1>o DEF InitData, JobsDistinct, SbOK, NoInodes
  <1>4. CreatorAlone'
    BY <1>inv, <1>th, <1>o DEF InitData, CreatorAlone, Creating, ThreadOK, Holding
  <1>5. ASSUME NEW p \in Objs PROVE ObjOK(p)'
    BY <1>inv, <1>th, <1>obj DEF InitData, ObjOK, Creating
  <1>6. HashedOnce' /\ DentsOK'
    BY <1>inv, <1>th, <1>obj, <1>o, <1>1 DEF InitData, HashedOnce, DentsOK, TypeOK, ObjTable, Walks
  <1>7. \A p \in Objs : Holders(p)' = Holders(p) /\ obj'[p].cnt = obj[p].cnt
    BY <1>th, <1>obj DEF Holders
  <1>. QED
    BY <1>inv, <1>1, <1>2, <1>3, <1>4, <1>5, <1>6, <1>7 DEF IInv, RefsExact

\* ... and unlocks the inode, which others may then see.
LEMMA InitUnlockStep ==
    ASSUME IInv, NEW t \in Threads, InitUnlock(t)
    PROVE  IInv'
  <1>. DEFINE o == th[t].obj
  <1>inv. TypeOK /\ (\A u \in Threads : ThreadOK(u)) /\ JobsDistinct /\ CreatorAlone
          /\ (\A p \in Objs : ObjOK(p)) /\ HashedOnce /\ DentsOK /\ SbOK /\ RefsExact
    BY DEF IInv
  <1>th. /\ \A u \in Threads \ {t} : th'[u] = th[u]
         /\ th'[t].pc = "have" /\ th'[t].job = th[t].job /\ th'[t].obj = o
         /\ UNCHANGED <<reg, sb, info, dent>>
    BY <1>inv DEF InitUnlock, Goto, TypeOK, ObjTable, Walks
  <1>o. /\ o \in Objs /\ obj[o].st = "new" /\ obj[o].ino = InoOf(th[t].job)
        /\ \A u \in Threads \ {t} : th[u].obj = o => th[u].pc = "wait"
        /\ \A n \in Jobs : dent[n] # o
    BY <1>inv, VfsAssumption
    DEF InitUnlock, ThreadOK, CreatorAlone, Creating, Holding, DentsOK, TypeOK, ObjTable, Walks
  <1>obj. /\ \A p \in Objs \ {o} : obj'[p] = obj[p]
          /\ obj'[o].st = "ok" /\ obj'[o].data
          /\ obj'[o].ino = obj[o].ino /\ obj'[o].cnt = obj[o].cnt
    BY <1>inv, <1>o DEF InitUnlock, ThreadOK, TypeOK, ObjTable, Walks
  <1>1. TypeOK'
    <2>1. obj' \in ObjTable
      BY <1>inv, <1>o DEF InitUnlock, TypeOK, ObjTable
    <2>2. th' \in Walks
      BY <1>inv, WalkTypes, Zenon DEF InitUnlock, Holding
    <2>. QED
      BY <1>inv, <2>1, <2>2, Zenon DEF InitUnlock, TypeOK
  <1>2. ASSUME NEW u \in Threads PROVE ThreadOK(u)'
    BY <1>inv, <1>th, <1>obj, <1>o, VfsAssumption
    DEF InitUnlock, ThreadOK, Holding, Idle, TypeOK, ObjTable, Walks
  <1>3. JobsDistinct' /\ SbOK'
    BY <1>inv, <1>th, <1>obj, <1>o DEF InitUnlock, JobsDistinct, SbOK, NoInodes
  <1>4. CreatorAlone'
    BY <1>inv, <1>th, <1>o DEF InitUnlock, CreatorAlone, Creating, ThreadOK, Holding
  <1>5. ASSUME NEW p \in Objs PROVE ObjOK(p)'
    BY <1>inv, <1>th, <1>obj DEF InitUnlock, ObjOK, Creating
  <1>6. HashedOnce' /\ DentsOK'
    BY <1>inv, <1>th, <1>obj, <1>o, <1>1
    DEF InitUnlock, HashedOnce, DentsOK, TypeOK, ObjTable, Walks
  <1>7. \A p \in Objs : Holders(p)' = Holders(p) /\ obj'[p].cnt = obj[p].cnt
    BY <1>th, <1>obj DEF Holders
  <1>. QED
    BY <1>inv, <1>1, <1>2, <1>3, <1>4, <1>5, <1>6, <1>7 DEF IInv, RefsExact

\* d_splice_alias or d_make_root takes the thread's reference into a dentry.
LEMMA AttachStep ==
    ASSUME IInv, NEW t \in Threads, th[t].pc = "have",
           dent' = [dent EXCEPT ![th[t].job] = th[t].obj], Return(t),
           sb' = IF th[t].job = Root THEN "active" ELSE sb,
           UNCHANGED <<reg, info, obj>>
    PROVE  IInv'
  <1>. DEFINE o == th[t].obj
              n == th[t].job
  <1>inv. TypeOK /\ (\A u \in Threads : ThreadOK(u)) /\ JobsDistinct /\ CreatorAlone
          /\ (\A p \in Objs : ObjOK(p)) /\ HashedOnce /\ DentsOK /\ SbOK /\ RefsExact
    BY DEF IInv
  <1>th. /\ \A u \in Threads \ {t} : th'[u] = th[u]
         /\ th'[t] = Idle
    BY <1>inv DEF Return, TypeOK, ObjTable, Walks
  <1>o. /\ o \in Objs /\ obj[o].st = "ok" /\ n \in Jobs /\ dent[n] = None
        /\ dent' \in [Jobs -> Objs \cup {None}]
        /\ dent'[n] = o
        /\ \A m \in Jobs \ {n} : dent'[m] = dent[m]
    BY <1>inv, VfsAssumption DEF ThreadOK, JobsDistinct, Holding, TypeOK, ObjTable, Walks
  <1>1. TypeOK'
    <2>1. th' \in Walks
      BY <1>inv, WalkTypes, Zenon
    <2>. QED
      BY <1>inv, <1>o, <2>1 DEF TypeOK
  <1>2. ASSUME NEW u \in Threads PROVE ThreadOK(u)'
    BY <1>inv, <1>th DEF ThreadOK, Holding, Idle
  <1>3. JobsDistinct'
    BY <1>inv, <1>th, <1>o DEF JobsDistinct, Idle, TypeOK, ObjTable, Walks
  <1>4. SbOK'
    <2>1. CASE th[t].job = Root
      <3>1. info' = "live" /\ sb' = "active" /\ \A u \in Threads : th'[u].pc = "idle"
        BY <2>1, JobReturns, Zenon
      <3>. QED
        BY <3>1 DEF SbOK
    <2>2. CASE th[t].job # Root
      <3>1. /\ info' = "live" /\ sb' = "active"
            /\ \A u \in Threads : th'[u].pc # "fill" /\ (th'[u].pc # "idle" => th'[u].job # Root)
        BY <2>2, JobReturns
      <3>. QED
        BY <3>1 DEF SbOK
    <2>. QED
      BY <2>1, <2>2
  <1>5. CreatorAlone'
    BY <1>inv, <1>th DEF CreatorAlone, Creating, ThreadOK, Holding, Idle
  <1>6. HashedOnce' /\ DentsOK'
    BY <1>inv, <1>o DEF HashedOnce, DentsOK
  <1>7. ASSUME NEW p \in Objs PROVE ObjOK(p)'
    BY <1>inv, <1>th DEF ObjOK, Creating
  <1>8. ASSUME NEW p \in Objs PROVE obj[p].cnt = Cardinality(Holders(p)')
    <2>1. CASE p = o
      <3>1. /\ t \in Holders(p) /\ n \notin Holders(p) \ {t}
            /\ Holders(p)' = (Holders(p) \ {t}) \cup {n}
        BY <2>1, <1>inv, <1>th, <1>o, <1>1, HoldersType, VfsAssumption
        DEF Holders, TypeOK, ObjTable, Walks, Idle, Jobs
      <3>2. Cardinality(Holders(p) \ {t}) = Cardinality(Holders(p)) - 1
        BY <3>1, <1>inv, HoldersType, HolderSets
      <3>3. Cardinality((Holders(p) \ {t}) \cup {n}) = Cardinality(Holders(p) \ {t}) + 1
        BY <3>1, <1>inv, HoldersType, HolderSets, Zenon
      <3>. QED
        BY <3>1, <3>2, <3>3, <1>inv, HoldersType, HolderSets DEF RefsExact
    <2>2. CASE p # o
      <3>1. {u \in Threads : th'[u].obj = p} = {u \in Threads : th[u].obj = p}
        BY <2>2, <1>th, VfsAssumption DEF Idle
      <3>2. {m \in DOMAIN dent' : dent'[m] = p} = {m \in DOMAIN dent : dent[m] = p}
        BY <2>2, <1>inv, <1>o, VfsAssumption DEF TypeOK, ObjTable, Walks
      <3>3. Holders(p)' = Holders(p)
        BY <3>1, <3>2 DEF Holders
      <3>. QED
        BY <3>3, <1>inv DEF RefsExact
    <2>. QED
      BY <2>1, <2>2
  <1>. QED
    BY <1>1, <1>2, <1>3, <1>4, <1>5, <1>6, <1>7, <1>8 DEF IInv, RefsExact

\* d_splice_alias or d_make_root fails and puts the thread's reference.
LEMMA PutStep ==
    ASSUME IInv, NEW t \in Threads, th[t].pc = "have",
           obj' = Iput(obj, th[t].obj), Fail(t), UNCHANGED <<reg, info, dent>>
    PROVE  IInv'
  <1>. DEFINE o == th[t].obj
  <1>inv. TypeOK /\ (\A u \in Threads : ThreadOK(u)) /\ JobsDistinct /\ CreatorAlone
          /\ (\A p \in Objs : ObjOK(p)) /\ HashedOnce /\ DentsOK /\ SbOK /\ RefsExact
    BY DEF IInv
  <1>th. /\ \A u \in Threads \ {t} : th'[u] = th[u]
         /\ th'[t] = Idle
    BY <1>inv DEF Fail, Return, TypeOK, ObjTable, Walks
  <1>o. o \in Objs /\ obj[o].st = "ok" /\ t \in Holders(o)
    BY <1>inv, VfsAssumption DEF ThreadOK, Holding, TypeOK, ObjTable, Walks, Holders
  <1>cnt. obj[o].cnt \in Nat \ {0}
    BY <1>inv, <1>o, HoldersType, HolderSets DEF RefsExact
  <1>obj. /\ obj' = [obj EXCEPT ![o].cnt = @ - 1]
          /\ \A p \in Objs : /\ obj'[p].st = obj[p].st /\ obj'[p].ino = obj[p].ino
                             /\ obj'[p].data = obj[p].data
                             /\ obj'[p].cnt = IF p = o THEN obj[p].cnt - 1 ELSE obj[p].cnt
    BY <1>inv, <1>o DEF Iput, TypeOK, ObjTable, Walks
  <1>1. TypeOK'
    <2>1. obj' \in ObjTable
      <3>1. obj[o].cnt - 1 \in Nat
        BY <1>cnt
      <3>. QED
        BY <1>inv, <1>o, <1>obj, <3>1 DEF TypeOK, ObjTable, Walks
    <2>. QED
      BY <1>inv, <2>1, WalkTypes DEF Fail, TypeOK
  <1>2. ASSUME NEW u \in Threads PROVE ThreadOK(u)'
    BY <1>inv, <1>th, <1>obj DEF ThreadOK, Holding, Idle, TypeOK, ObjTable, Walks
  <1>3. JobsDistinct'
    BY <1>inv, <1>th DEF JobsDistinct, Idle
  <1>4. SbOK'
    <2>1. CASE th[t].job = Root
      <3>1. info' = "live" /\ sb' = "dying" /\ \A u \in Threads : th'[u].pc = "idle"
        BY <2>1, JobReturns, Zenon DEF Fail
      <3>. QED
        BY <3>1 DEF SbOK
    <2>2. CASE th[t].job # Root
      <3>1. /\ info' = "live" /\ sb' = "active"
            /\ \A u \in Threads : th'[u].pc # "fill" /\ (th'[u].pc # "idle" => th'[u].job # Root)
        BY <2>2, JobReturns DEF Fail
      <3>. QED
        BY <3>1 DEF SbOK
    <2>. QED
      BY <2>1, <2>2
  <1>5. CreatorAlone' /\ HashedOnce' /\ DentsOK'
    BY <1>inv, <1>th, <1>obj
    DEF CreatorAlone, HashedOnce, DentsOK, Creating, ThreadOK, Holding, Idle,
        TypeOK, ObjTable, Walks
  <1>6. ASSUME NEW p \in Objs PROVE ObjOK(p)'
    BY <1>inv, <1>th, <1>obj DEF ObjOK, Creating
  <1>7. ASSUME NEW p \in Objs PROVE obj'[p].cnt = Cardinality(Holders(p)')
    <2>1. Holders(p)' = IF p = o THEN Holders(p) \ {t} ELSE Holders(p)
      BY <1>inv, <1>th, <1>o, VfsAssumption DEF Holders, TypeOK, ObjTable, Walks, Idle, Jobs
    <2>. QED
      BY <2>1, <1>inv, <1>o, <1>obj, HoldersType, HolderSets DEF RefsExact
  <1>. QED
    BY <1>1, <1>2, <1>3, <1>4, <1>5, <1>6, <1>7 DEF IInv, RefsExact

\* A dentry goes, pruned or killed, and puts its inode.
LEMMA DentryGoesStep ==
    ASSUME IInv, NEW n \in Jobs, dent[n] # None, sb \in {"active", "dying"},
           obj' = Iput(obj, dent[n]), dent' = [dent EXCEPT ![n] = None],
           UNCHANGED <<reg, sb, info, th>>
    PROVE  IInv'
  <1>. DEFINE o == dent[n]
  <1>inv. TypeOK /\ (\A u \in Threads : ThreadOK(u)) /\ JobsDistinct /\ CreatorAlone
          /\ (\A p \in Objs : ObjOK(p)) /\ HashedOnce /\ DentsOK /\ SbOK /\ RefsExact
    BY DEF IInv
  <1>o. o \in Objs /\ obj[o].st = "ok" /\ n \in Holders(o)
    BY <1>inv DEF DentsOK, TypeOK, ObjTable, Walks, Holders
  <1>cnt. obj[o].cnt \in Nat \ {0}
    BY <1>inv, <1>o, HoldersType, HolderSets DEF RefsExact
  <1>dent. /\ dent' \in [Jobs -> Objs \cup {None}]
           /\ dent'[n] = None
           /\ \A m \in Jobs \ {n} : dent'[m] = dent[m]
    BY <1>inv DEF TypeOK, ObjTable, Walks
  <1>obj. /\ obj' = [obj EXCEPT ![o].cnt = @ - 1]
          /\ \A p \in Objs : /\ obj'[p].st = obj[p].st /\ obj'[p].ino = obj[p].ino
                             /\ obj'[p].data = obj[p].data
                             /\ obj'[p].cnt = IF p = o THEN obj[p].cnt - 1 ELSE obj[p].cnt
    BY <1>inv, <1>o DEF Iput, TypeOK, ObjTable, Walks
  <1>1. TypeOK'
    <2>1. obj[o].cnt - 1 \in Nat
      BY <1>cnt
    <2>2. obj' \in ObjTable
      BY <1>inv, <1>o, <1>obj, <2>1 DEF TypeOK, ObjTable, Walks
    <2>. QED
      BY <1>inv, <1>dent, <2>2 DEF TypeOK, ObjTable, Walks
  <1>2. ASSUME NEW u \in Threads PROVE ThreadOK(u)'
    BY <1>inv, <1>obj DEF ThreadOK, Holding, Idle, TypeOK, ObjTable, Walks
  <1>3. JobsDistinct' /\ CreatorAlone'
    BY <1>inv, <1>dent DEF JobsDistinct, CreatorAlone, TypeOK, ObjTable, Walks
  <1>4. SbOK'
    BY <1>inv, <1>obj, <1>dent DEF SbOK, NoInodes
  <1>5. HashedOnce' /\ DentsOK'
    BY <1>inv, <1>obj, <1>dent DEF HashedOnce, DentsOK, TypeOK, ObjTable, Walks
  <1>6. ASSUME NEW p \in Objs PROVE ObjOK(p)'
    BY <1>inv, <1>obj DEF ObjOK, Creating
  <1>7. ASSUME NEW p \in Objs PROVE obj'[p].cnt = Cardinality(Holders(p)')
    <2>1. Holders(p)' = IF p = o THEN Holders(p) \ {n} ELSE Holders(p)
      BY <1>inv, <1>dent, <1>o, VfsAssumption DEF Holders, TypeOK, ObjTable, Walks, Jobs
    <2>. QED
      BY <2>1, <1>inv, <1>o, <1>obj, HoldersType, HolderSets DEF RefsExact
  <1>. QED
    BY <1>1, <1>2, <1>3, <1>4, <1>5, <1>6, <1>7 DEF IInv, RefsExact

\* An inode nobody refers to is evicted and destroyed.
LEMMA EvictStep ==
    ASSUME IInv, NEW o \in Objs, Evict(o)
    PROVE  IInv'
  <1>inv. TypeOK /\ (\A u \in Threads : ThreadOK(u)) /\ JobsDistinct /\ CreatorAlone
          /\ (\A p \in Objs : ObjOK(p)) /\ HashedOnce /\ DentsOK /\ SbOK /\ RefsExact
    BY DEF IInv
  <1>o. Holders(o) = {}
    BY <1>inv, HoldersType, HolderSets DEF Evict, RefsExact
  <1>free. /\ \A u \in Threads : th[u].obj # o
           /\ \A n \in Jobs : dent[n] # o
    BY <1>inv, <1>o DEF Holders, TypeOK, ObjTable, Walks
  <1>obj. /\ \A p \in Objs \ {o} : obj'[p] = obj[p]
          /\ obj'[o] = Slab
          /\ UNCHANGED <<reg, sb, info, dent, th>>
    BY <1>inv DEF Evict, DestroyInode, TypeOK, ObjTable, Walks
  <1>1. TypeOK'
    <2>1. obj' \in ObjTable
      BY <1>inv DEF Evict, DestroyInode, TypeOK, ObjTable, Slab, Inos
    <2>. QED
      BY <1>inv, <1>obj, <2>1, Zenon DEF TypeOK
  <1>2. ASSUME NEW u \in Threads PROVE ThreadOK(u)'
    BY <1>inv, <1>obj, <1>free DEF ThreadOK, Holding, Idle, TypeOK, ObjTable, Walks
  <1>3. JobsDistinct' /\ CreatorAlone'
    BY <1>inv, <1>obj DEF JobsDistinct, CreatorAlone
  <1>4. SbOK'
    <2>1. \A p \in Objs : obj[p].st = "slab" => obj'[p].st = "slab"
      BY <1>obj DEF Slab
    <2>. QED
      BY <2>1, <1>inv, <1>obj DEF SbOK, NoInodes
  <1>5. HashedOnce' /\ DentsOK'
    BY <1>inv, <1>obj, <1>free DEF HashedOnce, DentsOK, TypeOK, ObjTable, Walks, Slab
  <1>6. ASSUME NEW p \in Objs PROVE ObjOK(p)'
    BY <1>inv, <1>obj DEF ObjOK, Creating, Slab
  <1>7. \A p \in Objs : Holders(p)' = Holders(p)
    BY <1>obj DEF Holders
  <1>8. RefsExact'
    BY <1>inv, <1>obj, <1>o, <1>7, FS_EmptySet DEF RefsExact, Slab
  <1>. QED
    BY <1>1, <1>2, <1>3, <1>4, <1>5, <1>6, <1>8 DEF IInv

\* Registering, and entering and leaving kill_sb: no inode changes.
LEMMA WholeFsSteps ==
    ASSUME IInv, NewFor \/ PinInit \/ DropRegistration \/ Unmount \/ ReclaimData
    PROVE  IInv'
  <1>inv. TypeOK /\ (\A u \in Threads : ThreadOK(u)) /\ JobsDistinct /\ CreatorAlone
          /\ (\A p \in Objs : ObjOK(p)) /\ HashedOnce /\ DentsOK /\ SbOK /\ RefsExact
    BY DEF IInv
  <1>same. UNCHANGED <<dent, obj, th>>
    BY DEF NewFor, PinInit, DropRegistration, Unmount, ReclaimData
  <1>1. TypeOK'
    BY <1>inv DEF NewFor, PinInit, DropRegistration, Unmount, ReclaimData, TypeOK, ObjTable, Walks
  <1>2. ASSUME NEW u \in Threads PROVE ThreadOK(u)'
    BY <1>inv, <1>same DEF ThreadOK
  <1>3. JobsDistinct' /\ CreatorAlone' /\ HashedOnce' /\ DentsOK'
    BY <1>inv, <1>same DEF JobsDistinct, CreatorAlone, HashedOnce, DentsOK
  <1>4. ASSUME NEW p \in Objs PROVE ObjOK(p)'
    BY <1>inv, <1>same DEF ObjOK
  <1>5. RefsExact'
    BY <1>inv, <1>same DEF RefsExact, Holders
  <1>6. SbOK'
    <2>1. CASE NewFor \/ PinInit \/ DropRegistration
      BY <2>1, <1>inv DEF NewFor, PinInit, DropRegistration, SbOK, NoInodes
    <2>2. CASE Unmount
      BY <2>2, <1>inv DEF Unmount, SbOK, NoInodes, Idle
    <2>3. CASE ReclaimData
      <3>1. \A n \in Jobs : dent[n] = None
        BY <2>3, <1>inv DEF ReclaimData, KillSuperDone, TypeOK, ObjTable, Walks
      <3>2. \A t \in Threads : th[t].pc = "idle" /\ th[t].obj = None
        BY <2>3, <1>inv DEF ReclaimData, SbOK, ThreadOK, Idle
      <3>3. ASSUME NEW o \in Objs PROVE obj[o].st = "slab"
        <4>1. Holders(o) = {}
          BY <3>1, <3>2, <1>inv, VfsAssumption DEF Holders, TypeOK, ObjTable, Walks
        <4>2. obj[o].cnt = 0
          BY <4>1, <1>inv, FS_EmptySet DEF RefsExact
        <4>3. obj[o].st # "ok"
          BY <4>2, <2>3 DEF ReclaimData, KillSuperDone, Evictable
        <4>4. obj[o].st \notin {"raw", "new"}
          BY <3>2, <1>inv DEF ObjOK, Creating
        <4>. QED
          BY <4>3, <4>4, <1>inv DEF TypeOK, ObjTable, Walks
      <3>. QED
        BY <2>3, <3>1, <3>2, <3>3, <1>same DEF ReclaimData, SbOK, NoInodes
    <2>. QED
      BY <2>1, <2>2, <2>3
  <1>. QED
    BY <1>1, <1>2, <1>3, <1>4, <1>5, <1>6 DEF IInv

\* Every step, and every stuttering step, preserves the inductive invariant.
LEMMA NextIInv == IInv /\ [Next]_vars => IInv'
  <1>. SUFFICES ASSUME IInv, [Next]_vars PROVE IInv'
    OBVIOUS
  <1>1. ASSUME NEW t \in Threads, IgetFind(t) PROVE IInv'
    BY <1>1, FindStep, MissStep DEF IgetFind
  <1>2. ASSUME NEW t \in Threads, AllocInode(t) PROVE IInv'
    BY <1>2, AllocStep, AllocFailsStep DEF AllocInode
  <1>3. ASSUME NEW t \in Threads, IgetInsert(t) PROVE IInv'
    BY <1>3, InsertLosesStep, InsertWinsStep DEF IgetInsert
  <1>4. ASSUME NEW t \in Threads, SpliceAlias(t) PROVE IInv'
    BY <1>4, AttachStep, PutStep DEF SpliceAlias, Fail
  <1>5. ASSUME NEW t \in Threads, RootTryNew(t) PROVE IInv'
    BY <1>5, AttachStep, PutStep DEF RootTryNew
  <1>6. ASSUME NEW t \in Threads, Step(t) PROVE IInv'
    BY <1>6, <1>1, <1>2, <1>3, <1>4, <1>5, MountSteps, WakeStep, InitDataStep, InitUnlockStep
    DEF Step
  <1>7. ASSUME NEW n \in Names, PruneDentry(n) PROVE IInv'
    BY <1>7, DentryGoesStep, Zenon DEF PruneDentry, Jobs
  <1>8. CASE KillDentries
    <2>1. DOMAIN dent = Jobs
      BY DEF IInv, TypeOK, ObjTable, Walks
    <2>. QED
      BY <1>8, <2>1, DentryGoesStep, Zenon DEF KillDentries
  <1>9. CASE UNCHANGED vars
    <2>1. /\ TypeOK' /\ JobsDistinct' /\ CreatorAlone' /\ HashedOnce' /\ DentsOK' /\ SbOK'
      BY <1>9
      DEF vars, IInv, TypeOK, ObjTable, Walks, JobsDistinct, CreatorAlone, HashedOnce,
          DentsOK, SbOK, NoInodes
    <2>2. (\A t \in Threads : ThreadOK(t)') /\ (\A o \in Objs : ObjOK(o)') /\ RefsExact'
      BY <1>9 DEF vars, IInv, ThreadOK, ObjOK, RefsExact, Holders
    <2>. QED
      BY <2>1, <2>2 DEF IInv
  <1>. QED
    BY <1>6, <1>7, <1>8, <1>9, MountSteps, LookupStep, EvictStep, WholeFsSteps DEF Next

\* The invariant of the file system holds in every reachable state.
LEMMA InductiveInvariant == Spec => []IInv
  BY InitIInv, NextIInv, PTL DEF Spec

-----------------------------------------------------------------------------
\* The count that iget, splice_alias, Root::try_new and their failures keep is
\* the number of ARefs, NewINodes and dentries that refer to the inode.
THEOREM RefsAlwaysExact == Spec => []RefsExact
  <1>1. IInv => RefsExact
    BY DEF IInv
  <1>. QED
    BY <1>1, InductiveInvariant, PTL

\* No lookup and no dentry has an inode that NewINode::init is still filling, and
\* the inode hash never has two inodes of one number.
THEOREM OnlyInitialisedVisible == Spec => []VisibleIsInitialised
  <1>1. IInv => VisibleIsInitialised
    <2>. SUFFICES ASSUME IInv, NEW o \in Objs,
                         \/ \E t \in Threads : th[t].obj = o /\ th[t].pc = "have"
                         \/ \E n \in DOMAIN dent : dent[n] = o
                  PROVE  obj[o].st = "ok" /\ obj[o].data /\ Hashed(obj[o].ino) = {o}
      BY DEF VisibleIsInitialised
    <2>1. obj[o].st = "ok"
      BY VfsAssumption DEF IInv, ThreadOK, DentsOK, TypeOK, ObjTable, Walks
    <2>2. obj[o].data
      BY <2>1 DEF IInv, ObjOK
    <2>3. Hashed(obj[o].ino) = {o}
      BY <2>1 DEF IInv, HashedOnce, Hashed
    <2>. QED
      BY <2>1, <2>2, <2>3
  <1>. QED
    BY <1>1, InductiveInvariant, PTL

\* s_fs_info is live for as long as an inode with data or a callback past
\* fill_super exists, and kill_sb leaves neither it nor an inode behind, so the
\* slab cache is empty when the Registration destroys it.
THEOREM SuperblockDataScoped == Spec => []SbDataScoped
  <1>1. IInv => SbDataScoped
    BY DEF IInv, SbDataScoped, SbOK, NoInodes, ObjOK, TypeOK, ObjTable, Walks
  <1>. QED
    BY <1>1, InductiveInvariant, PTL
=============================================================================
