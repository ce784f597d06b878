-------------------------------- MODULE Vfs --------------------------------
(***************************************************************************)
(* The life cycle of a file system written on rko-core/src/fs: its         *)
(* registration and slab cache, the mount (fill_super, init_root), the     *)
(* in-core inodes that concurrent lookups get, initialise and attach to    *)
(* dentries, and the unmount (kill_sb).                                    *)
(*                                                                         *)
(* The kernel side is external and modelled as the callbacks meet it: the  *)
(* inode hash of iget_locked with its wait for I_NEW and its race between  *)
(* two allocations of one inode, the dentry cache (one lookup at a time    *)
(* per name), the inode cache that keeps an unreferenced inode until it is *)
(* evicted, and a superblock killed after a failed fill_super.  A file     *)
(* system callback runs only while the superblock is mounted.  The file    *)
(* system has per-inode data (as the three samples do), so inodes come     *)
(* from its slab cache.                                                    *)
(***************************************************************************)
EXTENDS Integers, FiniteSets

CONSTANTS Threads,      \* kernel threads that mount and look names up
          Names,        \* names in the root directory
          Ino,          \* the inode number each name links to
          RootIno,      \* the root directory's inode number
          Objs,         \* slots of the inode slab cache
          None

Root == "/"

ASSUME VfsAssumption ==
    /\ IsFiniteSet(Threads) /\ IsFiniteSet(Names)
    /\ Threads \cap (Names \cup {Root}) = {}
    /\ None \notin Objs
    /\ Root \notin Names
    /\ RootIno \notin {Ino[n] : n \in Names}

VARIABLES reg,          \* the Registration: "none", "made" (slab cache), "registered"
          sb,           \* the superblock: "none", "new", "ready", "active", "dying"
          info,         \* s_fs_info: "null" or "live"
          dent,         \* the inode each positive dentry refers to
          obj,          \* the inode objects
          th            \* what each thread is doing

vars == <<reg, sb, info, dent, obj, th>>

InoOf(job) == IF job = Root THEN RootIno ELSE Ino[job]

\* An object in the slab cache.  st: "slab" (free), "raw" (allocated, not yet
\* hashed), "new" (hashed with I_NEW), "ok" (hashed), "bad" (failed, unhashed).
Slab == [st |-> "slab", ino |-> 0, cnt |-> 0, data |-> FALSE]
Idle == [pc |-> "idle", job |-> Root, obj |-> None]

Init ==
    /\ reg = "none"
    /\ sb = "none"
    /\ info = "null"
    /\ dent = [n \in Names \cup {Root} |-> None]
    /\ obj = [o \in Objs |-> Slab]
    /\ th = [t \in Threads |-> Idle]

Goto(t, pc) == th' = [th EXCEPT ![t].pc = pc]
Hold(t, pc, o) == th' = [th EXCEPT ![t].pc = pc, ![t].obj = o]
Return(t) == th' = [th EXCEPT ![t] = Idle]

Hashed(ino) == {o \in Objs : obj[o].st \in {"new", "ok"} /\ obj[o].ino = ino}

-----------------------------------------------------------------------------
\* Registration::new_for: the slab cache exists; on failure nothing does.
NewFor ==
    /\ reg = "none"
    /\ reg' = "made"
    /\ UNCHANGED <<sb, info, dent, obj, th>>

\* pin_init: register_filesystem accepts the type, or the Registration is
\* dropped in place and the cache with it.
PinInit ==
    /\ reg = "made"
    /\ reg' \in {"registered", "none"}
    /\ UNCHANGED <<sb, info, dent, obj, th>>

\* Drop for Registration, then for MemCache, at module exit.
DropRegistration ==
    /\ reg = "registered"
    /\ sb = "none"
    /\ reg' = "none"
    /\ UNCHANGED <<sb, info, dent, obj, th>>

\* init_fs_context_trampoline and get_tree_callback: a new superblock.
GetTree(t) ==
    /\ reg = "registered"
    /\ sb = "none"
    /\ th[t] = Idle
    /\ sb' = "new"
    /\ Goto(t, "fill")
    /\ UNCHANGED <<reg, info, dent, obj>>

\* fill_super_callback up to init_root: T::fill_super returns the data, which
\* into_foreign stores, or an error, upon which the kernel kills the superblock.
FillSuper(t) ==
    /\ th[t].pc = "fill"
    /\ \/ /\ info' = "live"
          /\ sb' = "ready"
          /\ Goto(t, "find")
       \/ /\ sb' = "dying"
          /\ Return(t)
          /\ UNCHANGED info
    /\ UNCHANGED <<reg, dent, obj>>

\* lookup_trampoline: T::lookup of a name that links to an inode.
Lookup(t, n) ==
    /\ sb = "active"
    /\ th[t] = Idle
    /\ dent[n] = None
    /\ \A u \in Threads : th[u].pc # "idle" => th[u].job # n
    /\ th' = [th EXCEPT ![t] = [pc |-> "find", job |-> n, obj |-> None]]
    /\ UNCHANGED <<reg, sb, info, dent, obj>>

-----------------------------------------------------------------------------
\* SuperBlock::iget, that is iget_locked and the test of I_NEW.  An error ends
\* the lookup, or the mount.
Fail(t) ==
    /\ Return(t)
    /\ sb' = IF th[t].job = Root THEN "dying" ELSE sb

\* A hashed inode is returned with a reference, after waiting for I_NEW.
Found(t, o, objs) ==
    /\ obj' = [objs EXCEPT ![o].cnt = @ + 1]
    /\ Hold(t, IF obj[o].st = "new" THEN "wait" ELSE "have", o)

\* The first search of the inode hash.
IgetFind(t) ==
    /\ th[t].pc = "find"
    /\ \/ \E o \in Hashed(InoOf(th[t].job)) : Found(t, o, obj)
       \/ /\ Hashed(InoOf(th[t].job)) = {}
          /\ Goto(t, "alloc")
          /\ UNCHANGED obj
    /\ UNCHANGED <<reg, sb, info, dent>>

\* alloc_inode_callback takes an object from the cache, or returns null, which
\* iget reports as ENOMEM.
AllocInode(t) ==
    /\ th[t].pc = "alloc"
    /\ \/ \E o \in Objs :
            /\ obj[o].st = "slab"
            /\ obj' = [obj EXCEPT ![o] = [st |-> "raw", ino |-> InoOf(th[t].job),
                                          cnt |-> 1, data |-> FALSE]]
            /\ Hold(t, "insert", o)
            /\ UNCHANGED sb
       \/ /\ Fail(t)
          /\ UNCHANGED obj
    /\ UNCHANGED <<reg, info, dent>>

\* destroy_inode_callback: drops the per-inode data unless the inode is bad, and
\* gives the object back to the cache.
DestroyInode(objs, o) == [objs EXCEPT ![o] = Slab]

\* The second search, under the hash lock: the new object is hashed with I_NEW,
\* or destroyed because another thread's is there.
IgetInsert(t) ==
    LET new == th[t].obj
        others == Hashed(InoOf(th[t].job))
    IN  /\ th[t].pc = "insert"
        /\ \/ \E o \in others : Found(t, o, DestroyInode(obj, new))
           \/ /\ others = {}
              /\ obj' = [obj EXCEPT ![new].st = "new"]
              /\ Goto(t, "new")
        /\ UNCHANGED <<reg, sb, info, dent>>

\* iput.  An inode that is not hashed goes with its last reference; a hashed
\* one stays cached until it is evicted.
Iput(objs, o) ==
    IF objs[o].cnt = 1 /\ objs[o].st = "bad"
    THEN DestroyInode(objs, o)
    ELSE [objs EXCEPT ![o].cnt = @ - 1]

\* The wait for I_NEW is over.
IgetWake(t) ==
    /\ th[t].pc = "wait"
    /\ obj[th[t].obj].st = "ok"
    /\ Goto(t, "have")
    /\ UNCHANGED <<reg, sb, info, dent, obj>>

\* The inode failed meanwhile: it is put and the search starts again.
IgetRetry(t) ==
    /\ th[t].pc = "wait"
    /\ obj[th[t].obj].st \in {"bad", "slab"}
    /\ obj' = Iput(obj, th[t].obj)
    /\ Hold(t, "find", None)
    /\ UNCHANGED <<reg, sb, info, dent>>

\* Mutant of InitData: the inode is unlocked before its data is written.
InitUnlocksFirst(t) ==
    /\ th[t].pc = "new"
    /\ obj' = [obj EXCEPT ![th[t].obj].st = "ok"]
    /\ Goto(t, "filled")
    /\ UNCHANGED <<reg, sb, info, dent>>

\* NewINode::init writes the data and the metadata ...
InitData(t) ==
    /\ th[t].pc = "new"
    /\ obj' = [obj EXCEPT ![th[t].obj].data = TRUE]
    /\ Goto(t, "filled")
    /\ UNCHANGED <<reg, sb, info, dent>>

\* Mutant of InitUnlock: unlock_new_inode is forgotten.
InitStaysLocked(t) ==
    /\ th[t].pc = "filled"
    /\ Goto(t, "have")
    /\ UNCHANGED <<reg, sb, info, dent, obj>>

\* ... and then calls unlock_new_inode; the NewINode's reference is returned.
InitUnlock(t) ==
    /\ th[t].pc = "filled"
    /\ obj' = [obj EXCEPT ![th[t].obj].st = "ok"]
    /\ Goto(t, "have")
    /\ UNCHANGED <<reg, sb, info, dent>>

\* Loading the inode failed after iget: Drop for NewINode calls iget_failed,
\* which marks the inode bad, unhashes and unlocks it and puts a reference ...
DropNewINode(t) ==
    /\ th[t].pc = "new"
    /\ obj' = Iput([obj EXCEPT ![th[t].obj].st = "bad"], th[t].obj)
    /\ Goto(t, "dropping")
    /\ UNCHANGED <<reg, sb, info, dent>>

\* ... and the drop of its field inner, an ARef, puts a reference.
DropInner(t) ==
    /\ th[t].pc = "dropping"
    /\ obj' = Iput(obj, th[t].obj)
    /\ Fail(t)
    /\ UNCHANGED <<reg, info, dent>>

-----------------------------------------------------------------------------
\* Mutant of SpliceAlias: the ARef is dropped although d_splice_alias took it.
SpliceDropsToo(t) ==
    /\ th[t].pc = "have" /\ th[t].job # Root
    /\ obj' = Iput(obj, th[t].obj)
    /\ dent' = [dent EXCEPT ![th[t].job] = th[t].obj]
    /\ Return(t)
    /\ UNCHANGED <<reg, sb, info>>

\* Unhashed::splice_alias: into_raw gives the reference to d_splice_alias, which
\* attaches the dentry, or fails (or finds an alias) and puts the inode.
SpliceAlias(t) ==
    /\ th[t].pc = "have" /\ th[t].job # Root
    /\ \/ /\ dent' = [dent EXCEPT ![th[t].job] = th[t].obj]
          /\ UNCHANGED obj
       \/ /\ obj' = Iput(obj, th[t].obj)
          /\ UNCHANGED dent
    /\ Return(t)
    /\ UNCHANGED <<reg, sb, info>>

\* Root::try_new gives the reference to d_make_root, which puts it on failure;
\* fill_super_callback stores the root dentry and forgets it.
RootTryNew(t) ==
    /\ th[t].pc = "have" /\ th[t].job = Root
    /\ \/ /\ dent' = [dent EXCEPT ![Root] = th[t].obj]
          /\ sb' = "active"
          /\ Return(t)
          /\ UNCHANGED obj
       \/ /\ obj' = Iput(obj, th[t].obj)
          /\ Fail(t)
          /\ UNCHANGED dent
    /\ UNCHANGED <<reg, info>>

-----------------------------------------------------------------------------
\* The dentry cache drops an unused dentry, which puts its inode.
PruneDentry(n) ==
    /\ sb = "active"
    /\ dent[n] # None
    /\ obj' = Iput(obj, dent[n])
    /\ dent' = [dent EXCEPT ![n] = None]
    /\ UNCHANGED <<reg, sb, info, th>>

\* An inode nobody refers to is evicted: under memory pressure, or by kill_sb.
Evict(o) ==
    /\ sb \in {"active", "dying"}
    /\ obj[o].st = "ok"
    /\ obj[o].cnt = 0
    /\ obj' = DestroyInode(obj, o)
    /\ UNCHANGED <<reg, sb, info, dent, th>>

\* The last reference to the mount goes: kill_sb_callback is entered.
Unmount ==
    /\ sb = "active"
    /\ \A t \in Threads : th[t] = Idle
    /\ sb' = "dying"
    /\ UNCHANGED <<reg, info, dent, obj, th>>

\* kill_anon_super or kill_block_super: the dentries go first.
KillDentries ==
    /\ sb = "dying"
    /\ \E n \in DOMAIN dent :
        /\ dent[n] # None
        /\ obj' = Iput(obj, dent[n])
        /\ dent' = [dent EXCEPT ![n] = None]
    /\ UNCHANGED <<reg, sb, info, th>>

Evictable == {o \in Objs : obj[o].st = "ok" /\ obj[o].cnt = 0}
KillSuperDone == Evictable = {} /\ \A n \in DOMAIN dent : dent[n] = None

\* Mutant of ReclaimData: the data goes as soon as the dentries have gone.
ReclaimEarly ==
    /\ sb = "dying"
    /\ \A n \in DOMAIN dent : dent[n] = None
    /\ info' = "null"
    /\ sb' = IF KillSuperDone THEN "none" ELSE sb
    /\ UNCHANGED <<reg, dent, obj, th>>

\* kill_sb_callback after kill_*_super has evicted the inodes: s_fs_info, if
\* set, is taken back and dropped.
ReclaimData ==
    /\ sb = "dying"
    /\ KillSuperDone
    /\ info' = "null"
    /\ sb' = "none"
    /\ UNCHANGED <<reg, dent, obj, th>>

-----------------------------------------------------------------------------
Step(t) ==
    \/ FillSuper(t)
    \/ IgetFind(t) \/ AllocInode(t) \/ IgetInsert(t) \/ IgetWake(t)
    \/ InitData(t) \/ InitUnlock(t)
    \/ SpliceAlias(t) \/ RootTryNew(t)

Next ==
    \/ NewFor \/ PinInit \/ DropRegistration
    \/ \E t \in Threads : GetTree(t) \/ Step(t) \/ \E n \in Names : Lookup(t, n)
    \/ \E n \in Names : PruneDentry(n)
    \/ \E o \in Objs : Evict(o)
    \/ Unmount \/ KillDentries \/ ReclaimData

\* A thread inside the kernel keeps running.
Spec == Init /\ [][Next]_vars /\ \A t \in Threads : WF_vars(Step(t))

\* With file systems whose iget can fail after SuperBlock::iget.
NextLoadFails ==
    Next \/ \E t \in Threads : DropNewINode(t) \/ DropInner(t) \/ IgetRetry(t)

SpecLoadFails == Init /\ [][NextLoadFails]_vars

-----------------------------------------------------------------------------
\* The ARef, NewINode or iget_locked result a thread has, and the dentries.
Holders(o) == {t \in Threads : th[t].obj = o} \cup {n \in DOMAIN dent : dent[n] = o}

\* The count of every inode is the number of its holders: the ARefs and
\* NewINodes of lookups under way and the dentries that refer to it.
RefsExact ==
    \A o \in Objs : obj[o].cnt = Cardinality(Holders(o))

\* An inode that a lookup has got or a dentry refers to is hashed, alone under
\* its number, and NewINode::init has written its data: no lookup sees the
\* inode another thread is still initialising.
VisibleIsInitialised ==
    \A o \in Objs :
        ((\E t \in Threads : th[t].obj = o /\ th[t].pc = "have")
           \/ (\E n \in DOMAIN dent : dent[n] = o))
        => obj[o].st = "ok" /\ obj[o].data /\ Hashed(obj[o].ino) = {o}

\* Superblock data outlives what may use it: while an inode holds data, or a
\* callback is past fill_super, s_fs_info is live; and neither it nor an inode
\* outlives the superblock, whichever step of the mount failed, so the slab cache
\* is empty when the Registration destroys it.
SbDataScoped ==
    /\ \A o \in Objs : obj[o].data => info = "live"
    /\ \A t \in Threads : th[t].pc \notin {"idle", "fill"} => info = "live"
    /\ sb = "none" => info = "null" /\ \A o \in Objs : obj[o].st = "slab"

\* Every lookup and every mount returns: whoever created the inode it waits
\* for unlocks it.
LookupReturns ==
    \A t \in Threads : th[t].pc # "idle" ~> th[t].pc = "idle"
=============================================================================
