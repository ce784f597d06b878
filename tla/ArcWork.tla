------------------------------- MODULE ArcWork -------------------------------
(***************************************************************************)
(* One object behind an Arc (rko-core/src/sync/arc.rs, refcount.rs) with a *)
(* work item inside it (workqueue.rs).  Threads build it through a         *)
(* UniqueArc, clone it, send each other Arcs, park Arcs in C pointers      *)
(* (ForeignOwnable), drop them, and enqueue them on a kernel work queue,   *)
(* whose worker runs the item with the reference the enqueue gave up.      *)
(*                                                                         *)
(*   rc      Refcount, an i32                                              *)
(*   mem     "none", "uninit", "live" or "freed"                           *)
(*   arcs    thread -> Arcs it owns; unique: the thread with the UniqueArc *)
(*   foreign pointers from into_foreign that C holds                       *)
(*   pending WORK_STRUCT_PENDING, with the reference the queue holds       *)
(*   apc     thread -> "idle", "queue" (a raw pointer in hand), "free"     *)
(*           (it took the count to zero), and for the worker "run", "last" *)
(***************************************************************************)
EXTENDS Integers, FiniteSets

CONSTANTS Threads, Worker, None,
          Width,        \* bits of the counter (32)
          MaxRefs       \* bound on the references

ASSUME ArcAssumption ==
  /\ IsFiniteSet(Threads) /\ Worker \notin Threads /\ None \notin Threads
  /\ MaxRefs \in Nat \ {0} /\ Width \in Nat /\ MaxRefs < 2^Width

VARIABLES rc, mem, arcs, unique, foreign, pending, apc

avars == <<rc, mem, arcs, unique, foreign, pending, apc>>

All == Threads \cup {Worker}

AInit ==
  /\ rc = 0 /\ mem = "none" /\ arcs = [t \in All |-> 0]
  /\ unique = None /\ foreign = 0 /\ pending = FALSE
  /\ apc = [t \in All |-> "idle"]

\* The Arcs of the threads, each with its owner, and the raw pointers in hand.
ArcsOf(a) == UNION {{t} \X (1..a[t]) : t \in All}
InHand(p) == {t \in All : p[t] = "queue"}

\* What holds a reference.
Refs == Cardinality(ArcsOf(arcs)) + foreign + (IF pending THEN 1 ELSE 0)
          + Cardinality(InHand(apc))

\* Refcount::inc and the decrement of dec_and_test, with i32 wrap-around.
Inc == rc' = (rc + 1) % 2^Width
Dec == rc' = (rc - 1) % 2^Width

Idle(t) == t \in Threads /\ apc[t] = "idle"
Shares(t) == Idle(t) /\ arcs[t] > 0 /\ unique = None

\* UniqueArc::new_uninit.
NewUninit(t) ==
  /\ Idle(t) /\ mem = "none"
  /\ rc' = 1 /\ mem' = "uninit"
  /\ arcs' = [arcs EXCEPT ![t] = 1] /\ unique' = t
  /\ UNCHANGED <<foreign, pending, apc>>

\* Writing the fields through as_mut_ptr, Work::init, and assume_init.
AssumeInit(t) ==
  /\ unique = t /\ mem = "uninit"
  /\ mem' = "live"
  /\ UNCHANGED <<rc, arcs, unique, foreign, pending, apc>>

\* From<UniqueArc<T>> for Arc<T>.
Share(t) ==
  /\ unique = t /\ mem = "live"
  /\ unique' = None
  /\ UNCHANGED <<rc, mem, arcs, foreign, pending, apc>>

\* <Arc as Clone>::clone, and From<ArcBorrow> on an owned Arc.
Clone(t) ==
  /\ Shares(t) /\ Refs < MaxRefs
  /\ Inc
  /\ arcs' = [arcs EXCEPT ![t] = @ + 1]
  /\ UNCHANGED <<mem, unique, foreign, pending, apc>>

\* Arc: Send.
Give(t, u) ==
  /\ Shares(t) /\ Idle(u) /\ t # u
  /\ arcs' = [arcs EXCEPT ![t] = @ - 1, ![u] = @ + 1]
  /\ UNCHANGED <<rc, mem, unique, foreign, pending, apc>>

\* Drop for Arc (a UniqueArc drops its Arc): dec_and_test.
DropArc(t) ==
  /\ arcs[t] > 0
  /\ Idle(t) \/ apc[t] \in {"run", "last"}
  /\ Dec
  /\ arcs' = [arcs EXCEPT ![t] = @ - 1]
  /\ unique' = IF unique = t THEN None ELSE unique
  /\ apc' = [apc EXCEPT ![t] = IF rc = 1 THEN "free" ELSE "idle"]
  /\ UNCHANGED <<mem, foreign, pending>>

\* The KBox of the ArcInner is dropped.
Free(t) ==
  /\ apc[t] = "free"
  /\ mem' = "freed"
  /\ apc' = [apc EXCEPT ![t] = "idle"]
  /\ UNCHANGED <<rc, arcs, unique, foreign, pending>>

\* ForeignOwnable: into_foreign, from_foreign, and borrow made an Arc.
IntoForeign(t) ==
  /\ Shares(t)
  /\ arcs' = [arcs EXCEPT ![t] = @ - 1] /\ foreign' = foreign + 1
  /\ UNCHANGED <<rc, mem, unique, pending, apc>>

FromForeign(t) ==
  /\ Idle(t) /\ foreign > 0
  /\ arcs' = [arcs EXCEPT ![t] = @ + 1] /\ foreign' = foreign - 1
  /\ UNCHANGED <<rc, mem, unique, pending, apc>>

\* Mutant of Borrow: the ManuallyDrop is cloned without inc.
BorrowUncounted(t) ==
  /\ Idle(t) /\ foreign > 0 /\ Refs < MaxRefs
  /\ arcs' = [arcs EXCEPT ![t] = @ + 1]
  /\ UNCHANGED <<rc, mem, unique, foreign, pending, apc>>

Borrow(t) ==
  /\ Idle(t) /\ foreign > 0 /\ Refs < MaxRefs
  /\ Inc
  /\ arcs' = [arcs EXCEPT ![t] = @ + 1]
  /\ UNCHANGED <<mem, unique, foreign, pending, apc>>

\* Queue::enqueue: RawWorkItem::__enqueue turns the Arc into a raw pointer ...
Enqueue(t) ==
  /\ Shares(t) \/ apc[t] = "run"
  /\ arcs' = [arcs EXCEPT ![t] = @ - 1]
  /\ apc' = [apc EXCEPT ![t] = "queue"]
  /\ UNCHANGED <<rc, mem, unique, foreign, pending>>

\* ... and queue_work_on takes it, unless the item is pending: then from_raw
\* gives the Arc back to the caller (a work item's run drops it).
QueueWork(t) ==
  /\ apc[t] = "queue"
  /\ pending' = TRUE
  /\ arcs' = [arcs EXCEPT ![t] = IF pending THEN @ + 1 ELSE @]
  /\ apc' = [apc EXCEPT ![t] = IF pending /\ t = Worker THEN "last" ELSE "idle"]
  /\ UNCHANGED <<rc, mem, unique, foreign>>

\* Mutant of Run: the item is run only once nobody else holds an Arc.
RunWhenSole ==
  /\ pending /\ apc[Worker] = "idle" /\ rc = 1
  /\ pending' = FALSE
  /\ arcs' = [arcs EXCEPT ![Worker] = 1]
  /\ apc' = [apc EXCEPT ![Worker] = "run"]
  /\ UNCHANGED <<rc, mem, unique, foreign>>

\* The kernel clears the pending bit and calls WorkItemPointer::run, which
\* takes the queue's reference back (Arc::from_raw) and runs T::run with it.
Run ==
  /\ pending /\ apc[Worker] = "idle"
  /\ pending' = FALSE
  /\ arcs' = [arcs EXCEPT ![Worker] = 1]
  /\ apc' = [apc EXCEPT ![Worker] = "run"]
  /\ UNCHANGED <<rc, mem, unique, foreign>>

\* T::run enqueues its Arc again, at most once, or drops it.
WorkerStep ==
  Run \/ DropArc(Worker) \/ Free(Worker) \/ Enqueue(Worker) \/ QueueWork(Worker)

ThreadStep(t) ==
  \/ NewUninit(t) \/ AssumeInit(t) \/ Share(t) \/ Clone(t) \/ DropArc(t) \/ Free(t)
  \/ IntoForeign(t) \/ FromForeign(t) \/ Borrow(t) \/ Enqueue(t) \/ QueueWork(t)
  \/ \E u \in Threads : Give(t, u)

ANext == WorkerStep \/ \E t \in Threads : ThreadStep(t)

ASpec == AInit /\ [][ANext]_avars /\ WF_avars(WorkerStep)

-----------------------------------------------------------------------------
\* The counter is the number of Arcs, foreign pointers, raw pointers on their
\* way to the queue and the queue's own: while any of them exists the object
\* is allocated and nobody is freeing it, the one that took the count to zero
\* is alone, and a UniqueArc is the only reference.
CountExact ==
  /\ mem # "none" => rc = Refs
  /\ Refs > 0 => mem \in {"uninit", "live"} /\ \A t \in All : apc[t] # "free"
  /\ Cardinality({t \in All : apc[t] = "free"}) <= 1
  /\ unique # None => Refs = 1
  /\ mem = "uninit" => unique # None \/ Refs = 0

\* A successful enqueue is followed by a run, also when the item is enqueued
\* again while it runs, by others or by its own run.
QueuedRuns == pending ~> ~pending
=============================================================================
