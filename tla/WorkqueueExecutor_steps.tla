----------------------- MODULE WorkqueueExecutor_steps ------------------------
(***************************************************************************)
(* Proofs about WorkqueueExecutor for every finite set of tasks, of        *)
(* threads that stop the executor and of threads that cancel a handle,     *)
(* whoever spawns whom and whichever wakers outlive their futures.         *)
(***************************************************************************)
EXTENDS WorkqueueExecutor, FiniteSetTheorems, TLAPS

NoDup(seq) == \A i, j \in 1 .. Len(seq) : seq[i] = seq[j] => i = j

\* A task comes after the one whose poll spawned it.
ParentsFirst(seq) ==
    \A i, j \in 1 .. Len(seq) : Parent[seq[j]] = seq[i] => i < j

Live(t) == spawn[t] \in {"registered", "done"}
Destroyer(c, t) == cpc[c] = "destroy" /\ Head(clist[c]) = t

\* The executor's list and the ones the cancellers work through.
ListsOK ==
    /\ NoDup(tasks) /\ ParentsFirst(tasks)
    /\ \A c \in Cancellers :
          /\ NoDup(clist[c])
          /\ cpc[c] \in {"revoke", "destroy", "cancel", "wait"} <=> clist[c] # <<>>
    /\ \A c \in Stoppers : ParentsFirst(clist[c])
    /\ stopped <=> \E c \in Stoppers : cpc[c] # "idle"
    /\ stopped => tasks = <<>>

\* How far a spawn has come, and what can refer to the task by then.
SpawnOK(t) ==
    /\ ~Live(t) => /\ ~InSeq(t, tasks) /\ \A c \in Cancellers : ~InSeq(t, clist[c])
                   /\ leaked[t] = 0
    /\ spawn[t] # "done" => /\ ~handle[t] /\ ~pending[t] /\ run[t] = "idle"
                            /\ wakers[t] = 0
    /\ spawn[t] \in {"none", "checked"} => ~revoked[t]
    /\ Live(t) /\ ~stopped => InSeq(t, tasks)
    /\ Spawning(t) /\ stopped => t \in racing
    /\ spawn[t] # "none" /\ Parent[t] # NoParent => spawn[Parent[t]] = "done"
    /\ Spawning(t) /\ Parent[t] # NoParent => run[Parent[t]] = "polling"

\* A canceller past its revocation.
CancelOK(c) ==
    /\ cpc[c] \in {"destroy", "cancel", "wait"} => revoked[Head(clist[c])]
    /\ cpc[c] = "wait" => ~pending[Head(clist[c])]

\* A revoked future is destroyed, or exactly one of the poll that still holds it,
\* the worker and the cancellers is going to.
FutureOK(t) ==
    /\ dropped[t] => revoked[t] /\ run[t] # "polling"
    /\ run[t] = "destroy" => revoked[t] /\ ~dropped[t]
    /\ \A c \in Cancellers : Destroyer(c, t) =>
          /\ ~dropped[t] /\ run[t] \notin {"polling", "destroy"}
          /\ \A d \in Cancellers : Destroyer(d, t) => d = c
    /\ revoked[t] /\ ~dropped[t] =>
          run[t] \in {"polling", "destroy"} \/ \E c \in Cancellers : Destroyer(c, t)
    /\ dropped[t] /\ t \notin Outliving => wakers[t] = 0

\* What stop has done to a task it is through with, if nobody else interferes.
Flushed(c, t) ==
    Alone(c) /\ cpc[c] # "idle" /\ Live(t) /\ ~InSeq(t, clist[c]) =>
        /\ dropped[t] /\ run[t] \in {"idle", "entered"}
        /\ t \notin Outliving /\ ~(t \in racing /\ Parent[t] = NoParent) =>
              spawn[t] = "done" /\ ~pending[t] /\ run[t] = "idle"

\* The inductive invariant.
IInv ==
    /\ TypeOK
    /\ ListsOK
    /\ \A t \in Tasks : SpawnOK(t)
    /\ \A c \in Cancellers : CancelOK(c)
    /\ \A t \in Tasks : FutureOK(t)
    /\ \A c \in Stoppers, t \in Tasks : Flushed(c, t)
    /\ RcExact /\ NoEscape /\ NoLostWake

-----------------------------------------------------------------------------
\* The sets of cancellers that hold a task are finite.
LEMMA CancellerSets ==
    ASSUME NEW S \in SUBSET Cancellers
    PROVE  /\ Cardinality(S) \in Nat
           /\ Cardinality({}) = 0
           /\ \A c : c \notin S => Cardinality(S \cup {c}) = Cardinality(S) + 1
           /\ \A c \in S : Cardinality(S \ {c}) = Cardinality(S) - 1
  <1>1. IsFiniteSet(Cancellers)
    BY ExecutorAssumption, FS_Union, Zenon DEF Cancellers
  <1>2. IsFiniteSet(S)
    BY <1>1, FS_Subset
  <1>. QED
    BY <1>2, FS_CardinalityType, FS_EmptySet, FS_AddElement, FS_RemoveElement

\* Taken one by one, the references are numbers.
LEMMA ReferencesType ==
    ASSUME TypeOK, NEW t \in Tasks
    PROVE  /\ OwnReferences(t) \in Nat
           /\ OneIf(InSeq(t, tasks)) \in Nat
           /\ Cardinality(Cancelling(t)) \in Nat
           /\ wakers[t] \in Nat /\ rc[t] \in Nat /\ leaked[t] \in Nat
  <1>1. wakers[t] \in Nat
    BY ExecutorAssumption DEF TypeOK
  <1>2. Cardinality(Cancelling(t)) \in Nat
    BY CancellerSets DEF Cancelling
  <1>. QED
    BY <1>1, <1>2 DEF TypeOK, OwnReferences, OneIf

\* The count stays exact when one task changes, by as much as its references that
\* are not in a list do.
LEMMA CountFollows ==
    ASSUME IInv, NEW t \in Tasks, UNCHANGED <<tasks, clist, leaked>>,
           rc' \in [Tasks -> Int],
           \A s \in Tasks \ {t} :
              UNCHANGED <<spawn[s], handle[s], pending[s], run[s], wakers[s], rc[s]>>,
           OwnReferences(t)' \in Nat,
           rc'[t] = rc[t] + OwnReferences(t)' - OwnReferences(t)
    PROVE  RcExact' /\ rc' \in [Tasks -> Nat]
  <1>1. TypeOK /\ RcExact
    BY DEF IInv
  <1>2. \A s : Cancelling(s)' = Cancelling(s)
    BY DEF Cancelling
  <1>3. ASSUME NEW s \in Tasks
        PROVE  rc'[s] = References(s)' + leaked'[s] /\ rc'[s] \in Nat
    <2>1. CASE s # t
      <3>1. References(s)' = References(s) /\ rc'[s] = rc[s]
        BY <2>1, <1>2 DEF References, OwnReferences
      <3>. QED
        BY <3>1, <1>1, ReferencesType DEF RcExact
    <2>2. CASE s = t
      <3>1. References(t)' = OwnReferences(t)' + OneIf(InSeq(t, tasks)) + Cardinality(Cancelling(t))
        BY <1>2 DEF References
      <3>. QED
        BY <2>2, <3>1, <1>1, ReferencesType DEF RcExact, References
    <2>. QED
      BY <2>1, <2>2
  <1>. QED
    BY <1>3 DEF RcExact

\* Appending to a list.
LEMMA Appended ==
    ASSUME NEW seq \in Seq(Tasks), NEW e \in Tasks
    PROVE  /\ Append(seq, e) \in Seq(Tasks)
           /\ \A t : InSeq(t, Append(seq, e)) <=> InSeq(t, seq) \/ t = e
           /\ NoDup(seq) /\ ~InSeq(e, seq) => NoDup(Append(seq, e))
           /\ /\ ParentsFirst(seq) /\ Parent[e] # e
              /\ \A t : InSeq(t, seq) => Parent[t] # e
              => ParentsFirst(Append(seq, e))
  BY DEF InSeq, NoDup, ParentsFirst

\* Taking the head off a list.
LEMMA HeadTaken ==
    ASSUME NEW seq \in Seq(Tasks), seq # <<>>, NoDup(seq)
    PROVE  /\ Head(seq) \in Tasks /\ Tail(seq) \in Seq(Tasks)
           /\ InSeq(Head(seq), seq) /\ ~InSeq(Head(seq), Tail(seq))
           /\ \A t : InSeq(t, seq) <=> t = Head(seq) \/ InSeq(t, Tail(seq))
           /\ NoDup(Tail(seq))
           /\ ParentsFirst(seq) =>
                 /\ ParentsFirst(Tail(seq))
                 /\ ~InSeq(Parent[Head(seq)], seq)
           /\ Tail(seq) = <<>> <=> Len(seq) = 1
  <1>1. /\ Len(seq) \in Nat \ {0}
        /\ Head(seq) = seq[1] /\ Head(seq) \in Tasks
        /\ Tail(seq) \in Seq(Tasks) /\ Len(Tail(seq)) = Len(seq) - 1
        /\ \A i \in 1 .. Len(Tail(seq)) : Tail(seq)[i] = seq[i + 1] /\ i + 1 \in 1 .. Len(seq)
    OBVIOUS
  <1>2. InSeq(Head(seq), seq) /\ ~InSeq(Head(seq), Tail(seq))
    BY <1>1 DEF InSeq, NoDup
  <1>3. ASSUME NEW t PROVE InSeq(t, seq) <=> t = Head(seq) \/ InSeq(t, Tail(seq))
    <2>1. ASSUME NEW i \in 1 .. Len(seq), seq[i] = t, i # 1 PROVE InSeq(t, Tail(seq))
      <3>1. i - 1 \in 1 .. Len(Tail(seq)) /\ Tail(seq)[i - 1] = t
        BY <1>1, <2>1
      <3>. QED
        BY <3>1 DEF InSeq
    <2>. QED
      BY <1>1, <1>2, <2>1 DEF InSeq
  <1>4. NoDup(Tail(seq))
    BY <1>1 DEF NoDup
  <1>5. ParentsFirst(seq) => ParentsFirst(Tail(seq))
    BY <1>1 DEF ParentsFirst
  <1>6. ParentsFirst(seq) => ~InSeq(Parent[Head(seq)], seq)
    BY <1>1 DEF ParentsFirst, InSeq
  <1>7. Tail(seq) = <<>> <=> Len(seq) = 1
    BY <1>1
  <1>. QED
    BY <1>1, <1>2, <1>3, <1>4, <1>5, <1>6, <1>7

\* The empty list, and a list of one.
LEMMA ShortLists ==
    ASSUME NEW e \in Tasks
    PROVE  /\ NoDup(<<>>) /\ ParentsFirst(<<>>) /\ \A t : ~InSeq(t, <<>>)
           /\ <<e>> \in Seq(Tasks) /\ NoDup(<<e>>) /\ \A t : InSeq(t, <<e>>) <=> t = e
           /\ <<e>> # <<>>
  BY DEF InSeq, NoDup, ParentsFirst

\* What enqueue does to the queue and the count, whether or not the item is pending
\* or being cancelled; an item being cancelled is one of a revoked future.
LEMMA EnqueueOutcome ==
    ASSUME IInv, NEW t \in Tasks, NEW owned \in {0, 1}, Enqueue(t, owned)
    PROVE  /\ pending' \in [Tasks -> BOOLEAN] /\ rc' \in [Tasks -> Int]
           /\ \A s \in Tasks \ {t} : pending'[s] = pending[s] /\ rc'[s] = rc[s]
           /\ pending[t] => pending'[t]
           /\ pending'[t] \/ revoked[t]
           /\ \A c \in Cancellers : cpc[c] = "wait" /\ Head(clist[c]) = t => pending'[t] = pending[t]
           /\ rc'[t] = IF pending'[t] /\ ~pending[t] THEN rc[t] + 1 - owned ELSE rc[t] - owned
  <1>1. Disabled(t) => revoked[t]
    BY DEF IInv, CancelOK, Disabled
  <1>2. rc[t] \in Nat /\ rc \in [Tasks -> Nat] /\ pending \in [Tasks -> BOOLEAN]
    BY DEF IInv, TypeOK
  <1>3. CASE pending[t] \/ Disabled(t)
    BY <1>1, <1>2, <1>3 DEF Enqueue
  <1>4. CASE ~(pending[t] \/ Disabled(t))
    <2>1. pending' = [pending EXCEPT ![t] = TRUE] /\ rc' = [rc EXCEPT ![t] = @ + 1 - owned]
      BY <1>4 DEF Enqueue
    <2>2. ~pending[t] /\ pending'[t] /\ rc'[t] = rc[t] + 1 - owned
      BY <2>1, <1>2, <1>4
    <2>3. \A c \in Cancellers : ~(cpc[c] = "wait" /\ Head(clist[c]) = t)
      BY <1>4 DEF Disabled
    <2>4. /\ pending' \in [Tasks -> BOOLEAN] /\ rc' \in [Tasks -> Int]
          /\ \A s \in Tasks \ {t} : pending'[s] = pending[s] /\ rc'[s] = rc[s]
      BY <2>1, <1>2
    <2>. QED
      BY <2>2, <2>3, <2>4, Zenon
  <1>. QED
    BY <1>3, <1>4

\* The duty to destroy a future does not move while nobody touches it, nor while a
\* worker takes steps that have nothing to do with it.
LEMMA FutureFrame ==
    ASSUME NEW s \in Tasks, FutureOK(s), UNCHANGED <<cpc, clist, revoked[s], dropped[s]>>,
           run'[s] = run[s] \/ {run[s], run'[s]} \cap {"polling", "destroy"} = {},
           wakers[s] = 0 => wakers'[s] = 0
    PROVE  FutureOK(s)'
  BY Zenon DEF FutureOK, Destroyer

\* A canceller at work has a task at the head of its list.
LEMMA HeadInList ==
    ASSUME IInv, NEW c \in Cancellers, cpc[c] \in {"revoke", "destroy", "cancel", "wait"}
    PROVE  clist[c] # <<>> /\ Head(clist[c]) \in Tasks /\ InSeq(Head(clist[c]), clist[c])
  <1>1. clist[c] \in Seq(Tasks) /\ clist[c] # <<>> /\ NoDup(clist[c])
    BY DEF IInv, TypeOK, ListsOK
  <1>. QED
    BY <1>1, HeadTaken

\* What the steps of one task leave alone in another.
Untouched(s) ==
    UNCHANGED <<spawn[s], handle[s], pending[s], run[s], wakers[s], rc[s], revoked[s], dropped[s],
                notified[s]>>

\* A step that touches one task only, and no list, preserves the invariant if it does
\* so for that task, revokes it for good, does not queue it under a canceller that
\* waits, and does not leave a poll whose child is being spawned.
LEMMA TaskStep ==
    ASSUME IInv, NEW t \in Tasks, TypeOK', RcExact',
           UNCHANGED <<stopped, tasks, cpc, clist, leaked, racing>>,
           \A s \in Tasks \ {t} : Untouched(s),
           revoked[t] => revoked'[t],
           \A c \in Cancellers : cpc[c] = "wait" /\ Head(clist[c]) = t => (pending'[t] => pending[t]),
           spawn[t] = "done" => spawn'[t] = "done",
           run[t] = "polling" =>
              run'[t] = "polling" \/ \A s \in Tasks : Parent[s] = t => ~Spawning(s),
           SpawnOK(t)', FutureOK(t)', \A c \in Stoppers : Flushed(c, t)',
           Live(t)' => revoked'[t] \/ InSeq(t, tasks) \/ \E c \in Stoppers : InSeq(t, clist[c]),
           notified'[t] /\ ~revoked'[t] => pending'[t] \/ run'[t] = "entered"
    PROVE  IInv'
  <1>inv. /\ TypeOK /\ ListsOK /\ (\A s \in Tasks : SpawnOK(s)) /\ (\A c \in Cancellers : CancelOK(c))
          /\ (\A s \in Tasks : FutureOK(s)) /\ (\A c \in Stoppers, s \in Tasks : Flushed(c, s))
          /\ RcExact /\ NoEscape /\ NoLostWake
    BY DEF IInv
  <1>2. ListsOK'
    BY <1>inv, Zenon DEF ListsOK
  <1>3. ASSUME NEW s \in Tasks PROVE SpawnOK(s)'
    <2>1. CASE s = t
      BY <2>1
    <2>2. CASE s # t
      <3>1. /\ spawn'[s] = spawn[s] /\ handle'[s] = handle[s] /\ pending'[s] = pending[s]
            /\ run'[s] = run[s] /\ wakers'[s] = wakers[s] /\ revoked'[s] = revoked[s]
        BY <2>2 DEF Untouched
      <3>2. Parent[s] # NoParent =>
               /\ spawn[Parent[s]] = "done" => spawn'[Parent[s]] = "done"
               /\ Spawning(s) /\ run[Parent[s]] = "polling" => run'[Parent[s]] = "polling"
        BY ExecutorAssumption DEF Untouched
      <3>. QED
        BY <3>1, <3>2, <1>inv DEF SpawnOK, Spawning, Live
    <2>. QED
      BY <2>1, <2>2
  <1>4. ASSUME NEW c \in Cancellers PROVE CancelOK(c)'
    <2>. SUFFICES ASSUME cpc[c] \in {"revoke", "destroy", "cancel", "wait"} PROVE CancelOK(c)'
      BY DEF CancelOK
    <2>1. PICK s \in Tasks : s = Head(clist[c])
      BY HeadInList
    <2>2. (revoked[s] => revoked'[s]) /\ (cpc[c] = "wait" => (pending'[s] => pending[s]))
      BY <2>1, Zenon DEF Untouched
    <2>. QED
      BY <2>1, <2>2, <1>inv DEF CancelOK
  <1>5. ASSUME NEW s \in Tasks PROVE FutureOK(s)'
    <2>1. CASE s # t
      <3>1. UNCHANGED <<run[s], revoked[s], dropped[s], wakers[s]>>
        BY <2>1, Zenon DEF Untouched
      <3>. QED
        BY <3>1, <1>inv, FutureFrame
    <2>. QED
      BY <2>1
  <1>6. ASSUME NEW c \in Stoppers, NEW s \in Tasks PROVE Flushed(c, s)'
    <2>1. CASE s # t
      <3>1. UNCHANGED <<spawn[s], dropped[s], run[s], pending[s]>>
        BY <2>1, Zenon DEF Untouched
      <3>. QED
        BY <3>1, <1>inv DEF Flushed, Alone, Live
    <2>. QED
      BY <2>1
  <1>7. NoEscape' /\ NoLostWake'
    <2>1. ASSUME NEW s \in Tasks, s # t
          PROVE  /\ spawn'[s] \in {"registered", "done"} =>
                       revoked'[s] \/ InSeq(s, tasks) \/ \E c \in Stoppers : InSeq(s, clist[c])
                 /\ notified'[s] /\ ~revoked'[s] => pending'[s] \/ run'[s] = "entered"
      <3>1. UNCHANGED <<spawn[s], revoked[s], notified[s], pending[s], run[s]>>
        BY <2>1, Zenon DEF Untouched
      <3>. QED
        BY <3>1, Zenon DEF IInv, NoEscape, NoLostWake
    <2>. QED
      BY <2>1, <1>inv DEF NoEscape, NoLostWake, Live
  <1>. QED
    BY <1>2, <1>3, <1>4, <1>5, <1>6, <1>7 DEF IInv

\* Once it has something to run, be woken by or be held by, a task is spawned.
LEMMA SpawnDone ==
    ASSUME IInv, NEW t \in Tasks, handle[t] \/ pending[t] \/ run[t] # "idle" \/ wakers[t] # 0
    PROVE  spawn[t] = "done" /\ SpawnOK(t)
  <1>1. SpawnOK(t)
    BY DEF IInv
  <1>. QED
    BY <1>1 DEF SpawnOK

\* A step of a task that is spawned.  What is left to see to is its references, its
\* future, what stop has waited for, and its wake-ups.
LEMMA LiveStep ==
    ASSUME IInv, NEW t \in Tasks, spawn[t] = "done",
           UNCHANGED <<stopped, tasks, spawn, cpc, clist, leaked, racing>>,
           \A s \in Tasks \ {t} : Untouched(s),
           rc' \in [Tasks -> Nat] => TypeOK',
           rc' \in [Tasks -> Int], OwnReferences(t)' \in Nat,
           rc'[t] = rc[t] + OwnReferences(t)' - OwnReferences(t),
           revoked[t] => revoked'[t],
           \A c \in Cancellers : cpc[c] = "wait" /\ Head(clist[c]) = t => (pending'[t] => pending[t]),
           run[t] = "polling" =>
              run'[t] = "polling" \/ \A s \in Tasks : Parent[s] = t => ~Spawning(s),
           FutureOK(t)', \A c \in Stoppers : Flushed(c, t)',
           notified'[t] /\ ~revoked'[t] => pending'[t] \/ run'[t] = "entered"
    PROVE  IInv'
  <1>1. RcExact' /\ TypeOK'
    <2>1. \A s \in Tasks \ {t} :
             UNCHANGED <<spawn[s], handle[s], pending[s], run[s], wakers[s], rc[s]>>
      BY Zenon DEF Untouched
    <2>. QED
      BY <2>1, CountFollows
  <1>2. SpawnOK(t)'
    <2>1. SpawnOK(t)
      BY Zenon DEF IInv
    <2>. QED
      BY <2>1 DEF SpawnOK, Spawning, Live
  <1>3. Live(t)' => revoked'[t] \/ InSeq(t, tasks) \/ \E c \in Stoppers : InSeq(t, clist[c])
    <2>1. revoked[t] \/ InSeq(t, tasks) \/ \E c \in Stoppers : InSeq(t, clist[c])
      BY DEF IInv, NoEscape
    <2>. QED
      BY <2>1
  <1>. QED
    BY <1>1, <1>2, <1>3, TaskStep

\* spawn_inner looks at the flag.
LEMMA SpawnCheckStep ==
    ASSUME IInv, NEW t \in Tasks, SpawnCheck(t)
    PROVE  IInv'
  <1>inv. TypeOK
    BY Zenon DEF IInv
  <1>sp. \A s \in Tasks : SpawnOK(s)
    BY Zenon DEF IInv
  <1>fut. FutureOK(t)
    BY Zenon DEF IInv
  <1>flu. \A c \in Stoppers : Flushed(c, t)
    BY Zenon DEF IInv
  <1>esc. NoEscape /\ NoLostWake
    BY Zenon DEF IInv
  <1>t. /\ OwnReferences(t) \in Nat /\ rc[t] \in Nat /\ wakers[t] \in Nat
        /\ handle[t] \in BOOLEAN /\ pending[t] \in BOOLEAN
    BY <1>inv, ReferencesType DEF TypeOK
  <1>same. UNCHANGED <<stopped, tasks, cpc, clist, leaked, racing>>
    BY Zenon DEF SpawnCheck, cancelVars
  <1>act. /\ spawn[t] = "none" /\ spawn'[t] \in {"failed", "checked"}
          /\ spawn'[t] = "checked" => ~stopped
          /\ Parent[t] # NoParent => run[Parent[t]] = "polling"
          /\ UNCHANGED <<handle, pending, run, wakers, rc, revoked, dropped, notified>>
    BY <1>inv DEF SpawnCheck, TypeOK, workVars, futureVars, cancelVars
  <1>others. \A s \in Tasks \ {t} : Untouched(s)
    BY <1>inv DEF SpawnCheck, TypeOK, workVars, futureVars, cancelVars, Untouched
  <1>own. /\ OwnReferences(t)' \in Nat /\ rc' \in [Tasks -> Int]
          /\ rc'[t] = rc[t] + OwnReferences(t)' - OwnReferences(t)
    <2>1. OwnReferences(t)' = OwnReferences(t)
      BY <1>act DEF OwnReferences
    <2>. QED
      BY <2>1, <1>inv, <1>t, <1>act DEF TypeOK
  <1>rc. RcExact' /\ rc' \in [Tasks -> Nat]
    BY <1>same, <1>others, <1>own, CountFollows DEF Untouched
  <1>1. TypeOK'
    BY <1>inv, <1>same, <1>rc, ExecutorAssumption DEF SpawnCheck, TypeOK, workVars, futureVars, cancelVars
  <1>2. SpawnOK(t)'
    <2>1. /\ Parent[t] \in Tasks \cup {NoParent} /\ NoParent \notin Tasks
          /\ Parent[t] \in Tasks \ {t} => UNCHANGED <<spawn[Parent[t]], run[Parent[t]]>>
      BY <1>others, ExecutorAssumption DEF Untouched
    <2>. QED
      BY <2>1, <1>sp, <1>same, <1>act DEF SpawnOK, Spawning, Live
  <1>3. FutureOK(t)'
    BY <1>fut, <1>same, <1>act, FutureFrame
  <1>4. \A c \in Stoppers : Flushed(c, t)'
    BY <1>act DEF Flushed, Live
  <1>5. /\ Live(t)' => revoked'[t] \/ InSeq(t, tasks) \/ \E c \in Stoppers : InSeq(t, clist[c])
        /\ notified'[t] /\ ~revoked'[t] => pending'[t] \/ run'[t] = "entered"
    BY <1>esc, <1>act DEF NoEscape, NoLostWake, Live
  <1>. QED
    BY <1>same, <1>act, <1>others, <1>rc, <1>1, <1>2, <1>3, <1>4, <1>5, TaskStep

\* An allocation of spawn_inner fails.
LEMMA SpawnNoMemoryStep ==
    ASSUME IInv, NEW t \in Tasks, SpawnNoMemory(t)
    PROVE  IInv'
  <1>inv. TypeOK
    BY Zenon DEF IInv
  <1>sp. \A s \in Tasks : SpawnOK(s)
    BY Zenon DEF IInv
  <1>fut. FutureOK(t)
    BY Zenon DEF IInv
  <1>flu. \A c \in Stoppers : Flushed(c, t)
    BY Zenon DEF IInv
  <1>esc. NoEscape /\ NoLostWake
    BY Zenon DEF IInv
  <1>t. /\ OwnReferences(t) \in Nat /\ rc[t] \in Nat /\ wakers[t] \in Nat
        /\ handle[t] \in BOOLEAN /\ pending[t] \in BOOLEAN
    BY <1>inv, ReferencesType DEF TypeOK
  <1>same. UNCHANGED <<stopped, tasks, cpc, clist, leaked, racing>>
    BY Zenon DEF SpawnNoMemory, cancelVars
  <1>act. /\ spawn[t] = "checked" /\ spawn'[t] = "failed" /\ revoked'[t] /\ dropped'[t]
          /\ UNCHANGED <<handle, pending, run, wakers, rc, notified>>
    BY <1>inv DEF SpawnNoMemory, TypeOK, workVars, futureVars, cancelVars
  <1>others. \A s \in Tasks \ {t} : Untouched(s)
    BY <1>inv DEF SpawnNoMemory, TypeOK, workVars, futureVars, cancelVars, Untouched
  <1>own. /\ OwnReferences(t)' \in Nat /\ rc' \in [Tasks -> Int]
          /\ rc'[t] = rc[t] + OwnReferences(t)' - OwnReferences(t)
    <2>1. OwnReferences(t)' = OwnReferences(t)
      BY <1>act DEF OwnReferences
    <2>. QED
      BY <2>1, <1>inv, <1>t, <1>act DEF TypeOK
  <1>rc. RcExact' /\ rc' \in [Tasks -> Nat]
    BY <1>same, <1>others, <1>own, CountFollows DEF Untouched
  <1>1. TypeOK'
    BY <1>inv, <1>same, <1>rc, ExecutorAssumption DEF SpawnNoMemory, TypeOK, workVars, futureVars, cancelVars
  <1>2. SpawnOK(t)'
    <2>1. /\ Parent[t] \in Tasks \cup {NoParent} /\ NoParent \notin Tasks
          /\ Parent[t] \in Tasks \ {t} => UNCHANGED <<spawn[Parent[t]], run[Parent[t]]>>
      BY <1>others, ExecutorAssumption DEF Untouched
    <2>. QED
      BY <2>1, <1>sp, <1>same, <1>act DEF SpawnOK, Spawning, Live
  <1>3. FutureOK(t)'
    <2>1. \A c \in Cancellers : ~Destroyer(c, t)
      BY <1>sp, <1>act, HeadInList DEF SpawnOK, Destroyer, Live
    <2>2. run'[t] = "idle" /\ wakers'[t] = 0
      BY <1>sp, <1>act DEF SpawnOK
    <2>. QED
      BY <2>1, <2>2, <1>same, <1>act DEF FutureOK, Destroyer
  <1>4. \A c \in Stoppers : Flushed(c, t)'
    BY <1>act DEF Flushed, Live
  <1>5. /\ Live(t)' => revoked'[t] \/ InSeq(t, tasks) \/ \E c \in Stoppers : InSeq(t, clist[c])
        /\ notified'[t] /\ ~revoked'[t] => pending'[t] \/ run'[t] = "entered"
    BY <1>esc, <1>act DEF NoEscape, NoLostWake, Live
  <1>. QED
    BY <1>same, <1>act, <1>others, <1>rc, <1>1, <1>2, <1>3, <1>4, <1>5, TaskStep

\* The first enqueue, and the return of the handle.
LEMMA SpawnEnqueueStep ==
    ASSUME IInv, NEW t \in Tasks, SpawnEnqueue(t)
    PROVE  IInv'
  <1>inv. TypeOK
    BY Zenon DEF IInv
  <1>sp. \A s \in Tasks : SpawnOK(s)
    BY Zenon DEF IInv
  <1>fut. FutureOK(t)
    BY Zenon DEF IInv
  <1>flu. \A c \in Stoppers : Flushed(c, t)
    BY Zenon DEF IInv
  <1>esc. NoEscape /\ NoLostWake
    BY Zenon DEF IInv
  <1>t. /\ OwnReferences(t) \in Nat /\ rc[t] \in Nat /\ wakers[t] \in Nat
        /\ handle[t] \in BOOLEAN /\ pending[t] \in BOOLEAN
    BY <1>inv, ReferencesType DEF TypeOK
  <1>same. UNCHANGED <<stopped, tasks, cpc, clist, leaked, racing>>
    BY Zenon DEF SpawnEnqueue, cancelVars
  <1>enq. /\ pending' \in [Tasks -> BOOLEAN] /\ rc' \in [Tasks -> Int]
          /\ \A s \in Tasks \ {t} : pending'[s] = pending[s] /\ rc'[s] = rc[s]
          /\ pending[t] => pending'[t]
          /\ pending'[t] \/ revoked[t]
          /\ \A c \in Cancellers : cpc[c] = "wait" /\ Head(clist[c]) = t => pending'[t] = pending[t]
          /\ rc'[t] = IF pending'[t] /\ ~pending[t] THEN rc[t] + 1 - 1 ELSE rc[t] - 1
    BY EnqueueOutcome, Zenon DEF SpawnEnqueue
  <1>act. /\ spawn[t] = "registered" /\ spawn'[t] = "done" /\ handle'[t] /\ notified'[t]
          /\ UNCHANGED <<run, wakers, revoked, dropped>>
    BY <1>inv, <1>enq DEF SpawnEnqueue, TypeOK, workVars, futureVars, cancelVars
  <1>others. \A s \in Tasks \ {t} : Untouched(s)
    BY <1>inv, <1>enq DEF SpawnEnqueue, TypeOK, workVars, futureVars, cancelVars, Untouched
  <1>own. /\ OwnReferences(t)' \in Nat /\ rc' \in [Tasks -> Int]
          /\ rc'[t] = rc[t] + OwnReferences(t)' - OwnReferences(t)
    <2>0. ~handle[t] /\ ~pending[t]
      BY <1>sp, <1>act DEF SpawnOK
    <2>1. /\ OneIf(handle[t]) = 0 /\ OneIf(handle[t])' = 1 /\ OneIf(pending[t]) = 0
          /\ OneIf(pending[t])' = IF pending'[t] THEN 1 ELSE 0
      BY <2>0, <1>act DEF OneIf
    <2>2. OwnReferences(t)' = OwnReferences(t) - (IF pending'[t] THEN 0 ELSE 1) /\ OwnReferences(t) >= 2
      BY <2>1, <1>t, <1>act DEF OwnReferences
    <2>. QED
      BY <2>0, <2>2, <1>t, <1>enq
  <1>rc. RcExact' /\ rc' \in [Tasks -> Nat]
    BY <1>same, <1>others, <1>own, CountFollows DEF Untouched
  <1>1. TypeOK'
    BY <1>inv, <1>same, <1>rc, <1>enq, ExecutorAssumption DEF SpawnEnqueue, TypeOK, workVars, futureVars, cancelVars
  <1>2. SpawnOK(t)'
    <2>1. /\ Parent[t] \in Tasks \cup {NoParent} /\ NoParent \notin Tasks
          /\ Parent[t] \in Tasks \ {t} => UNCHANGED <<spawn[Parent[t]], run[Parent[t]]>>
      BY <1>others, ExecutorAssumption DEF Untouched
    <2>. QED
      BY <2>1, <1>sp, <1>same, <1>act, <1>enq DEF SpawnOK, Spawning, Live
  <1>3. FutureOK(t)'
    BY <1>fut, <1>same, <1>act, FutureFrame
  <1>4. \A c \in Stoppers : Flushed(c, t)'
    BY <1>flu, <1>same, <1>act, <1>enq DEF Flushed, Alone, Live
  <1>5. /\ Live(t)' => revoked'[t] \/ InSeq(t, tasks) \/ \E c \in Stoppers : InSeq(t, clist[c])
        /\ notified'[t] /\ ~revoked'[t] => pending'[t] \/ run'[t] = "entered"
    BY <1>esc, <1>act, <1>enq DEF NoEscape, NoLostWake, Live
  <1>. QED
    BY <1>same, <1>act, <1>enq, <1>others, <1>rc, <1>1, <1>2, <1>3, <1>4, <1>5, TaskStep

\* The handle is dropped.
LEMMA DropHandleStep ==
    ASSUME IInv, NEW t \in Tasks, DropHandle(t)
    PROVE  IInv'
  <1>type. /\ handle \in [Tasks -> BOOLEAN]
           /\ rc \in [Tasks -> Nat]
    BY Zenon DEF IInv, TypeOK
  <1>same. /\ UNCHANGED <<stopped, tasks, spawn, cpc, clist, leaked, racing>>
           /\ UNCHANGED <<pending, run, wakers, revoked, dropped, notified>>
    BY Zenon DEF DropHandle, Release, spawnVars, workVars, futureVars, cancelVars
  <1>act. /\ handle[t] /\ ~handle'[t] /\ rc'[t] = rc[t] - 1
    BY <1>type DEF DropHandle, Release, spawnVars, workVars, futureVars, cancelVars
  <1>fun. /\ handle' \in [Tasks -> BOOLEAN]
          /\ rc' \in [Tasks -> Int]
    BY <1>type DEF DropHandle, Release
  <1>others. \A s \in Tasks \ {t} : Untouched(s)
    BY <1>type, <1>same DEF DropHandle, Release, Untouched
  <1>done. spawn[t] = "done" /\ SpawnOK(t)
    BY <1>act, SpawnDone, Zenon
  <1>fut. FutureOK(t)
    BY Zenon DEF IInv
  <1>flu. \A c \in Stoppers : Flushed(c, t)
    BY Zenon DEF IInv
  <1>t. /\ OwnReferences(t) \in Nat /\ rc[t] \in Nat /\ wakers[t] \in Nat /\ rc \in [Tasks -> Nat]
        /\ OneIf(handle[t]) \in Nat /\ OneIf(pending[t]) \in Nat
    BY ReferencesType DEF IInv, TypeOK, OneIf
  <1>own. /\ rc' \in [Tasks -> Int] /\ OwnReferences(t)' \in Nat
          /\ rc'[t] = rc[t] + OwnReferences(t)' - OwnReferences(t)
    <2>1. OneIf(handle[t]) = 1 /\ OneIf(handle[t])' = 0
      BY <1>act DEF OneIf
    <2>2. OwnReferences(t)' = OwnReferences(t) - 1 /\ OwnReferences(t) >= 1
      BY <2>1, <1>t, <1>same, <1>act DEF OwnReferences
    <2>. QED
      BY <2>2, <1>t, <1>same, <1>act, <1>fun
  <1>1. rc' \in [Tasks -> Nat] => TypeOK'
    BY <1>same, <1>fun, Zenon DEF IInv, TypeOK
  <1>2. FutureOK(t)'
    BY <1>fut, <1>same, <1>act, FutureFrame
  <1>3. \A c \in Stoppers : Flushed(c, t)'
    BY <1>flu, <1>fut, <1>same, <1>act DEF Flushed, Alone, Live, FutureOK
  <1>4. notified'[t] /\ ~revoked'[t] => pending'[t] \/ run'[t] = "entered"
    BY <1>same, <1>act, Zenon DEF IInv, NoLostWake
  <1>5. /\ revoked[t] => revoked'[t]
        /\ \A c \in Cancellers : cpc[c] = "wait" /\ Head(clist[c]) = t => (pending'[t] => pending[t])
        /\ run[t] = "polling" =>
              run'[t] = "polling" \/ \A s \in Tasks : Parent[s] = t => ~Spawning(s)
    BY <1>same, <1>act, Zenon
  <1>. QED
    BY <1>same, <1>done, <1>others, <1>own, <1>1, <1>2, <1>3, <1>4, <1>5, LiveStep, Zenon

\* A worker takes the item.
LEMMA DispatchStep ==
    ASSUME IInv, NEW t \in Tasks, Dispatch(t)
    PROVE  IInv'
  <1>type. /\ pending \in [Tasks -> BOOLEAN]
           /\ run \in [Tasks -> {"idle", "entered", "polling", "revoke", "destroy", "exit"}]
    BY Zenon DEF IInv, TypeOK
  <1>same. /\ UNCHANGED <<stopped, tasks, spawn, cpc, clist, leaked, racing>>
           /\ UNCHANGED <<handle, wakers, rc, revoked, dropped, notified>>
    BY Zenon DEF Dispatch, spawnVars, workVars, futureVars, cancelVars
  <1>act. /\ pending[t] /\ ~pending'[t] /\ run[t] = "idle" /\ run'[t] = "entered"
    BY <1>type DEF Dispatch, spawnVars, workVars, futureVars, cancelVars
  <1>fun. /\ pending' \in [Tasks -> BOOLEAN]
          /\ run' \in [Tasks -> {"idle", "entered", "polling", "revoke", "destroy", "exit"}]
    BY <1>type DEF Dispatch
  <1>others. \A s \in Tasks \ {t} : Untouched(s)
    BY <1>type, <1>same DEF Dispatch, Untouched
  <1>done. spawn[t] = "done" /\ SpawnOK(t)
    BY <1>act, SpawnDone, Zenon
  <1>fut. FutureOK(t)
    BY Zenon DEF IInv
  <1>flu. \A c \in Stoppers : Flushed(c, t)
    BY Zenon DEF IInv
  <1>t. /\ OwnReferences(t) \in Nat /\ rc[t] \in Nat /\ wakers[t] \in Nat /\ rc \in [Tasks -> Nat]
        /\ OneIf(handle[t]) \in Nat /\ OneIf(pending[t]) \in Nat
    BY ReferencesType DEF IInv, TypeOK, OneIf
  <1>own. /\ rc' \in [Tasks -> Int] /\ OwnReferences(t)' \in Nat
          /\ rc'[t] = rc[t] + OwnReferences(t)' - OwnReferences(t)
    <2>1. OneIf(pending[t]) = 1 /\ OneIf(pending[t])' = 0
      BY <1>act DEF OneIf
    <2>2. OwnReferences(t)' = OwnReferences(t)
      BY <2>1, <1>t, <1>same, <1>act DEF OwnReferences
    <2>. QED
      BY <2>2, <1>t, <1>same, <1>act, <1>fun
  <1>1. rc' \in [Tasks -> Nat] => TypeOK'
    BY <1>same, <1>fun, Zenon DEF IInv, TypeOK
  <1>2. FutureOK(t)'
    BY <1>fut, <1>same, <1>act, FutureFrame
  <1>3. \A c \in Stoppers : Flushed(c, t)'
    BY <1>flu, <1>fut, <1>same, <1>act DEF Flushed, Alone, Live, FutureOK
  <1>4. notified'[t] /\ ~revoked'[t] => pending'[t] \/ run'[t] = "entered"
    BY <1>same, <1>act, Zenon DEF IInv, NoLostWake
  <1>5. /\ revoked[t] => revoked'[t]
        /\ \A c \in Cancellers : cpc[c] = "wait" /\ Head(clist[c]) = t => (pending'[t] => pending[t])
        /\ run[t] = "polling" =>
              run'[t] = "polling" \/ \A s \in Tasks : Parent[s] = t => ~Spawning(s)
    BY <1>same, <1>act, Zenon
  <1>. QED
    BY <1>same, <1>done, <1>others, <1>own, <1>1, <1>2, <1>3, <1>4, <1>5, LiveStep, Zenon

\* The worker asks the AsyncRevocable for the future.
LEMMA TryAccessStep ==
    ASSUME IInv, NEW t \in Tasks, TryAccess(t)
    PROVE  IInv'
  <1>type. /\ run \in [Tasks -> {"idle", "entered", "polling", "revoke", "destroy", "exit"}]
           /\ rc \in [Tasks -> Nat]
           /\ notified \in [Tasks -> BOOLEAN]
    BY Zenon DEF IInv, TypeOK
  <1>same. /\ UNCHANGED <<stopped, tasks, spawn, cpc, clist, leaked, racing>>
           /\ UNCHANGED <<handle, pending, wakers, revoked, dropped>>
    BY Zenon DEF TryAccess, Release, spawnVars, workVars, futureVars, cancelVars
  <1>act. /\ run[t] = "entered"
          /\ revoked[t] => run'[t] = "idle" /\ rc'[t] = rc[t] - 1
          /\ ~revoked[t] => run'[t] = "polling" /\ rc'[t] = rc[t] + 1 /\ ~notified'[t]
    BY <1>type DEF TryAccess, Release, spawnVars, workVars, futureVars, cancelVars
  <1>fun. /\ run' \in [Tasks -> {"idle", "entered", "polling", "revoke", "destroy", "exit"}]
          /\ rc' \in [Tasks -> Int]
          /\ notified' \in [Tasks -> BOOLEAN]
    <2>1. CASE revoked[t]
      BY <1>type, <2>1 DEF TryAccess, Release
    <2>2. CASE ~revoked[t]
      <3>1. /\ run' = [run EXCEPT ![t] = "polling"] /\ rc' = [rc EXCEPT ![t] = @ + 1]
            /\ notified' = [notified EXCEPT ![t] = FALSE]
        BY <2>2, Zenon DEF TryAccess
      <3>. QED
        BY <3>1, <1>type
    <2>. QED
      BY <2>1, <2>2
  <1>others. \A s \in Tasks \ {t} : Untouched(s)
    BY <1>type, <1>same DEF TryAccess, Release, Untouched
  <1>done. spawn[t] = "done" /\ SpawnOK(t)
    BY <1>act, SpawnDone, Zenon
  <1>fut. FutureOK(t)
    BY Zenon DEF IInv
  <1>flu. \A c \in Stoppers : Flushed(c, t)
    BY Zenon DEF IInv
  <1>t. /\ OwnReferences(t) \in Nat /\ rc[t] \in Nat /\ wakers[t] \in Nat /\ rc \in [Tasks -> Nat]
        /\ OneIf(handle[t]) \in Nat /\ OneIf(pending[t]) \in Nat
    BY ReferencesType DEF IInv, TypeOK, OneIf
  <1>own. /\ rc' \in [Tasks -> Int] /\ OwnReferences(t)' \in Nat
          /\ rc'[t] = rc[t] + OwnReferences(t)' - OwnReferences(t)
    <2>2. /\ OwnReferences(t) >= 1
          /\ OwnReferences(t)' = IF revoked[t] THEN OwnReferences(t) - 1 ELSE OwnReferences(t) + 1
      BY <1>t, <1>same, <1>act DEF OwnReferences
    <2>. QED
      BY <2>2, <1>t, <1>same, <1>act, <1>fun
  <1>1. rc' \in [Tasks -> Nat] => TypeOK'
    BY <1>same, <1>fun, Zenon DEF IInv, TypeOK
  <1>2. FutureOK(t)'
    <2>1. \A c \in Cancellers : Destroyer(c, t) => revoked[t]
      BY DEF IInv, CancelOK, Destroyer
    <2>2. \A c \in Cancellers : Destroyer(c, t)' <=> Destroyer(c, t)
      BY <1>same DEF Destroyer
    <2>. QED
      BY <2>1, <2>2, <1>fut, <1>same, <1>act, Zenon DEF FutureOK
  <1>3. \A c \in Stoppers : Flushed(c, t)'
    BY <1>flu, <1>fut, <1>same, <1>act DEF Flushed, Alone, Live, FutureOK
  <1>4. notified'[t] /\ ~revoked'[t] => pending'[t] \/ run'[t] = "entered"
    BY <1>same, <1>act, Zenon DEF IInv, NoLostWake
  <1>5. /\ revoked[t] => revoked'[t]
        /\ \A c \in Cancellers : cpc[c] = "wait" /\ Head(clist[c]) = t => (pending'[t] => pending[t])
        /\ run[t] = "polling" =>
              run'[t] = "polling" \/ \A s \in Tasks : Parent[s] = t => ~Spawning(s)
    BY <1>same, <1>act, Zenon
  <1>. QED
    BY <1>same, <1>done, <1>others, <1>own, <1>1, <1>2, <1>3, <1>4, <1>5, LiveStep, Zenon

\* The poll keeps a clone of its waker.
LEMMA CloneWakerStep ==
    ASSUME IInv, NEW t \in Tasks, CloneWaker(t)
    PROVE  IInv'
  <1>type. /\ wakers \in [Tasks -> 0 .. MaxWakers]
           /\ rc \in [Tasks -> Nat]
    BY Zenon DEF IInv, TypeOK
  <1>same. /\ UNCHANGED <<stopped, tasks, spawn, cpc, clist, leaked, racing>>
           /\ UNCHANGED <<handle, pending, run, revoked, dropped, notified>>
    BY Zenon DEF CloneWaker, spawnVars, workVars, futureVars, cancelVars
  <1>act. /\ run[t] = "polling" /\ wakers'[t] = wakers[t] + 1 /\ rc'[t] = rc[t] + 1
    BY <1>type, ExecutorAssumption DEF CloneWaker, spawnVars, workVars, futureVars, cancelVars
  <1>fun. /\ wakers' \in [Tasks -> 0 .. MaxWakers]
          /\ rc' \in [Tasks -> Int]
    BY <1>type, ExecutorAssumption DEF CloneWaker
  <1>others. \A s \in Tasks \ {t} : Untouched(s)
    BY <1>type, <1>same DEF CloneWaker, Untouched
  <1>done. spawn[t] = "done" /\ SpawnOK(t)
    BY <1>act, SpawnDone, Zenon
  <1>fut. FutureOK(t)
    BY Zenon DEF IInv
  <1>flu. \A c \in Stoppers : Flushed(c, t)
    BY Zenon DEF IInv
  <1>t. /\ OwnReferences(t) \in Nat /\ rc[t] \in Nat /\ wakers[t] \in Nat /\ rc \in [Tasks -> Nat]
        /\ OneIf(handle[t]) \in Nat /\ OneIf(pending[t]) \in Nat
    BY ReferencesType DEF IInv, TypeOK, OneIf
  <1>own. /\ rc' \in [Tasks -> Int] /\ OwnReferences(t)' \in Nat
          /\ rc'[t] = rc[t] + OwnReferences(t)' - OwnReferences(t)
    <2>2. OwnReferences(t)' = OwnReferences(t) + 1
      BY <1>t, <1>same, <1>act DEF OwnReferences
    <2>. QED
      BY <2>2, <1>t, <1>same, <1>act, <1>fun
  <1>1. rc' \in [Tasks -> Nat] => TypeOK'
    BY <1>same, <1>fun, Zenon DEF IInv, TypeOK
  <1>2. FutureOK(t)'
    BY <1>fut, <1>same, <1>act DEF FutureOK, Destroyer
  <1>3. \A c \in Stoppers : Flushed(c, t)'
    BY <1>flu, <1>fut, <1>same, <1>act DEF Flushed, Alone, Live, FutureOK
  <1>4. notified'[t] /\ ~revoked'[t] => pending'[t] \/ run'[t] = "entered"
    BY <1>same, <1>act, Zenon DEF IInv, NoLostWake
  <1>5. /\ revoked[t] => revoked'[t]
        /\ \A c \in Cancellers : cpc[c] = "wait" /\ Head(clist[c]) = t => (pending'[t] => pending[t])
        /\ run[t] = "polling" =>
              run'[t] = "polling" \/ \A s \in Tasks : Parent[s] = t => ~Spawning(s)
    BY <1>same, <1>act, Zenon
  <1>. QED
    BY <1>same, <1>done, <1>others, <1>own, <1>1, <1>2, <1>3, <1>4, <1>5, LiveStep, Zenon

\* The poll returns.
LEMMA PollReturnsStep ==
    ASSUME IInv, NEW t \in Tasks, NEW result \in {"pending", "ready"}, PollReturns(t, result)
    PROVE  IInv'
  <1>type. /\ run \in [Tasks -> {"idle", "entered", "polling", "revoke", "destroy", "exit"}]
    BY Zenon DEF IInv, TypeOK
  <1>same. /\ UNCHANGED <<stopped, tasks, spawn, cpc, clist, leaked, racing>>
           /\ UNCHANGED <<handle, pending, wakers, rc, revoked, dropped, notified>>
    BY Zenon DEF PollReturns, spawnVars, workVars, futureVars, cancelVars
  <1>act. /\ run[t] = "polling" /\ run'[t] \in {"destroy", "revoke", "exit"}
          /\ run'[t] = "destroy" <=> revoked[t]
          /\ \A s \in Tasks : Parent[s] = t => ~Spawning(s)
    BY <1>type DEF PollReturns, spawnVars, workVars, futureVars, cancelVars
  <1>fun. /\ run' \in [Tasks -> {"idle", "entered", "polling", "revoke", "destroy", "exit"}]
    BY <1>type DEF PollReturns
  <1>others. \A s \in Tasks \ {t} : Untouched(s)
    BY <1>type, <1>same DEF PollReturns, Untouched
  <1>done. spawn[t] = "done" /\ SpawnOK(t)
    BY <1>act, SpawnDone, Zenon
  <1>fut. FutureOK(t)
    BY Zenon DEF IInv
  <1>flu. \A c \in Stoppers : Flushed(c, t)
    BY Zenon DEF IInv
  <1>t. /\ OwnReferences(t) \in Nat /\ rc[t] \in Nat /\ wakers[t] \in Nat /\ rc \in [Tasks -> Nat]
        /\ OneIf(handle[t]) \in Nat /\ OneIf(pending[t]) \in Nat
    BY ReferencesType DEF IInv, TypeOK, OneIf
  <1>own. /\ rc' \in [Tasks -> Int] /\ OwnReferences(t)' \in Nat
          /\ rc'[t] = rc[t] + OwnReferences(t)' - OwnReferences(t)
    <2>2. OwnReferences(t)' = OwnReferences(t)
      BY <1>t, <1>same, <1>act DEF OwnReferences
    <2>. QED
      BY <2>2, <1>t, <1>same, <1>act, <1>fun
  <1>1. rc' \in [Tasks -> Nat] => TypeOK'
    BY <1>same, <1>fun, Zenon DEF IInv, TypeOK
  <1>2. FutureOK(t)'
    BY <1>fut, <1>same, <1>act DEF FutureOK, Destroyer
  <1>3. \A c \in Stoppers : Flushed(c, t)'
    BY <1>flu, <1>fut, <1>same, <1>act DEF Flushed, Alone, Live, FutureOK
  <1>4. notified'[t] /\ ~revoked'[t] => pending'[t] \/ run'[t] = "entered"
    BY <1>same, <1>act, Zenon DEF IInv, NoLostWake
  <1>5. /\ revoked[t] => revoked'[t]
        /\ \A c \in Cancellers : cpc[c] = "wait" /\ Head(clist[c]) = t => (pending'[t] => pending[t])
        /\ run[t] = "polling" =>
              run'[t] = "polling" \/ \A s \in Tasks : Parent[s] = t => ~Spawning(s)
    BY <1>same, <1>act, Zenon
  <1>. QED
    BY <1>same, <1>done, <1>others, <1>own, <1>1, <1>2, <1>3, <1>4, <1>5, LiveStep, Zenon

\* A task that is ready revokes itself.
LEMMA RunRevokeStep ==
    ASSUME IInv, NEW t \in Tasks, RunRevoke(t)
    PROVE  IInv'
  <1>type. /\ run \in [Tasks -> {"idle", "entered", "polling", "revoke", "destroy", "exit"}]
           /\ revoked \in [Tasks -> BOOLEAN]
    BY Zenon DEF IInv, TypeOK
  <1>same. /\ UNCHANGED <<stopped, tasks, spawn, cpc, clist, leaked, racing>>
           /\ UNCHANGED <<handle, pending, wakers, rc, dropped, notified>>
    BY Zenon DEF RunRevoke, spawnVars, workVars, futureVars, cancelVars
  <1>act. /\ run[t] = "revoke" /\ revoked'[t] /\ run'[t] \in {"exit", "destroy"}
          /\ revoked[t] <=> run'[t] = "exit"
    BY <1>type DEF RunRevoke, spawnVars, workVars, futureVars, cancelVars
  <1>fun. /\ run' \in [Tasks -> {"idle", "entered", "polling", "revoke", "destroy", "exit"}]
          /\ revoked' \in [Tasks -> BOOLEAN]
    BY <1>type DEF RunRevoke
  <1>others. \A s \in Tasks \ {t} : Untouched(s)
    BY <1>type, <1>same DEF RunRevoke, Untouched
  <1>done. spawn[t] = "done" /\ SpawnOK(t)
    BY <1>act, SpawnDone, Zenon
  <1>fut. FutureOK(t)
    BY Zenon DEF IInv
  <1>flu. \A c \in Stoppers : Flushed(c, t)
    BY Zenon DEF IInv
  <1>t. /\ OwnReferences(t) \in Nat /\ rc[t] \in Nat /\ wakers[t] \in Nat /\ rc \in [Tasks -> Nat]
        /\ OneIf(handle[t]) \in Nat /\ OneIf(pending[t]) \in Nat
    BY ReferencesType DEF IInv, TypeOK, OneIf
  <1>own. /\ rc' \in [Tasks -> Int] /\ OwnReferences(t)' \in Nat
          /\ rc'[t] = rc[t] + OwnReferences(t)' - OwnReferences(t)
    <2>2. OwnReferences(t)' = OwnReferences(t)
      BY <1>t, <1>same, <1>act DEF OwnReferences
    <2>. QED
      BY <2>2, <1>t, <1>same, <1>act, <1>fun
  <1>1. rc' \in [Tasks -> Nat] => TypeOK'
    BY <1>same, <1>fun, Zenon DEF IInv, TypeOK
  <1>2. FutureOK(t)'
    <2>1. \A c \in Cancellers : Destroyer(c, t) => revoked[t]
      BY DEF IInv, CancelOK, Destroyer
    <2>2. \A c \in Cancellers : Destroyer(c, t)' <=> Destroyer(c, t)
      BY <1>same DEF Destroyer
    <2>. QED
      BY <2>1, <2>2, <1>fut, <1>same, <1>act, Zenon DEF FutureOK
  <1>3. \A c \in Stoppers : Flushed(c, t)'
    BY <1>flu, <1>fut, <1>same, <1>act DEF Flushed, Alone, Live, FutureOK
  <1>4. notified'[t] /\ ~revoked'[t] => pending'[t] \/ run'[t] = "entered"
    BY <1>same, <1>act, Zenon DEF IInv, NoLostWake
  <1>5. /\ revoked[t] => revoked'[t]
        /\ \A c \in Cancellers : cpc[c] = "wait" /\ Head(clist[c]) = t => (pending'[t] => pending[t])
        /\ run[t] = "polling" =>
              run'[t] = "polling" \/ \A s \in Tasks : Parent[s] = t => ~Spawning(s)
    BY <1>same, <1>act, Zenon
  <1>. QED
    BY <1>same, <1>done, <1>others, <1>own, <1>1, <1>2, <1>3, <1>4, <1>5, LiveStep, Zenon

\* The worker destroys the future.
LEMMA RunDestroyStep ==
    ASSUME IInv, NEW t \in Tasks, RunDestroy(t)
    PROVE  IInv'
  <1>type. /\ run \in [Tasks -> {"idle", "entered", "polling", "revoke", "destroy", "exit"}]
           /\ wakers \in [Tasks -> 0 .. MaxWakers]
           /\ rc \in [Tasks -> Nat]
           /\ dropped \in [Tasks -> BOOLEAN]
    BY Zenon DEF IInv, TypeOK
  <1>same. /\ UNCHANGED <<stopped, tasks, spawn, cpc, clist, leaked, racing>>
           /\ UNCHANGED <<handle, pending, revoked, notified>>
    BY Zenon DEF RunDestroy, Destroy, spawnVars, workVars, futureVars, cancelVars
  <1>act. /\ run[t] = "destroy" /\ run'[t] = "exit" /\ dropped'[t]
          /\ t \in Outliving => wakers'[t] = wakers[t] /\ rc'[t] = rc[t]
          /\ t \notin Outliving => wakers'[t] = 0 /\ rc'[t] = rc[t] - wakers[t]
    BY <1>type, ExecutorAssumption DEF RunDestroy, Destroy, spawnVars, workVars, futureVars, cancelVars
  <1>fun. /\ run' \in [Tasks -> {"idle", "entered", "polling", "revoke", "destroy", "exit"}]
          /\ wakers' \in [Tasks -> 0 .. MaxWakers]
          /\ rc' \in [Tasks -> Int]
          /\ dropped' \in [Tasks -> BOOLEAN]
    BY <1>type, ExecutorAssumption DEF RunDestroy, Destroy
  <1>others. \A s \in Tasks \ {t} : Untouched(s)
    BY <1>type, <1>same DEF RunDestroy, Destroy, Untouched
  <1>done. spawn[t] = "done" /\ SpawnOK(t)
    BY <1>act, SpawnDone, Zenon
  <1>fut. FutureOK(t)
    BY Zenon DEF IInv
  <1>flu. \A c \in Stoppers : Flushed(c, t)
    BY Zenon DEF IInv
  <1>t. /\ OwnReferences(t) \in Nat /\ rc[t] \in Nat /\ wakers[t] \in Nat /\ rc \in [Tasks -> Nat]
        /\ OneIf(handle[t]) \in Nat /\ OneIf(pending[t]) \in Nat
    BY ReferencesType DEF IInv, TypeOK, OneIf
  <1>own. /\ rc' \in [Tasks -> Int] /\ OwnReferences(t)' \in Nat
          /\ rc'[t] = rc[t] + OwnReferences(t)' - OwnReferences(t)
    <2>2. /\ OwnReferences(t) >= wakers[t]
          /\ OwnReferences(t)' = OwnReferences(t) - (IF t \in Outliving THEN 0 ELSE wakers[t])
      BY <1>t, <1>same, <1>act DEF OwnReferences
    <2>. QED
      BY <2>2, <1>t, <1>same, <1>act, <1>fun
  <1>1. rc' \in [Tasks -> Nat] => TypeOK'
    BY <1>same, <1>fun, Zenon DEF IInv, TypeOK
  <1>2. FutureOK(t)'
    BY <1>fut, <1>same, <1>act DEF FutureOK, Destroyer
  <1>3. \A c \in Stoppers : Flushed(c, t)'
    BY <1>flu, <1>fut, <1>same, <1>act DEF Flushed, Alone, Live, FutureOK
  <1>4. notified'[t] /\ ~revoked'[t] => pending'[t] \/ run'[t] = "entered"
    BY <1>same, <1>act, Zenon DEF IInv, NoLostWake
  <1>5. /\ revoked[t] => revoked'[t]
        /\ \A c \in Cancellers : cpc[c] = "wait" /\ Head(clist[c]) = t => (pending'[t] => pending[t])
        /\ run[t] = "polling" =>
              run'[t] = "polling" \/ \A s \in Tasks : Parent[s] = t => ~Spawning(s)
    BY <1>same, <1>act, Zenon
  <1>. QED
    BY <1>same, <1>done, <1>others, <1>own, <1>1, <1>2, <1>3, <1>4, <1>5, LiveStep, Zenon

\* The worker leaves Task::run.
LEMMA RunExitStep ==
    ASSUME IInv, NEW t \in Tasks, RunExit(t)
    PROVE  IInv'
  <1>type. /\ run \in [Tasks -> {"idle", "entered", "polling", "revoke", "destroy", "exit"}]
           /\ rc \in [Tasks -> Nat]
    BY Zenon DEF IInv, TypeOK
  <1>same. /\ UNCHANGED <<stopped, tasks, spawn, cpc, clist, leaked, racing>>
           /\ UNCHANGED <<handle, pending, wakers, revoked, dropped, notified>>
    BY Zenon DEF RunExit, Release, spawnVars, workVars, futureVars, cancelVars
  <1>act. /\ run[t] = "exit" /\ run'[t] = "idle" /\ rc'[t] = rc[t] - 2
    BY <1>type DEF RunExit, Release, spawnVars, workVars, futureVars, cancelVars
  <1>fun. /\ run' \in [Tasks -> {"idle", "entered", "polling", "revoke", "destroy", "exit"}]
          /\ rc' \in [Tasks -> Int]
    BY <1>type DEF RunExit, Release
  <1>others. \A s \in Tasks \ {t} : Untouched(s)
    BY <1>type, <1>same DEF RunExit, Release, Untouched
  <1>done. spawn[t] = "done" /\ SpawnOK(t)
    BY <1>act, SpawnDone, Zenon
  <1>fut. FutureOK(t)
    BY Zenon DEF IInv
  <1>flu. \A c \in Stoppers : Flushed(c, t)
    BY Zenon DEF IInv
  <1>t. /\ OwnReferences(t) \in Nat /\ rc[t] \in Nat /\ wakers[t] \in Nat /\ rc \in [Tasks -> Nat]
        /\ OneIf(handle[t]) \in Nat /\ OneIf(pending[t]) \in Nat
    BY ReferencesType DEF IInv, TypeOK, OneIf
  <1>own. /\ rc' \in [Tasks -> Int] /\ OwnReferences(t)' \in Nat
          /\ rc'[t] = rc[t] + OwnReferences(t)' - OwnReferences(t)
    <2>2. OwnReferences(t) >= 2 /\ OwnReferences(t)' = OwnReferences(t) - 2
      BY <1>t, <1>same, <1>act DEF OwnReferences
    <2>. QED
      BY <2>2, <1>t, <1>same, <1>act, <1>fun
  <1>1. rc' \in [Tasks -> Nat] => TypeOK'
    BY <1>same, <1>fun, Zenon DEF IInv, TypeOK
  <1>2. FutureOK(t)'
    BY <1>fut, <1>same, <1>act, FutureFrame
  <1>3. \A c \in Stoppers : Flushed(c, t)'
    BY <1>flu, <1>fut, <1>same, <1>act DEF Flushed, Alone, Live, FutureOK
  <1>4. notified'[t] /\ ~revoked'[t] => pending'[t] \/ run'[t] = "entered"
    BY <1>same, <1>act, Zenon DEF IInv, NoLostWake
  <1>5. /\ revoked[t] => revoked'[t]
        /\ \A c \in Cancellers : cpc[c] = "wait" /\ Head(clist[c]) = t => (pending'[t] => pending[t])
        /\ run[t] = "polling" =>
              run'[t] = "polling" \/ \A s \in Tasks : Parent[s] = t => ~Spawning(s)
    BY <1>same, <1>act, Zenon
  <1>. QED
    BY <1>same, <1>done, <1>others, <1>own, <1>1, <1>2, <1>3, <1>4, <1>5, LiveStep, Zenon

\* A clone of the waker is consumed.
LEMMA WakeStep ==
    ASSUME IInv, NEW t \in Tasks, Wake(t)
    PROVE  IInv'
  <1>type. /\ pending \in [Tasks -> BOOLEAN]
           /\ wakers \in [Tasks -> 0 .. MaxWakers]
           /\ rc \in [Tasks -> Nat]
           /\ notified \in [Tasks -> BOOLEAN]
    BY Zenon DEF IInv, TypeOK
  <1>same. /\ UNCHANGED <<stopped, tasks, spawn, cpc, clist, leaked, racing>>
           /\ UNCHANGED <<handle, run, revoked, dropped>>
    BY Zenon DEF Wake, spawnVars, workVars, futureVars, cancelVars
  <1>enq. /\ pending' \in [Tasks -> BOOLEAN] /\ rc' \in [Tasks -> Int]
          /\ \A s \in Tasks \ {t} : pending'[s] = pending[s] /\ rc'[s] = rc[s]
          /\ pending[t] => pending'[t]
          /\ pending'[t] \/ revoked[t]
          /\ \A c \in Cancellers : cpc[c] = "wait" /\ Head(clist[c]) = t => pending'[t] = pending[t]
          /\ rc'[t] = IF pending'[t] /\ ~pending[t] THEN rc[t] + 1 - 1 ELSE rc[t] - 1
    BY EnqueueOutcome, Zenon DEF Wake
  <1>act. /\ wakers[t] # 0 /\ wakers[t] \in Nat /\ wakers'[t] = wakers[t] - 1
    BY <1>type, ExecutorAssumption DEF Wake, spawnVars, workVars, futureVars, cancelVars
  <1>fun. /\ wakers' \in [Tasks -> 0 .. MaxWakers]
          /\ notified' \in [Tasks -> BOOLEAN]
    BY <1>type, ExecutorAssumption DEF Wake
  <1>others. \A s \in Tasks \ {t} : Untouched(s)
    BY <1>type, <1>same, <1>enq DEF Wake, Untouched
  <1>done. spawn[t] = "done" /\ SpawnOK(t)
    BY <1>act, SpawnDone, Zenon
  <1>fut. FutureOK(t)
    BY Zenon DEF IInv
  <1>flu. \A c \in Stoppers : Flushed(c, t)
    BY Zenon DEF IInv
  <1>t. /\ OwnReferences(t) \in Nat /\ rc[t] \in Nat /\ wakers[t] \in Nat /\ rc \in [Tasks -> Nat]
        /\ OneIf(handle[t]) \in Nat /\ OneIf(pending[t]) \in Nat
    BY ReferencesType DEF IInv, TypeOK, OneIf
  <1>one. OwnReferences(t) >= 1
    BY <1>t, <1>act DEF OwnReferences
  <1>own. /\ rc' \in [Tasks -> Int] /\ OwnReferences(t)' \in Nat
          /\ rc'[t] = rc[t] + OwnReferences(t)' - OwnReferences(t)
    <2>1. CASE pending'[t] /\ ~pending[t]
      <3>1. OneIf(pending[t])' = 1 /\ OneIf(pending[t]) = 0
        BY <2>1 DEF OneIf
      <3>2. OwnReferences(t)' = OwnReferences(t)
        BY <3>1, <1>t, <1>same, <1>act DEF OwnReferences
      <3>. QED
        BY <2>1, <3>2, <1>t, <1>enq
    <2>2. CASE ~(pending'[t] /\ ~pending[t])
      <3>1. OneIf(pending[t])' = OneIf(pending[t])
        BY <2>2, <1>enq DEF OneIf
      <3>2. OwnReferences(t)' = OwnReferences(t) - 1
        BY <3>1, <1>t, <1>same, <1>act DEF OwnReferences
      <3>. QED
        BY <2>2, <3>2, <1>one, <1>t, <1>enq
    <2>. QED
      BY <2>1, <2>2
  <1>1. rc' \in [Tasks -> Nat] => TypeOK'
    BY <1>same, <1>fun, <1>enq, Zenon DEF IInv, TypeOK
  <1>2. FutureOK(t)'
    BY <1>fut, <1>same, <1>act, FutureFrame
  <1>3. \A c \in Stoppers : Flushed(c, t)'
    BY <1>flu, <1>fut, <1>same, <1>act, <1>enq DEF Flushed, Alone, Live, FutureOK
  <1>4. notified'[t] /\ ~revoked'[t] => pending'[t] \/ run'[t] = "entered"
    BY <1>same, <1>act, <1>enq, Zenon DEF IInv, NoLostWake
  <1>5. /\ revoked[t] => revoked'[t]
        /\ \A c \in Cancellers : cpc[c] = "wait" /\ Head(clist[c]) = t => (pending'[t] => pending[t])
        /\ run[t] = "polling" =>
              run'[t] = "polling" \/ \A s \in Tasks : Parent[s] = t => ~Spawning(s)
    BY <1>same, <1>act, <1>enq, Zenon
  <1>. QED
    BY <1>same, <1>done, <1>others, <1>own, <1>1, <1>2, <1>3, <1>4, <1>5, LiveStep, Zenon

\* A clone of the waker, or the poll's own, is woken by reference.
LEMMA WakeByRefStep ==
    ASSUME IInv, NEW t \in Tasks, WakeByRef(t)
    PROVE  IInv'
  <1>type. /\ pending \in [Tasks -> BOOLEAN]
           /\ rc \in [Tasks -> Nat]
           /\ notified \in [Tasks -> BOOLEAN]
    BY Zenon DEF IInv, TypeOK
  <1>same. /\ UNCHANGED <<stopped, tasks, spawn, cpc, clist, leaked, racing>>
           /\ UNCHANGED <<handle, run, wakers, revoked, dropped>>
    BY Zenon DEF WakeByRef, spawnVars, workVars, futureVars, cancelVars
  <1>enq. /\ pending' \in [Tasks -> BOOLEAN] /\ rc' \in [Tasks -> Int]
          /\ \A s \in Tasks \ {t} : pending'[s] = pending[s] /\ rc'[s] = rc[s]
          /\ pending[t] => pending'[t]
          /\ pending'[t] \/ revoked[t]
          /\ \A c \in Cancellers : cpc[c] = "wait" /\ Head(clist[c]) = t => pending'[t] = pending[t]
          /\ rc'[t] = IF pending'[t] /\ ~pending[t] THEN rc[t] + 1 - 0 ELSE rc[t] - 0
    BY EnqueueOutcome, Zenon DEF WakeByRef
  <1>act. wakers[t] # 0 \/ run[t] = "polling"
    BY <1>type DEF WakeByRef, spawnVars, workVars, futureVars, cancelVars
  <1>fun. /\ notified' \in [Tasks -> BOOLEAN]
    BY <1>type DEF WakeByRef
  <1>others. \A s \in Tasks \ {t} : Untouched(s)
    BY <1>type, <1>same, <1>enq DEF WakeByRef, Untouched
  <1>done. spawn[t] = "done" /\ SpawnOK(t)
    BY <1>act, SpawnDone, Zenon
  <1>fut. FutureOK(t)
    BY Zenon DEF IInv
  <1>flu. \A c \in Stoppers : Flushed(c, t)
    BY Zenon DEF IInv
  <1>t. /\ OwnReferences(t) \in Nat /\ rc[t] \in Nat /\ wakers[t] \in Nat /\ rc \in [Tasks -> Nat]
        /\ OneIf(handle[t]) \in Nat /\ OneIf(pending[t]) \in Nat
    BY ReferencesType DEF IInv, TypeOK, OneIf
  <1>own. /\ rc' \in [Tasks -> Int] /\ OwnReferences(t)' \in Nat
          /\ rc'[t] = rc[t] + OwnReferences(t)' - OwnReferences(t)
    <2>1. CASE pending'[t] /\ ~pending[t]
      <3>1. OneIf(pending[t])' = 1 /\ OneIf(pending[t]) = 0
        BY <2>1 DEF OneIf
      <3>2. OwnReferences(t)' = OwnReferences(t) + 1
        BY <3>1, <1>t, <1>same, <1>act DEF OwnReferences
      <3>. QED
        BY <2>1, <3>2, <1>t, <1>enq
    <2>2. CASE ~(pending'[t] /\ ~pending[t])
      <3>1. OneIf(pending[t])' = OneIf(pending[t])
        BY <2>2, <1>enq DEF OneIf
      <3>2. OwnReferences(t)' = OwnReferences(t)
        BY <3>1, <1>t, <1>same, <1>act DEF OwnReferences
      <3>. QED
        BY <2>2, <3>2, <1>t, <1>enq
    <2>. QED
      BY <2>1, <2>2
  <1>1. rc' \in [Tasks -> Nat] => TypeOK'
    BY <1>same, <1>fun, <1>enq, Zenon DEF IInv, TypeOK
  <1>2. FutureOK(t)'
    BY <1>fut, <1>same, <1>act, FutureFrame
  <1>3. \A c \in Stoppers : Flushed(c, t)'
    BY <1>flu, <1>fut, <1>same, <1>act, <1>enq DEF Flushed, Alone, Live, FutureOK
  <1>4. notified'[t] /\ ~revoked'[t] => pending'[t] \/ run'[t] = "entered"
    BY <1>same, <1>act, <1>enq, Zenon DEF IInv, NoLostWake
  <1>5. /\ revoked[t] => revoked'[t]
        /\ \A c \in Cancellers : cpc[c] = "wait" /\ Head(clist[c]) = t => (pending'[t] => pending[t])
        /\ run[t] = "polling" =>
              run'[t] = "polling" \/ \A s \in Tasks : Parent[s] = t => ~Spawning(s)
    BY <1>same, <1>act, <1>enq, Zenon
  <1>. QED
    BY <1>same, <1>done, <1>others, <1>own, <1>1, <1>2, <1>3, <1>4, <1>5, LiveStep, Zenon

\* A clone of the waker is dropped.
LEMMA DropWakerStep ==
    ASSUME IInv, NEW t \in Tasks, DropWaker(t)
    PROVE  IInv'
  <1>type. /\ wakers \in [Tasks -> 0 .. MaxWakers]
           /\ rc \in [Tasks -> Nat]
    BY Zenon DEF IInv, TypeOK
  <1>same. /\ UNCHANGED <<stopped, tasks, spawn, cpc, clist, leaked, racing>>
           /\ UNCHANGED <<handle, pending, run, revoked, dropped, notified>>
    BY Zenon DEF DropWaker, Release, spawnVars, workVars, futureVars, cancelVars
  <1>act. /\ wakers[t] # 0 /\ wakers[t] \in Nat /\ wakers'[t] = wakers[t] - 1 /\ rc'[t] = rc[t] - 1
    BY <1>type, ExecutorAssumption DEF DropWaker, Release, spawnVars, workVars, futureVars, cancelVars
  <1>fun. /\ wakers' \in [Tasks -> 0 .. MaxWakers]
          /\ rc' \in [Tasks -> Int]
    BY <1>type, ExecutorAssumption DEF DropWaker, Release
  <1>others. \A s \in Tasks \ {t} : Untouched(s)
    BY <1>type, <1>same DEF DropWaker, Release, Untouched
  <1>done. spawn[t] = "done" /\ SpawnOK(t)
    BY <1>act, SpawnDone, Zenon
  <1>fut. FutureOK(t)
    BY Zenon DEF IInv
  <1>flu. \A c \in Stoppers : Flushed(c, t)
    BY Zenon DEF IInv
  <1>t. /\ OwnReferences(t) \in Nat /\ rc[t] \in Nat /\ wakers[t] \in Nat /\ rc \in [Tasks -> Nat]
        /\ OneIf(handle[t]) \in Nat /\ OneIf(pending[t]) \in Nat
    BY ReferencesType DEF IInv, TypeOK, OneIf
  <1>one. OwnReferences(t) >= 1
    BY <1>t, <1>act DEF OwnReferences
  <1>own. /\ rc' \in [Tasks -> Int] /\ OwnReferences(t)' \in Nat
          /\ rc'[t] = rc[t] + OwnReferences(t)' - OwnReferences(t)
    <2>2. OwnReferences(t)' = OwnReferences(t) - 1
      BY <1>t, <1>same, <1>act DEF OwnReferences
    <2>. QED
      BY <2>2, <1>one, <1>t, <1>act, <1>fun
  <1>1. rc' \in [Tasks -> Nat] => TypeOK'
    BY <1>same, <1>fun, Zenon DEF IInv, TypeOK
  <1>2. FutureOK(t)'
    BY <1>fut, <1>same, <1>act, FutureFrame
  <1>3. \A c \in Stoppers : Flushed(c, t)'
    BY <1>flu, <1>fut, <1>same, <1>act DEF Flushed, Alone, Live, FutureOK
  <1>4. notified'[t] /\ ~revoked'[t] => pending'[t] \/ run'[t] = "entered"
    BY <1>same, <1>act, Zenon DEF IInv, NoLostWake
  <1>5. /\ revoked[t] => revoked'[t]
        /\ \A c \in Cancellers : cpc[c] = "wait" /\ Head(clist[c]) = t => (pending'[t] => pending[t])
        /\ run[t] = "polling" =>
              run'[t] = "polling" \/ \A s \in Tasks : Parent[s] = t => ~Spawning(s)
    BY <1>same, <1>act, Zenon
  <1>. QED
    BY <1>same, <1>done, <1>others, <1>own, <1>1, <1>2, <1>3, <1>4, <1>5, LiveStep, Zenon
===============================================================================
