----------------------- MODULE WorkqueueExecutor_proofs -----------------------
(***************************************************************************)
(* The inductive invariant of WorkqueueExecutor_steps is preserved by the  *)
(* registration of a task, by stop and by the steps of a cancellation too, *)
(* and what follows from it for the executor.                              *)
(***************************************************************************)
EXTENDS WorkqueueExecutor_steps

\* The second look at the flag finds the executor stopped: the future is dropped.
LEMMA SpawnRefusedStep ==
    ASSUME IInv, NEW t \in Tasks, SpawnRegister(t), stopped
    PROVE  IInv'
  <1>1. SpawnNoMemory(t)
    BY DEF SpawnRegister, SpawnNoMemory, spawnVars, workVars, futureVars, cancelVars
  <1>. QED
    BY <1>1, SpawnNoMemoryStep

\* ... or running: the task enters the list, with three references.
LEMMA SpawnRegisterStep ==
    ASSUME IInv, NEW t \in Tasks, SpawnRegister(t), ~stopped
    PROVE  IInv'
  <1>. USE DEF spawnVars, workVars, futureVars, cancelVars
  <1>inv. /\ TypeOK /\ ListsOK /\ (\A s \in Tasks : SpawnOK(s)) /\ (\A c \in Cancellers : CancelOK(c))
          /\ (\A s \in Tasks : FutureOK(s)) /\ (\A c \in Stoppers, s \in Tasks : Flushed(c, s))
          /\ RcExact /\ NoEscape /\ NoLostWake
    BY DEF IInv
  <1>act. /\ spawn[t] = "checked" /\ spawn' = [spawn EXCEPT ![t] = "registered"]
          /\ tasks' = Append(tasks, t) /\ rc' = [rc EXCEPT ![t] = 3]
          /\ UNCHANGED <<stopped, handle, pending, run, revoked, dropped, wakers, notified,
                         cpc, clist, leaked, racing>>
    BY DEF SpawnRegister
  <1>spawn. /\ spawn'[t] = "registered" /\ \A s \in Tasks \ {t} : spawn'[s] = spawn[s]
    BY <1>inv, <1>act DEF TypeOK
  <1>t. /\ ~InSeq(t, tasks) /\ (\A c \in Cancellers : ~InSeq(t, clist[c]))
        /\ ~handle[t] /\ ~pending[t] /\ run[t] = "idle" /\ wakers[t] = 0 /\ leaked[t] = 0
        /\ ~revoked[t]
    BY <1>inv, <1>act DEF SpawnOK, Live
  <1>parents. Parent[t] # t /\ \A s \in Tasks : InSeq(s, tasks) => Parent[s] # t
    BY <1>inv, <1>act, ExecutorAssumption DEF SpawnOK, Live
  <1>app. /\ Append(tasks, t) \in Seq(Tasks)
          /\ \A s : InSeq(s, tasks') <=> InSeq(s, tasks) \/ s = t
          /\ NoDup(tasks') /\ ParentsFirst(tasks')
    <2>1. tasks \in Seq(Tasks) /\ \A s : InSeq(s, tasks) => s \in Tasks
      BY <1>inv DEF TypeOK, InSeq
    <2>. QED
      BY <1>inv, <1>act, <1>t, <1>parents, <2>1, Appended DEF ListsOK
  <1>1. TypeOK'
    BY <1>inv, <1>act, <1>app DEF TypeOK
  <1>2. ListsOK'
    BY <1>inv, <1>act, <1>app, Zenon DEF ListsOK
  <1>3. ASSUME NEW s \in Tasks PROVE SpawnOK(s)'
    BY <1>inv, <1>act, <1>spawn, <1>t, <1>app, ExecutorAssumption DEF SpawnOK, Spawning, Live
  <1>4. ASSUME NEW c \in Cancellers PROVE CancelOK(c)'
    BY <1>inv, <1>act DEF CancelOK
  <1>5. ASSUME NEW s \in Tasks PROVE FutureOK(s)'
    BY <1>inv, <1>act, FutureFrame
  <1>6. ASSUME NEW c \in Stoppers, NEW s \in Tasks PROVE Flushed(c, s)'
    BY <1>inv, <1>act DEF Flushed, ListsOK
  <1>7. NoEscape'
    BY <1>inv, <1>act, <1>spawn, <1>app, Zenon DEF NoEscape
  <1>8. NoLostWake'
    BY <1>inv, <1>act, Zenon DEF NoLostWake
  <1>9. ASSUME NEW s \in Tasks PROVE rc'[s] = References(s)' + leaked'[s]
    <2>1. Cancelling(s)' = Cancelling(s)
      BY <1>act DEF Cancelling
    <2>2. CASE s # t
      <3>1. OneIf(InSeq(s, tasks))' = OneIf(InSeq(s, tasks))
        BY <2>2, <1>app DEF OneIf
      <3>2. OwnReferences(s)' = OwnReferences(s) /\ rc'[s] = rc[s]
        BY <2>2, <1>inv, <1>act, <1>spawn DEF TypeOK, OwnReferences
      <3>3. References(s)' = References(s)
        BY <2>1, <3>1, <3>2 DEF References
      <3>. QED
        BY <3>2, <3>3, <1>inv, <1>act DEF RcExact
    <2>3. CASE s = t
      <3>1. Cancelling(t) = {}
        BY <1>t DEF Cancelling
      <3>2. Cardinality(Cancelling(t)) = 0
        BY <3>1, FS_EmptySet
      <3>3. OwnReferences(t)' = 2
        BY <1>act, <1>spawn, <1>t DEF OwnReferences, OneIf
      <3>4. OneIf(InSeq(t, tasks))' = 1
        BY <1>app DEF OneIf
      <3>5. rc'[t] = 3 /\ leaked'[t] = 0
        BY <1>inv, <1>act, <1>t DEF TypeOK
      <3>. QED
        BY <2>1, <2>3, <3>2, <3>3, <3>4, <3>5 DEF References
    <2>. QED
      BY <2>2, <2>3
  <1>. QED
    BY <1>1, <1>2, <1>3, <1>4, <1>5, <1>6, <1>7, <1>8, <1>9 DEF IInv, RcExact

\* stop sets the flag and takes the list.
LEMMA StopStep ==
    ASSUME IInv, NEW c \in Stoppers, Stop(c)
    PROVE  IInv'
  <1>. USE DEF spawnVars, workVars, futureVars, cancelVars
  <1>inv. /\ TypeOK /\ ListsOK /\ (\A s \in Tasks : SpawnOK(s)) /\ (\A d \in Cancellers : CancelOK(d))
          /\ (\A s \in Tasks : FutureOK(s)) /\ (\A d \in Stoppers, s \in Tasks : Flushed(d, s))
          /\ RcExact /\ NoEscape /\ NoLostWake
    BY DEF IInv
  <1>c. /\ c \in Cancellers /\ cpc[c] = "idle" /\ clist[c] = <<>>
    BY <1>inv DEF Stop, ListsOK, Cancellers
  <1>act. /\ stopped' /\ tasks' = <<>> /\ clist'[c] = tasks
          /\ cpc'[c] = IF tasks = <<>> THEN "returned" ELSE "revoke"
          /\ \A d \in Cancellers \ {c} : cpc'[d] = cpc[d] /\ clist'[d] = clist[d]
          /\ racing' = racing \cup {t \in Tasks : Spawning(t)}
          /\ UNCHANGED <<spawn, handle, pending, run, revoked, dropped, wakers, notified,
                         rc, leaked>>
    BY <1>inv, <1>c DEF Stop, TypeOK
  <1>in. \A d \in Cancellers, s \in Tasks :
             InSeq(s, clist'[d]) <=> IF d = c THEN InSeq(s, tasks) ELSE InSeq(s, clist[d])
    BY <1>act
  <1>none. \A s \in Tasks : ~InSeq(s, <<>>)
    BY ShortLists, Zenon
  <1>1. TypeOK'
    BY <1>inv, <1>c, <1>act DEF Stop, TypeOK
  <1>2. ListsOK'
    <2>1. NoDup(tasks') /\ ParentsFirst(tasks')
      BY <1>act DEF NoDup, ParentsFirst
    <2>2. \A d \in Cancellers : NoDup(clist'[d])
      BY <1>inv, <1>act DEF ListsOK
    <2>3. \A d \in Cancellers :
             cpc'[d] \in {"revoke", "destroy", "cancel", "wait"} <=> clist'[d] # <<>>
      BY <1>inv, <1>act DEF ListsOK
    <2>4. \A d \in Stoppers : ParentsFirst(clist'[d])
      BY <1>inv, <1>act DEF ListsOK, Cancellers
    <2>5. cpc'[c] # "idle"
      BY <1>act
    <2>. QED
      BY <2>1, <2>2, <2>3, <2>4, <2>5, <1>act, Zenon DEF ListsOK
  <1>3. ASSUME NEW s \in Tasks PROVE SpawnOK(s)'
    BY <1>inv, <1>act, <1>in, <1>none DEF SpawnOK, Spawning, Live
  <1>4. ASSUME NEW d \in Cancellers PROVE CancelOK(d)'
    BY <1>inv, <1>act DEF CancelOK
  <1>5. ASSUME NEW s \in Tasks PROVE FutureOK(s)'
    <2>1. \A d \in Cancellers : Destroyer(d, s)' <=> Destroyer(d, s)
      BY <1>c, <1>act DEF Destroyer
    <2>. QED
      BY <2>1, <1>inv, <1>act DEF FutureOK
  <1>6. ASSUME NEW d \in Stoppers, NEW s \in Tasks PROVE Flushed(d, s)'
    <2>1. CASE d = c
      <3>. SUFFICES ASSUME Alone(c)', Live(s) PROVE InSeq(s, clist'[c])
        BY <2>1, <1>act DEF Flushed, Live
      <3>1. \A e \in Cancellers : cpc[e] = "idle"
        BY <1>c, <1>act DEF Alone
      <3>2. ~stopped
        BY <3>1, <1>inv DEF ListsOK, Cancellers
      <3>. QED
        BY <3>2, <1>inv, <1>c, <1>in, Zenon DEF SpawnOK
    <2>2. CASE d # c
      BY <2>2, <1>c, <1>act DEF Flushed, Alone
    <2>. QED
      BY <2>1, <2>2
  <1>7. NoEscape' /\ NoLostWake'
    BY <1>inv, <1>c, <1>act, <1>in, Zenon DEF NoEscape, NoLostWake, Cancellers
  <1>8. ASSUME NEW s \in Tasks PROVE rc'[s] = References(s)' + leaked'[s]
    <2>1. OwnReferences(s)' = OwnReferences(s) /\ OneIf(InSeq(s, tasks))' = 0
      BY <1>act, <1>none, Zenon DEF OwnReferences, OneIf
    <2>2. c \notin Cancelling(s)
      BY <1>c, <1>none DEF Cancelling
    <2>3. Cancelling(s)' = IF InSeq(s, tasks) THEN Cancelling(s) \cup {c} ELSE Cancelling(s)
      BY <2>2, <1>c, <1>in DEF Cancelling
    <2>4. Cardinality(Cancelling(s)') = Cardinality(Cancelling(s)) + OneIf(InSeq(s, tasks))
      <3>1. Cancelling(s) \in SUBSET Cancellers
        BY DEF Cancelling
      <3>2. /\ Cardinality(Cancelling(s)) \in Nat
            /\ Cardinality(Cancelling(s) \cup {c}) = Cardinality(Cancelling(s)) + 1
        BY <2>2, <3>1, CancellerSets
      <3>. QED
        BY <2>3, <3>2 DEF OneIf
    <2>. QED
      BY <2>1, <2>4, <1>inv, <1>act, ReferencesType DEF RcExact, References
  <1>. QED
    BY <1>1, <1>2, <1>3, <1>4, <1>5, <1>6, <1>7, <1>8, Zenon DEF IInv, RcExact

\* The holder of a handle starts to cancel its task.
LEMMA CancelHandleStep ==
    ASSUME IInv, NEW c \in HandleHolders, NEW t \in Tasks, CancelHandle(c, t)
    PROVE  IInv'
  <1>. USE DEF spawnVars, workVars, futureVars, cancelVars
  <1>inv. /\ TypeOK /\ ListsOK /\ (\A s \in Tasks : SpawnOK(s)) /\ (\A d \in Cancellers : CancelOK(d))
          /\ (\A s \in Tasks : FutureOK(s)) /\ (\A d \in Stoppers, s \in Tasks : Flushed(d, s))
          /\ RcExact /\ NoEscape /\ NoLostWake
    BY DEF IInv
  <1>c. c \in Cancellers /\ c \notin Stoppers /\ cpc[c] = "idle" /\ clist[c] = <<>>
    BY <1>inv, ExecutorAssumption, Zenon DEF CancelHandle, ListsOK, Cancellers
  <1>act. /\ handle[t] /\ ~handle'[t] /\ \A s \in Tasks \ {t} : handle'[s] = handle[s]
          /\ clist'[c] = <<t>> /\ cpc'[c] = "revoke"
          /\ \A d \in Cancellers \ {c} : cpc'[d] = cpc[d] /\ clist'[d] = clist[d]
          /\ UNCHANGED <<stopped, tasks, spawn, pending, run, revoked, dropped, wakers,
                         notified, rc, leaked, racing>>
    BY <1>inv, <1>c DEF CancelHandle, TypeOK
  <1>in. \A d \in Cancellers, s \in Tasks :
             InSeq(s, clist'[d]) <=> (d = c /\ s = t) \/ (d # c /\ InSeq(s, clist[d]))
    <2>1. \A s \in Tasks : InSeq(s, clist'[c]) <=> s = t
      BY <1>act, ShortLists, Zenon
    <2>2. \A d \in Cancellers \ {c}, s \in Tasks : InSeq(s, clist'[d]) <=> InSeq(s, clist[d])
      BY <1>act
    <2>. QED
      BY <2>1, <2>2
  <1>none. \A s \in Tasks : ~InSeq(s, <<>>)
    BY ShortLists, Zenon
  <1>t. spawn[t] = "done"
    BY <1>inv, <1>act DEF SpawnOK
  <1>1. TypeOK'
    BY <1>inv, <1>c, ShortLists DEF CancelHandle, TypeOK
  <1>2. ListsOK'
    <2>1. \A d \in Cancellers :
             /\ NoDup(clist'[d])
             /\ cpc'[d] \in {"revoke", "destroy", "cancel", "wait"} <=> clist'[d] # <<>>
      <3>1. NoDup(clist'[c]) /\ clist'[c] # <<>> /\ cpc'[c] = "revoke"
        BY <1>act, ShortLists, Zenon
      <3>2. \A d \in Cancellers \ {c} :
               /\ NoDup(clist'[d])
               /\ cpc'[d] \in {"revoke", "destroy", "cancel", "wait"} <=> clist'[d] # <<>>
        BY <1>inv, <1>act DEF ListsOK
      <3>. QED
        BY <3>1, <3>2
    <2>2. \A d \in Stoppers : cpc'[d] = cpc[d] /\ clist'[d] = clist[d]
      BY <1>c, <1>act, Zenon DEF Cancellers
    <2>. QED
      BY <2>1, <2>2, <1>inv, <1>act DEF ListsOK
  <1>3. ASSUME NEW s \in Tasks PROVE SpawnOK(s)'
    BY <1>inv, <1>act, <1>in, <1>t, Zenon DEF SpawnOK, Spawning, Live
  <1>4. ASSUME NEW d \in Cancellers PROVE CancelOK(d)'
    BY <1>inv, <1>act, Zenon DEF CancelOK
  <1>5. ASSUME NEW s \in Tasks PROVE FutureOK(s)'
    <2>1. \A d \in Cancellers : Destroyer(d, s)' <=> Destroyer(d, s)
      BY <1>c, <1>act DEF Destroyer
    <2>. QED
      BY <2>1, <1>inv, <1>act, Zenon DEF FutureOK
  <1>6. ASSUME NEW d \in Stoppers, NEW s \in Tasks PROVE Flushed(d, s)'
    BY <1>c, <1>act DEF Flushed, Alone
  <1>7. NoEscape' /\ NoLostWake'
    BY <1>inv, <1>c, <1>act, Zenon DEF NoEscape, NoLostWake, Cancellers
  <1>8. ASSUME NEW s \in Tasks PROVE rc'[s] = References(s)' + leaked'[s]
    <2>1. /\ c \notin Cancelling(s) /\ Cancelling(s) \in SUBSET Cancellers
          /\ Cancelling(s)' = IF s = t THEN Cancelling(s) \cup {c} ELSE Cancelling(s)
      BY <1>c, <1>in, <1>none DEF Cancelling
    <2>2. CASE s # t
      <3>1. References(s)' = References(s)
        BY <2>1, <2>2, <1>act DEF References, OwnReferences
      <3>. QED
        BY <3>1, <1>inv, <1>act DEF RcExact
    <2>3. CASE s = t
      <3>1. Cardinality(Cancelling(t)') = Cardinality(Cancelling(t)) + 1
        BY <2>1, <2>3, CancellerSets
      <3>2. OwnReferences(t) = OwnReferences(t)' + 1 /\ OwnReferences(t)' \in Nat
        <4>1. OneIf(handle[t]) = 1 /\ OneIf(handle[t])' = 0
          BY <1>act DEF OneIf
        <4>2. OneIf(pending[t]) \in Nat /\ wakers[t] \in Nat
          BY <1>inv, ReferencesType DEF OneIf
        <4>. QED
          BY <4>1, <4>2, <1>act DEF OwnReferences
      <3>. QED
        BY <2>3, <3>1, <3>2, <1>inv, <1>act, ReferencesType DEF RcExact, References
    <2>. QED
      BY <2>2, <2>3
  <1>. QED
    BY <1>1, <1>2, <1>3, <1>4, <1>5, <1>6, <1>7, <1>8 DEF IInv, RcExact

\* A canceller moves on with its list unchanged: the lists stay well formed, and
\* the references that lists hold are the same.
LEMMA CancelFrame ==
    ASSUME IInv, NEW c \in Cancellers,
           cpc[c] \in {"revoke", "destroy", "cancel"},
           cpc'[c] \in {"destroy", "cancel", "wait"},
           \A d \in Cancellers \ {c} : cpc'[d] = cpc[d],
           UNCHANGED <<stopped, tasks, clist>>
    PROVE  /\ ListsOK'
           /\ \A s : Cancelling(s)' = Cancelling(s)
           /\ \A d \in Stoppers : Alone(d)' <=> Alone(d)
           /\ \A d \in Stoppers : cpc'[d] = "idle" <=> cpc[d] = "idle"
  <1>1. ListsOK
    BY DEF IInv
  <1>2. \A d \in Cancellers : cpc'[d] = "idle" <=> cpc[d] = "idle"
    OBVIOUS
  <1>3. ListsOK'
    BY <1>1, <1>2 DEF ListsOK, Cancellers
  <1>. QED
    BY <1>2, <1>3 DEF Cancelling, Alone, Cancellers

\* task.revoke().
LEMMA CancelRevokeStep ==
    ASSUME IInv, NEW c \in Cancellers, CancelRevoke(c)
    PROVE  IInv'
  <1>. DEFINE t == Head(clist[c])
  <1>. USE DEF spawnVars, workVars, futureVars, cancelVars
  <1>inv. /\ TypeOK /\ ListsOK /\ (\A s \in Tasks : SpawnOK(s)) /\ (\A d \in Cancellers : CancelOK(d))
          /\ (\A s \in Tasks : FutureOK(s)) /\ (\A d \in Stoppers, s \in Tasks : Flushed(d, s))
          /\ RcExact /\ NoEscape /\ NoLostWake
    BY DEF IInv
  <1>t. t \in Tasks /\ InSeq(t, clist[c]) /\ Live(t)
    BY <1>inv, HeadInList, Zenon DEF CancelRevoke, SpawnOK
  <1>act. /\ cpc[c] = "revoke" /\ revoked'[t]
          /\ cpc'[c] = IF revoked[t] \/ run[t] = "polling" THEN "cancel" ELSE "destroy"
          /\ \A s \in Tasks \ {t} : revoked'[s] = revoked[s]
          /\ \A d \in Cancellers \ {c} : cpc'[d] = cpc[d]
          /\ UNCHANGED <<stopped, tasks, spawn, handle, pending, run, dropped, wakers, notified,
                         rc, clist, leaked, racing>>
    BY <1>inv, <1>t, Zenon DEF CancelRevoke, TypeOK
  <1>frame. /\ ListsOK'
            /\ \A s : Cancelling(s)' = Cancelling(s)
            /\ \A d \in Stoppers : Alone(d)' <=> Alone(d)
            /\ \A d \in Stoppers : cpc'[d] = "idle" <=> cpc[d] = "idle"
    BY <1>act, CancelFrame
  <1>1. TypeOK'
    BY <1>inv, <1>t DEF CancelRevoke, TypeOK
  <1>2. ASSUME NEW s \in Tasks PROVE SpawnOK(s)'
    BY <1>inv, <1>t, <1>act, Zenon DEF SpawnOK, Spawning, Live
  <1>3. ASSUME NEW d \in Cancellers PROVE CancelOK(d)'
    BY <1>inv, <1>t, <1>act, HeadInList, Zenon DEF CancelOK
  <1>4. ASSUME NEW s \in Tasks PROVE FutureOK(s)'
    <2>1. CASE s # t
      <3>1. \A d \in Cancellers : Destroyer(d, s)' <=> Destroyer(d, s)
        BY <2>1, <1>act DEF Destroyer
      <3>. QED
        BY <2>1, <3>1, <1>inv, <1>act, Zenon DEF FutureOK
    <2>2. CASE s = t /\ revoked[t]
      <3>1. \A d \in Cancellers : Destroyer(d, t)' <=> Destroyer(d, t)
        BY <2>2, <1>act DEF Destroyer
      <3>. QED
        BY <2>2, <3>1, <1>inv, <1>act, Zenon DEF FutureOK
    <2>3. CASE s = t /\ ~revoked[t]
      <3>1. ~dropped[t] /\ run[t] # "destroy" /\ \A d \in Cancellers : ~Destroyer(d, t)
        BY <2>3, <1>inv DEF FutureOK, CancelOK, Destroyer
      <3>2. \A d \in Cancellers : Destroyer(d, t)' <=> d = c /\ run[t] # "polling"
        BY <2>3, <3>1, <1>act, Zenon DEF Destroyer
      <3>. QED
        BY <2>3, <3>1, <3>2, <1>act DEF FutureOK
    <2>. QED
      BY <2>1, <2>2, <2>3
  <1>5. ASSUME NEW d \in Stoppers, NEW s \in Tasks PROVE Flushed(d, s)'
    BY <1>inv, <1>act, <1>frame, Zenon DEF Flushed, Live
  <1>6. NoEscape' /\ NoLostWake'
    BY <1>inv, <1>act DEF NoEscape, NoLostWake
  <1>7. ASSUME NEW s \in Tasks PROVE References(s)' = References(s)
    BY <1>act, <1>frame DEF References, OwnReferences
  <1>. QED
    BY <1>inv, <1>act, <1>frame, <1>1, <1>2, <1>3, <1>4, <1>5, <1>6, <1>7, Zenon DEF IInv, RcExact

\* The canceller destroys the future.
LEMMA CancelDestroyStep ==
    ASSUME IInv, NEW c \in Cancellers, CancelDestroy(c)
    PROVE  IInv'
  <1>. USE DEF spawnVars, workVars, futureVars, cancelVars
  <1>inv. /\ TypeOK /\ ListsOK /\ (\A s \in Tasks : SpawnOK(s)) /\ (\A d \in Cancellers : CancelOK(d))
          /\ (\A s \in Tasks : FutureOK(s)) /\ (\A d \in Stoppers, s \in Tasks : Flushed(d, s))
          /\ RcExact /\ NoEscape /\ NoLostWake
    BY DEF IInv
  <1>hide. PICK t \in Tasks : t = Head(clist[c])
    BY HeadInList DEF CancelDestroy
  <1>t. t \in Tasks /\ InSeq(t, clist[c]) /\ Destroyer(c, t)
    BY <1>hide, HeadInList DEF CancelDestroy, Destroyer
  <1>act. /\ cpc[c] = "destroy" /\ cpc'[c] = "cancel" /\ dropped'[t]
          /\ wakers'[t] = IF t \in Outliving THEN wakers[t] ELSE 0
          /\ \A s \in Tasks \ {t} : dropped'[s] = dropped[s] /\ wakers'[s] = wakers[s]
          /\ \A d \in Cancellers \ {c} : cpc'[d] = cpc[d]
          /\ UNCHANGED <<stopped, tasks, spawn, handle, pending, run, revoked, notified,
                         clist, leaked, racing>>
    BY <1>inv, <1>t, <1>hide, Zenon DEF CancelDestroy, Destroy, TypeOK
  <1>frame. /\ ListsOK'
            /\ \A s : Cancelling(s)' = Cancelling(s)
            /\ \A d \in Stoppers : Alone(d)' <=> Alone(d)
            /\ \A d \in Stoppers : cpc'[d] = "idle" <=> cpc[d] = "idle"
    BY <1>act, CancelFrame, Zenon
  <1>others. \A s \in Tasks \ {t} :
               UNCHANGED <<spawn[s], handle[s], pending[s], run[s], wakers[s], rc[s]>>
    BY <1>inv, <1>t, <1>hide DEF CancelDestroy, Destroy, TypeOK
  <1>own. /\ OwnReferences(t)' \in Nat /\ rc' \in [Tasks -> Int]
          /\ rc'[t] = rc[t] + OwnReferences(t)' - OwnReferences(t)
    <2>0. wakers[t] \in Nat /\ OneIf(handle[t]) \in Nat /\ OneIf(pending[t]) \in Nat
      BY <1>inv, ReferencesType DEF OneIf
    <2>1. OwnReferences(t)' = OwnReferences(t) - wakers[t] + wakers'[t]
          /\ OwnReferences(t)' \in Nat
      BY <2>0, <1>act DEF OwnReferences
    <2>2. /\ rc' \in [Tasks -> Int]
          /\ rc'[t] = IF t \in Outliving THEN rc[t] ELSE rc[t] - wakers[t]
      BY <2>0, <1>inv, <1>hide DEF CancelDestroy, Destroy, TypeOK
    <2>3. OwnReferences(t) \in Nat /\ rc[t] \in Nat
      BY <1>inv, ReferencesType, Zenon
    <2>. QED
      BY <2>0, <2>1, <2>2, <2>3, <1>act
  <1>rc. RcExact' /\ rc' \in [Tasks -> Nat]
    BY <1>t, <1>act, <1>others, <1>own, CountFollows, Zenon
  <1>1. TypeOK'
    <2>1. wakers' \in [Tasks -> 0 .. MaxWakers] /\ dropped' \in [Tasks -> BOOLEAN]
      <3>1. Destroy(t)
        BY <1>hide DEF CancelDestroy
      <3>2. dropped' = [dropped EXCEPT ![t] = TRUE] /\ dropped \in [Tasks -> BOOLEAN]
        BY <3>1, <1>inv DEF Destroy, TypeOK
      <3>3. wakers' = wakers \/ wakers' = [wakers EXCEPT ![t] = 0]
        BY <3>1 DEF Destroy
      <3>4. wakers \in [Tasks -> 0 .. MaxWakers] /\ 0 \in 0 .. MaxWakers
        BY <1>inv, ExecutorAssumption DEF TypeOK
      <3>5. wakers' \in [Tasks -> 0 .. MaxWakers]
        BY <3>3, <3>4
      <3>. QED
        BY <3>2, <3>5, Zenon
    <2>2. cpc' \in [Cancellers -> {"idle", "revoke", "destroy", "cancel", "wait", "returned"}]
      BY <1>inv DEF CancelDestroy, TypeOK
    <2>. QED
      BY <2>1, <2>2, <1>inv, <1>rc, <1>act DEF TypeOK
  <1>2. ASSUME NEW s \in Tasks PROVE SpawnOK(s)'
    BY <1>inv, <1>t, <1>act, ExecutorAssumption DEF SpawnOK, Spawning, Live
  <1>3. ASSUME NEW d \in Cancellers PROVE CancelOK(d)'
    BY <1>inv, <1>act, <1>hide, Zenon DEF CancelOK
  <1>4. ASSUME NEW s \in Tasks PROVE FutureOK(s)'
    <2>1. CASE s # t
      <3>1. \A d \in Cancellers : Destroyer(d, s)' <=> Destroyer(d, s)
        BY <2>1, <1>act, <1>hide, Zenon DEF Destroyer
      <3>. QED
        BY <2>1, <3>1, <1>inv, <1>act, Zenon DEF FutureOK
    <2>2. CASE s = t
      <3>1. \A d \in Cancellers : ~Destroyer(d, t)'
        BY <1>inv, <1>t, <1>act, <1>hide DEF Destroyer, FutureOK
      <3>2. revoked[t] /\ run[t] \notin {"polling", "destroy"}
        BY <1>inv, <1>t, <1>act, <1>hide, Zenon DEF FutureOK, CancelOK
      <3>. QED
        BY <2>2, <3>1, <3>2, <1>act DEF FutureOK
    <2>. QED
      BY <2>1, <2>2
  <1>5. ASSUME NEW d \in Stoppers, NEW s \in Tasks PROVE Flushed(d, s)'
    BY <1>inv, <1>t, <1>act, <1>frame, Zenon DEF Flushed, Live
  <1>6. NoEscape' /\ NoLostWake'
    BY <1>inv, <1>act, Zenon DEF NoEscape, NoLostWake
  <1>. QED
    BY <1>frame, <1>rc, <1>1, <1>2, <1>3, <1>4, <1>5, <1>6, Zenon DEF IInv

\* cancel_work_sync takes the item off the queue.
LEMMA CancelGrabStep ==
    ASSUME IInv, NEW c \in Cancellers, CancelGrab(c)
    PROVE  IInv'
  <1>. USE DEF spawnVars, workVars, futureVars, cancelVars
  <1>inv. /\ TypeOK /\ ListsOK /\ (\A s \in Tasks : SpawnOK(s)) /\ (\A d \in Cancellers : CancelOK(d))
          /\ (\A s \in Tasks : FutureOK(s)) /\ (\A d \in Stoppers, s \in Tasks : Flushed(d, s))
          /\ RcExact /\ NoEscape /\ NoLostWake
    BY DEF IInv
  <1>hide. PICK t \in Tasks : t = Head(clist[c])
    BY HeadInList DEF CancelGrab
  <1>t. t \in Tasks /\ InSeq(t, clist[c]) /\ revoked[t] /\ Live(t)
    BY <1>inv, <1>hide, HeadInList, Zenon DEF CancelGrab, CancelOK, SpawnOK
  <1>act. /\ cpc[c] = "cancel" /\ cpc'[c] = "wait" /\ ~pending'[t]
          /\ leaked'[t] = IF pending[t] THEN leaked[t] + 1 ELSE leaked[t]
          /\ \A s \in Tasks \ {t} : pending'[s] = pending[s] /\ leaked'[s] = leaked[s]
          /\ \A d \in Cancellers \ {c} : cpc'[d] = cpc[d]
          /\ UNCHANGED <<stopped, tasks, spawn, handle, run, revoked, dropped, wakers, notified,
                         rc, clist, racing>>
    BY <1>inv, <1>t, <1>hide, Zenon DEF CancelGrab, TypeOK
  <1>frame. /\ ListsOK'
            /\ \A s : Cancelling(s)' = Cancelling(s)
            /\ \A d \in Stoppers : Alone(d)' <=> Alone(d)
            /\ \A d \in Stoppers : cpc'[d] = "idle" <=> cpc[d] = "idle"
    BY <1>act, CancelFrame, Zenon
  <1>1. TypeOK'
    <2>1. leaked' \in [Tasks -> Nat]
      BY <1>inv, <1>t, <1>hide DEF CancelGrab, TypeOK
    <2>. QED
      BY <2>1, <1>inv, <1>act, <1>t, <1>hide DEF CancelGrab, TypeOK
  <1>2. ASSUME NEW s \in Tasks PROVE SpawnOK(s)'
    BY <1>inv, <1>t, <1>act DEF SpawnOK, Spawning, Live
  <1>3. ASSUME NEW d \in Cancellers PROVE CancelOK(d)'
    BY <1>inv, <1>act, <1>hide, <1>t, HeadInList, Zenon DEF CancelOK
  <1>4. ASSUME NEW s \in Tasks PROVE FutureOK(s)'
    <2>1. \A d \in Cancellers : Destroyer(d, s)' <=> Destroyer(d, s)
      BY <1>act, Zenon DEF Destroyer
    <2>. QED
      BY <2>1, <1>inv, <1>act, Zenon DEF FutureOK
  <1>5. ASSUME NEW d \in Stoppers, NEW s \in Tasks PROVE Flushed(d, s)'
    BY <1>inv, <1>act, <1>frame DEF Flushed, Live
  <1>6. NoEscape' /\ NoLostWake'
    BY <1>inv, <1>t, <1>act, Zenon DEF NoEscape, NoLostWake
  <1>7. ASSUME NEW s \in Tasks PROVE rc'[s] = References(s)' + leaked'[s]
    <2>1. CASE s # t
      <3>1. References(s)' = References(s)
        BY <2>1, <1>act, <1>frame DEF References, OwnReferences
      <3>. QED
        BY <2>1, <3>1, <1>inv, <1>act, Zenon DEF RcExact
    <2>2. CASE s = t
      <3>1. OwnReferences(t)' + leaked'[t] = OwnReferences(t) + leaked[t] /\ OwnReferences(t)' \in Nat
        <4>1. wakers[t] \in Nat /\ OneIf(handle[t]) \in Nat /\ leaked[t] \in Nat
          BY <1>inv, ReferencesType DEF OneIf
        <4>2. OneIf(pending[t])' = 0 /\ OneIf(pending[t]) = IF pending[t] THEN 1 ELSE 0
          BY <1>act DEF OneIf
        <4>. QED
          BY <4>1, <4>2, <1>act DEF OwnReferences
      <3>2. leaked'[t] \in Nat
        BY <1>1, <1>t DEF TypeOK
      <3>. QED
        BY <2>2, <3>1, <3>2, <1>t, <1>inv, <1>act, <1>frame, ReferencesType DEF RcExact, References
    <2>. QED
      BY <2>1, <2>2
  <1>. QED
    BY <1>frame, <1>1, <1>2, <1>3, <1>4, <1>5, <1>6, <1>7 DEF IInv, RcExact

\* cancel_work_sync returns, and the canceller is through with the task.
LEMMA CancelWaitStep ==
    ASSUME IInv, NEW c \in Cancellers, CancelWait(c)
    PROVE  IInv'
  <1>. USE DEF spawnVars, workVars, futureVars, cancelVars
  <1>inv. /\ TypeOK /\ ListsOK /\ (\A s \in Tasks : SpawnOK(s)) /\ (\A d \in Cancellers : CancelOK(d))
          /\ (\A s \in Tasks : FutureOK(s)) /\ (\A d \in Stoppers, s \in Tasks : Flushed(d, s))
          /\ RcExact /\ NoEscape /\ NoLostWake
    BY DEF IInv
  <1>hide. PICK t \in Tasks : t = Head(clist[c])
    BY HeadInList DEF CancelWait
  <1>t. t \in Tasks /\ InSeq(t, clist[c]) /\ revoked[t] /\ Live(t) /\ ~pending[t] /\ run[t] = "idle"
    BY <1>inv, <1>hide, HeadInList DEF CancelWait, CancelOK, SpawnOK
  <1>head. /\ clist[c] \in Seq(Tasks) /\ clist[c] # <<>> /\ NoDup(clist[c])
           /\ Tail(clist[c]) \in Seq(Tasks) /\ NoDup(Tail(clist[c])) /\ ~InSeq(t, Tail(clist[c]))
           /\ \A s : InSeq(s, clist[c]) <=> s = t \/ InSeq(s, Tail(clist[c]))
           /\ ParentsFirst(clist[c]) =>
                 ParentsFirst(Tail(clist[c])) /\ ~InSeq(Parent[t], clist[c])
           /\ Tail(clist[c]) = <<>> <=> Len(clist[c]) = 1
    <2>1. clist[c] \in Seq(Tasks) /\ clist[c] # <<>> /\ NoDup(clist[c])
      BY <1>inv, HeadInList DEF CancelWait, TypeOK, ListsOK
    <2>. QED
      BY <2>1, <1>hide, HeadTaken, Zenon
  <1>act. /\ cpc[c] = "wait" /\ clist'[c] = Tail(clist[c])
          /\ cpc'[c] = IF Tail(clist[c]) = <<>> THEN "returned" ELSE "revoke"
          /\ rc'[t] = rc[t] - 1
          /\ \A s \in Tasks \ {t} : rc'[s] = rc[s]
          /\ \A d \in Cancellers \ {c} : cpc'[d] = cpc[d] /\ clist'[d] = clist[d]
          /\ UNCHANGED <<stopped, tasks, spawn, handle, pending, run, revoked, dropped, wakers,
                         notified, leaked, racing>>
    BY <1>inv, <1>t, <1>head, <1>hide, Zenon DEF CancelWait, Release, TypeOK
  <1>in. /\ \A s : s # t => (InSeq(s, clist'[c]) <=> InSeq(s, clist[c]))
         /\ ~InSeq(t, clist'[c])
    BY <1>act, <1>head, Zenon
  <1>rc. ASSUME NEW s \in Tasks PROVE rc'[s] = References(s)' + leaked'[s] /\ rc'[s] \in Nat
    <2>0. \A d \in Cancellers \ {c} : InSeq(s, clist'[d]) <=> InSeq(s, clist[d])
      BY <1>act
    <2>1. CASE s # t
      <3>1. Cancelling(s)' = Cancelling(s)
        BY <2>0, <2>1, <1>in DEF Cancelling
      <3>2. References(s)' = References(s)
        BY <3>1, <1>act DEF References, OwnReferences
      <3>. QED
        BY <2>1, <3>2, <1>inv, <1>act DEF RcExact, TypeOK
    <2>2. CASE s = t
      <3>1. c \in Cancelling(t) /\ Cancelling(t) \in SUBSET Cancellers
            /\ Cancelling(t)' = Cancelling(t) \ {c}
        BY <2>0, <2>2, <1>t, <1>in DEF Cancelling
      <3>2. Cardinality(Cancelling(t)') = Cardinality(Cancelling(t)) - 1
            /\ Cardinality(Cancelling(t)') \in Nat
        <4>1. Cancelling(t)' \in SUBSET Cancellers
          BY <3>1
        <4>. QED
          BY <3>1, <4>1, CancellerSets
      <3>3. OwnReferences(t)' = OwnReferences(t)
        BY <1>act DEF OwnReferences
      <3>. QED
        <4>1. /\ OwnReferences(t) \in Nat /\ OneIf(InSeq(t, tasks)) \in Nat
              /\ Cardinality(Cancelling(t)) \in Nat /\ leaked[t] \in Nat
          BY <1>inv, ReferencesType, Zenon
        <4>2. rc[t] = OwnReferences(t) + OneIf(InSeq(t, tasks)) + Cardinality(Cancelling(t)) + leaked[t]
          BY <1>inv DEF RcExact, References
        <4>3. References(t)' = OwnReferences(t) + OneIf(InSeq(t, tasks)) + Cardinality(Cancelling(t))'
          BY <3>3, <1>act DEF References
        <4>4. rc'[t] = rc[t] - 1 /\ leaked'[t] = leaked[t]
          BY <1>act
        <4>5. rc'[t] = References(t)' + leaked'[t] /\ rc'[t] \in Nat
          BY <3>2, <4>1, <4>2, <4>3, <4>4
        <4>. QED
          BY <2>2, <4>5
    <2>. QED
      BY <2>1, <2>2
  <1>1. TypeOK'
    <2>1. rc' \in [Tasks -> Nat]
      <3>1. rc' = [s \in Tasks |-> rc'[s]]
        BY <1>inv, Zenon DEF CancelWait, Release, TypeOK
      <3>. QED
        BY <3>1, <1>rc
    <2>2. clist' \in [Cancellers -> Seq(Tasks)]
      BY <1>inv, <1>head DEF CancelWait, TypeOK
    <2>3. cpc' \in [Cancellers -> {"idle", "revoke", "destroy", "cancel", "wait", "returned"}]
      BY <1>inv DEF CancelWait, TypeOK
    <2>. QED
      BY <2>1, <2>2, <2>3, <1>inv, <1>act DEF TypeOK
  <1>2. ListsOK'
    <2>1. \A d \in Cancellers :
             /\ NoDup(clist'[d])
             /\ cpc'[d] \in {"revoke", "destroy", "cancel", "wait"} <=> clist'[d] # <<>>
      BY <1>inv, <1>act, <1>head, Zenon DEF ListsOK
    <2>2. \A d \in Stoppers : ParentsFirst(clist'[d])
      BY <1>inv, <1>act, <1>head, Zenon DEF ListsOK, Cancellers
    <2>3. \A d \in Stoppers : cpc'[d] = "idle" <=> cpc[d] = "idle"
      BY <1>act, Zenon DEF Cancellers
    <2>. QED
      BY <2>1, <2>2, <2>3, <1>inv, <1>act, Zenon DEF ListsOK
  <1>3. ASSUME NEW s \in Tasks PROVE SpawnOK(s)'
    <2>1. ~Live(s) => \A d \in Cancellers : ~InSeq(s, clist'[d])
      BY <1>inv, <1>t, <1>act, <1>in DEF SpawnOK
    <2>. QED
      BY <2>1, <1>inv, <1>act, Zenon DEF SpawnOK, Spawning, Live
  <1>4. ASSUME NEW d \in Cancellers PROVE CancelOK(d)'
    BY <1>inv, <1>act, Zenon DEF CancelOK
  <1>5. ASSUME NEW s \in Tasks PROVE FutureOK(s)'
    <2>1. \A d \in Cancellers : Destroyer(d, s)' <=> Destroyer(d, s)
      BY <1>act, Zenon DEF Destroyer
    <2>. QED
      BY <2>1, <1>inv, <1>act, Zenon DEF FutureOK
  <1>6. ASSUME NEW d \in Stoppers, NEW s \in Tasks PROVE Flushed(d, s)'
    <2>1. CASE d # c
      <3>1. ~Alone(d)'
        BY <2>1, <1>act DEF Alone
      <3>. QED
        BY <3>1, Zenon DEF Flushed
    <2>2. CASE d = c /\ s # t
      <3>1. Alone(c)' <=> Alone(c)
        BY <1>act, Zenon DEF Alone
      <3>2. Flushed(c, s)
        BY <2>2, <1>inv
      <3>. QED
        BY <2>2, <3>1, <3>2, <1>act, <1>in DEF Flushed, Live
    <2>3. CASE d = c /\ s = t /\ Alone(c)
      <3>1. dropped[t]
        <4>1. \A e \in Cancellers : ~Destroyer(e, t)
          BY <2>3, <1>act DEF Destroyer, Alone
        <4>. QED
          BY <4>1, <1>inv, <1>t, Zenon DEF FutureOK
      <3>2. ~(t \in racing /\ Parent[t] = NoParent) => spawn[t] = "done"
        <4>1. SUFFICES ASSUME spawn[t] = "registered", ~(t \in racing /\ Parent[t] = NoParent)
                       PROVE  FALSE
          BY <1>t DEF Live
        <4>2. stopped /\ ParentsFirst(clist[c])
          BY <1>inv, <1>act, <2>3, Zenon DEF ListsOK
        <4>3. Parent[t] \in Tasks /\ run[Parent[t]] = "polling" /\ Live(Parent[t])
          BY <4>1, <4>2, <1>inv, <1>t, ExecutorAssumption DEF SpawnOK, Spawning, Live
        <4>4. ~InSeq(Parent[t], clist[c])
          BY <4>2, <1>head, Zenon
        <4>5. Flushed(c, Parent[t])
          BY <4>3, <2>3, <1>inv
        <4>. QED
          BY <4>3, <4>4, <4>5, <2>3, <1>act DEF Flushed
      <3>. QED
        BY <2>3, <3>1, <3>2, <1>t, <1>act, Zenon DEF Flushed
    <2>4. CASE ~Alone(c)
      <3>1. ~Alone(c)'
        BY <2>4, <1>act DEF Alone
      <3>. QED
        BY <2>1, <3>1 DEF Flushed
    <2>. QED
      BY <2>1, <2>2, <2>3, <2>4
  <1>7. NoEscape'
    <2>1. ASSUME NEW s \in Tasks, Live(s)
          PROVE  revoked[s] \/ InSeq(s, tasks) \/ \E d \in Stoppers : InSeq(s, clist'[d])
      BY <2>1, <1>inv, <1>t, <1>act, <1>in, Zenon DEF NoEscape, Live, Cancellers
    <2>. QED
      BY <2>1, <1>inv, <1>act DEF NoEscape, Live
  <1>8. NoLostWake'
    BY <1>inv, <1>act DEF NoLostWake
  <1>. QED
    BY <1>rc, <1>1, <1>2, <1>3, <1>4, <1>5, <1>6, <1>7, <1>8, Zenon DEF IInv, RcExact

-----------------------------------------------------------------------------
\* A new executor has no tasks.
LEMMA InitIInv == Init => IInv
  <1>. SUFFICES ASSUME Init PROVE IInv
    OBVIOUS
  <1>. USE ExecutorAssumption DEF Init
  <1>none. /\ NoDup(<<>>) /\ ParentsFirst(<<>>) /\ \A t : ~InSeq(t, <<>>)
    BY DEF NoDup, ParentsFirst, InSeq
  <1>1. TypeOK
    <2>1. <<>> \in Seq(Tasks) /\ 0 \in 0 .. MaxWakers
      OBVIOUS
    <2>2. clist \in [Cancellers -> Seq(Tasks)] /\ wakers \in [Tasks -> 0 .. MaxWakers]
      BY <2>1
    <2>. QED
      BY <2>1, <2>2, Zenon DEF TypeOK
  <1>2. ListsOK
    BY <1>none DEF ListsOK, Cancellers
  <1>3. \A t \in Tasks : SpawnOK(t) /\ FutureOK(t)
    BY <1>none DEF SpawnOK, Spawning, Live, FutureOK, Destroyer
  <1>4. \A c \in Cancellers : CancelOK(c)
    BY DEF CancelOK
  <1>5. \A c \in Stoppers, t \in Tasks : Flushed(c, t)
    BY DEF Flushed, Cancellers
  <1>6. RcExact
    <2>1. ASSUME NEW t \in Tasks PROVE References(t) = 0
      <3>1. Cancelling(t) = {}
        BY <1>none DEF Cancelling
      <3>2. Cardinality(Cancelling(t)) = 0
        BY <3>1, FS_EmptySet
      <3>3. OwnReferences(t) = 0
        BY DEF OwnReferences, OneIf
      <3>4. OneIf(InSeq(t, tasks)) = 0
        BY <1>none DEF OneIf
      <3>. QED
        BY <3>2, <3>3, <3>4 DEF References
    <2>. QED
      BY <2>1 DEF RcExact
  <1>7. NoEscape /\ NoLostWake
    BY DEF NoEscape, NoLostWake
  <1>. QED
    BY <1>1, <1>2, <1>3, <1>4, <1>5, <1>6, <1>7 DEF IInv

\* Every step of every actor preserves the invariant.
LEMMA NextIInv == IInv /\ [Next]_vars => IInv'
  <1>. SUFFICES ASSUME IInv, [Next]_vars PROVE IInv'
    OBVIOUS
  <1>1. ASSUME NEW t \in Tasks, SpawnStep(t) PROVE IInv'
    BY <1>1, SpawnCheckStep, SpawnNoMemoryStep, SpawnRefusedStep, SpawnRegisterStep,
       SpawnEnqueueStep DEF SpawnStep
  <1>2. ASSUME NEW t \in Tasks, WorkStep(t) PROVE IInv'
    BY <1>2, DispatchStep, TryAccessStep, PollReturnsStep, RunRevokeStep, RunDestroyStep,
       RunExitStep DEF WorkStep
  <1>3. ASSUME NEW t \in Tasks, WakerStep(t) PROVE IInv'
    BY <1>3, CloneWakerStep, WakeStep, WakeByRefStep, DropWakerStep DEF WakerStep
  <1>4. ASSUME NEW c \in Cancellers, CancelStep(c) PROVE IInv'
    BY <1>4, CancelRevokeStep, CancelDestroyStep, CancelGrabStep, CancelWaitStep, Zenon DEF CancelStep
  <1>5. CASE UNCHANGED vars
    <2>1. /\ \A t : References(t)' = References(t)
          /\ \A c : Alone(c)' = Alone(c)
      BY <1>5, Zenon DEF vars, References, OwnReferences, Cancelling, Alone
    <2>2. TypeOK' /\ ListsOK'
      BY <1>5, Zenon DEF vars, IInv, TypeOK, ListsOK
    <2>3. \A t \in Tasks : SpawnOK(t)'
      BY <1>5, Zenon DEF vars, IInv, SpawnOK, Spawning, Live
    <2>4. (\A c \in Cancellers : CancelOK(c)') /\ RcExact' /\ NoEscape' /\ NoLostWake'
      BY <1>5, <2>1, Zenon DEF vars, IInv, CancelOK, RcExact, NoEscape, NoLostWake
    <2>5. \A t \in Tasks : FutureOK(t)'
      BY <1>5, Zenon DEF vars, IInv, FutureOK, Destroyer
    <2>6. \A c \in Stoppers, t \in Tasks : Flushed(c, t)'
      BY <1>5, <2>1, Zenon DEF vars, IInv, Flushed, Live
    <2>. QED
      BY <2>2, <2>3, <2>4, <2>5, <2>6, Zenon DEF IInv
  <1>. QED
    BY <1>1, <1>2, <1>3, <1>4, <1>5, DropHandleStep, StopStep, CancelHandleStep DEF Next

\* The invariant of the executor holds in every reachable state.
LEMMA InductiveInvariant == Spec => []IInv
  BY InitIInv, NextIInv, PTL DEF Spec

-----------------------------------------------------------------------------
\* Type correctness of the executor's state.
THEOREM TypeCorrect == Spec => []TypeOK
  <1>1. IInv => TypeOK
    BY DEF IInv
  <1>. QED
    BY <1>1, InductiveInvariant, PTL

\* The strong count of Arc<Task> is exact: the references that spawn, the handle, the
\* executor's list, the workqueue, the worker, the wakers and the cancellers hold, and
\* those that cancel_work_sync left in the queue.
THEOREM CountAlwaysExact == Spec => []RcExact
  <1>1. IInv => RcExact
    BY DEF IInv
  <1>. QED
    BY <1>1, InductiveInvariant, PTL

\* Executor::stop misses no task that spawn_inner registered: the second look at the flag,
\* under the lock that covers the push, is enough.
THEOREM NoTaskEscapes == Spec => []NoEscape
  <1>1. IInv => NoEscape
    BY DEF IInv
  <1>. QED
    BY <1>1, InductiveInvariant, PTL

\* A wake-up between a poll's start and the worker's return queues the item again, however
\* wakes, polls and cancellations interleave.
THEOREM NoWakeLost == Spec => []NoLostWake
  <1>1. IInv => NoLostWake
    BY DEF IInv
  <1>. QED
    BY <1>1, InductiveInvariant, PTL

\* When a stop without rivals returns, every task's future is destroyed and unpolled, and
\* its work item is neither queued nor running if its wakers died with the future.
THEOREM StopAlwaysCancels == Spec => []StopCancels
  <1>1. IInv => StopCancels
    <2>. SUFFICES ASSUME IInv, NEW c \in Stoppers, NEW t \in Tasks, cpc[c] = "returned", Alone(c)
                  PROVE  /\ Live(t) => dropped[t] /\ run[t] # "polling"
                         /\ t \notin Outliving /\ ~(t \in racing /\ Parent[t] = NoParent) =>
                               ~pending[t] /\ run[t] = "idle"
      BY DEF StopCancels, Quiet, Live
    <2>1. /\ clist[c] = <<>>
          /\ SpawnOK(t) /\ Flushed(c, t)
      BY DEF IInv, ListsOK, Cancellers
    <2>2. ~InSeq(t, clist[c])
      BY <2>1, ShortLists, Zenon
    <2>. QED
      BY <2>1, <2>2, Zenon DEF Flushed, SpawnOK, Live
  <1>. QED
    BY <1>1, InductiveInvariant, PTL

\* What a step may do to the future of t, in the terms of this module: nothing, hand it to
\* a poll, take it back, revoke it, destroy it, or drop it unspawned.
FutureStep(t) ==
    LET Polled == run[t] = "polling" IN
    \/ Polled' = Polled /\ revoked'[t] = revoked[t] /\ dropped'[t] = dropped[t]
    \/ ~revoked[t] /\ ~Polled /\ Polled' /\ ~revoked'[t] /\ dropped'[t] = dropped[t]
    \/ Polled /\ ~Polled' /\ revoked'[t] = revoked[t] /\ dropped'[t] = dropped[t]
    \/ ~revoked[t] /\ revoked'[t] /\ Polled' = Polled /\ dropped'[t] = dropped[t]
    \/ revoked[t] /\ ~Polled /\ ~dropped[t] /\ dropped'[t] /\ ~Polled' /\ revoked'[t]
    \/ ~revoked[t] /\ ~Polled /\ revoked'[t] /\ dropped'[t] /\ ~Polled'

\* Every step of the executor does one of these to every future.
LEMMA FutureSteps ==
    ASSUME IInv, [Next]_vars, NEW t \in Tasks
    PROVE  FutureStep(t)
  <1>. USE DEF spawnVars, workVars, futureVars, cancelVars
  <1>inv. /\ TypeOK /\ (\A s \in Tasks : SpawnOK(s)) /\ (\A d \in Cancellers : CancelOK(d))
          /\ (\A s \in Tasks : FutureOK(s))
    BY DEF IInv
  <1>same. UNCHANGED <<run, revoked, dropped>> => FutureStep(t)
    BY DEF FutureStep
  <1>1. ASSUME NEW s \in Tasks, SpawnStep(s) PROVE FutureStep(t)
    <2>1. CASE SpawnCheck(s) \/ SpawnEnqueue(s)
      BY <2>1, <1>same, Zenon DEF SpawnCheck, SpawnEnqueue
    <2>2. CASE SpawnNoMemory(s) \/ (SpawnRegister(s) /\ stopped)
      <3>1. spawn[s] = "checked"
        BY <2>2 DEF SpawnNoMemory, SpawnRegister
      <3>2. ~revoked[s] /\ run[s] # "polling"
        BY <3>1, <1>inv DEF SpawnOK
      <3>3. /\ revoked' = [revoked EXCEPT ![s] = TRUE] /\ dropped' = [dropped EXCEPT ![s] = TRUE]
            /\ UNCHANGED run
        BY <2>2 DEF SpawnNoMemory, SpawnRegister
      <3>. QED
        BY <3>2, <3>3, <1>inv, Zenon DEF FutureStep, TypeOK
    <2>3. CASE SpawnRegister(s) /\ ~stopped
      BY <2>3, <1>same DEF SpawnRegister
    <2>. QED
      BY <1>1, <2>1, <2>2, <2>3 DEF SpawnStep
  <1>2. ASSUME NEW s \in Tasks, WorkStep(s) PROVE FutureStep(t)
    <2>1. CASE Dispatch(s) \/ RunExit(s)
      BY <2>1, <1>inv DEF Dispatch, RunExit, FutureStep, TypeOK
    <2>2. CASE TryAccess(s)
      BY <2>2, <1>inv DEF TryAccess, FutureStep, TypeOK
    <2>3. CASE PollReturns(s, "pending") \/ PollReturns(s, "ready")
      BY <2>3, <1>inv, Zenon DEF PollReturns, FutureStep, TypeOK
    <2>4. CASE RunRevoke(s)
      BY <2>4, <1>inv, Zenon DEF RunRevoke, FutureStep, TypeOK
    <2>5. CASE RunDestroy(s)
      BY <2>5, <1>inv, Zenon DEF RunDestroy, Destroy, FutureStep, FutureOK, TypeOK
    <2>. QED
      BY <1>2, <2>1, <2>2, <2>3, <2>4, <2>5 DEF WorkStep
  <1>3. ASSUME NEW s \in Tasks, WakerStep(s) \/ DropHandle(s) PROVE FutureStep(t)
    BY <1>3, <1>same DEF WakerStep, CloneWaker, Wake, WakeByRef, DropWaker, DropHandle
  <1>4. ASSUME NEW c \in Cancellers, CancelStep(c) PROVE FutureStep(t)
    <2>1. CASE CancelRevoke(c)
      BY <2>1, <1>inv, HeadInList, Zenon DEF CancelRevoke, FutureStep, TypeOK
    <2>2. CASE CancelDestroy(c)
      <3>1. PICK s \in Tasks : s = Head(clist[c])
        BY <2>2, HeadInList, Zenon DEF CancelDestroy
      <3>2. revoked[s] /\ ~dropped[s] /\ run[s] # "polling"
        BY <2>2, <3>1, <1>inv DEF CancelDestroy, CancelOK, FutureOK, Destroyer
      <3>3. dropped' = [dropped EXCEPT ![s] = TRUE] /\ UNCHANGED <<run, revoked>>
        BY <2>2, <3>1 DEF CancelDestroy, Destroy
      <3>. QED
        BY <3>2, <3>3, <1>inv, Zenon DEF FutureStep, TypeOK
    <2>3. CASE CancelGrab(c) \/ CancelWait(c)
      BY <2>3, <1>same DEF CancelGrab, CancelWait
    <2>. QED
      BY <1>4, <2>1, <2>2, <2>3 DEF CancelStep
  <1>5. ASSUME NEW c \in Stoppers, Stop(c) PROVE FutureStep(t)
    BY <1>5, <1>same DEF Stop
  <1>6. ASSUME NEW c \in HandleHolders, NEW s \in Tasks, CancelHandle(c, s) PROVE FutureStep(t)
    BY <1>6, <1>same DEF CancelHandle
  <1>7. CASE UNCHANGED vars
    BY <1>7, <1>same DEF vars
  <1>. QED
    BY <1>1, <1>2, <1>3, <1>4, <1>5, <1>6, <1>7 DEF Next

\* Each of them is a step, or a stuttering step, of a cell whose one user is t's worker.
LEMMA CellStep ==
    ASSUME TypeOK, TypeOK', NEW t \in Tasks, FutureStep(t)
    PROVE  [Cell(t)!CellNext]_(Cell(t)!cellVars)
  <1>. DEFINE guards == IF run[t] = "polling" THEN {t} ELSE {}
  <1>. USE DEF Cell!cellVars, Cell!CellNext, Cell!Acquire, Cell!Release, Cell!Revoke,
               Cell!Destroy, Cell!OwnerDrop
  <1>type. /\ revoked[t] \in BOOLEAN /\ revoked'[t] \in BOOLEAN
           /\ dropped[t] \in BOOLEAN /\ dropped'[t] \in BOOLEAN
    BY DEF TypeOK
  <1>1. CASE guards' = guards /\ revoked'[t] = revoked[t] /\ dropped'[t] = dropped[t]
    BY <1>1, Zenon
  <1>2. CASE ~revoked[t] /\ guards = {} /\ guards' = {t} /\ ~revoked'[t] /\ dropped'[t] = dropped[t]
    BY <1>2, <1>type, Zenon
  <1>3. CASE guards = {t} /\ guards' = {} /\ revoked'[t] = revoked[t] /\ dropped'[t] = dropped[t]
    BY <1>3, Zenon
  <1>4. CASE ~revoked[t] /\ revoked'[t] /\ guards' = guards /\ dropped'[t] = dropped[t]
    BY <1>4, <1>type, Zenon
  <1>5. CASE revoked[t] /\ guards = {} /\ ~dropped[t] /\ dropped'[t] /\ guards' = {} /\ revoked'[t]
    BY <1>5, <1>type, Zenon
  <1>6. CASE ~revoked[t] /\ guards = {} /\ revoked'[t] /\ dropped'[t] /\ guards' = {}
    BY <1>6, <1>type, Zenon
  <1>. QED
    BY <1>1, <1>2, <1>3, <1>4, <1>5, <1>6, Zenon DEF FutureStep

\* Every future lives as the abstract revocable cell does: handed out only before it is
\* revoked, destroyed at most once afterwards and never during a poll, whichever of
\* spawn, stop, JoinHandle and Task::run gets there first.
THEOREM FuturesImplementCells == Spec => FuturesAreCells
  <1>1. IInv /\ IInv' /\ [Next]_vars => [\A t \in Tasks : [Cell(t)!CellNext]_(Cell(t)!cellVars)]_vars
    <2>. SUFFICES ASSUME IInv, IInv', [Next]_vars
                  PROVE  \A t \in Tasks : [Cell(t)!CellNext]_(Cell(t)!cellVars)
      OBVIOUS
    <2>1. TypeOK /\ TypeOK'
      BY DEF IInv
    <2>. QED
      BY <2>1, FutureSteps, CellStep
  <1>. QED
    BY <1>1, InductiveInvariant, PTL DEF Spec, FuturesAreCells
===============================================================================
