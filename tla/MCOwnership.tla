----------------------------- MODULE MCOwnership -----------------------------
(***************************************************************************)
(* The owners of values on small instances: a Vec, an Arc with a work item *)
(* inside, an AsyncRevocable, or two intrusive lists, chosen at the start; *)
(* the others stay in their initial states.  The revocable has three users *)
(* and the smallest word that holds them: the count may reach the largest  *)
(* value that does not carry into the revoked bit.                         *)
(***************************************************************************)
EXTENDS KVec, ArcWork, AsyncRevocable, List

VARIABLE which

ownVars == <<which, kvars, avars, vars, lvars>>

OwnInit ==
    which \in {"vec", "arc", "revocable", "list"} /\ KInit /\ AInit /\ Init /\ LInit

VecSteps == which = "vec" /\ KNext /\ UNCHANGED <<which, avars, vars, lvars>>
ArcSteps == which = "arc" /\ ANext /\ UNCHANGED <<which, kvars, vars, lvars>>
RevocableSteps == which = "revocable" /\ Next /\ UNCHANGED <<which, kvars, avars, lvars>>
ListSteps == which = "list" /\ LNext /\ UNCHANGED <<which, kvars, avars, vars>>

OwnNext == VecSteps \/ ArcSteps \/ RevocableSteps \/ ListSteps

\* The fairness of each component, for the one that runs.
OwnSpec ==
    /\ OwnInit /\ [][OwnNext]_ownVars
    /\ WF_ownVars(ArcSteps /\ WorkerStep)
    /\ \A u \in Users : /\ WF_ownVars(RevocableSteps /\ GuardDrop(u))
                        /\ WF_ownVars(RevocableSteps /\ DropData(u))
=============================================================================
