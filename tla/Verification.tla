---------------------------- MODULE Verification ----------------------------
(***************************************************************************)
(* What a CheckObj or CheckPod task promises, whatever its concurrency:    *)
(* it looks at objects while they change, and says "ok" only when it has   *)
(* seen enough of them in the expected state, each at a moment when the    *)
(* object really was in it.                                                *)
(***************************************************************************)
EXTENDS Naturals, FiniteSets

CONSTANTS Subjects, \* the objects or pods that may be looked at
          Count     \* how many have to be seen

VARIABLES good,     \* the subjects in the expected state right now
          seen,     \* the subjects the task has seen in that state
          verdict   \* "none" while the task runs, then "ok" or "error"

vars == <<good, seen, verdict>>

Init == good \in SUBSET Subjects /\ seen = {} /\ verdict = "none"

(* The objects change; a look returns some that are, or now become, good.  *)
Look == /\ good' \in SUBSET Subjects
        /\ \E S \in SUBSET (good \cup good') : seen' = seen \cup S
        /\ UNCHANGED verdict

Succeed == /\ verdict = "none"
           /\ Cardinality(seen) >= Count
           /\ verdict' = "ok"
           /\ UNCHANGED <<good, seen>>

GiveUp == /\ verdict = "none"
          /\ verdict' = "error"
          /\ UNCHANGED <<good, seen>>

Next == Look \/ Succeed \/ GiveUp

Spec == Init /\ [][Next]_vars
=============================================================================
