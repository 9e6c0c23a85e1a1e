---------------------------- MODULE NestedProofs ----------------------------
(***************************************************************************)
(* Theorems about Nested, and so about the three tasks it is composed of,  *)
(* for any number of parallel sub-tasks, any jobs, parameters and bounds.  *)
(* Each task has an invariant of its own, that its steps preserve and that *)
(* the steps of the others do not touch; Handover relates them.            *)
(***************************************************************************)
EXTENDS Nested, Sequences, FiniteSetTheorems, TLAPS

-----------------------------------------------------------------------------
(* Parallel.                                                               *)

(* The goroutines there are, and what the counter of the WaitGroup says.   *)
Running == {k \in P!Subs : sub[k] \in {"exec", "lock", "append", "done"}}

(* What the goroutine of Exec has reached.                                 *)
Progress ==
    /\ main \in {"idle", "prepare"} => \A k \in P!Subs : sub[k] = "none"
    /\ main = "prepare" => runnables = {k \in P!Subs : k < next}
    /\ main \in {"launch", "wait"} => runnables = P!Subs
    /\ main = "launch" => \A k \in P!Subs : sub[k] = "none" <=> k >= next
    /\ main = "wait" => \A k \in P!Subs : sub[k] # "none"
    /\ main = "returned" =>
          IF joined = "abort" THEN \A k \in P!Subs : sub[k] = "none"
          ELSE runnables = P!Subs /\ \A k \in P!Subs : sub[k] = "gone"
    /\ main = "returned" <=> joined # "none"

(* The errors of the sub-tasks that have reported are in the list, which   *)
(* the holder of the mutex has read.                                       *)
Reported ==
    /\ allErrors = {k \in P!Subs : subFailed[k] /\ sub[k] \in {"done", "gone"}}
    /\ \A k \in P!Subs :
          /\ sub[k] = "append" <=> errMutex = k
          /\ sub[k] = "append" => buffer[k] = allErrors
          /\ sub[k] \in {"lock", "append"} => subFailed[k]
          /\ sub[k] \in {"none", "exec"} => ~subFailed[k]
    /\ main = "returned" /\ joined # "abort" => (joined = "ok" <=> allErrors = {})

ParallelInv == P!TypeOK /\ wg = Cardinality(Running) /\ Progress /\ Reported

LEMMA RunningFinite ==
    /\ Running \subseteq P!Subs /\ IsFiniteSet(Running)
    /\ Width \in Nat \ {0}
<1>1. Width \in Nat \ {0}
  BY NestedAssumption DEF P!SubsAssumption
<1>2. IsFiniteSet(P!Subs)
  BY <1>1, FS_Interval DEF P!Subs
<1> QED BY <1>1, <1>2, FS_Subset DEF Running

LEMMA BeginParallel == ASSUME P!Begin PROVE ParallelInv'
<1>1. P!TypeOK'
  BY RunningFinite DEF P!Begin, P!TypeOK, P!Subs
<1>2. Running' = {}
  BY DEF P!Begin, Running
<1>3. wg' = Cardinality(Running')
  BY <1>2, FS_EmptySet DEF P!Begin
<1>4. Progress' /\ Reported'
  BY DEF P!Begin, Progress, Reported, P!Subs
<1> QED BY <1>1, <1>3, <1>4 DEF ParallelInv

LEMMA MainKeepsParallel == ASSUME ParallelInv, P!MainStep PROVE ParallelInv'
<1>0. Width \in Nat \ {0} /\ P!TypeOK
  BY RunningFinite DEF ParallelInv
<1>1. CASE P!Prepare
  <2>1. /\ next \in P!Subs /\ next' \in 0..Width /\ runnables' \subseteq P!Subs
        /\ main' \in {"prepare", "returned"} /\ joined' \in {joined, "abort"}
        /\ UNCHANGED <<wg, sub, subFailed, errMutex, buffer, allErrors>>
    <3>1. next \in P!Subs /\ next + 1 \in 0..Width /\ next \in 0..Width
      BY <1>0, <1>1 DEF P!Prepare, P!Subs
    <3>2. runnables \subseteq P!Subs
      BY <1>0 DEF P!TypeOK
    <3> QED BY <1>0, <1>1, <3>1, <3>2 DEF P!Prepare
  <2>2. P!TypeOK'
    BY <1>0, <2>1 DEF P!TypeOK
  <2>3. Running' = Running /\ wg' = wg
    BY <2>1 DEF Running
  <2>4. Progress' /\ Reported'
    BY <1>0, <1>1 DEF P!Prepare, ParallelInv, Progress, Reported, P!Subs, P!TypeOK
  <2> QED BY <2>2, <2>3, <2>4 DEF ParallelInv
<1>2. CASE P!Prepared \/ P!Launched
  <2>1. /\ next = Width /\ next' \in {0, Width} /\ main' \in {"launch", "wait"}
        /\ UNCHANGED <<runnables, wg, sub, subFailed, errMutex, buffer, allErrors, joined>>
    BY <1>0, <1>2 DEF P!Prepared, P!Launched, P!TypeOK, P!Subs
  <2>2. P!TypeOK'
    BY <1>0, <2>1 DEF P!TypeOK
  <2>3. Running' = Running /\ wg' = wg
    BY <2>1 DEF Running
  <2>4. Progress'
    <3>1. CASE P!Prepared
      <4>1. runnables = P!Subs
        <5>1. runnables = {k \in P!Subs : k < next}
          BY <3>1 DEF P!Prepared, ParallelInv, Progress
        <5>2. \A k \in P!Subs : k < next
          BY <1>0, <2>1 DEF P!Subs
        <5> QED BY <5>1, <5>2
      <4>2. /\ main' = "launch" /\ next' = 0 /\ joined' = "none"
            /\ \A k \in P!Subs : sub[k] = "none" /\ k >= 0
        BY <1>0, <2>1, <3>1 DEF P!Prepared, ParallelInv, Progress, P!Subs
      <4> QED BY <2>1, <4>1, <4>2 DEF Progress
    <3>2. CASE P!Launched
      BY <1>0, <2>1, <3>2 DEF P!Launched, ParallelInv, Progress, P!Subs
    <3> QED BY <1>2, <3>1, <3>2
  <2>5. Reported'
    BY <2>1 DEF ParallelInv, Reported
  <2> QED BY <2>2, <2>3, <2>4, <2>5 DEF ParallelInv
<1>3. CASE P!Launch
  <2>1. /\ next \in P!Subs /\ sub[next] = "none" /\ sub' = [sub EXCEPT ![next] = "exec"]
        /\ next' = next + 1
    BY <1>0, <1>3 DEF P!Launch, ParallelInv, Progress, P!Subs, P!TypeOK
  <2>2. Running' = Running \cup {next} /\ next \notin Running
    BY <1>0, <2>1 DEF Running, P!TypeOK
  <2>3. wg' = Cardinality(Running') /\ wg' \in 0..Width
    <3>1. Cardinality(Running') = Cardinality(Running) + 1
      BY <2>2, RunningFinite, FS_AddElement
    <3>2. Cardinality(Running') <= Cardinality(P!Subs) /\ Cardinality(P!Subs) = Width
          /\ Cardinality(Running') \in Nat
      <4>1. IsFiniteSet(P!Subs) /\ Running' \subseteq P!Subs
        BY <1>0, FS_Interval DEF P!Subs, Running
      <4>2. Cardinality(P!Subs) = Width
        BY <1>0, FS_Interval DEF P!Subs
      <4> QED BY <4>1, <4>2, FS_Subset, FS_CardinalityType
    <3> QED BY <1>3, <3>1, <3>2 DEF P!Launch, ParallelInv
  <2>4. P!TypeOK'
    BY <1>0, <1>3, <2>1, <2>3 DEF P!Launch, P!TypeOK, P!Subs
  <2>5. Progress'
    BY <1>0, <1>3, <2>1 DEF P!Launch, ParallelInv, Progress, P!Subs, P!TypeOK
  <2>6. Reported'
    BY <1>0, <1>3, <2>1 DEF P!Launch, ParallelInv, Reported, P!Subs, P!TypeOK
  <2> QED BY <2>3, <2>4, <2>5, <2>6 DEF ParallelInv
<1>4. CASE P!WgWait
  <2>1. Running = {}
    BY <1>4, RunningFinite, FS_EmptySet DEF P!WgWait, ParallelInv
  <2>2. \A k \in P!Subs : sub[k] = "gone"
    BY <1>0, <1>4, <2>1 DEF P!WgWait, ParallelInv, Progress, Running, P!TypeOK
  <2>3. P!TypeOK'
    BY <1>0, <1>4 DEF P!WgWait, P!TypeOK
  <2>4. Running' = Running /\ wg' = wg
    BY <1>4 DEF P!WgWait, Running
  <2>5. Progress' /\ Reported'
    BY <1>4, <2>2 DEF P!WgWait, ParallelInv, Progress, Reported
  <2> QED BY <2>3, <2>4, <2>5 DEF ParallelInv
<1> QED BY <1>1, <1>2, <1>3, <1>4 DEF P!MainStep

LEMMA SubKeepsParallel ==
    ASSUME ParallelInv, NEW k \in P!Subs,
           P!ReportStep(k) \/ \E ok \in BOOLEAN : P!ExecRunnable(k, ok)
    PROVE  ParallelInv'
<1>0. Width \in Nat \ {0} /\ P!TypeOK
  BY RunningFinite DEF ParallelInv
<1>1. CASE P!WgDone(k)
  <2>1. Running' = Running \ {k} /\ k \in Running
    BY <1>0, <1>1 DEF P!WgDone, Running, P!TypeOK
  <2>2. wg' = Cardinality(Running') /\ wg' \in 0..Width
    BY <1>0, <1>1, <2>1, RunningFinite, FS_RemoveElement, FS_CardinalityType, FS_Subset
       DEF P!WgDone, ParallelInv, P!TypeOK
  <2>3. P!TypeOK'
    BY <1>0, <1>1, <2>2 DEF P!WgDone, P!TypeOK
  <2>4. Progress'
    BY <1>0, <1>1 DEF P!WgDone, ParallelInv, Progress, P!TypeOK
  <2>5. Reported'
    BY <1>0, <1>1 DEF P!WgDone, ParallelInv, Reported, P!TypeOK
  <2> QED BY <2>2, <2>3, <2>4, <2>5 DEF ParallelInv
<1>2. CASE P!LockErrors(k) \/ P!AppendError(k) \/ \E ok \in BOOLEAN : P!ExecRunnable(k, ok)
  <2>1. /\ sub[k] \in {"exec", "lock", "append"} /\ sub'[k] \in {"lock", "append", "done"}
        /\ sub' = [sub EXCEPT ![k] = sub'[k]]
        /\ UNCHANGED <<main, next, runnables, wg, joined>>
    BY <1>0, <1>2 DEF P!LockErrors, P!AppendError, P!ExecRunnable, P!TypeOK
  <2>2. Running' = Running
    BY <1>0, <2>1 DEF Running, P!TypeOK
  <2>3. P!TypeOK'
    BY <1>0, <1>2, <2>1 DEF P!LockErrors, P!AppendError, P!ExecRunnable, P!TypeOK
  <2>4. Progress'
    BY <1>0, <2>1 DEF ParallelInv, Progress, P!TypeOK
  <2>5. Reported'
    <3>1. CASE P!LockErrors(k)
      BY <1>0, <3>1 DEF P!LockErrors, ParallelInv, Progress, Reported, P!TypeOK, P!Subs
    <3>2. CASE P!AppendError(k)
      <4>1. /\ sub[k] = "append" /\ sub' = [sub EXCEPT ![k] = "done"] /\ errMutex = k
            /\ allErrors' = allErrors \cup {k} /\ UNCHANGED <<main, joined, subFailed, buffer>>
        BY <1>0, <3>2 DEF P!AppendError, ParallelInv, Reported
      <4>2. k \in P!Subs /\ sub \in [P!Subs -> {"none", "exec", "lock", "append", "done", "gone"}]
            /\ k # -1 /\ Reported /\ errMutex' = -1 /\ main # "returned"
        BY <1>0, <3>2 DEF P!AppendError, ParallelInv, Progress, P!TypeOK, P!Subs
      <4>3. subFailed[k] /\ \A l \in P!Subs : l # k => sub[l] # "append" /\ sub'[l] = sub[l]
        BY <4>1, <4>2 DEF Reported
      <4>4. sub'[k] = "done" /\ -1 \notin P!Subs
        BY <4>1, <4>2 DEF P!Subs
      <4> QED BY <4>1, <4>2, <4>3, <4>4 DEF Reported
    <3>3. ASSUME NEW ok \in BOOLEAN, P!ExecRunnable(k, ok) PROVE Reported'
      <4>1. /\ sub[k] = "exec" /\ UNCHANGED <<main, joined, errMutex, allErrors, buffer>>
            /\ sub' = [sub EXCEPT ![k] = IF ok THEN "done" ELSE "lock"]
            /\ subFailed' = [subFailed EXCEPT ![k] = ~ok]
        BY <3>3 DEF P!ExecRunnable
      <4>2. k \in P!Subs /\ sub \in [P!Subs -> {"none", "exec", "lock", "append", "done", "gone"}]
            /\ subFailed \in [P!Subs -> BOOLEAN] /\ Reported
        BY <1>0, <3>3 DEF P!ExecRunnable, ParallelInv, P!TypeOK
      <4> QED BY <4>1, <4>2 DEF Reported
    <3> QED BY <1>2, <3>1, <3>2, <3>3
  <2> QED BY <2>1, <2>2, <2>3, <2>4, <2>5 DEF ParallelInv
<1> QED BY <1>1, <1>2 DEF P!ReportStep

LEMMA ParallelUntouched == ASSUME ParallelInv, UNCHANGED parallel PROVE ParallelInv'
BY DEF parallel, ParallelInv, P!TypeOK, Running, Progress, Reported

-----------------------------------------------------------------------------
(* DeleteAllJobs.                                                          *)

(* The jobs that were there at the start are deleted kind by kind: none is *)
(* left of the kinds the task is done with, and a job can only be there    *)
(* while its kind is served.                                               *)
DeleteInv ==
    /\ D!TypeOK
    /\ \A j \in left : job[j] # "none"
    /\ \A j \in Jobs : job[j] # "none" => KindOf[j] \in served
    /\ phase # "returned" /\ gvr = 2 => \A j \in left : KindOf[j] # "batch"
    /\ D!AllGone

LEMMA KindsInOrder ==
    /\ Len(D!gvrs) = 2 /\ D!gvrs[1] = "batch" /\ D!gvrs[2] = "volcano"
    /\ KindOf \in [Jobs -> {"batch", "volcano"}] /\ Troubles \in Nat
BY NestedAssumption DEF D!gvrs, D!JobsAssumption, D!Kinds

(* Moving on to the next kind, which is done when none of it is listed.    *)
LEMMA NextKindKeepsDelete ==
    ASSUME DeleteInv, phase # "returned", D!Listed = {}, D!NextKind,
           list' \subseteq Jobs, UNCHANGED <<job, served, left, troubles, ctxDone>>
    PROVE  DeleteInv'
<1>1. \A j \in left : KindOf[j] # D!Kind /\ KindOf[j] \in {"batch", "volcano"}
  BY KindsInOrder DEF DeleteInv, D!Listed, D!TypeOK
<1>2. gvr \in {1, 2}
  BY KindsInOrder DEF DeleteInv, D!TypeOK
<1>3. CASE gvr = 1
  <2>1. phase' = "list" /\ gvr' = 2 /\ outcome' = outcome
    BY <1>3, KindsInOrder DEF D!NextKind
  <2>2. \A j \in left : KindOf[j] # "batch"
    BY <1>1, <1>3, KindsInOrder DEF D!Kind
  <2>3. D!TypeOK'
    BY <2>1, KindsInOrder DEF DeleteInv, D!TypeOK
  <2> QED BY <2>1, <2>2, <2>3 DEF DeleteInv, D!AllGone
<1>4. CASE gvr = 2
  <2>1. phase' = "returned" /\ gvr' = gvr /\ outcome' = "ok"
    BY <1>4, KindsInOrder DEF D!NextKind, D!Return
  <2>2. left = {}
    BY <1>1, <1>4, KindsInOrder DEF D!Kind, DeleteInv
  <2>3. D!TypeOK'
    BY <2>1, KindsInOrder DEF DeleteInv, D!TypeOK
  <2> QED BY <2>1, <2>2, <2>3 DEF DeleteInv, D!AllGone
<1> QED BY <1>2, <1>3, <1>4

(* What the cluster does, and the Delete of the task.                      *)
LEMMA BecomeKeepsDelete ==
    ASSUME DeleteInv, NEW js \in SUBSET Jobs, NEW state \in {"none", "there", "deleting"},
           D!Become(js, state),
           \A j \in js : state # "none" => KindOf[j] \in served',
           \A j \in Jobs \ js : KindOf[j] \in served => KindOf[j] \in served',
           served' \subseteq D!Kinds, troubles' \in 0..Troubles, list' \subseteq Jobs,
           UNCHANGED <<ctxDone, phase, gvr, outcome>>
    PROVE  DeleteInv'
<1>1. /\ job' = [j \in Jobs |-> IF j \in js THEN state ELSE job[j]]
      /\ left' \subseteq left /\ (state = "none" => left' = left \ js)
  BY DEF D!Become
<1>2. D!TypeOK'
  BY <1>1 DEF DeleteInv, D!TypeOK
<1>3. \A j \in left' : job'[j] # "none"
  BY <1>1 DEF DeleteInv, D!TypeOK
<1>4. \A j \in Jobs : job'[j] # "none" => KindOf[j] \in served'
  BY <1>1 DEF DeleteInv
<1> QED BY <1>1, <1>2, <1>3, <1>4 DEF DeleteInv, D!AllGone

LEMMA ClusterKeepsDelete == ASSUME DeleteInv, D!ClusterStep PROVE DeleteInv'
<1>0. D!TypeOK /\ KindOf \in [Jobs -> D!Kinds] /\ Troubles \in Nat
  BY KindsInOrder DEF DeleteInv, D!Kinds
<1>1. D!Trouble => troubles' \in 0..Troubles
  BY <1>0 DEF D!Trouble, D!TypeOK
<1>2. CASE D!Uninstall
  <2> DEFINE js == {j \in Jobs : KindOf[j] = "volcano"}
  <2>1. D!Become(js, "none") /\ served' = served \ {"volcano"}
    BY <1>2 DEF D!Uninstall
  <2>2. \A j \in Jobs \ js : KindOf[j] \in served => KindOf[j] \in served'
    BY <2>1
  <2>3. /\ served' \subseteq D!Kinds /\ troubles' \in 0..Troubles /\ list' \subseteq Jobs
        /\ UNCHANGED <<ctxDone, phase, gvr, outcome>>
    BY <1>0, <1>1, <1>2 DEF D!Uninstall, D!execVars, D!TypeOK
  <2> HIDE DEF js
  <2>4. js \in SUBSET Jobs
    BY DEF js
  <2> QED BY <2>1, <2>2, <2>3, <2>4, BecomeKeepsDelete
<1>3. ASSUME NEW j \in Jobs, D!Create(j) \/ D!Collect(j) \/ D!Vanish(j) PROVE DeleteInv'
  <2>1. PICK state \in {"none", "there"} :
           D!Become({j}, state) /\ (state # "none" => KindOf[j] \in served)
    BY <1>3 DEF D!Create, D!Collect, D!Vanish
  <2>2. /\ served' = served /\ troubles' \in 0..Troubles /\ list' \subseteq Jobs
        /\ UNCHANGED <<ctxDone, phase, gvr, outcome>>
    BY <1>0, <1>1, <1>3 DEF D!Create, D!Collect, D!Vanish, D!execVars, D!TypeOK
  <2> QED BY <1>0, <2>1, <2>2, BecomeKeepsDelete DEF D!TypeOK
<1> QED BY <1>2, <1>3 DEF D!ClusterStep

LEMMA ExecKeepsDelete == ASSUME DeleteInv, D!ExecStep PROVE DeleteInv'
<1>0. D!TypeOK /\ KindOf \in [Jobs -> D!Kinds] /\ Troubles \in Nat /\ D!Listed \subseteq Jobs
  BY KindsInOrder DEF DeleteInv, D!Kinds, D!Listed
<1>1. CASE D!RequestFails \/ D!PollTimesOut
  <2>1. /\ phase' = "returned" /\ outcome' = "failed" /\ troubles' \in 0..Troubles
        /\ UNCHANGED <<job, served, left, ctxDone, list, gvr>>
    BY <1>0, <1>1 DEF D!RequestFails, D!PollTimesOut, D!Return, D!Fault, D!Trouble,
       D!cluster, D!TypeOK
  <2>2. D!TypeOK'
    BY <1>0, <2>1 DEF D!TypeOK
  <2> QED BY <2>1, <2>2 DEF DeleteInv, D!AllGone
<1>2. CASE D!List
  <2>1. CASE D!Kind \in served
    <3>1. /\ phase = "list" /\ phase' = "delete" /\ list' \subseteq Jobs
          /\ UNCHANGED <<job, served, left, troubles, ctxDone, gvr, outcome>>
      BY <1>0, <1>2, <2>1 DEF D!List, D!cluster
    <3>2. D!TypeOK'
      BY <1>0, <3>1 DEF D!TypeOK
    <3> QED BY <3>1, <3>2 DEF DeleteInv, D!AllGone
  <2>2. CASE D!Kind \notin served
    <3>1. D!Listed = {}
      BY <2>2 DEF DeleteInv, D!Listed
    <3>2. /\ phase = "list" /\ D!NextKind /\ list' \subseteq Jobs
          /\ UNCHANGED <<job, served, left, troubles, ctxDone>>
      BY <1>0, <1>2, <2>2 DEF D!List, D!cluster, D!TypeOK
    <3> QED BY <3>1, <3>2, NextKindKeepsDelete
  <2> QED BY <2>1, <2>2
<1>3. CASE D!Deleted
  <2>1. /\ phase = "delete" /\ phase' = "poll"
        /\ UNCHANGED <<job, served, left, troubles, ctxDone, gvr, outcome, list>>
    BY <1>3 DEF D!Deleted, D!cluster
  <2>2. D!TypeOK'
    BY <1>0, <2>1 DEF D!TypeOK
  <2> QED BY <2>1, <2>2 DEF DeleteInv, D!AllGone
<1>4. CASE D!Poll
  BY <1>0, <1>4, NextKindKeepsDelete DEF D!Poll, D!cluster, D!TypeOK
<1>5. ASSUME NEW j \in Jobs, D!Delete(j) PROVE DeleteInv'
  <2>1. /\ list' \subseteq Jobs /\ troubles' \in 0..Troubles
        /\ UNCHANGED <<served, ctxDone, phase, gvr, outcome>>
    BY <1>0, <1>5 DEF D!Delete, D!TypeOK
  <2>2. CASE job[j] # "none"
    <3>1. D!Become({j}, "deleting") /\ KindOf[j] \in served
      BY <1>5, <2>2 DEF D!Delete, DeleteInv
    <3> QED BY <1>0, <2>1, <3>1, BecomeKeepsDelete DEF D!TypeOK
  <2>3. CASE job[j] = "none"
    <3>1. UNCHANGED <<job, left>>
      BY <1>5, <2>3 DEF D!Delete
    <3>2. D!TypeOK'
      BY <1>0, <2>1, <3>1 DEF D!TypeOK
    <3> QED BY <2>1, <3>1, <3>2 DEF DeleteInv, D!AllGone
  <2> QED BY <2>2, <2>3
<1> QED BY <1>1, <1>2, <1>3, <1>4, <1>5 DEF D!ExecStep

LEMMA BeginDelete == ASSUME DeleteInv, D!Begin PROVE DeleteInv'
<1>1. /\ phase' = "list" /\ gvr' = 1 /\ list' = {} /\ outcome' = "none"
      /\ left' = {j \in Jobs : job[j] # "none"}
      /\ UNCHANGED <<job, served, ctxDone, troubles>>
  BY DEF D!Begin
<1>2. D!TypeOK'
  BY <1>1, KindsInOrder DEF DeleteInv, D!TypeOK
<1> QED BY <1>1, <1>2 DEF DeleteInv, D!AllGone

LEMMA DeleteUntouched ==
    ASSUME DeleteInv, UNCHANGED delete, ctxDone' \in BOOLEAN PROVE DeleteInv'
BY DEF delete, DeleteInv, D!TypeOK, D!AllGone

-----------------------------------------------------------------------------
(* Repeat.                                                                 *)

(* The sub-tasks that have been started so far.                            *)
Started ==
    ((0..(iterations - 1)) \X (0..1)) \cup ({iterations} \X (0..(i - 1)))
        \cup IF pc \in {"run", "subDone"} THEN {<<iterations, i>>} ELSE {}

(* Where the loop is says how far it is: an iteration below the count, no  *)
(* sub-task with an error before it, and the context seen after each.      *)
RepeatInv ==
    /\ R!TypeOK
    /\ pc \in {"limit", "ctx", "sleep"} => i = 0
    /\ count > 0 => /\ iterations <= count
                    /\ pc \in {"ctx", "sub", "run", "subDone"} => iterations < count
                    /\ ids \subseteq (0..(count - 1)) \X (0..1)
    /\ pc # "returned" /\ iterations < MaxIter => ids = Started
    /\ verdict = "ok" /\ iterations < MaxIter =>
          /\ ids = (0..(iterations - 1)) \X (0..1)
          /\ iterations = count \/ elapsed
    /\ verdict # "none" \/ failed => pc = "returned"
    /\ late <= 1
    /\ late = 1 => ctxDone /\ pc \in {"run", "subDone", "returned"}

RepeatStep ==
    \/ R!RunTask \/ R!LoopStep \/ R!Elapse \/ R!Cancel
    \/ \E ok \in BOOLEAN : R!TaskReturns(ok)

LEMMA CountsBounded ==
    /\ MaxIter \in Nat /\ \A c \in Counts : c \in Int /\ c < MaxIter
    /\ Intervals \subseteq BOOLEAN /\ Durations \subseteq {"", "0s", "1m"}
BY NestedAssumption DEF R!ParamsAssumption

LEMMA RepeatStepKeepsRepeat == ASSUME RepeatInv, RepeatStep PROVE RepeatInv'
<1>0. /\ R!TypeOK /\ MaxIter \in Nat /\ count \in Int /\ count < MaxIter
      /\ count \in Counts /\ iterations \in 0..MaxIter /\ i \in {0, 1} /\ late \in Nat
  <2>1. R!TypeOK
    BY DEF RepeatInv
  <2>2. /\ count \in Counts /\ iterations \in 0..MaxIter /\ i \in 0..(2 - 1) /\ late \in Nat
    BY <2>1 DEF R!TypeOK
  <2>3. i \in {0, 1}
    BY <2>2
  <2> QED BY <2>1, <2>2, <2>3, CountsBounded
<1>1. CASE R!RunTask
  <2>1. /\ pc = "sub" /\ ids' = ids \cup {<<iterations, i>>}
        /\ \/ pc' = "run" /\ failed' = failed /\ verdict' = verdict
           \/ pc' = "returned" /\ failed' = TRUE /\ verdict' = "failed"
        /\ late' = IF ctxDone THEN late + 1 ELSE late
        /\ UNCHANGED <<count, duration, interval, iterations, i, elapsed, ctxDone>>
    BY <1>1 DEF R!RunTask, R!Goto, R!Return, R!params
  <2>2. late = 0
    BY <1>0, <2>1 DEF RepeatInv
  <2>3. R!TypeOK'
    <3>1. ids' \subseteq (0..MaxIter) \X (0..(2 - 1))
      BY <1>0, <2>1 DEF R!TypeOK
    <3>2. late' \in Nat
      BY <1>0, <2>1
    <3>3. failed' \in BOOLEAN
      BY <1>0, <2>1 DEF R!TypeOK
    <3>4. pc' \in {"run", "returned"} /\ verdict' \in {"none", "ok", "cancelled", "failed"}
      BY <1>0, <2>1 DEF R!TypeOK
    <3> QED BY <1>0, <2>1, <3>1, <3>2, <3>3, <3>4 DEF R!TypeOK
  <2>4. count > 0 => iterations < count /\ ids' \subseteq (0..(count - 1)) \X (0..1)
    BY <1>0, <2>1 DEF RepeatInv
  <2>5. pc' = "run" /\ iterations < MaxIter => ids' = Started'
    BY <2>1 DEF RepeatInv, Started
  <2> QED BY <1>0, <2>1, <2>2, <2>3, <2>4, <2>5 DEF RepeatInv
<1>2. ASSUME NEW ok \in BOOLEAN, R!TaskReturns(ok) PROVE RepeatInv'
  <2>1. /\ pc = "run"
        /\ \/ pc' = "subDone" /\ failed' = failed /\ verdict' = verdict
           \/ pc' = "returned" /\ failed' = TRUE /\ verdict' = "failed"
        /\ UNCHANGED <<count, duration, interval, iterations, i, elapsed, ctxDone, ids, late>>
    BY <1>2 DEF R!TaskReturns, R!Goto, R!Return, R!params
  <2>2. R!TypeOK'
    BY <1>0, <2>1 DEF R!TypeOK
  <2>3. pc' = "subDone" => Started' = Started
    BY <2>1 DEF Started
  <2> QED BY <1>0, <2>1, <2>2, <2>3 DEF RepeatInv
<1>3. CASE R!Limits
  <2>1. /\ pc = "limit"
        /\ \/ /\ pc' = "returned" /\ verdict' = "ok"
              /\ elapsed \/ (count > 0 /\ iterations >= count)
           \/ /\ pc' = "ctx" /\ verdict' = verdict
              /\ ~(count > 0 /\ iterations >= count)
        /\ UNCHANGED <<count, duration, interval, iterations, i, elapsed, ctxDone, ids,
                       late, failed>>
    BY <1>3 DEF R!Limits, R!Goto, R!Return, R!params
  <2>2. R!TypeOK'
    BY <1>0, <2>1 DEF R!TypeOK
  <2>3. Started' = Started /\ Started = (0..(iterations - 1)) \X (0..1)
    BY <1>0, <2>1 DEF Started, RepeatInv
  <2> QED BY <1>0, <2>1, <2>2, <2>3 DEF RepeatInv
<1>4. CASE R!CheckCtx \/ R!Sleep
  <2>1. /\ \/ pc = "ctx" /\ pc' = "sub" /\ verdict' = verdict /\ ~ctxDone
           \/ pc = "sleep" /\ pc' = "limit" /\ verdict' = verdict
           \/ pc \in {"ctx", "sleep"} /\ pc' = "returned" /\ verdict' = "cancelled"
        /\ UNCHANGED <<count, duration, interval, iterations, i, elapsed, ctxDone, ids,
                       late, failed>>
    BY <1>4 DEF R!CheckCtx, R!Sleep, R!Goto, R!Return, R!params
  <2>2. R!TypeOK'
    BY <1>0, <2>1 DEF R!TypeOK
  <2>3. pc' # "returned" => Started' = Started
    BY <2>1 DEF Started
  <2> QED BY <1>0, <2>1, <2>2, <2>3 DEF RepeatInv
<1>5. CASE R!SubDone
  <2>1. /\ pc = "subDone"
        /\ \/ /\ ctxDone /\ pc' = "returned" /\ verdict' = "cancelled"
              /\ UNCHANGED <<i, iterations>>
           \/ /\ ~ctxDone /\ i = 0 /\ i' = 1 /\ pc' = "sub"
              /\ UNCHANGED <<verdict, iterations>>
           \/ /\ ~ctxDone /\ i = 1 /\ i' = 0 /\ pc' \in {"sleep", "limit"}
              /\ iterations' = R!NextIteration /\ UNCHANGED verdict
        /\ UNCHANGED <<count, duration, interval, elapsed, ctxDone, ids, late, failed>>
    BY <1>0, <1>5 DEF R!SubDone, R!Goto, R!Return, R!params
  <2>2. iterations' \in 0..MaxIter /\ (iterations' = iterations \/ iterations' = iterations + 1
          \/ (iterations' = MaxIter /\ iterations = MaxIter))
    BY <1>0, <2>1 DEF R!NextIteration
  <2>3. R!TypeOK'
    BY <1>0, <2>1, <2>2 DEF R!TypeOK
  <2>4. CASE pc' = "returned"
    BY <1>0, <2>1, <2>3, <2>4 DEF RepeatInv
  <2>5. CASE pc' = "sub"
    <3>1. Started' = Started
      BY <2>1, <2>5 DEF Started
    <3> QED BY <1>0, <2>1, <2>3, <2>5, <3>1 DEF RepeatInv
  <2>6. CASE pc' \in {"sleep", "limit"}
    <3>1. i = 1 /\ i' = 0 /\ iterations' = R!NextIteration /\ verdict' = verdict /\ ~ctxDone
      BY <2>1, <2>6
    <3>2. iterations' < MaxIter => iterations < MaxIter /\ Started' = Started
      BY <1>0, <2>1, <2>6, <3>1 DEF Started, R!NextIteration
    <3>3. count > 0 => iterations' <= count
      BY <1>0, <2>1, <3>1 DEF RepeatInv, R!NextIteration
    <3> QED BY <1>0, <2>1, <2>3, <2>6, <3>1, <3>2, <3>3 DEF RepeatInv
  <2> QED BY <2>1, <2>4, <2>5, <2>6
<1>6. CASE R!Elapse \/ R!Cancel
  <2>1. /\ elapsed' \in BOOLEAN /\ (elapsed => elapsed')
        /\ ctxDone' \in BOOLEAN /\ (ctxDone => ctxDone')
        /\ UNCHANGED <<count, duration, interval, pc, iterations, i, ids, failed, late, verdict>>
    BY <1>0, <1>6 DEF R!Elapse, R!Cancel, R!params, R!TypeOK
  <2>2. R!TypeOK' /\ Started' = Started
    BY <2>1, <1>0 DEF R!TypeOK, Started
  <2> QED BY <1>0, <2>1, <2>2 DEF RepeatInv
<1> QED BY <1>1, <1>2, <1>3, <1>4, <1>5, <1>6 DEF RepeatStep, R!LoopStep

LEMMA RepeatUntouched == ASSUME RepeatInv, UNCHANGED <<repeat, ctxDone>> PROVE RepeatInv'
BY DEF repeat, RepeatInv, R!TypeOK, Started

-----------------------------------------------------------------------------
(* The three together.                                                     *)

(* The sub-task that runs is the one the loop is at.  After the Parallel   *)
(* task of an iteration its goroutines are gone, so that the jobs of the   *)
(* workflow that DeleteAllJobs finds at its start are all there will be.   *)
Joined ==
    \/ pc \in {"sub", "run", "subDone"} /\ i = 1
    \/ pc = "subDone" /\ i = 0
    \/ pc \in {"limit", "sleep"} /\ iterations > 0

Cleaned ==
    \/ pc = "subDone" /\ i = 1
    \/ pc \in {"limit", "sleep"} /\ iterations > 0

Handover ==
    /\ (pc = "run" /\ i = 0) \/ main \in {"idle", "returned"}
    /\ (pc = "run" /\ i = 1) \/ phase = "returned"
    /\ Joined => \A k \in P!Subs : sub[k] = "gone"
    /\ pc = "run" /\ i = 1 => \A j \in Own : job[j] # "none" => j \in left
    /\ Cleaned => \A j \in Own : job[j] = "none"

Inv == RepeatInv /\ ParallelInv /\ DeleteInv /\ Handover

LEMMA OwnJobs == Own \subseteq Jobs /\ \A k \in P!Subs : JobOf[k] \in Own
BY NestedAssumption DEF Own

LEMMA InitEstablishes == Init => Inv
<1> SUFFICES ASSUME Init PROVE Inv
  OBVIOUS
<1>1. RepeatInv
  <2>1. /\ count \in Counts /\ duration \in Durations /\ interval \in Intervals
        /\ pc = "limit" /\ iterations = 0 /\ i = 0 /\ ids = {} /\ late = 0 /\ verdict = "none"
    BY DEF Init, R!Init
  <2>2. ~elapsed /\ ~ctxDone /\ ~failed /\ {elapsed, ctxDone, failed} \subseteq BOOLEAN
    BY DEF Init, R!Init
  <2>3. R!TypeOK
    <3>1. iterations \in 0..MaxIter /\ i \in 0..(2 - 1) /\ late \in Nat
      <4>1. MaxIter \in Nat
        BY CountsBounded
      <4>2. iterations = 0 /\ i = 0 /\ late = 0
        BY <2>1
      <4> QED BY <4>1, <4>2
    <3>2. ids \subseteq (0..MaxIter) \X (0..(2 - 1))
      BY <2>1
    <3> QED BY <2>1, <2>2, <3>1, <3>2 DEF R!TypeOK
  <2>4. Started = {} /\ ids = {}
    BY <2>1 DEF Started
  <2>5. count > 0 => iterations <= count
    <3>1. count \in Int
      BY <2>1, CountsBounded
    <3>2. iterations = 0
      BY <2>1
    <3> QED BY <3>1, <3>2
  <2>6. i = 0 /\ pc = "limit" /\ verdict = "none" /\ late <= 1 /\ late # 1
    BY <2>1
  <2> QED BY <2>2, <2>3, <2>4, <2>5, <2>6 DEF RepeatInv
<1>2. ParallelInv
  <2>1. Running = {} /\ Cardinality(Running) = 0
    BY FS_EmptySet DEF Init, P!Init, Running
  <2>2. P!TypeOK
    BY RunningFinite DEF Init, P!Init, P!TypeOK
  <2>3. Progress /\ Reported
    BY DEF Init, P!Init, Progress, Reported, P!Subs
  <2> QED BY <2>1, <2>2, <2>3 DEF Init, P!Init, ParallelInv
<1>3. DeleteInv
  <2>1. /\ job \in [Jobs -> {"none", "there"}] /\ served = D!Kinds /\ troubles = 0
        /\ phase = "returned" /\ gvr = 1 /\ list = {} /\ left = {} /\ outcome = "none"
    BY DEF Init, D!Init
  <2>2. D!TypeOK
    <3>1. job \in [Jobs -> {"none", "there", "deleting"}]
      BY <2>1
    <3>2. troubles \in 0..Troubles /\ gvr \in 1..Len(D!gvrs)
      BY <2>1, KindsInOrder
    <3>3. ctxDone \in BOOLEAN
      BY <1>1 DEF RepeatInv, R!TypeOK
    <3> QED BY <2>1, <3>1, <3>2, <3>3 DEF D!TypeOK
  <2> QED BY <2>1, <2>2, KindsInOrder DEF DeleteInv, D!AllGone, D!Kinds
<1>4. Handover
  BY DEF Init, R!Init, P!Init, D!Init, Handover, Joined, Cleaned
<1> QED BY <1>1, <1>2, <1>3, <1>4 DEF Inv

(* What a step means for each of the three.                                *)
LEMMA StepOfRepeat == Next => RepeatStep \/ UNCHANGED <<repeat, ctxDone>>
BY DEF Next, StartSub, EndSub, Loop, Elapse, Cancel, Main, Delete, Cluster, Submit, Report,
   RepeatStep, D!ExecStep, D!RequestFails, D!List, D!Deleted, D!Poll, D!PollTimesOut,
   D!Delete, D!Uninstall, D!Collect, D!Vanish, D!Create, delete

LEMMA NextKeepsRepeat == Inv /\ Next => RepeatInv'
BY StepOfRepeat, RepeatStepKeepsRepeat, RepeatUntouched DEF Inv

LEMMA NextKeepsParallel == Inv /\ Next => ParallelInv'
<1> SUFFICES ASSUME Inv, Next PROVE ParallelInv'
  OBVIOUS
<1>0. ParallelInv
  BY DEF Inv
<1>1. CASE StartSub
  BY <1>0, <1>1, BeginParallel, ParallelUntouched DEF StartSub
<1>2. CASE Main
  BY <1>0, <1>2, MainKeepsParallel DEF Main
<1>3. ASSUME NEW k \in P!Subs, Submit(k) \/ Report(k) PROVE ParallelInv'
  <2>1. P!ReportStep(k) \/ \E ok \in BOOLEAN : P!ExecRunnable(k, ok)
    BY <1>3 DEF Submit, Report
  <2> QED BY <1>0, <2>1, SubKeepsParallel
<1>4. CASE EndSub \/ Loop \/ Elapse \/ Cancel \/ Delete \/ Cluster
  BY <1>0, <1>4, ParallelUntouched DEF EndSub, Loop, Elapse, Cancel, Delete, Cluster
<1> QED BY <1>1, <1>2, <1>3, <1>4 DEF Next

LEMMA NextKeepsDelete == Inv /\ Next => DeleteInv'
<1> SUFFICES ASSUME Inv, Next PROVE DeleteInv'
  OBVIOUS
<1>0. DeleteInv /\ ctxDone' \in BOOLEAN
  BY NextKeepsRepeat DEF Inv, RepeatInv, R!TypeOK
<1>1. CASE StartSub
  BY <1>0, <1>1, BeginDelete, DeleteUntouched DEF StartSub
<1>2. CASE Delete
  BY <1>0, <1>2, ExecKeepsDelete DEF Delete
<1>3. CASE Cluster
  <2>1. D!ClusterStep
    BY <1>3 DEF Cluster, D!ClusterStep
  <2> QED BY <1>0, <2>1, ClusterKeepsDelete
<1>4. ASSUME NEW k \in P!Subs, Submit(k) PROVE DeleteInv'
  <2>1. JobOf[k] \in Jobs
    BY OwnJobs
  <2>2. D!ClusterStep \/ UNCHANGED delete
    BY <1>4, <2>1 DEF Submit, D!ClusterStep
  <2> QED BY <1>0, <2>2, ClusterKeepsDelete, DeleteUntouched
<1>5. CASE EndSub \/ Loop \/ Elapse \/ Cancel \/ Main \/ \E k \in P!Subs : Report(k)
  BY <1>0, <1>5, DeleteUntouched DEF EndSub, Loop, Elapse, Cancel, Main, Report
<1> QED BY <1>1, <1>2, <1>3, <1>4, <1>5 DEF Next

(* What happens to an own job when no sub-task of Parallel is running:     *)
(* nobody makes one, and one that goes leaves the list.                    *)
LEMMA OwnJobsOnlyGo ==
    ASSUME DeleteInv, D!ExecStep \/ Cluster, NEW j \in Own
    PROVE  /\ job[j] = "none" => job'[j] = "none"
           /\ (job[j] # "none" => j \in left) => (job'[j] # "none" => j \in left')
<1>0. j \in Jobs /\ job \in [Jobs -> {"none", "there", "deleting"}]
  BY OwnJobs DEF DeleteInv, D!TypeOK
<1>1. CASE UNCHANGED <<job, left>>
  BY <1>1
<1>2. ASSUME NEW js \in SUBSET Jobs, NEW state \in {"none", "there", "deleting"},
             D!Become(js, state), j \in js => state = "none" \/ job[j] # "none"
      PROVE  /\ job[j] = "none" => job'[j] = "none"
             /\ (job[j] # "none" => j \in left) => (job'[j] # "none" => j \in left')
  BY <1>0, <1>2 DEF D!Become
<1>3. ASSUME NEW j1 \in Jobs, D!Delete(j1)
      PROVE  /\ job[j] = "none" => job'[j] = "none"
             /\ (job[j] # "none" => j \in left) => (job'[j] # "none" => j \in left')
  <2>1. UNCHANGED <<job, left>> \/ (D!Become({j1}, "deleting") /\ job[j1] # "none")
    BY <1>3 DEF D!Delete
  <2> QED BY <1>1, <1>2, <2>1
<1>4. CASE D!ExecStep /\ ~\E j1 \in Jobs : D!Delete(j1)
  <2>1. UNCHANGED <<job, left>>
    BY <1>4 DEF D!ExecStep, D!RequestFails, D!List, D!Deleted, D!Poll, D!PollTimesOut,
       D!cluster
  <2> QED BY <1>1, <2>1
<1>5. CASE Cluster
  <2>1. CASE D!Uninstall
    <3> DEFINE js == {j1 \in Jobs : KindOf[j1] = "volcano"}
    <3>1. D!Become(js, "none") /\ js \in SUBSET Jobs
      BY <2>1 DEF D!Uninstall
    <3> HIDE DEF js
    <3> QED BY <1>2, <3>1
  <2>2. ASSUME NEW j1 \in Jobs, D!Collect(j1) \/ D!Vanish(j1) \/ (j1 \notin Own /\ D!Create(j1))
        PROVE  /\ job[j] = "none" => job'[j] = "none"
               /\ (job[j] # "none" => j \in left) => (job'[j] # "none" => j \in left')
    <3>1. D!Become({j1}, "none") \/ (D!Become({j1}, "there") /\ j # j1)
      BY <2>2 DEF D!Collect, D!Vanish, D!Create
    <3> QED BY <1>2, <3>1
  <2> QED BY <1>5, <2>1, <2>2 DEF Cluster
<1> QED BY <1>3, <1>4, <1>5

(* Where the loop goes.                                                    *)
LEMMA LoopKeepsHandover ==
    ASSUME Inv, UNCHANGED <<parallel, delete>>,
           R!LoopStep \/ R!Elapse \/ R!Cancel
    PROVE  Handover'
<1>0. UNCHANGED <<main, sub, job, left, phase>> /\ i \in {0, 1}
  BY DEF parallel, delete, Inv, RepeatInv, R!TypeOK
<1>1. (pc = "run") = (pc' = "run") /\ (pc' = "run" => i' = i)
  BY DEF R!LoopStep, R!Limits, R!CheckCtx, R!SubDone, R!Sleep, R!Elapse, R!Cancel,
     R!Goto, R!Return
<1>2. (Joined' => Joined) /\ (Cleaned' => Cleaned)
  BY <1>0 DEF Joined, Cleaned, R!LoopStep, R!Limits, R!CheckCtx, R!SubDone, R!Sleep,
     R!Elapse, R!Cancel, R!Goto, R!Return, Inv, RepeatInv
<1> QED BY <1>0, <1>1, <1>2 DEF Inv, Handover, P!Subs, Own

LEMMA NextKeepsHandover == Inv /\ Next => Handover'
<1> SUFFICES ASSUME Inv, Next PROVE Handover'
  OBVIOUS
<1>0. /\ Handover /\ DeleteInv /\ ParallelInv /\ i \in {0, 1}
      /\ Own \subseteq Jobs /\ \A k \in P!Subs : JobOf[k] \in Own
  BY OwnJobs DEF Inv, RepeatInv, R!TypeOK
<1>1. CASE StartSub
  <2>1. pc = "sub" /\ pc' \in {"run", "returned"} /\ i' = i
    BY <1>1 DEF StartSub, R!RunTask, R!Goto, R!Return
  <2>2. CASE pc' = "returned"
    <3>1. UNCHANGED <<main, phase>>
      BY <1>1, <2>2 DEF StartSub, parallel, delete
    <3> QED BY <1>0, <2>1, <2>2, <3>1 DEF Handover, Joined, Cleaned
  <2>3. CASE pc' = "run" /\ i = 0
    <3>1. UNCHANGED phase
      BY <1>1, <2>3 DEF StartSub, delete
    <3> QED BY <1>0, <2>1, <2>3, <3>1 DEF Handover, Joined, Cleaned
  <2>4. CASE pc' = "run" /\ i = 1
    <3>1. D!Begin /\ UNCHANGED <<main, sub>>
      BY <1>1, <2>4 DEF StartSub, parallel
    <3>2. \A j \in Own : job'[j] # "none" => j \in left'
      BY <1>0, <3>1 DEF D!Begin
    <3>3. \A k \in P!Subs : sub'[k] = "gone"
      BY <1>0, <2>1, <2>4, <3>1 DEF Handover, Joined
    <3>4. main' \in {"idle", "returned"}
      BY <1>0, <2>1, <3>1 DEF Handover
    <3> QED BY <2>1, <2>4, <3>2, <3>3, <3>4 DEF Handover, Joined, Cleaned, Own, P!Subs
  <2> QED BY <1>0, <2>1, <2>2, <2>3, <2>4
<1>2. CASE EndSub
  <2>1. /\ pc = "run" /\ pc' \in {"subDone", "returned"} /\ i' = i
        /\ UNCHANGED <<main, sub, job, left, phase>>
        /\ IF i = 0 THEN main = "returned" ELSE phase = "returned"
        /\ pc' = "subDone" => IF i = 0 THEN joined = "ok" ELSE outcome = "ok"
    BY <1>2 DEF EndSub, R!TaskReturns, R!Goto, R!Return, parallel, delete
  <2>2. main' \in {"idle", "returned"} /\ phase' = "returned"
    BY <1>0, <2>1 DEF Handover
  <2>3. pc' = "subDone" => \A k \in P!Subs : sub[k] = "gone"
    BY <1>0, <2>1 DEF ParallelInv, Progress, Handover, Joined
  <2>4. pc' = "subDone" /\ i = 1 => \A j \in Own : job[j] = "none"
    BY <1>0, <2>1 DEF Handover, DeleteInv, D!AllGone
  <2> QED BY <2>1, <2>2, <2>3, <2>4 DEF Handover, Joined, Cleaned, Own, P!Subs
<1>3. CASE Loop \/ Elapse \/ Cancel
  BY <1>3, LoopKeepsHandover DEF Loop, Elapse, Cancel
<1>4. CASE Main \/ \E k \in P!Subs : Submit(k) \/ Report(k)
  <2>1. UNCHANGED <<pc, i, iterations, phase>>
    BY <1>4 DEF Main, Submit, Report, repeat, delete, D!Create, D!execVars
  <2>2. ~Joined
    BY <1>0, <1>4 DEF Handover, Joined, Main, P!MainStep, P!Prepare, P!Prepared, P!Launch,
       P!Launched, P!WgWait, Submit, P!ExecRunnable, Report, P!ReportStep, P!LockErrors,
       P!AppendError, P!WgDone
  <2>3. main' = main \/ (pc = "run" /\ i = 0)
    BY <1>0, <1>4 DEF Handover, Main, P!MainStep, P!Prepare, P!Prepared, P!Launch,
       P!Launched, P!WgWait, Submit, P!ExecRunnable, Report, P!ReportStep, P!LockErrors,
       P!AppendError, P!WgDone
  <2> QED BY <1>0, <2>1, <2>2, <2>3 DEF Handover, Joined, Cleaned
<1>5. CASE Delete \/ Cluster
  <2>1. /\ UNCHANGED <<pc, i, iterations, main, sub>>
        /\ D!ExecStep \/ Cluster
    BY <1>5 DEF Delete, Cluster, repeat, parallel
  <2>2. \A j \in Own : /\ job[j] = "none" => job'[j] = "none"
                       /\ (job[j] # "none" => j \in left) => (job'[j] # "none" => j \in left')
    BY <1>0, <2>1, OwnJobsOnlyGo
  <2>3. phase' = phase \/ (pc = "run" /\ i = 1)
    BY <1>0, <1>5 DEF Handover, Delete, Cluster, D!ExecStep, D!RequestFails, D!List,
       D!Deleted, D!Poll, D!PollTimesOut, D!Delete, D!Uninstall, D!Collect, D!Vanish,
       D!Create, D!execVars
  <2> QED BY <1>0, <2>1, <2>2, <2>3 DEF Handover, Joined, Cleaned, Own, P!Subs
<1> QED BY <1>1, <1>2, <1>3, <1>4, <1>5 DEF Next

-----------------------------------------------------------------------------
(* Theorems.                                                               *)

(* Each of the three tasks, and their order, as Inv says, in every state.  *)
LEMMA InvAlways == Spec => []Inv
<1>1. Inv /\ [Next]_vars => Inv'
  <2> SUFFICES ASSUME Inv, [Next]_vars PROVE Inv'
    OBVIOUS
  <2>1. CASE Next
    BY <2>1, NextKeepsRepeat, NextKeepsParallel, NextKeepsDelete, NextKeepsHandover DEF Inv
  <2>2. CASE UNCHANGED vars
    <3>1. RepeatInv' /\ ParallelInv' /\ ctxDone' \in BOOLEAN
      BY <2>2, RepeatUntouched, ParallelUntouched DEF Inv, vars, RepeatInv, R!TypeOK
    <3>2. DeleteInv'
      BY <2>2, <3>1, DeleteUntouched DEF Inv, vars
    <3>3. Handover'
      BY <2>2 DEF Inv, vars, repeat, parallel, delete, Handover, Joined, Cleaned
    <3> QED BY <3>1, <3>2, <3>3 DEF Inv
  <2> QED BY <2>1, <2>2
<1> QED BY <1>1, InitEstablishes, PTL DEF Spec

(* The variables of all three tasks have their types.                      *)
THEOREM TypeCorrect == Spec => []TypeOK
<1>1. Inv => TypeOK
  BY DEF Inv, TypeOK, RepeatInv, ParallelInv, DeleteInv
<1> QED BY <1>1, InvAlways, PTL

(* ParallelTask.Exec runs all of its sub-tasks or none, and none of their  *)
(* goroutines is left when it has returned.                                *)
THEOREM BracketedAlways == Spec => []Bracketed
<1>1. Inv => Bracketed
  <2> SUFFICES ASSUME Inv PROVE Bracketed
    OBVIOUS
  <2>1. ParallelInv /\ main \in {"idle", "prepare", "launch", "wait", "returned"}
    BY DEF Inv, ParallelInv, P!TypeOK
  <2> QED BY <2>1 DEF ParallelInv, Progress, Bracketed, P!Bracketed
<1> QED BY <1>1, InvAlways, PTL

(* The list of errors that ParallelTask.Exec returns has the error of each *)
(* sub-task that failed, however their appends interleave.                 *)
THEOREM NoErrorLostAlways == Spec => []NoErrorLost
<1>1. Inv => NoErrorLost
  <2> SUFFICES ASSUME Inv, main = "returned", joined # "abort"
               PROVE  /\ allErrors = {k \in P!Subs : subFailed[k]}
                      /\ joined = "ok" <=> allErrors = {}
    BY DEF NoErrorLost, P!NoErrorLost
  <2>1. \A k \in P!Subs : sub[k] = "gone"
    BY DEF Inv, ParallelInv, Progress
  <2> QED BY <2>1 DEF Inv, ParallelInv, Reported
<1> QED BY <1>1, InvAlways, PTL

(* RepeatTask.Exec that returns nil has run every sub-task in each of      *)
(* count iterations if the duration was not up, and never one more.        *)
THEOREM RunsExactlyAlways == Spec => []RunsExactly
<1>1. Inv => RunsExactly
  BY DEF Inv, RepeatInv, RunsExactly, R!RunsExactly
<1> QED BY <1>1, InvAlways, PTL

(* RepeatTask.Exec starts nothing after a failure, and at most one         *)
(* sub-task after the workflow was cancelled.                              *)
THEOREM StopsPromptlyAlways == Spec => StopsPromptly
<1>1. Inv => late <= 1
  BY DEF Inv, RepeatInv
<1>2. Inv /\ [Next]_vars => [ids' # ids => ~failed]_(R!vars)
  <2> SUFFICES ASSUME Inv, [Next]_vars, ids' # ids PROVE ~failed
    OBVIOUS
  <2>1. RepeatStep
    BY StepOfRepeat DEF vars, repeat
  <2>2. R!RunTask
    BY <2>1 DEF RepeatStep, R!LoopStep, R!Limits, R!CheckCtx, R!SubDone, R!Sleep,
       R!Elapse, R!Cancel, R!TaskReturns
  <2> QED BY <2>2 DEF R!RunTask, Inv, RepeatInv
<1> QED BY <1>1, <1>2, InvAlways, PTL DEF Spec, StopsPromptly, R!StopsPromptly

(* DeleteAllJobsTask.Exec that returns nil has seen every job go that was  *)
(* there at its start.                                                     *)
THEOREM AllGoneAlways == Spec => []AllGone
<1>1. Inv => AllGone
  BY DEF Inv, DeleteInv, AllGone
<1> QED BY <1>1, InvAlways, PTL

(* An iteration of a benchmark that has ended has left no job of the       *)
(* workflow, although the sub-tasks submit them concurrently and requests  *)
(* that fail may have been applied.                                        *)
THEOREM IterationLeavesNothingAlways == Spec => []IterationLeavesNothing
<1>1. Inv => IterationLeavesNothing
  BY DEF Inv, Handover, Joined, Cleaned, IterationLeavesNothing
<1> QED BY <1>1, InvAlways, PTL
=============================================================================
