------------------------------- MODULE Nested -------------------------------
(***************************************************************************)
(* A workflow as those of the benchmarks: a Repeat task whose first        *)
(* sub-task is a Parallel task and whose second is DeleteAllJobs.  The     *)
(* sub-tasks of the Parallel task submit one job each, which an iteration  *)
(* is to leave nothing of.  The three tasks share the context of the       *)
(* workflow; each iteration makes new sub-tasks.                           *)
(***************************************************************************)
EXTENDS Integers

CONSTANTS
    Counts, Durations, Intervals, MaxIter,  \* of Repeat
    Width,              \* how many sub-tasks the Parallel task has
    Jobs, KindOf, Troubles,                 \* of DeleteAllJobs
    JobOf               \* the job that each sub-task of Parallel submits

VARIABLES
    count, duration, interval, pc, iterations, i, elapsed, ids, failed, late,
    verdict,                                             \* Repeat
    main, next, runnables, wg, sub, subFailed, errMutex, buffer, allErrors,
    joined,                                              \* Parallel
    job, served, left, troubles,                         \* the cluster
    phase, gvr, list, outcome,                           \* DeleteAllJobs
    ctxDone                                              \* the workflow

R == INSTANCE Repeat WITH NumSubs <- 2
P == INSTANCE Parallel WITH NumSubs <- Width, CanHang <- {},
                            failed <- subFailed, verdict <- joined
D == INSTANCE DeleteAllJobs

ASSUME NestedAssumption ==
    /\ R!ParamsAssumption /\ P!SubsAssumption /\ D!JobsAssumption
    /\ JobOf \in [P!Subs -> Jobs]

repeat == <<count, duration, interval, pc, iterations, i, elapsed, ids, failed,
            late, verdict>>
parallel == <<main, next, runnables, wg, sub, subFailed, errMutex, buffer,
              allErrors, joined>>
delete == <<job, served, left, troubles, phase, gvr, list, outcome>>
vars == <<repeat, parallel, delete, ctxDone>>

Own == {JobOf[k] : k \in P!Subs}

Init ==
    /\ R!Init /\ P!Init /\ D!Init
    /\ \A j \in Own : job[j] = "none"

-----------------------------------------------------------------------------
(* RunTask of the next sub-task, and its end.                              *)
StartSub ==
    /\ R!RunTask
    /\ CASE pc' = "run" /\ i = 0 -> P!Begin /\ UNCHANGED delete
         [] pc' = "run" /\ i = 1 -> D!Begin /\ UNCHANGED parallel
         [] OTHER -> UNCHANGED <<parallel, delete>>

EndSub ==
    /\ IF i = 0 THEN main = "returned" ELSE phase = "returned"
    /\ R!TaskReturns(IF i = 0 THEN joined = "ok" ELSE outcome = "ok")
    /\ UNCHANGED <<parallel, delete>>

Loop == R!LoopStep /\ UNCHANGED <<parallel, delete>>
Elapse == R!Elapse /\ UNCHANGED <<parallel, delete>>
Cancel == R!Cancel /\ UNCHANGED <<parallel, delete>>

(* The goroutines of the Parallel task.  A sub-task submits its job; a     *)
(* request that fails may have been applied, and it fails if the job is    *)
(* there already.                                                          *)
Main == P!MainStep /\ UNCHANGED <<repeat, delete, ctxDone>>
Report(k) == P!ReportStep(k) /\ UNCHANGED <<repeat, delete, ctxDone>>

Submit(k) ==
    /\ \E ok \in BOOLEAN :
          /\ P!ExecRunnable(k, ok)
          /\ \/ D!Create(JobOf[k])
             \/ ~ok /\ UNCHANGED <<delete, ctxDone>>
    /\ UNCHANGED repeat

Delete == D!ExecStep /\ UNCHANGED <<repeat, parallel>>

(* Others create and delete jobs; controllers collect the deleted ones.    *)
Cluster ==
    /\ \/ D!Uninstall
       \/ \E j \in Jobs : D!Collect(j) \/ D!Vanish(j) \/ (j \notin Own /\ D!Create(j))
    /\ UNCHANGED <<repeat, parallel>>

Next ==
    \/ StartSub \/ EndSub \/ Loop \/ Elapse \/ Cancel
    \/ Main \/ Delete \/ Cluster
    \/ \E k \in P!Subs : Submit(k) \/ Report(k)

Spec == Init /\ [][Next]_vars

(* Goroutines are scheduled, requests are answered or fail, and time       *)
(* passes.  Nothing is assumed of the cluster: a job may never go.         *)
FairSpec ==
    /\ Spec
    /\ WF_vars(StartSub \/ EndSub \/ Loop) /\ WF_vars(Elapse)
    /\ WF_vars(Main) /\ WF_vars(Delete)
    /\ \A k \in P!Subs :
          /\ WF_vars(Submit(k)) /\ WF_vars(Report(k))
          /\ SF_vars(P!LockErrors(k) /\ UNCHANGED <<repeat, delete, ctxDone>>)

-----------------------------------------------------------------------------
TypeOK == R!TypeOK /\ P!TypeOK /\ D!TypeOK

(* Parallel: all or nothing, and when it has returned none of its          *)
(* goroutines is running, whatever the loop around it does next.           *)
Bracketed == P!Bracketed

(* Parallel: nil only if no sub-task failed, otherwise the errors of       *)
(* exactly those that did.                                                 *)
NoErrorLost == P!NoErrorLost

(* Repeat: "ok" means every sub-task in each of exactly count iterations,  *)
(* if not the duration was up.                                             *)
RunsExactly == R!RunsExactly

(* Repeat: nothing starts after a failure, and at most one sub-task after  *)
(* the cancellation.                                                       *)
StopsPromptly == R!StopsPromptly

(* DeleteAllJobs: nil means that each job that was there has really gone.  *)
AllGone == D!AllGone

(* The three together: an iteration that has ended has left no job of the  *)
(* workflow behind, not even one being deleted, and nobody is about to     *)
(* submit one.  This needs the join of the Parallel task, the wait of      *)
(* DeleteAllJobs and the order of the loop.                                *)
IterationLeavesNothing ==
    pc \in {"limit", "sleep"} /\ iterations > 0 =>
        /\ \A j \in Own : job[j] = "none"
        /\ \A k \in P!Subs : sub[k] = "gone"

(* A workflow with a limit ends by itself, although its sub-tasks wait for *)
(* each other, for a mutex and for jobs that may never go.                 *)
LimitEnds == R!LimitEnds
=============================================================================
