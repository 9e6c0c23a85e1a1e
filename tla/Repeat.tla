------------------------------- MODULE Repeat -------------------------------
(***************************************************************************)
(* RepeatTask (repeat_task.go): a list of sub-tasks run again and again    *)
(* until a count of iterations or a duration is reached, a sub-task fails, *)
(* or the context is done.                                                 *)
(***************************************************************************)
EXTENDS Integers, FiniteSets

CONSTANTS
    Counts,     \* values of the parameter count
    Durations,  \* the parameter duration: "" (not given), "0s" or "1m"
    Intervals,  \* the parameter interval, zero (FALSE) or not (TRUE)
    NumSubs,    \* how many sub-tasks the list has
    MaxIter     \* iterations are not counted beyond this bound

ParamsAssumption ==
    /\ Counts \subseteq Int /\ Durations \subseteq {"", "0s", "1m"}
    /\ Intervals \subseteq BOOLEAN /\ NumSubs \in Nat \ {0}
    /\ MaxIter \in Nat /\ \A c \in Counts : c < MaxIter

VARIABLES
    count, duration, interval,  \* the task's parameters
    pc,         \* "limit", "ctx", "sub", "run", "subDone", "sleep" or "returned"
    iterations, \* full iterations so far
    i,          \* the sub-task of this iteration
    elapsed,    \* the duration has passed since the start
    ctxDone,    \* the context of the workflow is done
    ids,        \* history: <<iteration, i>> of each sub-task run, as in its id
    failed,     \* history: a sub-task failed
    late,       \* history: sub-tasks started with the context done
    verdict     \* what Exec returned: "none", "ok", "cancelled" or "failed"

params == <<count, duration, interval>>
vars == <<params, pc, iterations, i, elapsed, ctxDone, ids, failed, late, verdict>>

(* validate: either parameter is enough; the duration is only parsed.      *)
Accepted(d, c) == ~(d = "" /\ c <= 0)
ParsedDuration == IF duration = "1m" THEN 1 ELSE 0

Init ==
    /\ count \in Counts /\ duration \in Durations /\ interval \in Intervals
    /\ Accepted(duration, count)
    /\ pc = "limit" /\ iterations = 0 /\ i = 0
    /\ elapsed = FALSE /\ ctxDone = FALSE
    /\ ids = {} /\ failed = FALSE /\ late = 0 /\ verdict = "none"

Goto(label) == pc' = label /\ UNCHANGED verdict
Return(v) == pc' = "returned" /\ verdict' = v

(* Time passes, and the workflow may be cancelled.                         *)
Elapse == /\ ParsedDuration > 0 /\ ~elapsed
          /\ elapsed' = TRUE
          /\ UNCHANGED <<params, pc, iterations, i, ctxDone, ids, failed, late, verdict>>

Cancel == /\ ~ctxDone
          /\ ctxDone' = TRUE
          /\ UNCHANGED <<params, pc, iterations, i, elapsed, ids, failed, late, verdict>>

NextIteration == IF iterations < MaxIter THEN iterations + 1 ELSE MaxIter

(* Mutant: the loop does one iteration too many.                           *)
MutLimitTooLate ==
    /\ pc = "limit"
    /\ IF elapsed \/ (count > 0 /\ iterations > count) THEN Return("ok") ELSE Goto("ctx")
    /\ UNCHANGED <<params, iterations, i, elapsed, ctxDone, ids, failed, late>>

Limits ==
    /\ pc = "limit"
    /\ IF elapsed \/ (count > 0 /\ iterations >= count) THEN Return("ok") ELSE Goto("ctx")
    /\ UNCHANGED <<params, iterations, i, elapsed, ctxDone, ids, failed, late>>

CheckCtx ==
    /\ pc = "ctx"
    /\ IF ctxDone THEN Return("cancelled") ELSE Goto("sub")
    /\ UNCHANGED <<params, iterations, i, elapsed, ctxDone, ids, failed, late>>

(* RunTask with the id "<task>-iter<iterations>-sub<i>": GetTask creates    *)
(* the sub-task, which may fail at once, and execRunnable begins it ...     *)
RunTask ==
    /\ pc = "sub"
    /\ ids' = ids \cup {<<iterations, i>>}
    /\ \/ Goto("run") /\ UNCHANGED failed
       \/ Return("failed") /\ failed' = TRUE
    /\ late' = IF ctxDone THEN late + 1 ELSE late
    /\ UNCHANGED <<params, iterations, i, elapsed, ctxDone>>

(* ... and it ends, with or without an error.                              *)
TaskReturns(ok) ==
    /\ pc = "run"
    /\ IF ok THEN Goto("subDone") /\ UNCHANGED failed
             ELSE Return("failed") /\ failed' = TRUE
    /\ UNCHANGED <<params, iterations, i, elapsed, ctxDone, ids, late>>

(* Mutant: the iteration goes on although the context is done.             *)
MutNoCtxCheck ==
    /\ pc = "subDone"
    /\ IF i + 1 < NumSubs
       THEN i' = i + 1 /\ Goto("sub") /\ UNCHANGED iterations
       ELSE i' = 0 /\ iterations' = NextIteration /\ Goto(IF interval THEN "sleep" ELSE "limit")
    /\ UNCHANGED <<params, elapsed, ctxDone, ids, failed, late>>

SubDone ==
    /\ pc = "subDone"
    /\ IF ctxDone
       THEN Return("cancelled") /\ UNCHANGED <<i, iterations>>
       ELSE IF i + 1 < NumSubs
            THEN i' = i + 1 /\ Goto("sub") /\ UNCHANGED iterations
            ELSE /\ i' = 0 /\ iterations' = NextIteration
                 /\ Goto(IF interval THEN "sleep" ELSE "limit")
    /\ UNCHANGED <<params, elapsed, ctxDone, ids, failed, late>>

(* The select between time.After(interval) and ctx.Done().                 *)
Sleep ==
    /\ pc = "sleep"
    /\ \/ Goto("limit")
       \/ ctxDone /\ Return("cancelled")
    /\ UNCHANGED <<params, iterations, i, elapsed, ctxDone, ids, failed, late>>

LoopStep == Limits \/ CheckCtx \/ SubDone \/ Sleep
TaskStep == LoopStep \/ RunTask \/ \E ok \in BOOLEAN : TaskReturns(ok)
Next == Elapse \/ Cancel \/ TaskStep

Spec == Init /\ [][Next]_vars
(* Sub-tasks end and time passes; nobody has to cancel the workflow.       *)
FairSpec == Spec /\ WF_vars(TaskStep) /\ WF_vars(Elapse)

-----------------------------------------------------------------------------
TypeOK ==
    /\ count \in Counts /\ duration \in Durations /\ interval \in Intervals
    /\ pc \in {"limit", "ctx", "sub", "run", "subDone", "sleep", "returned"}
    /\ iterations \in 0..MaxIter /\ i \in 0..(NumSubs - 1)
    /\ elapsed \in BOOLEAN /\ ctxDone \in BOOLEAN /\ failed \in BOOLEAN
    /\ ids \subseteq (0..MaxIter) \X (0..(NumSubs - 1)) /\ late \in Nat
    /\ verdict \in {"none", "ok", "cancelled", "failed"}

(* "ok" with a count and before the duration is up means that every        *)
(* sub-task ran in each of exactly count iterations, and whatever ended    *)
(* the loop, no iteration beyond the count has begun.                      *)
RunsExactly ==
    /\ count > 0 => ids \subseteq (0..(count - 1)) \X (0..(NumSubs - 1))
    /\ verdict = "ok" /\ iterations < MaxIter =>
          /\ ids = (0..(iterations - 1)) \X (0..(NumSubs - 1))
          /\ iterations = count \/ elapsed

(* No sub-task starts after one failed, and at most one starts after the   *)
(* workflow was cancelled, wherever in the loop the cancellation comes.    *)
StopsPromptly == [][ids' # ids => ~failed]_vars /\ [](late <= 1)

(* A loop with a positive count or duration ends without being cancelled.  *)
LimitEnds == (count > 0 \/ duration = "1m") => <>(pc = "returned")

(* README.md:544, "Specify EITHER 'duration' OR 'count'. One must be       *)
(* non-empty/positive": a task that validate accepts has a limit, so its   *)
(* loop ends.                                                              *)
AcceptedEnds == <>(pc = "returned")
=============================================================================
