------------------------------ MODULE Parallel ------------------------------
(***************************************************************************)
(* ParallelTask.Exec (parallel_task.go): every sub-task is prepared with   *)
(* GetTask, one goroutine runs each, and a WaitGroup waits for all.  The   *)
(* goroutines append their errors to one list under errMutex.              *)
(***************************************************************************)
EXTENDS Integers, FiniteSets

CONSTANTS
    NumSubs,    \* how many sub-tasks the list has
    CanHang     \* the sub-tasks that need not end (Pause, a request that hangs)

Subs == 0..(NumSubs - 1)

SubsAssumption == NumSubs \in Nat \ {0} /\ CanHang \subseteq Subs

VARIABLES
    main,       \* "idle", "prepare", "launch", "wait" or "returned"
    next,       \* the sub-task Exec prepares or launches next
    runnables,  \* the sub-tasks prepared
    wg,         \* the WaitGroup's counter
    sub,        \* sub[i]: where the goroutine of sub-task i is
    failed,     \* failed[i]: its execRunnable returned an error
    errMutex,   \* who holds the mutex, -1 if nobody
    buffer,     \* buffer[i]: the list of errors goroutine i has read
    allErrors,  \* the sub-tasks whose error is in the list
    verdict     \* what Exec returned: "none", "ok", "abort" or "errors"

vars == <<main, next, runnables, wg, sub, failed, errMutex, buffer, allErrors, verdict>>

Init ==
    /\ main = "idle" /\ next = 0 /\ runnables = {}
    /\ wg = 0
    /\ sub = [i \in Subs |-> "none"]
    /\ failed = [i \in Subs |-> FALSE]
    /\ errMutex = -1
    /\ buffer = [i \in Subs |-> {}]
    /\ allErrors = {}
    /\ verdict = "none"

-----------------------------------------------------------------------------
(* The goroutine of Exec.                                                  *)

(* Exec of a new task, with variables of its own.                          *)
Begin ==
    /\ main' = "prepare" /\ next' = 0 /\ runnables' = {}
    /\ wg' = 0
    /\ sub' = [i \in Subs |-> "none"]
    /\ failed' = [i \in Subs |-> FALSE]
    /\ errMutex' = -1
    /\ buffer' = [i \in Subs |-> {}]
    /\ allErrors' = {}
    /\ verdict' = "none"

Start == main = "idle" /\ Begin

(* GetTask of the next sub-task; an error aborts before anything runs.     *)
Prepare ==
    /\ main = "prepare" /\ next \in Subs
    /\ \/ /\ runnables' = runnables \cup {next}
          /\ next' = next + 1
          /\ UNCHANGED <<main, verdict>>
       \/ /\ main' = "returned" /\ verdict' = "abort"
          /\ UNCHANGED <<runnables, next>>
    /\ UNCHANGED <<wg, sub, failed, errMutex, buffer, allErrors>>

Prepared ==
    /\ main = "prepare" /\ next \notin Subs
    /\ main' = "launch" /\ next' = 0
    /\ UNCHANGED <<runnables, wg, sub, failed, errMutex, buffer, allErrors, verdict>>

(* Mutant: the goroutine itself calls wg.Add, too late.                    *)
MutAddLater ==
    /\ main = "launch" /\ next \in Subs
    /\ sub' = [sub EXCEPT ![next] = "exec"]
    /\ next' = next + 1
    /\ UNCHANGED <<main, runnables, wg, failed, errMutex, buffer, allErrors, verdict>>

(* wg.Add(1) before the go statement.                                      *)
Launch ==
    /\ main = "launch" /\ next \in Subs
    /\ wg' = wg + 1
    /\ sub' = [sub EXCEPT ![next] = "exec"]
    /\ next' = next + 1
    /\ UNCHANGED <<main, runnables, failed, errMutex, buffer, allErrors, verdict>>

Launched ==
    /\ main = "launch" /\ next \notin Subs
    /\ main' = "wait"
    /\ UNCHANGED <<next, runnables, wg, sub, failed, errMutex, buffer, allErrors, verdict>>

WgWait ==
    /\ main = "wait" /\ wg = 0
    /\ main' = "returned"
    /\ verdict' = IF allErrors = {} THEN "ok" ELSE "errors"
    /\ UNCHANGED <<next, runnables, wg, sub, failed, errMutex, buffer, allErrors>>

-----------------------------------------------------------------------------
(* The goroutine of a sub-task.                                            *)

(* execRunnable returns, with or without an error.                         *)
ExecRunnable(i, ok) ==
    /\ sub[i] = "exec"
    /\ sub' = [sub EXCEPT ![i] = IF ok THEN "done" ELSE "lock"]
    /\ failed' = [failed EXCEPT ![i] = ~ok]
    /\ UNCHANGED <<main, next, runnables, wg, errMutex, buffer, allErrors, verdict>>

(* Mutant: the lock is not taken.                                          *)
MutNoLock(i) ==
    /\ sub[i] = "lock"
    /\ buffer' = [buffer EXCEPT ![i] = allErrors]
    /\ sub' = [sub EXCEPT ![i] = "append"]
    /\ UNCHANGED <<main, next, runnables, wg, failed, errMutex, allErrors, verdict>>

(* errMutex.Lock, and the read of allErrors ...                            *)
LockErrors(i) ==
    /\ sub[i] = "lock" /\ errMutex = -1
    /\ errMutex' = i
    /\ buffer' = [buffer EXCEPT ![i] = allErrors]
    /\ sub' = [sub EXCEPT ![i] = "append"]
    /\ UNCHANGED <<main, next, runnables, wg, failed, allErrors, verdict>>

(* Mutant: the mutex is not released.                                      *)
MutNoUnlock(i) ==
    /\ sub[i] = "append"
    /\ allErrors' = buffer[i] \cup {i}
    /\ sub' = [sub EXCEPT ![i] = "done"]
    /\ UNCHANGED <<main, next, runnables, wg, failed, errMutex, buffer, verdict>>

(* ... whose result multierr.Append extends and Exec stores.               *)
AppendError(i) ==
    /\ sub[i] = "append"
    /\ allErrors' = buffer[i] \cup {i}
    /\ errMutex' = -1
    /\ sub' = [sub EXCEPT ![i] = "done"]
    /\ UNCHANGED <<main, next, runnables, wg, failed, buffer, verdict>>

(* The deferred wg.Done.                                                   *)
WgDone(i) ==
    /\ sub[i] = "done"
    /\ wg' = wg - 1
    /\ sub' = [sub EXCEPT ![i] = "gone"]
    /\ UNCHANGED <<main, next, runnables, failed, errMutex, buffer, allErrors, verdict>>

-----------------------------------------------------------------------------
MainStep == Prepare \/ Prepared \/ Launch \/ Launched \/ WgWait
ReportStep(i) == LockErrors(i) \/ AppendError(i) \/ WgDone(i)

SubStep(i) == \E ok \in BOOLEAN : ExecRunnable(i, ok)

Next == Start \/ MainStep \/ \E i \in Subs : SubStep(i) \/ ReportStep(i)

Spec == Init /\ [][Next]_vars

(* Goroutines run, a contended mutex is handed over; only a sub-task in    *)
(* CanHang may go on for ever.                                             *)
FairSpec == /\ Spec
            /\ WF_vars(Start \/ MainStep)
            /\ \A i \in Subs : SF_vars(LockErrors(i)) /\ WF_vars(ReportStep(i))
            /\ \A i \in Subs \ CanHang : WF_vars(SubStep(i))

-----------------------------------------------------------------------------
TypeOK ==
    /\ main \in {"idle", "prepare", "launch", "wait", "returned"}
    /\ next \in 0..NumSubs /\ runnables \subseteq Subs
    /\ wg \in 0..NumSubs
    /\ sub \in [Subs -> {"none", "exec", "lock", "append", "done", "gone"}]
    /\ failed \in [Subs -> BOOLEAN]
    /\ errMutex \in Subs \cup {-1}
    /\ buffer \in [Subs -> SUBSET Subs]
    /\ allErrors \subseteq Subs
    /\ verdict \in {"none", "ok", "abort", "errors"}

(* All or nothing: a sub-task runs only after every one was prepared, and  *)
(* once Exec returned none of them is still running or about to report.    *)
Bracketed ==
    /\ \A i \in Subs : sub[i] # "none" => runnables = Subs
    /\ main = "returned" => \A i \in Subs : sub[i] \in {"none", "gone"}

(* No error is lost among concurrent appends: Exec returns nil only if no  *)
(* sub-task failed, and otherwise the errors of exactly those that did.    *)
NoErrorLost ==
    main = "returned" /\ verdict # "abort" =>
        allErrors = {i \in Subs : failed[i]} /\ (verdict = "ok" <=> allErrors = {})

(* If every sub-task ends, Exec returns.                                   *)
Returns == <>(main = "returned")

(* README.md:510, "If any sub-task fails, the Parallel task fails          *)
(* immediately (though other running parallel sub-tasks might continue)":  *)
(* it returns after a failure even if another sub-task hangs.              *)
FailsImmediately == \A i \in Subs : failed[i] ~> main = "returned"
=============================================================================
