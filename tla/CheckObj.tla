------------------------------ MODULE CheckObj ------------------------------
(***************************************************************************)
(* CheckObjTask.Exec (check_object_task.go): the calling goroutine checks  *)
(* every object once while an informer's handler checks the object of each *)
(* event; both remove the names they validated from a SyncMap, and the     *)
(* handler signals on an unbuffered channel when it finds the map empty.   *)
(***************************************************************************)
EXTENDS Integers, FiniteSets

CONSTANTS
    Names,      \* info.Names: the objects to check
    Others,     \* other objects of the same resource type and namespace
    Timeouts,   \* whether the task has a timeout: TRUE, or FALSE to check once
    MaxChanges, \* bound on the changes of objects while the task runs
    MaxFaults   \* bound on the Get requests that fail for another reason

Objs == Names \cup Others

ASSUME NamesAssumption == IsFiniteSet(Names) /\ Names # {} /\ Names \cap Others = {}
ASSUME BoundsAssumption == Timeouts \subseteq BOOLEAN /\ MaxChanges \in Nat /\ MaxFaults \in Nat

VARIABLES
    timeout,    \* the task's parameter: it has a timeout
    state,      \* state[o]: "absent", "other", or "match" (task.State is a subset)
    changes,    \* changes of objects so far
    faults,     \* failed requests so far
    nameMap,    \* names not validated yet
    main,       \* where Exec is: "start", "get", "delete", "keys", "wait", "close",
                \* "closeDone", "cancel", "returned"
    todo,       \* names checkStates has still to look at, the current one included
    name,       \* the name checkStates is looking at
    ctxDone,    \* the timeout has expired, or Exec has cancelled its context
    informer,   \* "off", "starting", "on", or "stopped" (stopCh is closed)
    pending,    \* pending[o]: events of o the handler has still to be given
    handler,    \* where the handler is: "idle", "get", "delete", "size", "send"
    subject,    \* the object of the event it was given
    closed,     \* channel done is closed
    verdict,    \* what Exec returns: "none" until it is decided, "ok" or "error"
    panicked,   \* the process has stopped: a send on a closed channel
    observed    \* history: the names a Get has returned in the expected state

cluster == <<timeout, state, changes>>
execVars == <<main, todo, name, informer, closed, verdict>>
handlerVars == <<handler, subject>>
vars == <<cluster, faults, nameMap, execVars, ctxDone, pending, handlerVars, panicked, observed>>

Init ==
    /\ timeout \in Timeouts
    /\ state \in [Objs -> {"absent", "other", "match"}]
    /\ changes = 0
    /\ faults = 0
    /\ nameMap = Names
    /\ main = "start" /\ todo = Names /\ name \in Names
    /\ ctxDone = FALSE
    /\ informer = "off"
    /\ pending = [o \in Objs |-> 0]
    /\ handler = "idle" /\ subject \in Names
    /\ closed = FALSE
    /\ verdict = "none"
    /\ panicked = FALSE
    /\ observed = {}

-----------------------------------------------------------------------------
(* The cluster and the informer.  Every change of an existing object makes *)
(* an event; a deletion makes none the task handles.                       *)

Change(o, s) ==
    /\ changes < MaxChanges
    /\ s # state[o]
    /\ changes' = changes + 1
    /\ state' = [state EXCEPT ![o] = s]
    /\ pending' = IF informer = "on" /\ s # "absent"
                  THEN [pending EXCEPT ![o] = @ + 1] ELSE pending
    /\ UNCHANGED <<timeout, faults, nameMap, execVars, ctxDone, handlerVars, panicked, observed>>

(* Mutant: the informer only watches, and lists nothing.                   *)
MutListsNothing == [o \in Objs |-> 0]

(* informer.Run lists what exists and then watches.                        *)
Listed == [o \in Objs |-> IF state[o] = "absent" THEN 0 ELSE 1]

InformerLists ==
    /\ informer = "starting"
    /\ informer' = "on"
    /\ pending' = Listed
    /\ UNCHANGED <<cluster, faults, nameMap, main, todo, name, closed, verdict, ctxDone,
                   handlerVars, panicked, observed>>

(* The deadline of the task's context, or a cancelled parent.              *)
Expire ==
    /\ ~ctxDone /\ ~panicked
    /\ ctxDone' = TRUE
    /\ UNCHANGED <<cluster, faults, nameMap, execVars, pending, handlerVars, panicked, observed>>

-----------------------------------------------------------------------------
(* checkState, which both goroutines call: a Get and a comparison, then    *)
(* the removal of the name.                                                *)

(* The Get returned o and task.State is a subset of it.                    *)
GetMatches(o) ==
    /\ ~ctxDone
    /\ state[o] = "match"
    /\ observed' = observed \cup ({o} \cap Names)
    /\ UNCHANGED faults

(* No such object, another state, a finished context or a failed request.  *)
GetFails(o) ==
    /\ UNCHANGED observed
    /\ \/ (ctxDone \/ state[o] # "match") /\ UNCHANGED faults
       \/ faults < MaxFaults /\ faults' = faults + 1

(* Mutant: the name is set again instead of deleted.                       *)
MutSetsAgain(o) == nameMap' = nameMap \cup {o}

Forget(o) == nameMap' = nameMap \ {o}

-----------------------------------------------------------------------------
(* The goroutine of Exec.                                                  *)

Exec ==
    /\ main = "start"
    /\ main' = "get"
    /\ informer' = IF timeout THEN "starting" ELSE "off"
    /\ UNCHANGED <<cluster, faults, nameMap, todo, name, closed, verdict, ctxDone, pending,
                   handlerVars, panicked, observed>>

(* checkStates looks at the next name.                                     *)
SyncGet ==
    /\ main = "get"
    /\ \E n \in todo :
        /\ name' = n
        /\ \/ /\ GetMatches(n)
              /\ main' = "delete"
              /\ UNCHANGED todo
           \/ /\ GetFails(n)
              /\ todo' = todo \ {n}
              /\ main' = IF todo' = {} THEN "keys" ELSE "get"
    /\ UNCHANGED <<cluster, nameMap, informer, closed, verdict, ctxDone, pending, handlerVars,
                   panicked>>

SyncDelete ==
    /\ main = "delete"
    /\ Forget(name)
    /\ todo' = todo \ {name}
    /\ main' = IF todo' = {} THEN "keys" ELSE "get"
    /\ UNCHANGED <<cluster, faults, name, informer, closed, verdict, ctxDone, pending,
                   handlerVars, panicked, observed>>

(* Mutant: one name left is not an error.                                  *)
MutOneLeftIsFine ==
    /\ main = "keys"
    /\ IF Cardinality(nameMap) <= 1
       THEN main' = "close" /\ verdict' = "ok"
       ELSE main' = "close" /\ verdict' = "error"
    /\ UNCHANGED <<cluster, faults, nameMap, todo, name, informer, closed, ctxDone, pending,
                   handlerVars, panicked, observed>>

(* checkStates ends: names left are an error, which only a task without    *)
(* timeout returns.                                                        *)
SyncKeys ==
    /\ main = "keys"
    /\ IF nameMap = {}
       THEN main' = "close" /\ verdict' = "ok"
       ELSE IF timeout
            THEN main' = "wait" /\ UNCHANGED verdict
            ELSE main' = "close" /\ verdict' = "error"
    /\ UNCHANGED <<cluster, faults, nameMap, todo, name, informer, closed, ctxDone, pending,
                   handlerVars, panicked, observed>>

(* Mutant: a timeout returns nil.                                          *)
MutTimeoutIsNil ==
    /\ main = "wait" /\ ctxDone
    /\ main' = "close" /\ verdict' = "ok"
    /\ UNCHANGED <<cluster, faults, nameMap, todo, name, informer, closed, ctxDone, pending,
                   handlerVars, panicked, observed>>

(* The two cases of the select statement.                                  *)
WaitTimesOut ==
    /\ main = "wait" /\ ctxDone
    /\ main' = "close" /\ verdict' = "error"
    /\ UNCHANGED <<cluster, faults, nameMap, todo, name, informer, closed, ctxDone, pending,
                   handlerVars, panicked, observed>>

WaitReceives ==
    /\ main = "wait" /\ handler = "send"
    /\ main' = "close" /\ verdict' = "ok"
    /\ handler' = "idle"
    /\ UNCHANGED <<cluster, faults, nameMap, todo, name, informer, closed, ctxDone, pending,
                   subject, panicked, observed>>

(* close(stopCh), then the deferred close(done), then the deferred cancel. *)
CloseStopCh ==
    /\ main = "close"
    /\ main' = IF timeout THEN "closeDone" ELSE "returned"
    /\ informer' = IF timeout THEN "stopped" ELSE "off"
    /\ UNCHANGED <<cluster, faults, nameMap, todo, name, closed, verdict, ctxDone, pending,
                   handlerVars, panicked, observed>>

(* A goroutine blocked in a send panics when its channel is closed.        *)
CloseDone ==
    /\ main = "closeDone"
    /\ main' = "cancel"
    /\ closed' = TRUE
    /\ panicked' = (handler = "send")
    /\ UNCHANGED <<cluster, faults, nameMap, todo, name, informer, verdict, ctxDone, pending,
                   handlerVars, observed>>

CancelCtx ==
    /\ main = "cancel"
    /\ main' = "returned"
    /\ ctxDone' = TRUE
    /\ UNCHANGED <<cluster, faults, nameMap, todo, name, informer, closed, verdict, pending,
                   handlerVars, panicked, observed>>

-----------------------------------------------------------------------------
(* The informer's goroutine that calls the handler, one event at a time.   *)
(* Events already queued are still handled after close(stopCh), until the  *)
(* informer's own goroutines notice it.                                    *)

TakeEvent ==
    /\ handler = "idle"
    /\ informer \in {"on", "stopped"}
    /\ \E o \in Objs :
        /\ pending[o] > 0
        /\ subject' = o
        /\ pending' = [pending EXCEPT ![o] = @ - 1]
    /\ handler' = "get"
    /\ UNCHANGED <<cluster, faults, nameMap, execVars, ctxDone, panicked, observed>>

(* Mutant: the handler removes the name whatever the state is.             *)
MutRemovesAnyway ==
    /\ handler = "get"
    /\ GetMatches(subject) \/ GetFails(subject)
    /\ handler' = "delete"
    /\ UNCHANGED <<cluster, nameMap, execVars, ctxDone, pending, subject, panicked>>

HandlerGet ==
    /\ handler = "get"
    /\ \/ GetMatches(subject) /\ handler' = "delete"
       \/ GetFails(subject) /\ handler' = "idle"
    /\ UNCHANGED <<cluster, nameMap, execVars, ctxDone, pending, subject, panicked>>

HandlerDelete ==
    /\ handler = "delete"
    /\ Forget(subject)
    /\ handler' = "size"
    /\ UNCHANGED <<cluster, faults, execVars, ctxDone, pending, subject, panicked, observed>>

(* An empty map is announced, once more for every later event that matches.*)
HandlerSize ==
    /\ handler = "size"
    /\ handler' = IF nameMap = {} THEN "send" ELSE "idle"
    /\ UNCHANGED <<cluster, faults, nameMap, execVars, ctxDone, pending, subject, panicked,
                   observed>>

SendOnClosed ==
    /\ handler = "send" /\ closed
    /\ panicked' = TRUE
    /\ UNCHANGED <<cluster, faults, nameMap, execVars, ctxDone, pending, handlerVars, observed>>

-----------------------------------------------------------------------------
ExecStep == \/ Exec \/ SyncGet \/ SyncDelete \/ SyncKeys \/ WaitTimesOut \/ WaitReceives
            \/ CloseStopCh \/ CloseDone \/ CancelCtx

HandlerStep == TakeEvent \/ HandlerGet \/ HandlerDelete \/ HandlerSize \/ SendOnClosed

(* Nothing of the task moves once the process has stopped.                 *)
Next ==
    \/ \E o \in Objs, s \in {"absent", "other", "match"} : Change(o, s)
    \/ Expire
    \/ ~panicked /\ (InformerLists \/ ExecStep \/ HandlerStep)

Spec == Init /\ [][Next]_vars

(* The scheduler runs a ready goroutine; the deadline may be far away.     *)
Fairness ==
    /\ WF_vars(~panicked /\ ExecStep)
    /\ WF_vars(~panicked /\ HandlerStep)
    /\ WF_vars(~panicked /\ InformerLists)

FairSpec == Spec /\ Fairness

-----------------------------------------------------------------------------
TypeOK ==
    /\ timeout \in Timeouts
    /\ state \in [Objs -> {"absent", "other", "match"}]
    /\ changes \in 0..MaxChanges /\ faults \in 0..MaxFaults
    /\ nameMap \in SUBSET Names
    /\ main \in {"start", "get", "delete", "keys", "wait", "close", "closeDone", "cancel",
                 "returned"}
    /\ todo \in SUBSET Names /\ name \in Names
    /\ ctxDone \in BOOLEAN /\ closed \in BOOLEAN /\ panicked \in BOOLEAN
    /\ informer \in {"off", "starting", "on", "stopped"}
    /\ pending \in [Objs -> Nat]
    /\ handler \in {"idle", "get", "delete", "size", "send"} /\ subject \in Objs
    /\ verdict \in {"none", "ok", "error"}
    /\ observed \in SUBSET Names

(* An answer "ok" means every name was seen in the expected state by some  *)
(* Get, whichever goroutine made it: Exec implements Verification.         *)
Promise == INSTANCE Verification WITH
    Subjects <- Names, Count <- Cardinality(Names),
    good <- {n \in Names : state[n] = "match"}, seen <- observed, verdict <- verdict

PromiseSpec == Promise!Spec

(* No validated name is forgotten before it was seen, and none that was    *)
(* seen stays in the map unless a goroutine is about to remove it.         *)
BeingForgotten == {n \in Names : \/ main = "delete" /\ name = n
                                 \/ handler = "delete" /\ subject = n}

MapIsUnseen == /\ Names \ nameMap \subseteq observed
               /\ observed \cap nameMap \subseteq BeingForgotten

(* No wakeup is lost: if from some time on every name is in the expected   *)
(* state and no request fails, Exec returns (or the process stops) without *)
(* having to wait for its deadline, however the two checks interleave.     *)
SettledIsNoticed ==
    (timeout /\ [](faults = 0) /\ <>[](\A n \in Names : state[n] = "match"))
        => <>(main = "returned" \/ panicked)

(* Checked once, the answer is exact: "ok" if and only if every name was   *)
(* seen in the expected state.                                             *)
OnceIsExact == ~timeout /\ main = "returned" => (verdict = "ok" <=> observed = Names)

(* "Keep checking until timeout" (check_object_task.go:80): the task ends  *)
(* by returning a verdict, never by stopping the program.                  *)
EndsByReturning == ~panicked
=============================================================================
