----------------------------- MODULE Configure -----------------------------
(***************************************************************************)
(* The Configure task (pkg/engine/configure_task.go): four goroutines      *)
(* change namespaces, priority classes, configmaps and virtual nodes at    *)
(* the same time, each hands one result to the task over an unbuffered     *)
(* channel, a fifth closes the channel when all four are gone, and only if *)
(* all results are nil the task restarts the listed deployments.           *)
(*                                                                         *)
(* The API server, helm, the deployment controller and other users of the  *)
(* cluster are the environment: a call can fail, with or without having    *)
(* been applied, and between a Get and the change that it decides on       *)
(* somebody else can change the object.                                    *)
(***************************************************************************)
EXTENDS Integers, Sequences, FiniteSets

CONSTANTS
  Namespaces, Classes, Maps,  \* objects the task can name
  Home,                       \* the namespace of each configmap
  Data,                       \* what a class or a configmap can hold
  Deployments,
  Programs,                   \* the parameters of the tasks
  Faults,                     \* bound: calls and commands that fail
  Meddlings                   \* bound: changes made by other users

VARIABLES
  program,    \* the task's parameters
  stored,     \* cluster: what each object holds, or Absent
  rollout,    \* cluster: each deployment's last restart
  expired,    \* the task's context is done
  wpc,        \* where each worker is
  idx,        \* the operation a worker is at
  found,      \* what the worker's Get returned
  result,     \* the worker's return value
  main,       \* where Exec is
  err,        \* Exec's variable err, and its return value
  ri,         \* the deployment restart Exec is at
  faults, meddled,
  touched     \* history: what was changed by anything but the task since the
              \* task was done with it

cluster == <<stored, rollout>>
workers == <<wpc, idx, found, result>>
exec == <<main, err, ri>>
bounds == <<faults, meddled>>
vars == <<program, cluster, expired, workers, exec, bounds, touched>>

Absent == "absent"
Active == "active"
Terminating == "terminating"
VirtualNodes == "virtual nodes"
Objects == Namespaces \union Classes \union Maps \union {VirtualNodes}
Listers == {"namespaces", "classes", "maps"}
Workers == Listers \union {"nodes"}

ASSUME HomeAssumption == Home \in [Maps -> Namespaces]
ASSUME BoundAssumption == Faults \in Nat /\ Meddlings \in Nat

\* Objects of different kinds are different, and none holds a phase as data.
ASSUME ObjectsAssumption ==
  /\ Namespaces \intersect (Classes \union Maps) = {} /\ Classes \intersect Maps = {}
  /\ VirtualNodes \notin Namespaces \union Classes \union Maps
  /\ {Absent, Active, Terminating} \intersect Data = {}

\* What validate lets through: each list creates or deletes objects of its
\* own kind, and a namespace that is created becomes active.
KindOf(w) == CASE w = "namespaces" -> Namespaces
               [] w = "classes" -> Classes
               [] w = "maps" -> Maps
Ops(w) ==
  [op : {"create"}, obj : KindOf(w), val : IF w = "namespaces" THEN {Active} ELSE Data]
    \union [op : {"delete"}, obj : KindOf(w)]

ASSUME ProgramsAssumption == \A p \in Programs :
  /\ \A w \in Listers : p[w] \in Seq(Ops(w))
  /\ p.restarts \in Seq([byLabels : BOOLEAN, match : SUBSET Deployments])

TypeOK ==
  /\ program \in Programs
  /\ stored \in [Objects -> {Absent, Active, Terminating} \union Data]
  /\ rollout \in [Deployments -> {"none", "asked", "rolling", "rolled"}]
  /\ expired \in BOOLEAN
  /\ wpc \in [Workers -> {"run", "change", "send", "gone"}]
  /\ \A w \in Listers : idx[w] \in 1 .. Len(program[w]) + 1
  /\ found \in [Workers -> {Absent, Active, Terminating} \union Data]
  /\ result \in [Workers -> {"nil", "error"}]
  /\ main \in {"collect", "closed", "next", "poll", "done"}
  /\ err \in {"nil", "error"}
  /\ ri \in 1 .. Len(program.restarts) + 1
  /\ faults \in 0 .. Faults /\ meddled \in 0 .. Meddlings
  /\ touched \subseteq Objects

Init ==
  /\ program \in Programs
  /\ stored \in [Objects -> {Absent, Active, Terminating} \union Data]
  /\ \A n \in Namespaces : stored[n] \in {Absent, Active, Terminating}
  /\ \A o \in Classes \union Maps : stored[o] \in {Absent} \union Data
  /\ \A o \in Maps : stored[Home[o]] = Absent => stored[o] = Absent
  /\ stored[VirtualNodes] = Absent
  /\ rollout = [d \in Deployments |-> "none"]
  /\ expired = FALSE
  /\ wpc = [w \in Workers |-> "run"]
  /\ idx = [w \in Workers |-> 1]
  /\ found = [w \in Workers |-> Absent]
  /\ result = [w \in Workers |-> "nil"]
  /\ main = "collect" /\ err = "nil" /\ ri = 1
  /\ faults = 0 /\ meddled = 0 /\ touched = {}

-----------------------------------------------------------------------------
(* The API server.  Every call takes the context: once it is done, calls   *)
(* fail.                                                                   *)

CanFail == expired \/ faults < Faults
CountFault == faults' = (IF expired THEN faults ELSE faults + 1) /\ UNCHANGED meddled

\* Whether the server accepts a write of v to o when the client, judging
\* by its Get, sends a Create (was = Absent), an Update or a Delete.
Accepts(o, was, v) ==
  /\ (v # Absent /\ was = Absent) <=> (stored[o] = Absent)
  /\ o \in Maps /\ was = Absent => stored[Home[o]] = Active

\* Deleting a namespace only marks it; Reap removes it and what it holds.
Written(o, v) ==
  [stored EXCEPT ![o] = IF v = Absent /\ o \in Namespaces THEN Terminating ELSE v]

-----------------------------------------------------------------------------
(* updateNamespaces, updatePriorityClasses, updateConfigmaps.              *)

Op(w) == program[w][idx[w]]
AtOp(w) == idx[w] <= Len(program[w])

\* Only the deletion of a namespace or a class is sent without a Get.
GetsFirst(w) == Op(w).op = "create" \/ w = "maps"

\* What Get showed makes a change unnecessary: a namespace that is there
\* (whatever its phase), a class that has the value, no map to delete.
NothingToDo(w, seen) ==
  \/ w = "namespaces" /\ seen # Absent
  \/ w = "classes" /\ seen = Op(w).val
  \/ w = "maps" /\ Op(w).op = "delete" /\ seen = Absent

\* A worker is done with an object and goes on to its next operation.
Passes(w) ==
  /\ idx' = [idx EXCEPT ![w] = @ + 1]
  /\ wpc' = [wpc EXCEPT ![w] = "run"]
  /\ touched' = touched \ {Op(w).obj}

\* A failed operation ends the worker; the objects behind it stay as they are.
Fails(w) ==
  /\ result' = [result EXCEPT ![w] = "error"]
  /\ wpc' = [wpc EXCEPT ![w] = "send"]

Get(w) ==
  /\ wpc[w] = "run" /\ AtOp(w) /\ GetsFirst(w)
  /\ \/ LET seen == stored[Op(w).obj] IN
        /\ ~expired
        /\ found' = [found EXCEPT ![w] = seen]
        /\ \/ NothingToDo(w, seen) /\ Passes(w)
           \/ /\ ~NothingToDo(w, seen)
              /\ wpc' = [wpc EXCEPT ![w] = "change"] /\ UNCHANGED <<idx, touched>>
        /\ UNCHANGED <<result, bounds>>
     \/ CanFail /\ CountFault /\ Fails(w) /\ UNCHANGED <<idx, found, touched>>
  /\ UNCHANGED <<program, cluster, expired, exec>>

\* Mutant: "already exists" and "not found" are taken for done.
MutRefusedIsDone(w) == Passes(w) /\ UNCHANGED result

\* The server's answer to a write that came too late is an error like others.
Refused(w) == Fails(w) /\ UNCHANGED <<idx, touched>>

\* Create, Update or Delete, by what the Get before it returned.
Change(w) ==
  /\ \/ wpc[w] = "change"
     \/ wpc[w] = "run" /\ AtOp(w) /\ ~GetsFirst(w)
  /\ LET o == Op(w).obj
         v == IF Op(w).op = "create" THEN Op(w).val ELSE Absent
         was == IF wpc[w] = "change" THEN found[w] ELSE Active IN
     \/ /\ ~expired /\ Accepts(o, was, v)
        /\ stored' = Written(o, v)
        /\ Passes(w)
        /\ UNCHANGED <<result, bounds>>
     \/ /\ ~expired /\ ~Accepts(o, was, v)
        /\ Refused(w)
        /\ UNCHANGED <<stored, bounds>>
     \/ /\ CanFail /\ CountFault
        /\ stored' \in {stored} \union {s \in {Written(o, v)} : ~expired /\ Accepts(o, was, v)}
        /\ Fails(w)
        /\ UNCHANGED <<idx, touched>>
  /\ UNCHANGED <<program, rollout, expired, found, exec>>

Finish(w) ==
  /\ wpc[w] = "run" /\ ~AtOp(w)
  /\ wpc' = [wpc EXCEPT ![w] = "send"]
  /\ UNCHANGED <<program, cluster, expired, idx, found, result, exec, bounds, touched>>

-----------------------------------------------------------------------------
(* updateVirtualNodes: helm, from the chart beside the program or, when    *)
(* there is none, from a repository that a first command adds.             *)

NoNodes ==
  /\ wpc["nodes"] = "run" /\ ~program.nodes
  /\ wpc' = [wpc EXCEPT !["nodes"] = "send"]
  /\ UNCHANGED <<program, cluster, expired, idx, found, result, exec, bounds, touched>>

RepoAdd ==
  /\ wpc["nodes"] = "run" /\ program.nodes /\ ~program.chart
  /\ \/ ~expired /\ wpc' = [wpc EXCEPT !["nodes"] = "change"] /\ UNCHANGED <<result, bounds>>
     \/ CanFail /\ CountFault /\ Fails("nodes")
  /\ UNCHANGED <<program, cluster, expired, idx, found, exec, touched>>

Upgrade ==
  /\ \/ wpc["nodes"] = "run" /\ program.nodes /\ program.chart
     \/ wpc["nodes"] = "change"
  /\ LET new == [stored EXCEPT ![VirtualNodes] = Active] IN
     \/ /\ ~expired /\ stored' = new
        /\ wpc' = [wpc EXCEPT !["nodes"] = "send"]
        /\ UNCHANGED <<result, bounds>>
     \/ CanFail /\ CountFault /\ Fails("nodes") /\ stored' \in {stored, new}
  /\ UNCHANGED <<program, rollout, expired, idx, found, exec, touched>>

-----------------------------------------------------------------------------
(* Exec: the fan-in and the restarts.                                      *)

\* Mutant: the goroutines return without wg.Done().
MutNeverDone(w) ==
  /\ wpc[w] = "send" /\ main = "collect"
  /\ wpc' = [wpc EXCEPT ![w] = "stuck"]
  /\ err' = IF result[w] = "error" THEN "error" ELSE err
  /\ UNCHANGED <<program, cluster, expired, idx, found, result, main, ri, bounds, touched>>

\* Mutant: every result overwrites err.
MutLastResultWins(w) ==
  /\ wpc[w] = "send" /\ main = "collect"
  /\ wpc' = [wpc EXCEPT ![w] = "gone"]
  /\ err' = result[w]
  /\ UNCHANGED <<program, cluster, expired, idx, found, result, main, ri, bounds, touched>>

\* errs <- result, received by the range loop, which keeps the last error,
\* and the deferred wg.Done(), which nothing can tell from the send.
Send(w) ==
  /\ wpc[w] = "send" /\ main = "collect"
  /\ wpc' = [wpc EXCEPT ![w] = "gone"]
  /\ err' = IF result[w] = "error" THEN "error" ELSE err
  /\ UNCHANGED <<program, cluster, expired, idx, found, result, main, ri, bounds, touched>>

\* wg.Wait(); close(errs): the range loop ends.
Close ==
  /\ main = "collect"
  /\ \A w \in Workers : wpc[w] = "gone"
  /\ main' = "closed"
  /\ UNCHANGED <<program, cluster, expired, workers, err, ri, bounds, touched>>

Judge ==
  /\ main = "closed"
  /\ main' = IF err = "error" THEN "done" ELSE "next"
  /\ UNCHANGED <<program, cluster, expired, workers, err, ri, bounds, touched>>

Restart == program.restarts[ri]

\* restartDeployment: the deployment is named, or listed by labels.  A list
\* that fails or finds none is a warning, more than one is an error.
Patch ==
  /\ main = "next" /\ ri <= Len(program.restarts)
  /\ \/ /\ Restart.byLabels
        /\ \/ Restart.match = {} /\ ~expired /\ UNCHANGED bounds
           \/ CanFail /\ CountFault
        /\ ri' = ri + 1
        /\ UNCHANGED <<rollout, main, err>>
     \/ /\ ~expired /\ \E d \in Restart.match :
           /\ Restart.match = {d}
           /\ rollout' = [rollout EXCEPT ![d] = "asked"]
        /\ main' = "poll"
        /\ UNCHANGED <<err, ri, bounds>>
     \/ /\ \/ Cardinality(Restart.match) > 1 /\ UNCHANGED bounds
           \/ Cardinality(Restart.match) = 1 /\ CanFail /\ CountFault
        /\ main' = "done" /\ err' = "error"
        /\ UNCHANGED <<rollout, ri>>
  /\ UNCHANGED <<program, stored, expired, workers, touched>>

\* The 5 s timer: the restart counts as finished when the status shows no
\* unavailable replica, which is also so before the controller has seen it.
Poll ==
  /\ main = "poll" /\ ~expired
  /\ \E d \in Restart.match : rollout[d] # "rolling"
  /\ main' = "next" /\ ri' = ri + 1
  /\ UNCHANGED <<program, cluster, expired, workers, err, bounds, touched>>

PollTimesOut ==
  /\ main = "poll" /\ expired
  /\ main' = "done" /\ err' = "error"
  /\ UNCHANGED <<program, cluster, expired, workers, ri, bounds, touched>>

Return ==
  /\ main = "next" /\ ri > Len(program.restarts)
  /\ main' = "done"
  /\ UNCHANGED <<program, cluster, expired, workers, err, ri, bounds, touched>>

-----------------------------------------------------------------------------
(* The environment.                                                        *)

\* Mutant: the task waits without a deadline of its own.
MutNoDeadline == FALSE /\ UNCHANGED vars

\* context.WithTimeout: the task's timeout passes.
Expire ==
  /\ ~expired /\ main # "done"
  /\ expired' = TRUE
  /\ UNCHANGED <<program, cluster, workers, exec, bounds, touched>>

Controller(d) ==
  /\ \/ rollout[d] = "asked" /\ rollout' = [rollout EXCEPT ![d] = "rolling"]
     \/ rollout[d] = "rolling" /\ rollout' = [rollout EXCEPT ![d] = "rolled"]
  /\ UNCHANGED <<program, stored, expired, workers, exec, bounds, touched>>

Reap(n) ==
  /\ stored[n] = Terminating
  /\ stored' = [o \in Objects |->
       IF o = n \/ (o \in Maps /\ Home[o] = n) THEN Absent ELSE stored[o]]
  /\ touched' = touched \union {o \in Objects : stored'[o] # stored[o]}
  /\ UNCHANGED <<program, rollout, expired, workers, exec, bounds>>

\* Others create, delete and change classes and configmaps, and create and
\* delete namespaces.
Meddle(o) ==
  /\ main # "done" /\ meddled < Meddlings
  /\ \E v \in (IF o \in Namespaces THEN {Absent, Active} ELSE {Absent} \union Data) :
       /\ v # stored[o]
       /\ o \in Namespaces /\ v = Active => stored[o] = Absent
       /\ o \in Maps /\ stored[o] = Absent => stored[Home[o]] = Active
       /\ stored' = Written(o, v)
  /\ meddled' = meddled + 1
  /\ touched' = touched \union {o}
  /\ UNCHANGED <<program, rollout, expired, workers, exec, faults>>

-----------------------------------------------------------------------------
ListerStep(w) == Get(w) \/ Change(w) \/ Finish(w)
NodeStep == NoNodes \/ RepoAdd \/ Upgrade
FanIn == Close \/ \E w \in Workers : Send(w)
ExecStep == Judge \/ Patch \/ Poll \/ PollTimesOut \/ Return
Terminated == main = "done" /\ UNCHANGED vars

Next ==
  \/ \E w \in Listers : ListerStep(w)
  \/ NodeStep \/ FanIn \/ ExecStep \/ Expire \/ Terminated
  \/ \E d \in Deployments : Controller(d)
  \/ \E n \in Namespaces : Reap(n)
  \/ \E o \in Objects \ {VirtualNodes} : Meddle(o)

Spec == Init /\ [][Next]_vars

\* Goroutines are scheduled, a call ends at the latest with its context, and
\* the context ends: the environment's other steps are not owed to the task.
FairSpec ==
  /\ Spec
  /\ \A w \in Listers : WF_vars(ListerStep(w))
  /\ \A w \in Workers : WF_vars(Send(w))
  /\ WF_vars(NodeStep) /\ WF_vars(Close) /\ WF_vars(ExecStep) /\ WF_vars(Expire)

-----------------------------------------------------------------------------
(* Properties.                                                             *)

\* Exec goes on only when each of the four goroutines has handed over its
\* result and called Done, and returns nil only if all four results were nil:
\* one nil that arrives after an error does not hide the error.
NilMeansAll ==
  /\ main # "collect" => \A w \in Workers : wpc[w] = "gone"
  /\ main = "done" /\ err = "nil" => \A w \in Workers : result[w] = "nil"

\* The operations whose object no later operation of the same list has.
LastOps(w) == {i \in DOMAIN program[w] :
  \A j \in DOMAIN program[w] : program[w][j].obj = program[w][i].obj => j <= i}

\* The namespaces that were on their way out when the task, which was to
\* create them, found them there and took that for good.
Doomed == {n \in Namespaces : stored[n] = Terminating}

\* What an operation asks for; a namespace goes some time after its deletion.
Holds(p) == stored[p.obj] \in IF p.op = "create" THEN {p.val} ELSE {Absent, Terminating}

\* What the program asks of an object is in the cluster, unless anything but
\* the task changed it after the task was done with it, or it is a namespace
\* that the task found there on its way out.
InPlace ==
  /\ program.nodes => stored[VirtualNodes] = Active
  /\ \A w \in Listers : \A i \in LastOps(w) :
       program[w][i].obj \in touched \union Doomed \/ Holds(program[w][i])

\* A deployment is restarted to read its new configuration: when it is
\* asked to, the whole configuration is in place.  A change by others between
\* a Get and the write it decides on is overwritten or makes the write fail;
\* it never leaves a nil behind with something else in the cluster.
RestartSeesConfig ==
  (\E d \in Deployments : rollout[d] # "none") => InPlace

\* The same without the exception, which does not hold: a namespace that is
\* there counts as created in whatever phase it is.
CreatedIsThere ==
  (\E d \in Deployments : rollout[d] # "none") =>
    \A i \in LastOps("namespaces") :
      program["namespaces"][i].obj \in touched \/ Holds(program["namespaces"][i])

\* Exec returns, whatever fails and however long the cluster takes.
Returns == <>(main = "done")
=============================================================================
