# Knavigator, verified

TLA+ specifications of [Knavigator](../src), a tool that runs *workflows* (lists
of tasks) against a Kubernetes cluster to exercise its schedulers, and of the two
Prometheus exporters that measure what the schedulers do. The modules are checked
with TLC on small instances; every safety property that the passing runs check is also proved
with TLAPS, for every instance: of the workflow engine, its checks, its nested tasks and its
configuration task, and of both exporters.

Every definition is translated from the code; `PROJECT.json` gives, under `map`, the
source lines each one stands for, and under `hazards` the places of the code that
are hard to test and the properties that watch them.

    tlc -workers 2 -config MCEngine_server.cfg MCEngine     # a run
    tlapm EngineProofs.tla                                  # the proofs; one module for each component,
                                                            # and SumTheorems, which two of them use

## 1. The system

| component | code | state it keeps | operations | model |
|---|---|---|---|---|
| engine | `pkg/engine/engine.go` and the task files | `objTypeMap`, `objInfoMap` under `mutex`; the counter of `utils.GenerateNames` | `Run`, `GetTask`, `SetObjType`, `GetObjType`, `SetObjInfo`, `GetObjInfo`, `Reset`, `DeleteAllObjects`; tasks RegisterObj, SubmitObj, UpdateObj, DeleteObj | `Engine` |
| command line, workflow server | `cmd/knavigator/main.go`, `pkg/server/server.go` | one engine for the life of the process | runs workflows in turn; runs one per request, concurrently | `Engine` (`Concurrent`) |
| CheckObj | `check_object_task.go`, `pkg/utils/sync_map.go` | `nameMap`, `done`, `stopCh` | one synchronous check, one informer handler | `CheckObj`, `Verification` |
| CheckPod | `check_pod_task.go` | `podMap`, `errs` | one list without a timeout; informer and list goroutine with one | `CheckPod`, `Verification` |
| Parallel | `parallel_task.go` | wait group, mutex, error list | one goroutine per sub-task, join | `Parallel`, `Nested` |
| Repeat | `repeat_task.go` | iteration, start time | the loop with its two limits and the cancellation | `Repeat`, `Nested` |
| DeleteAllJobs | `delete_all_jobs.go` | the list of a kind | list, delete, poll for one kind of job after the other | `DeleteAllJobs`, `Nested` |
| Configure | `configure_task.go` | channel of results, wait group | four goroutines that write to the cluster, then restarts | `Configure` |
| UpdateObj, UpdateNodes | `update_object_task.go`, `update_nodes_task.go` | none | a loop of patches over objects, or over the nodes that match selectors | `Update` (the registry of UpdateObj in `Engine`) |
| object state, patches | `pkg/engine/object_state.go`, `pkg/utils` | none: pure functions | `NewPatchData`, `IsSubset`, selectors | `Update` |
| CheckConfigmap, Sleep, Pause, name patterns, configuration | their files, `pkg/config` | none | one request or one wait; functions of strings | no |
| unified job exporter | `unified-job-exporter/exporter.py` | caches, sets of observed uids, labels of the last cycle, the series | one cycle of lists, jobs, constraints, counts, removal | `JobExporter` |
| node resource exporter | `node-resource-exporter/exporter.py` | labels of the last cycle, the series | one cycle of two lists, sums, publication, removal | `NodeExporter` |
| Go resource reporter, clients, charts, scripts | `cmd`, `charts`, ... | | gauges that are only set; input and output | no |

**How they interact.** A workflow (from the command line or an HTTP request) is one call
of `Run` on the one `Eng` of the process. `Run` makes each task with `GetTask`,
which checks under the mutex that the id the task refers to is registered, releases
the mutex, and calls the task's `Exec`, which reads the registry again. RegisterObj
writes `objTypeMap`, SubmitObj reads it, creates objects and writes `objInfoMap`;
UpdateObj, DeleteObj, CheckObj and CheckPod read that. `Run` ends with `Reset`, which starts a
goroutine that deletes everything in `objInfoMap` and waits for it or for the
context. Parallel and Repeat call `GetTask`/`RunTask` of the same engine for their sub-tasks.
CheckObj and CheckPod watch with an informer, whose handler is called from a goroutine of
the Kubernetes client. The exporters share nothing with the engine but the cluster.

**What is hard.** Concurrent runs over registries that outlive them; a lock that is
released between a check and a use; an iteration over a map without the lock; a
clean-up that goes on after its caller stopped waiting; unbuffered channels between
goroutines that end in different orders; objects that change between the reads of a
check and between a Get and the write it decides on; failing requests in the middle of a
task; and, in the exporters, memory kept from cycle to cycle about a cluster that is only
seen in lists taken at different times, some of which fail.

**What makes each part correct.**

- *Engine*: a reference stays resolved until the task ends; what is recorded was created
  by that task; only own objects are deleted; names never collide; what was
  submitted is recorded; a nil from Reset means the recorded objects are gone; every run ends.
- *Checks*: "ok" only if enough objects were really seen in their state, no
  matter which goroutine saw them; objects that settle are noticed before the deadline.
- *Parallel*: all or nothing at the start, nobody left running at the end, no error lost.
- *Repeat*: exactly the iterations asked for; prompt end after a failure or a cancellation.
- *Configure*: nil means that all four parts succeeded; nothing is restarted on a
  half-made configuration; it always returns.
- *DeleteAllJobs*: nil means that the jobs that were there have gone, and not only
  been asked to go; and so an iteration of the loop around it leaves nothing to the next.
- *UpdateObj, UpdateNodes*: nil means that every target is in the state that was asked for.
- *Job exporter*: one observation per job, no series of jobs that are gone, counts that
  match the list, a start that is not forgotten, a verdict that is not revised and that agrees with the
  distance that is published for the same pods.
- *Node exporter*: capacity minus usage is what is really free; usage fits; no
  series of nodes that are gone.

## 2. The modules

### Engine

State: `prog`, `pc`, `idx`, `loop`, `err` of each *flow* (one call of `Run`);
`objType`, `objInfo`, `objID` for the two maps and the counter; `cluster`, the objects in the API
server; `sweep[f]`, the goroutine that the `Reset` of flow `f` starts; `created`, a history variable.
A step is what a goroutine does between two lock operations or two requests.
A request that fails may have been applied. `Concurrent` distinguishes the server (every flow may start
at any time) from the command line (a flow starts after the one before returned nil).

| code | action |
|---|---|
| `Run`, the loop | `Start`, `EndOfTasks`, `GetTask`, operators `Advance`, `Fail` |
| RegisterObj | `Discover`, `SetObjType` |
| SubmitObj | `GetObjType`, `GenerateName` (one atomic add each), `NamesReady`, `GetExisting` (the early `return nil` of canExist), `Create`, `SetObjInfo` |
| UpdateObj, DeleteObj, CheckObj | `GetObjInfo`, `WorkOnObject`, `WorkDone`, `CheckFails` |
| `Reset`, `DeleteAllObjects` | `Reset`, `PickEntry` (any order; an entry added meanwhile may be visited), `SweepOne`, `SweepDone`, `ResetStops`, `ResetTimesOut`, `Expire` |
| request context | `Cancel` |

A write of `objInfoMap` while a clean-up iterates over it is undefined in Go: `SetObjInfo`
then chooses whether the runtime stops the process (`crashed`). Object names
are numbers (the value of the counter), 0 for a constant name, `Blank` for the empty names that
SubmitObj records when the type has no name format. As in the code, one
`ObjInfo` has a single namespace for all its resource types.

### Verification, CheckObj, CheckPod

`Verification` is the abstract specification of both checks: objects change at will, each look
may add to `seen` objects that are good at that moment, and "ok" needs `Count` of them.
It promises neither that the objects are good together nor that they still are.
`CheckObj!PromiseSpec` and `CheckPod!PromiseSpec` instantiate it with the
refinement mapping (`good`: the objects in the state; `seen`: the history variable
`observed`; `verdict`: what Exec returns), checked as a PROPERTY.

`CheckObj` has the goroutine of `Exec` (`SyncGet`, `SyncDelete`, `SyncKeys`, the two
cases of the select, `CloseStopCh`, `CloseDone`, `CancelCtx`) and that of the informer's handler
(`TakeEvent`, `HandlerGet`, `HandlerDelete`, `HandlerSize`, and the send, which is the
state "send" until `WaitReceives` takes it). Each operation of the `SyncMap` is a step.
`CheckPod` has two workers with the code of `verifyPod` (`VerifyPod`, `VerifyLabels`, `SetPod`), fed by
the informer (`InformerLists`, `Change`, `Resync`) and by one list (`ListPods`); the
branch without a timeout is `CheckPods`, `JudgePods`. A pod whose name
matches several patterns counts several times there, as in the code (`Hits`).

### Parallel, Repeat, DeleteAllJobs, Nested

`Parallel` splits the append to the error list into its read and its write, so that
the mutex matters. `Repeat` has one action per test of the loop: `Limits`,
`CheckCtx`, `RunTask` and `TaskReturns` with the time that a sub-task takes between them, `SubDone`, `Sleep`; the
clock is the one step `Elapse`. `DeleteAllJobs` has one action per request: `List`, `Delete` of
one job, `Poll`; deletion is in the background, so a job is `deleting` until the cluster
collects it, which may be never (`PollTimesOut`). A kind that is not served is passed over and a job that is
gone is skipped, as in the code; `RequestFails` is every other error.

`Nested` composes the three as the benchmark workflows do: a Repeat whose first sub-task is a
Parallel task that submits jobs and whose second is DeleteAllJobs. Each is instantiated with its
own variables; they share `ctxDone`, the context of the workflow, and `StartSub` and `EndSub` are `RunTask` and its
return joined with the beginning and the end of the sub-task. Every iteration makes new sub-tasks,
so `Begin` sets all their variables.

### Update

`GetTargets` is `GetObjInfo`, or the list of nodes with the selectors that each matches;
`PatchRoot` and `PatchStatus` are the two patches of an object. `NewPatchData` and
`IsSubset` are translated for objects whose parts are maps of fields, with the cases of a null (which
must be absent), of a list (whose content is not compared) and of other values. What a merge patch does, and that
a request without a body is refused, is the API server's. Others do not change
the objects meanwhile, so that what is wrong at the end is the task's doing.

### Configure

`Get` and `Change` of the three workers that go through a list, the helm commands (`RepoAdd`, `Upgrade`) of the fourth,
the hand-over on the unbuffered channel (`Send`; the receive and the `wg.Done` are part of it: nothing can be told
between them), `Close`, `Judge`, then `Patch` and `Poll` for each restart.
The environment is the deployment controller, the collection of a deleted namespace with what it holds (`Reap`), other
users of the cluster (`Meddle`: they change classes and configmaps, and create and delete namespaces) and the deadline (`Expire`).
A namespace may be on its way out from the start, deleted by an earlier task for instance; as in the code (lines 238-240) a
namespace that is there counts as created whatever its phase. `touched` is history: the objects that anything
but the task changed since the task was done with them.

### JobExporter, NodeExporter

One cycle of `collect_metrics` is `ListJobs`, `ListVolcano`, one `Process` and one `Tas` per listed job
in the order of the loops, and `Sweep` (the counts, the removal of series, the clearing
of memory: no request in between, so one step). The cluster moves between any two of them.
Times are abstracted to known or not. Series are tuples of metric, uid, queue and the status of the completion
series, so that a removal under the wrong label removes nothing. The cluster gives a Volcano job every phase of `JOB_STATUS_MAP` that is one of
its own, and Restarting, which is not in the map: it can be aborted or terminated (`Kill`, then `Killed` when its pods are
gone), both of which the exporter takes for a failed end, and resumed after an abort (`Resume`); no other end is undone. What a job asks of the
topology (`Wish`: the annotations of a batch Job, mode and tier of a Volcano job) goes through `ConstraintLevel` as in the
code; the verdict compares the labels of the pods' nodes on that level, and the distance of a job
that has ended is computed apart from it, from lists of its own.

`NodeExporter` is `ListNodes`, `ListPods`, `Publish`. A quantity is a number and a unit;
`ParseQuantity` is what the exporter reads, `Meaning` what the API defines (the unit of a plain number is
called "one"), and `Reserved` is what the
Kubernetes scheduler reserves for a pod by the latter, against which the exporter's own sums are
compared. `cpu` stands for cpu and memory; GPUs have a key per vendor, found in one way for requests and in another for nodes.

## 3. The runs

| run | instance | distinct states | checks |
|---|---|---|---|
| engine_server | 2 concurrent flows, 3 task lists that share ids, 1 fault or cancellation, clean-up | 1 495 822 | `TypeOK`, `RefStaysResolved`, `RecordedWasCreated`, `NumbersUnique`, `SubmittedIsRecorded`, `OnlyOwnDeleted` |
| engine_cli | 2 workflows in turn, 5 task lists, 2 faults, clean-up that times out | 15 980 | `SequentialNeverRaces`, `NilResetSwept`, `RunReturns` |
| checkobj_check | 2 names, 1 unrelated object, 2 changes, 1 fault, with and without timeout | 1 159 438 | `TypeOK`, `MapIsUnseen`, `OnceIsExact`, `PromiseSpec`, `SettledIsNoticed` |
| checkpod_check | 2 pods, one possibly misplaced, 2 changes, 1 resync, 1 fault, with and without timeout | 1 366 835 | `TypeOK`, `PromiseSpec`, `SettledIsNoticed` |
| nested | Repeat of a Parallel task with 2 sub-tasks and DeleteAllJobs; all accepted parameters, 3 jobs of 2 kinds, 1 trouble | 361 308 | `TypeOK`, `Bracketed`, `NoErrorLost`, `RunsExactly`, `AllGone`, `IterationLeavesNothing`, `StopsPromptly`, `LimitEnds` |
| configure | 4 task parameters, namespaces in any phase, 1 fault, 1 foreign change | 662 679 | `TypeOK`, `NilMeansAll`, `RestartSeesConfig`, `Returns` |
| job_exporter | a batch Job of 2 pods that requires a block, a Volcano job that prefers a node and may be aborted, terminated and resumed, 1 disturbance | 3 184 560 | `TypeOK`, `CountedOnce`, `NoStaleSeries`, `ConcurrencyExact`, `StartRemembered`, `VerdictStays`, `MetMeansClose` |
| node_exporter | a simulated and an ordinary node with GPUs of two vendors, kube-proxy, kindnet and a user pod with init containers, 1 disturbance | 4 694 208 | `TypeOK`, `FreeIsExact`, `UsageFits`, `NoStaleNodes` |
| engine_twice | 2 equal workflows in turn | violated | `UniqueIdsSuffice` |
| checkobj_panic | 2 names, no change, no fault | violated | `EndsByReturning` |
| job_once | as job_exporter, one queue and one domain | violated | `ObservedOnce` |
| update_status | 2 objects or nodes, 6 states, 1 fault | violated | `UpdatedIsInState` |

**Bounds, and why they are enough.** The engine's steps concern one flow and the
registries, and an interaction is between two flows; two of them, with task lists that
share ids, use each other's registrations, and delete each other's objects, meet
every pair of actions. One fault at any place distinguishes a failure
from a success of each request; the second in engine_cli lets the clean-up fail after the
run did. Two names are what it takes for the synchronous check and the handler to each empty
part of the map; two changes let an object leave its state and come back. In CheckPod
the resync delivers again what the other worker has counted. In Nested two sub-tasks
contend for the mutex, one submits a job of either kind, and a third job belongs to others; `MaxIter` exceeds
every count, so that an iteration too many is seen, and three iterations are one more than what it takes for the
leftovers of one to meet the next; `Troubles` bounds failing requests,
jobs that vanish and the removal of the Volcano resource together. In Configure the four
parameters cover each operation, each kind of restart selector (none, one, several) and
the namespace that is created beside its configmap; one foreign change is what a wrong decision after
a Get takes. In JobExporter `LivelySets` follows one job at a time through its
life while the other is there and may be deleted (jobs meet only in the counts and in the
emptiness of the cycle); `Cap` stops counting observations at 2, since 1 is
the most allowed; `Disturbances` bounds failures, relabelling, early ends and resumptions together. In
NodeExporter nodes come and go freely, pods only end.

`CHECK_DEADLOCK FALSE` is in the runs whose program ends: the engine when all flows are
done, a task that has returned, and CheckObj after a panic. Configure has an explicit
step for its end, and the exporters never end.

**Fairness.** Safety is checked without any. The liveness properties assume:

- `RunReturns`: the goroutine of a run is scheduled and its requests are answered, or fail
  (client-go requests end with their context), and the timer of Reset fires. Nothing is assumed of the goroutine that
  cleans up: Reset must return although it hangs, and does, because of its select.
- `SettledIsNoticed` (both): ready goroutines are scheduled and the informer
  lists. Nothing is assumed of the deadline, which is the point: a task that can only end by its
  deadline violates it. Its premise is that no request fails and that the objects
  are in their state from some time on.
- `LimitEnds`: goroutines are scheduled, requests are answered or fail, time passes, and a
  contended mutex is handed over (strong fairness: Go's mutexes do not starve a waiter). Nothing is assumed of
  the cluster: a job that is never collected ends the poll by its time-out. `Configure!Returns`: goroutines are scheduled and the
  deadline of the task's own context passes.

**Mutants.** Each property of each passing run is violated when one mapped definition is
replaced by the operator marked `Mutant:` before it, a plausible mistake in that
code: a counter per call, a guard that is dropped, a lock not taken, a series missing from
the removal. `PROJECT.json` lists the pairs.

## 4. The proofs

Seven modules, one for each component, prove 35 theorems; an eighth, `SumTheorems`, has the lemmas about
sums that two of them need. Each has inductive invariants of
named parts, a lemma that each kind of step preserves them, and the theorems from them. Between them they state
every invariant and every action property of the passing runs.

Every assumption on a constant is named in the module that declares the constant, and evaluated by TLC in
that module's run. Three theorems have a hypothesis besides, each one that the code does not
guarantee and that the property needs; where the property fails without it, section 5 says how:

| theorem | hypothesis |
|---|---|
| `CheckPodProofs!Implements` | the task has a timeout, or no pod is matched by two patterns |
| `NodeExporterProofs!FreeIsExactAlways`, `UsageFitsAlways` | `Regular`: the exporter and the API read the quantities alike, one GPU vendor to a node and to a pod, kindnet without GPUs and init containers |

The instances of the runs satisfy them (`MCNodeExporter` assumes `Regular`, for TLC to evaluate).

### The engine

`EngineProofs` proves about `Engine`, for any sets of flows, ids, resource types, namespaces, shapes,
programs and foreign objects and any bound on faults:

- `TypeCorrect`: `Spec => []TypeOK`;
- `RefStaysResolvedAlways`: `Spec => []RefStaysResolved`;
- `RecordedWasCreatedAlways`: `Spec => []RecordedWasCreated`;
- `OnlyOwnDeletedAlways`: `Spec => OnlyOwnDeleted`.

The assumptions are those that `Engine` names for its constants: flows are numbers, the flags are booleans, shapes and programs
are well formed, and `None` is neither a shape nor an `ObjInfo`. TLC evaluates them in the runs.

*The argument.* Types alone are not inductive: a step of a handler looks up the task of its flow and what
that task refers to. `TypeInv` therefore adds that a flow inside a task is at an index of
its task list, that the kind of the task is the one its label is about, that every recorded
`ObjInfo` has a resource type, and `RefStaysResolved` itself. The key to the last one is that the registries only grow:
no step of any flow, Reset included, removes an entry, so a reference that `GetTask` resolved under
the mutex cannot be undone while the mutex is free (lemma `OthersUndisturbed`).

For `RecordedWasCreated` an entry must be explained at the moment `SetObjInfo` writes it: `CreatedInv` adds
that in the loop of SubmitObj each object *before* the current position was created by
this very task, which `Create` extends by one object (`BeforeBump`, `BumpKeeps`) and
`SetObjInfo` turns into the statement about all targets; the hypothesis that the templates of a shape
share a namespace is needed because the code records only the namespace of the first. `GetExisting` leaves the loop
without recording anything, which is why it does no harm here. `OnlyOwnDeleted` follows
with `AimInv`: what a DeleteObj or a clean-up is about to delete is a target of a recorded entry, and the
one kind of recorded name that nobody created, the empty one, is no object of the cluster.

The second part of `EngineProofs` is about several runs, for any number of them:

- `SequentialNeverRacesAlways`: `Spec => []SequentialNeverRaces`;
- `NumbersUniqueAlways`: `Spec => []NumbersUnique`;
- `SubmittedIsRecordedAlways`: `Spec => []SubmittedIsRecorded`;
- `NilResetSweptAlways`: `Spec => []NilResetSwept`.

*The argument.* On the command line a run that has started finds all runs before it done, with a nil from their
`Reset` (`OneAfterTheOther`), and such a `Reset` has received the signal of its goroutine (`SweepFollowsReset`); so no
goroutine iterates over the registry when another run writes to it. A number is safe when every name that a task holds, and every
one that is recorded, is at most the counter (`HeldNames`, `RecordedNames`), which `GenerateName`
alone moves and always to a number no one has: that is why one atomic add per name
suffices for concurrent runs. For `SubmittedIsRecorded` the history of creations is followed backwards: whatever was created by
the task at hand is a target of its loop (`CreatedInLoop`), and so of the entry that `SetObjInfo` writes; a task that
is past is past its entry too, and no entry is ever overwritten. `NilResetSwept` is the longest: the clean-up goes through entries in any
order, and meanwhile others record and create. `SweepClears` says that of the entries it has picked only the
objects ahead of its position are left, and, when it has sent its signal, that it picked all that were there at the start. That no
other run brings back a deleted object is where `NumbersUnique` is needed: a number
that is recorded is held by no other task.

### CheckObj

`CheckObjProofs` proves for any set of names, of other objects and any bounds `TypeCorrect`,
`MapIsUnseenAlways` (`Spec => []MapIsUnseen`), `OnceIsExactAlways` (`Spec => []OnceIsExact`) and
`Implements`, `Spec => PromiseSpec`: Exec refines `Verification`. Assumed is `BoundsAssumption`.

*The argument.* `MapIsUnseen` is not inductive without knowing that whoever is about to delete a
name has seen it (`SeenFirst`: the Get and the delete are two steps, with the other goroutine between them). The
map only shrinks, so that a goroutine that found it empty, and announces that later, is still right (`EmptyStays`);
with an empty map every name is in `observed`, which is what `Verification` asks of "ok". That the task without a
timeout answers exactly needs that there is then one goroutine only (`OnceAlone`).

### CheckPod

`CheckPodProofs` proves `TypeCorrect` and `Implements`: `Spec => PromiseSpec`, if the task has a timeout
(`Timeouts = {TRUE}`) or each pod is matched by one pattern (`Hits[p] = 1`).

*The argument.* A pod is not good any more when a worker counts it; what can be kept is that every snapshot in a
queue that shows a pod as it should be was taken when the pod *was* so (`QueuesShown`, for which lists, changes
and resyncs have one lemma), that a worker past a test of `verifyPod` holds an item that passed it
(`ItemTested`), so `podMap` holds only pods that were seen (`CountedSeen`). `podMap` never shrinks, so
an "ok" that waits on the channel stays true (`SendsAreTrue`), and the cardinality of `podMap` bounds that of what was seen.
Without a timeout there is one list, whose good pods are seen by the same `QueuesShown`; but the code counts
matches of patterns, and a sum of matches is a number of pods only if each counts once (`SumOnes`).

### Parallel, Repeat, DeleteAllJobs

`NestedProofs` proves about `Nested`, for any number of sub-tasks, any jobs, parameters and bounds, `TypeCorrect`,
`BracketedAlways`, `NoErrorLostAlways`, `RunsExactlyAlways`, `StopsPromptlyAlways`, `AllGoneAlways`
and `IterationLeavesNothingAlways`. Assumed is `NestedAssumption`, the assumptions of the three
modules and that each sub-task of Parallel submits a job.

*The argument.* Each task has an invariant of its own that its steps preserve and the steps of the others do not touch.
`ParallelInv`: the counter of the wait group is the number of goroutines that have not called `Done`, so that zero
means that none is left; the errors in the list are those of the goroutines that have reported, and what the
holder of the mutex has read is still the list. `DeleteInv`: a job that was there at the start exists as long as it is in
`left`, and when the second kind is being deleted none of the first is left; a kind that is not served has no
objects, which is why "not found" may count as done. `RepeatInv`: where the loop is says which sub-tasks have been started and
that the context was looked at since the last. `Handover` relates them: the sub-task that runs is the one the loop
is at, and from the join of Parallel until the next iteration no goroutine is left that submits; therefore all jobs of the
workflow that exist while DeleteAllJobs runs are in its `left`, and its nil means that there are none.

### Configure

`ConfigureProofs` proves for any programs that `validate` accepts, any objects and any bounds `TypeCorrect`,
`NilMeansAllAlways` (`Spec => []NilMeansAll`) and `RestartSeesConfigAlways` (`Spec => []RestartSeesConfig`). Assumed are
`ObjectsAssumption` (the kinds of objects are disjoint, and their states are no data), `HomeAssumption`, `ProgramsAssumption`
(each list has operations on objects of its kind) and `BoundAssumption`.

*The argument.* `ErrorIsKept`: the channel is closed only when all four goroutines are gone, and the error of any that
handed one over is in `err`, which is overwritten by other errors but never by a nil. For `RestartSeesConfig` each
goroutine leaves what is behind its position settled (`DoneIsSettled`), and
no other goroutine unsettles it: they work on other kinds of objects, and a later operation of the same
list would have been the last on that object. What other clients do, and what the collection of a namespace takes along, is in `touched`
from then on. One excuse is the code's own: a namespace that is to be created and is found on its way out
passes for created (`Doomed`), so that it and its configmaps can be gone at any time after. `NilMeansEnd` and `RestartMeansNil` join the two:
at a restart all four results were nil, so all four positions are at the end.

### The job exporter

`JobExporterProofs` proves for any jobs, pods, nodes, topologies, queues and bounds `TypeCorrect`,
`VerdictStaysAlways`, `ConcurrencyExactAlways`, `CountedOnceAlways`, `StartRememberedAlways`, `MetMeansCloseAlways` and
`NoStaleSeriesAlways`, the last whether or not the removal of an absent series raises. Assumed are `UidAssumption` (a uid is that of one job; finitely
many jobs and pods), `TopologyAssumption` (no two nodes have the same hostname, "none" and "pending" are no nodes) and `BoundAssumption`.

*The argument.* The exporter is sequential; what is hard is that what it remembers is from other moments than what it reads.
`LifeInv` says what stays true of an object after it was listed: it tells the end that its job has, unless the job was resumed. Five invariants build on it, for separate parts of the state:

- `MemoryInv` (for `CountedOnce`, `StartRemembered`): for a job that no failed list hid, the sets of uids say what the histograms
  hold, unless the job is over, that is deleted and listed no more. Without that exception it is not inductive: the end of
  the cycle clears the memory of the jobs that are gone.
- `SweepInv` (for `NoStaleSeries`): every series in the removal's reach is under labels that were
  remembered in the cycle before, or its job is in the list of this one (`SeriesInv`); and every job the loop has been through has its labels in
  the memory (`LabelsInv`). The removal goes by the remembered labels of jobs that are not listed; so what is left is listed. For a
  completion series this needs that its status is the one its job is still listed with (`TellsEnd`), which a resumption breaks. Where
  the removal of an absent series raises, it has come as far as the series in reach (`RemovesKnown`). `OutOfReach` says what is not.
- `QueueInv` (for `ConcurrencyExact`): a count is of a queue that was active in the cycle before.
- `VerdictInv` (for `MetMeansClose`): a verdict "met" on all pods fixes their nodes, since
  no pod of that job is placed any more as long as the job is not resumed, and from there the distance of any later
  list is bounded (`Within`): nodes that share a domain on a level are at most that level's number of hops apart, which for the level of the node itself
  needs that hostnames are unique.
- `VerdictStays` is a property of steps and needs only types: `ShouldRecalculate` lets no settled verdict through.

### The node exporter

`NodeExporterProofs` proves for any nodes, labels, pods, containers and quantities `TypeCorrect`, `NoStaleNodesAlways` and,
with `Regular`, `FreeIsExactAlways` and `UsageFitsAlways`. Assumed are `NodeAssumption` (quantities are numbers with units, finitely many pods, "queued" and "gone"
are no nodes) and `BoundAssumption`.

*The argument.* `NoStaleNodes` needs that the series of a node whose labels never changed are known to the next removal:
`KnownInv`, with `LabelsInv` and `RememberedInv`. The amounts are sums over sets of pods of sums over containers. `CapacityInv` is
the scheduler's promise, that what is bound to a node fits on it, and `ListedInv` what the exporter sees of it: the pods it listed
were bound together at one moment, and some have ended since. For `FreeIsExact` the pods the scheduler counts are split into load and
kindnet (`KeptSplits`), the exporter's request of a pod is shown to be the scheduler's where both read quantities alike, and the sums over keys, pods and
containers are exchanged. `UsageFits` follows because a part of what fits, fits.

### Sums

`SumTheorems` proves what the sum of the community modules (`SumFunctionOnSet`, a fold) returns for any finite set: that it can be taken
apart at any element or any subset, that it depends on the values only, is monotonic and additive, and that the sum
of ones is the cardinality. The library's rules of induction take a predicate as a parameter, which the provers cannot instantiate. The same is
obtained with sets: `SubsetInduction` says that a *set* of subsets which contains the empty set, and each subset when it contains it without any one of
its elements, contains all of them, because otherwise there would be a minimal subset
that is missing (`MinimalSubset`, from the well-foundedness of the strict subsets).

### What is not proved

*Out of the prover's reach* are the liveness properties, which need fairness and ENABLED: `RunReturns`, both
`SettledIsNoticed`, `LimitEnds` and `Configure!Returns` stay with TLC. `Update` has no theorem: its one run is the violation of section 5. *Only for one
pattern a pod* is the count of CheckPod without a timeout right, see above.

## 5. Where the code and its documents disagree

Four runs end in a violation, and say so in `PROJECT.json`:

- **engine_twice**: the ids of a workflow are never given back. `Reset` "re-initializes engine"
  (engine.go:272) without touching the maps, so a workflow sent twice to one
  server fails at its first RegisterObj.
- **checkobj_panic**: `Exec` closes `done` while the handler may be sending on it. The
  synchronous check and the handler both empty the map, so this takes no failure
  at all, only objects that are already in their state.
- **job_once**: one failed list makes the job exporter drop the uids of jobs that exist; they are
  observed a second time in the next cycle, against "tylko raz" (exporter.py:687, :836).

- **update_status**: UpdateObj sends `patch.Root` to the subresource "status" as well
  (update_object_task.go:80), so the status of the README's own example is never set, and the task returns nil.
  `Update!NodesAreInState` says the same of UpdateNodes, which sends the right patch, and holds in this instance.

Other statements the modules hold beside the properties, which TLC refutes too and which are no run of their own:
`Engine!CleanupRemovesCreated` (objects of a SubmitObj that failed half-way are
never cleaned up), `Engine!CanExistTolerated` (an object that appears between Get and Create), `CheckPod!OkMeansTogether`
(pods that had the status one after the other), `CheckPod!PromiseSpec` without a timeout when two patterns match a name (`Hits`
of 2: one pod passes for two), `CheckPod!LabelsAlonePass` (node labels
without a status, which `validate` accepts), `Parallel!FailsImmediately` (a hanging sub-task
hides the failure of another), `Repeat!AcceptedEnds` (a duration of "0s" without
a count), `DeleteAllJobs!NoneLeft` (jobs that others create while the second kind is deleted). `NodeExporter!FreeIsExact`
does not hold with quantities such as "2k", nor for a node with GPUs of two vendors, which the instance leaves
out.

What an exception of a checked property leaves out is stated without it beside the property, and TLC refutes it:

- `Configure!CreatedIsThere`: a namespace that is Terminating counts as created; the task returns nil, restarts the
  deployments, and then the namespace and the configmaps just written into it are gone. `RestartSeesConfig` excuses these namespaces
  (`Doomed`) and what is changed by others afterwards, of whatever kind.
- `JobExporter!NoSeriesOfTheGone`: only the labels of the cycle before are removed, so that series stay which were set under
  an earlier queue label, or for the end of a Volcano job that was aborted and then resumed; and where `Gauge.remove` raises for an absent
  series (`RemoveRaises`; the version of prometheus-client is not pinned), those that come after it, such as the phase of a
  job that never started. `NoStaleSeries` excuses exactly these series (`OutOfReach`).
- `JobExporter!EveryJobCounted`: a Volcano job that is Restarting or Completing is in none of the counts of its queue;
  `ConcurrencyExact` is about the phases of the map.
- `NodeExporter!NoStaleNodes` without its exception: a node that was relabelled keeps its old series.

`JobExporter!MetMeansClose` leaves out resumed jobs: a verdict is kept while the job is listed, and its pods are new ones after a resumption.

## 6. What is not modelled, and why

- Templates, and contents of objects outside `Update`: the properties tell apart only whether an object
  exists and is in its state. The expansion of name patterns, braces and paths (`name_selector.go`, `config.go`) is
  a function of strings without state.
- `Update` has no other writers and no objects without a status subresource; where `toInt64` would panic is left out.
- Parameters: a task whose parameters do not parse is the kind "Bad"; a task without registry or concurrency (Sleep,
  Pause, Configure inside a workflow) is "Local".
- Parallel and Repeat inside `Engine`: sub-tasks of one flow would use its registries concurrently. `Nested`
  has the nesting with the context, and concurrent flows the use of the registries.
- Durations in the job exporter, objects without the fields the code expects in either exporter.
- Pure input and output: HTTP client, flags, Kubernetes client set-up, charts, dashboards. The scripts under `wyniki`
  draw the figures of a report from exported tables: each runs once over a file, without state or concurrency, and what it computes
  is layout, so there is no property of the running system in them.

## 7. Plan

1. Parallel inside `Engine`: sub-tasks of one flow that race on the registries.
2. Name patterns and the expansion of braces and paths as operators with a reference definition.
3. Proofs: `Update!NodesAreInState`, and a refinement of the exporters' cycles to a specification of what is published.
