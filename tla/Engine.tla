------------------------------- MODULE Engine -------------------------------
(***************************************************************************)
(* The workflow engine of pkg/engine: one Eng shared by several calls of   *)
(* Run, its two registries (objTypeMap, objInfoMap) guarded by eng.mutex,  *)
(* the task handlers that go through the registries, and the cleanup that  *)
(* Reset performs in a goroutine of its own.                               *)
(*                                                                         *)
(* A flow is one call of Run: one workflow of the command line (they run   *)
(* one after the other), or one HTTP request (they run concurrently).  A   *)
(* step of a flow is what it does between two lock operations or two       *)
(* requests to the API server.                                             *)
(***************************************************************************)
EXTENDS Integers, Sequences, FiniteSets

CONSTANTS
    Flows,      \* the calls of Run, as numbers: the order of the command line
    Concurrent, \* TRUE: HTTP server, FALSE: workflows of the command line
    Cleanup,    \* cleanupInfo.Enabled
    TaskIds,    \* task identifiers
    Gvrs,       \* resource types
    Spaces,     \* namespaces
    Shapes,     \* what a RegisterObj task registers: name format and templates
    Programs,   \* task lists a workflow may consist of
    Foreign,    \* objects that may be in the cluster before the program starts
    MaxFaults,  \* bound on failing API calls and cancelled requests
    None        \* absent registry entry

Kinds == {"Register", "Submit", "Update", "Check", "Delete", "Local", "Bad"}

(* A template names its resource type and the namespace in its metadata.   *)
Templates == [gvr : Gvrs, ns : Spaces]

(* named: the name format numbers the objects ("enum"), is a constant      *)
(* ("fixed"), or is missing ("none": the template holds the name).         *)
ShapeType == [named : {"enum", "fixed", "none"}, tpls : Seq(Templates)]

(* Names are numbers: the value of the global counter for "enum", 0 for    *)
(* the one name a constant format or a template writes, and Blank for the  *)
(* empty string recorded when there is no name format.                     *)
Blank == -1
Names == Nat \cup {Blank}
Objects == [gvr : Gvrs, ns : Spaces, name : Names]

Tasks == [kind : Kinds, id : TaskIds, ref : TaskIds, shape : Shapes,
          count : Nat \ {0}, canExist : BOOLEAN]

ASSUME FlowsAssumption == Flows \subseteq Nat
ASSUME ModeAssumption == Concurrent \in BOOLEAN /\ Cleanup \in BOOLEAN
ASSUME ShapesAssumption == Shapes \subseteq ShapeType /\ \A s \in Shapes : s.tpls # <<>>
ASSUME ProgramsAssumption == Programs \subseteq Seq(Tasks)
ASSUME ForeignAssumption == Foreign \subseteq [gvr : Gvrs, ns : Spaces, name : {0}]
ASSUME FaultsAssumption == MaxFaults \in Nat

(* An ObjInfo: the recorded names and, for each resource type, the one     *)
(* namespace that is recorded for all of them.                             *)
Infos == [names : Seq(Names), tpls : Seq(Templates)]
ASSUME NoneAssumption == None \notin Infos /\ None \notin Shapes

VARIABLES
    prog,       \* prog[f]: the task list of flow f
    pc,         \* pc[f]: where flow f is
    idx,        \* idx[f]: the task it is at
    loop,       \* loop[f]: the nested loop over names and templates of a handler
    err,        \* err[f]: why a task failed, "" while none has
    resetErr,   \* resetErr[f]: Reset returned ctx.Err()
    ctxDone,    \* ctxDone[f]: the context of f is done (request gone, or timeout)
    objType,    \* eng.objTypeMap
    objInfo,    \* eng.objInfoMap
    objID,      \* the global counter of utils.GenerateNames
    cluster,    \* objects in the cluster
    sweep,      \* sweep[f]: the goroutine started by Reset
    faults,     \* failing API calls and cancellations so far
    crashed,    \* the runtime stopped the process: concurrent map access
    created     \* history: which task of which flow created which object

flowVars == <<prog, pc, idx, loop, err, resetErr, ctxDone>>
vars == <<prog, pc, idx, loop, err, resetErr, ctxDone, objType, objInfo, objID,
          cluster, sweep, faults, crashed, created>>

-----------------------------------------------------------------------------
(* The nested loop "for name { for template { ... } }".                    *)

NoLoop == [names |-> <<>>, tpls |-> <<>>, i |-> 1, j |-> 1]
(* Mutant: the loop starts at index 0. *)
MutLoopFromZero(ns, ts) == [names |-> ns, tpls |-> ts, i |-> 0, j |-> 0]

LoopOver(ns, ts) == [names |-> ns, tpls |-> ts, i |-> 1, j |-> 1]
InLoop(l) == l.i <= Len(l.names) /\ l.j <= Len(l.tpls)
Target(t, n) == [gvr |-> t.gvr, ns |-> t.ns, name |-> n]
Current(l) == Target(l.tpls[l.j], l.names[l.i])
Bump(l) == IF l.j < Len(l.tpls) THEN [l EXCEPT !.j = @ + 1]
                                ELSE [LoopOver(l.names, l.tpls) EXCEPT !.i = l.i + 1]

(* The objects an ObjInfo stands for.                                      *)
Targets(info) == {Target(info.tpls[j], info.names[i]) :
                    i \in DOMAIN info.names, j \in DOMAIN info.tpls}

(* Mutant: the last name is not recorded. *)
MutDropsLastName(shape, ns) ==
    [names |-> IF shape.named = "none" THEN [i \in DOMAIN ns |-> Blank]
               ELSE SubSeq(ns, 1, Len(ns) - 1),
     tpls |-> [j \in DOMAIN shape.tpls |->
                 [gvr |-> shape.tpls[j].gvr, ns |-> shape.tpls[1].ns]]]

(* NewObjInfo: every resource type with the namespace of the first object; *)
(* the names are empty strings when there is no name format.               *)
NewObjInfo(shape, ns) ==
    [names |-> IF shape.named = "none" THEN [i \in DOMAIN ns |-> Blank] ELSE ns,
     tpls |-> [j \in DOMAIN shape.tpls |->
                 [gvr |-> shape.tpls[j].gvr, ns |-> shape.tpls[1].ns]]]

-----------------------------------------------------------------------------
(* Control flow of Run.                                                    *)

Task(f) == prog[f][idx[f]]
At(f, label) == pc[f] = label
Goto(f, label) == pc' = [pc EXCEPT ![f] = label]
AtTask(f, label, kind) == At(f, label) /\ Task(f).kind = kind

(* The task returned nil: the loop of Run takes the next one.              *)
Advance(f) == /\ idx' = [idx EXCEPT ![f] = @ + 1]
              /\ loop' = [loop EXCEPT ![f] = NoLoop]
              /\ Goto(f, "next")
              /\ UNCHANGED err

(* The task returned an error: Run leaves the loop and calls Reset.        *)
Fail(f, why) == /\ err' = [err EXCEPT ![f] = why]
                /\ loop' = [loop EXCEPT ![f] = NoLoop]
                /\ Goto(f, "reset")
                /\ UNCHANGED idx

(* A request to the API server that fails.  It always does once the        *)
(* context is done, and otherwise as often as MaxFaults allows.            *)
ApiFails(f) == \/ ctxDone[f] /\ UNCHANGED faults
               \/ ~ctxDone[f] /\ faults < MaxFaults /\ faults' = faults + 1
ApiAnswers(f) == ~ctxDone[f] /\ UNCHANGED faults

unchangedRegistry == UNCHANGED <<objType, objInfo>>
unchangedReset == UNCHANGED <<prog, resetErr, ctxDone, sweep>>

(* Mutant: the next workflow runs after a failed one. *)
MutGoesOnAfterFailure(f) == Concurrent \/ \A g \in Flows : g < f => At(g, "done")

(* main.go runs a workflow after the previous ones returned nil; the HTTP  *)
(* handler runs one whenever a request arrives.                            *)
MayStart(f) == Concurrent \/ \A g \in Flows :
                 g < f => At(g, "done") /\ err[g] = "" /\ ~resetErr[g]

Start(f) == /\ At(f, "idle")
            /\ MayStart(f)
            /\ Goto(f, "next")
            /\ UNCHANGED <<idx, loop, err, objID, cluster, faults, crashed, created>>
            /\ unchangedRegistry /\ unchangedReset

EndOfTasks(f) == /\ At(f, "next")
                 /\ idx[f] > Len(prog[f])
                 /\ Goto(f, "reset")
                 /\ UNCHANGED <<idx, loop, err, objID, cluster, faults, crashed, created>>
                 /\ unchangedRegistry /\ unchangedReset

(* The reference a task names is known when the task is created.           *)
RefKnown(t) == CASE t.kind = "Submit" -> objType[t.ref] # None
                 [] t.kind \in {"Update", "Check", "Delete"} -> objInfo[t.ref] # None
                 [] OTHER -> TRUE

(* GetTask, under eng.mutex.  "Bad" is a task whose parameters or type     *)
(* are not valid.                                                          *)
GetTask(f) ==
    /\ At(f, "next")
    /\ idx[f] <= Len(prog[f])
    /\ \/ /\ Task(f).kind = "Bad"
          /\ Fail(f, "bad")
       \/ /\ Task(f).kind # "Bad"
          /\ ~RefKnown(Task(f))
          /\ Fail(f, "unreferenced")
       \/ /\ Task(f).kind # "Bad"
          /\ RefKnown(Task(f))
          /\ Goto(f, "exec")
          /\ UNCHANGED <<idx, loop, err>>
    /\ UNCHANGED <<objID, cluster, faults, crashed, created>>
    /\ unchangedRegistry /\ unchangedReset

-----------------------------------------------------------------------------
(* RegisterObj: discovery, which is a request without a context (it can    *)
(* succeed after a cancellation), then SetObjType under eng.mutex.         *)

Discover(f) ==
    /\ AtTask(f, "exec", "Register")
    /\ \/ faults < MaxFaults /\ faults' = faults + 1 /\ Fail(f, "api")
       \/ Goto(f, "setType") /\ UNCHANGED <<faults, idx, loop, err>>
    /\ UNCHANGED <<objID, cluster, crashed, created>>
    /\ unchangedRegistry /\ unchangedReset

SetObjType(f) ==
    LET t == Task(f) IN
    /\ At(f, "setType")
    /\ \/ objType[t.id] # None /\ Fail(f, "duplicate") /\ UNCHANGED objType
       \/ /\ objType[t.id] = None
          /\ objType' = [objType EXCEPT ![t.id] = t.shape]
          /\ Advance(f)
    /\ UNCHANGED <<objInfo, objID, cluster, faults, crashed, created>>
    /\ unchangedReset

-----------------------------------------------------------------------------
(* SubmitObj.                                                              *)

GetObjType(f) ==
    LET t == Task(f) IN
    /\ AtTask(f, "exec", "Submit")
    /\ \/ objType[t.ref] = None /\ Fail(f, "missing")
       \/ /\ objType[t.ref] # None
          /\ t.count > 1 /\ objType[t.ref].named = "none"
          /\ Fail(f, "bad")
       \/ /\ objType[t.ref] # None
          /\ ~(t.count > 1 /\ objType[t.ref].named = "none")
          /\ loop' = [loop EXCEPT ![f] = LoopOver(<<>>, objType[t.ref].tpls)]
          /\ Goto(f, "names")
          /\ UNCHANGED <<idx, err>>
    /\ UNCHANGED <<objID, cluster, faults, crashed, created>>
    /\ unchangedRegistry /\ unchangedReset

(* Mutant: names are numbered from 1 in every call. *)
MutCounterPerCall(f) ==
    LET count == Len(loop[f].names) + 1
        name == IF objType[Task(f).ref].named = "enum" THEN count ELSE 0
    IN
    /\ At(f, "names")
    /\ Len(loop[f].names) < Task(f).count
    /\ loop' = [loop EXCEPT ![f].names = Append(@, name)]
    /\ UNCHANGED <<pc, idx, err, objID, cluster, faults, crashed, created>>
    /\ unchangedRegistry /\ unchangedReset

(* One turn of the loop of GenerateNames: an atomic add of the counter     *)
(* when there is a name format.                                            *)
GenerateName(f) ==
    LET named == objType[Task(f).ref].named
        count == IF named = "none" THEN objID ELSE objID + 1
        name == IF named = "enum" THEN count ELSE 0
    IN
    /\ At(f, "names")
    /\ Len(loop[f].names) < Task(f).count
    /\ objID' = count
    /\ loop' = [loop EXCEPT ![f].names = Append(@, name)]
    /\ UNCHANGED <<pc, idx, err, cluster, faults, crashed, created>>
    /\ unchangedRegistry /\ unchangedReset

NamesReady(f) ==
    /\ At(f, "names")
    /\ Len(loop[f].names) >= Task(f).count
    /\ Goto(f, "submit")
    /\ UNCHANGED <<idx, loop, err, objID, cluster, faults, crashed, created>>
    /\ unchangedRegistry /\ unchangedReset

(* Mutant: goes on with the next object instead of returning. *)
MutSkipsExisting(f) ==
    /\ At(f, "submit")
    /\ InLoop(loop[f])
    /\ Task(f).canExist
    /\ IF Current(loop[f]) \in cluster
       THEN loop' = [loop EXCEPT ![f] = Bump(@)] /\ UNCHANGED pc
       ELSE Goto(f, "create") /\ UNCHANGED loop
    /\ ApiAnswers(f)
    /\ UNCHANGED <<idx, err, objID, cluster, crashed, created>>
    /\ unchangedRegistry /\ unchangedReset

(* With canExist: Get decides between Create and the early return nil,     *)
(* which also skips the remaining objects and SetObjInfo.                  *)
GetExisting(f) ==
    /\ At(f, "submit")
    /\ InLoop(loop[f])
    /\ Task(f).canExist
    /\ \/ ApiAnswers(f) /\ Current(loop[f]) \in cluster /\ Advance(f)
       \/ /\ \/ ApiAnswers(f) /\ Current(loop[f]) \notin cluster
             \/ ApiFails(f)
          /\ Goto(f, "create")
          /\ UNCHANGED <<idx, loop, err>>
    /\ UNCHANGED <<objID, cluster, crashed, created>>
    /\ unchangedRegistry /\ unchangedReset

(* Mutant: an object that exists counts as created. *)
MutToleratesExisting(f) ==
    LET o == Current(loop[f]) IN
    /\ InLoop(loop[f])
    /\ At(f, "create") \/ (At(f, "submit") /\ ~Task(f).canExist)
    /\ ApiAnswers(f)
    /\ cluster' = cluster \cup {o}
    /\ created' = IF o \in cluster THEN created
                  ELSE created \cup {[by |-> f, at |-> idx[f], obj |-> o]}
    /\ loop' = [loop EXCEPT ![f] = Bump(@)]
    /\ Goto(f, "submit")
    /\ UNCHANGED <<idx, err, objID, crashed>>
    /\ unchangedRegistry /\ unchangedReset

(* Create.  A request that fails may have reached the API server.          *)
Create(f) ==
    LET o == Current(loop[f]) IN
    /\ InLoop(loop[f])
    /\ At(f, "create") \/ (At(f, "submit") /\ ~Task(f).canExist)
    /\ \/ /\ ApiAnswers(f) /\ o \in cluster
          /\ Fail(f, "exists")
          /\ UNCHANGED <<cluster, created>>
       \/ /\ o \notin cluster
          /\ cluster' = cluster \cup {o}
          /\ created' = created \cup {[by |-> f, at |-> idx[f], obj |-> o]}
          /\ \/ /\ ApiAnswers(f)
                /\ loop' = [loop EXCEPT ![f] = Bump(@)]
                /\ Goto(f, "submit")
                /\ UNCHANGED <<idx, err>>
             \/ ApiFails(f) /\ ~ctxDone[f] /\ Fail(f, "api")
       \/ ApiFails(f) /\ Fail(f, "api") /\ UNCHANGED <<cluster, created>>
    /\ UNCHANGED <<objID, crashed>>
    /\ unchangedRegistry /\ unchangedReset

(* Some goroutine of Reset iterates over eng.objInfoMap, without the lock. *)
Iterating == \E g \in Flows : sweep[g].st = "iter"

(* SetObjInfo, under eng.mutex.  A write while DeleteAllObjects iterates   *)
(* is a data race: the runtime may stop the process.                       *)
SetObjInfo(f) ==
    LET t == Task(f) IN
    /\ At(f, "submit")
    /\ ~InLoop(loop[f])
    /\ \/ /\ objInfo[t.id] # None /\ Fail(f, "duplicate")
          /\ UNCHANGED <<objInfo, crashed>>
       \/ /\ objInfo[t.id] = None
          /\ objInfo' = [objInfo EXCEPT ![t.id] =
                           NewObjInfo(objType[t.ref], loop[f].names)]
          /\ crashed' \in IF Iterating THEN BOOLEAN ELSE {FALSE}
          /\ Advance(f)
    /\ UNCHANGED <<objType, objID, cluster, faults, created>>
    /\ unchangedReset

-----------------------------------------------------------------------------
(* UpdateObj, DeleteObj and CheckObj/CheckPod: GetObjInfo, then the loop.  *)

GetObjInfo(f) ==
    LET t == Task(f)
        info == objInfo[t.ref]
    IN
    /\ At(f, "exec")
    /\ t.kind \in {"Update", "Check", "Delete"}
    /\ \/ info = None /\ Fail(f, "missing")
       \/ /\ info # None
          /\ loop' = [loop EXCEPT ![f] =
                        LoopOver(info.names, IF t.kind = "Update"
                                             THEN <<info.tpls[1]>> ELSE info.tpls)]
          /\ Goto(f, "work")
          /\ UNCHANGED <<idx, err>>
    /\ UNCHANGED <<objID, cluster, faults, crashed, created>>
    /\ unchangedRegistry /\ unchangedReset

(* Patch and Delete of one object: an error unless the object exists.  A   *)
(* Delete that fails may have reached the API server.                      *)
WorkOnObject(f) ==
    LET o == Current(loop[f]) IN
    /\ At(f, "work")
    /\ Task(f).kind \in {"Update", "Delete"}
    /\ InLoop(loop[f])
    /\ \/ /\ ApiAnswers(f) /\ o \in cluster
          /\ cluster' = IF Task(f).kind = "Delete" THEN cluster \ {o} ELSE cluster
          /\ loop' = [loop EXCEPT ![f] = Bump(@)]
          /\ UNCHANGED <<pc, idx, err>>
       \/ /\ ApiAnswers(f) /\ o \notin cluster
          /\ Fail(f, "notFound") /\ UNCHANGED cluster
       \/ /\ ApiFails(f) /\ Fail(f, "api")
          /\ cluster' \in {cluster, IF Task(f).kind = "Delete" /\ ~ctxDone[f]
                                   THEN cluster \ {o} ELSE cluster}
    /\ UNCHANGED <<objID, crashed, created>>
    /\ unchangedRegistry /\ unchangedReset

WorkDone(f) ==
    /\ At(f, "work")
    /\ Task(f).kind = "Check" \/ ~InLoop(loop[f])
    /\ Advance(f)
    /\ UNCHANGED <<objID, cluster, faults, crashed, created>>
    /\ unchangedRegistry /\ unchangedReset

(* A check that times out, or a task that does not use the registries and  *)
(* returns nil or an error.                                                *)
CheckFails(f) ==
    /\ AtTask(f, "work", "Check")
    /\ Fail(f, "check")
    /\ UNCHANGED <<objID, cluster, faults, crashed, created>>
    /\ unchangedRegistry /\ unchangedReset

RunLocal(f) ==
    /\ AtTask(f, "exec", "Local")
    /\ Advance(f) \/ Fail(f, "local")
    /\ UNCHANGED <<objID, cluster, faults, crashed, created>>
    /\ unchangedRegistry /\ unchangedReset

-----------------------------------------------------------------------------
(* Reset, and the goroutine that runs DeleteAllObjects.                    *)

NoSweep == [st |-> "none", start |-> {}, seen |-> {}, loop |-> NoLoop]
Recorded == {id \in TaskIds : objInfo[id] # None}

(* Mutant: re-initializes the registries. *)
MutClearsRegistries(f) ==
    /\ At(f, "reset")
    /\ Goto(f, "done")
    /\ objType' = [id \in TaskIds |-> None]
    /\ objInfo' = [id \in TaskIds |-> None]
    /\ UNCHANGED <<prog, idx, loop, err, resetErr, ctxDone, objID, cluster, sweep,
                   faults, crashed, created>>

Reset(f) ==
    /\ At(f, "reset")
    /\ \/ ~Cleanup /\ Goto(f, "done") /\ UNCHANGED sweep
       \/ /\ Cleanup
          /\ Goto(f, "await")
          /\ sweep' = [sweep EXCEPT ![f] = [NoSweep EXCEPT !.st = "iter",
                                                           !.start = Recorded]]
    /\ UNCHANGED <<prog, idx, loop, err, resetErr, ctxDone, objID, cluster,
                   faults, crashed, created>>
    /\ unchangedRegistry

(* The iteration order is arbitrary; an entry added meanwhile may be       *)
(* visited or not.                                                         *)
PickEntry(f, id) ==
    /\ sweep[f].st = "iter"
    /\ ~InLoop(sweep[f].loop)
    /\ id \in Recorded \ sweep[f].seen
    /\ sweep' = [sweep EXCEPT ![f].seen = @ \cup {id},
                              ![f].loop = LoopOver(objInfo[id].names, objInfo[id].tpls)]
    /\ UNCHANGED <<flowVars, objID, cluster, faults, crashed, created>>
    /\ unchangedRegistry

(* One Delete of DeleteAllObjects; an error is only logged.                *)
SweepOne(f) ==
    LET o == Current(sweep[f].loop) IN
    /\ sweep[f].st = "iter"
    /\ InLoop(sweep[f].loop)
    /\ \/ ApiAnswers(f) /\ cluster' = cluster \ {o}
       \/ ApiFails(f) /\ cluster' \in {cluster, IF ctxDone[f] THEN cluster ELSE cluster \ {o}}
    /\ sweep' = [sweep EXCEPT ![f].loop = Bump(@)]
    /\ UNCHANGED <<flowVars, objID, crashed, created>>
    /\ unchangedRegistry

(* Mutant: signals before every entry was visited. *)
MutStopsEarly(f) ==
    /\ sweep[f].st = "iter"
    /\ ~InLoop(sweep[f].loop)
    /\ sweep' = [sweep EXCEPT ![f].st = "send"]
    /\ UNCHANGED <<flowVars, objID, cluster, faults, crashed, created>>
    /\ unchangedRegistry

SweepDone(f) ==
    /\ sweep[f].st = "iter"
    /\ ~InLoop(sweep[f].loop)
    /\ sweep[f].start \subseteq sweep[f].seen
    /\ sweep' = [sweep EXCEPT ![f].st = "send"]
    /\ UNCHANGED <<flowVars, objID, cluster, faults, crashed, created>>
    /\ unchangedRegistry

(* The select of Reset: the unbuffered channel stop, or the context.  The  *)
(* deferred cancel makes the context done in both cases.                   *)
ResetStops(f) ==
    /\ At(f, "await")
    /\ sweep[f].st = "send"
    /\ sweep' = [sweep EXCEPT ![f].st = "gone"]
    /\ Goto(f, "done")
    /\ UNCHANGED <<prog, idx, loop, err, resetErr, ctxDone, objID, cluster,
                   faults, crashed, created>>
    /\ unchangedRegistry

(* Mutant: waits for the clean-up whatever the context. *)
MutAwaitsCleanup(f) ==
    /\ At(f, "await")
    /\ ctxDone[f] /\ sweep[f].st = "send"
    /\ resetErr' = [resetErr EXCEPT ![f] = TRUE]
    /\ Goto(f, "done")
    /\ UNCHANGED <<prog, idx, loop, err, ctxDone, sweep, objID, cluster,
                   faults, crashed, created>>
    /\ unchangedRegistry

ResetTimesOut(f) ==
    /\ At(f, "await")
    /\ ctxDone[f]
    /\ resetErr' = [resetErr EXCEPT ![f] = TRUE]
    /\ Goto(f, "done")
    /\ UNCHANGED <<prog, idx, loop, err, ctxDone, sweep, objID, cluster,
                   faults, crashed, created>>
    /\ unchangedRegistry

(* The cleanup timeout.                                                    *)
Expire(f) ==
    /\ At(f, "await")
    /\ ~ctxDone[f]
    /\ ctxDone' = [ctxDone EXCEPT ![f] = TRUE]
    /\ UNCHANGED <<prog, pc, idx, loop, err, resetErr, sweep, objID, cluster,
                   faults, crashed, created>>
    /\ unchangedRegistry

(* The HTTP client goes away: net/http cancels the context of the request. *)
Cancel(f) ==
    /\ Concurrent
    /\ pc[f] \notin {"idle", "done"}
    /\ ~ctxDone[f]
    /\ faults < MaxFaults
    /\ faults' = faults + 1
    /\ ctxDone' = [ctxDone EXCEPT ![f] = TRUE]
    /\ UNCHANGED <<prog, pc, idx, loop, err, resetErr, sweep, objID, cluster,
                   crashed, created>>
    /\ unchangedRegistry

-----------------------------------------------------------------------------

Init ==
    /\ prog \in [Flows -> Programs]
    /\ pc = [f \in Flows |-> "idle"]
    /\ idx = [f \in Flows |-> 1]
    /\ loop = [f \in Flows |-> NoLoop]
    /\ err = [f \in Flows |-> ""]
    /\ resetErr = [f \in Flows |-> FALSE]
    /\ ctxDone = [f \in Flows |-> FALSE]
    /\ objType = [id \in TaskIds |-> None]
    /\ objInfo = [id \in TaskIds |-> None]
    /\ objID = 0
    /\ cluster \in SUBSET Foreign
    /\ sweep = [f \in Flows |-> NoSweep]
    /\ faults = 0
    /\ crashed = FALSE
    /\ created = {}

(* What the goroutine of a flow does, one API call or lock at a time.      *)
RegisterStep(f) == Discover(f) \/ SetObjType(f)
SubmitStep(f) == \/ GetObjType(f) \/ GenerateName(f) \/ NamesReady(f)
                 \/ GetExisting(f) \/ Create(f) \/ SetObjInfo(f)
InfoStep(f) == GetObjInfo(f) \/ WorkOnObject(f) \/ WorkDone(f) \/ CheckFails(f)
RunStep(f) == \/ EndOfTasks(f) \/ GetTask(f) \/ RegisterStep(f) \/ SubmitStep(f)
              \/ InfoStep(f) \/ RunLocal(f) \/ Reset(f) \/ ResetStops(f)
              \/ ResetTimesOut(f)
SweepStep(f) == (\E id \in TaskIds : PickEntry(f, id)) \/ SweepOne(f) \/ SweepDone(f)

Next == /\ ~crashed
        /\ \E f \in Flows : \/ Start(f) \/ RunStep(f) \/ SweepStep(f)
                            \/ Expire(f) \/ Cancel(f)

Spec == Init /\ [][Next]_vars

(* The goroutine of a flow runs and the API server answers its requests;   *)
(* timers fire.  Nothing is assumed of the goroutine that cleans up.       *)
Fairness == \A f \in Flows : WF_vars(~crashed /\ RunStep(f)) /\ WF_vars(~crashed /\ Expire(f))
FairSpec == Spec /\ Fairness

-----------------------------------------------------------------------------
(* Properties.                                                             *)

Labels == {"idle", "next", "exec", "setType", "names", "submit", "create", "work",
           "reset", "await", "done"}
Reasons == {"", "bad", "unreferenced", "missing", "duplicate", "exists", "notFound",
            "api", "check", "local"}
Loops == [names : Seq(Names), tpls : Seq(Templates), i : Nat \ {0}, j : Nat \ {0}]
Sweeps == [st : {"none", "iter", "send", "gone"}, start : SUBSET TaskIds,
           seen : SUBSET TaskIds, loop : Loops]

TypeOK ==
    /\ prog \in [Flows -> Programs]
    /\ pc \in [Flows -> Labels]
    /\ idx \in [Flows -> Nat \ {0}]
    /\ loop \in [Flows -> Loops]
    /\ err \in [Flows -> Reasons]
    /\ resetErr \in [Flows -> BOOLEAN]
    /\ ctxDone \in [Flows -> BOOLEAN]
    /\ objType \in [TaskIds -> Shapes \cup {None}]
    /\ objInfo \in [TaskIds -> Infos \cup {None}]
    /\ objID \in Nat
    /\ cluster \subseteq Objects
    /\ sweep \in [Flows -> Sweeps]
    /\ faults \in Nat
    /\ crashed \in BOOLEAN
    /\ created \subseteq [by : Flows, at : Nat \ {0}, obj : Objects]

(* The reference that GetTask found (engine.go:123-168, lock released      *)
(* afterwards) is still there when Exec reads the registry again, however  *)
(* many other runs finish, fail or clean up in between.                    *)
RefStaysResolved ==
    \A f \in Flows : pc[f] \in {"exec", "names", "submit", "create", "work"} => RefKnown(Task(f))

(* All templates of a shape are in one namespace (the case ObjInfo, with   *)
(* its single Namespace field, can represent).                             *)
Uniform(s) == \A a, b \in DOMAIN s.tpls : s.tpls[a].ns = s.tpls[b].ns
UniformShapes == \A s \in Shapes : Uniform(s)

(* What objInfoMap says exists was created by a task with that very id:    *)
(* Reset and DeleteObj never aim at an object nobody here created.         *)
RecordedWasCreated ==
    UniformShapes =>
      \A id \in Recorded : \A o \in Targets(objInfo[id]) :
        o.name # Blank => \E c \in created : c.obj = o /\ prog[c.by][c.at].id = id

(* Objects that were in the cluster before stay there: only objects some   *)
(* flow created are ever deleted, by DeleteObj or by the cleanup.          *)
OnlyOwnDeleted ==
    [][UniformShapes => \A o \in cluster \ cluster' : \E c \in created : c.obj = o]_vars

(* Two tasks of any flows never hold the same numbered name, recorded or   *)
(* about to be (the counter is shared and every name is taken once).       *)
NumbersOf(f) == IF pc[f] \in {"names", "submit", "create"} /\ objType[Task(f).ref].named = "enum"
                THEN {loop[f].names[i] : i \in DOMAIN loop[f].names} ELSE {}
RecordedNumbers(id) == {objInfo[id].names[i] : i \in DOMAIN objInfo[id].names} \ {0, Blank}
NumbersUnique ==
    /\ \A f, g \in Flows : f # g => NumbersOf(f) \cap NumbersOf(g) = {}
    /\ \A f \in Flows, id \in Recorded : NumbersOf(f) \cap RecordedNumbers(id) = {}
    /\ \A id, jd \in Recorded : id # jd => RecordedNumbers(id) \cap RecordedNumbers(jd) = {}

(* A SubmitObj task that returned nil without the canExist shortcut has    *)
(* all its objects recorded under its id: cleanup and later tasks see them.*)
SubmittedIsRecorded ==
    UniformShapes =>
      \A c \in created : LET t == prog[c.by][c.at] IN
        c.at < idx[c.by] /\ ~t.canExist /\ objType[t.ref].named # "none" =>
          objInfo[t.id] # None /\ c.obj \in Targets(objInfo[t.id])

(* When Reset returns nil before its context is done, and no request       *)
(* failed, no numbered object that was recorded when it began is left.     *)
NilResetSwept ==
    \A f \in Flows :
      At(f, "done") /\ Cleanup /\ ~resetErr[f] /\ ~ctxDone[f] /\ faults = 0 =>
        \A id \in sweep[f].start : \A o \in Targets(objInfo[id]) :
          o.name > 0 => o \notin cluster

(* Workflows of the command line never race on the registry: a cleanup     *)
(* that outlives its Reset ends the program before the next workflow.      *)
SequentialNeverRaces == ~Concurrent => ~crashed

-----------------------------------------------------------------------------
(* What the documentation says, and the code does not do.                  *)

(* README.md:251, "Each task must have a unique id within the workflow",   *)
(* with engine.go:272, "Reset re-initializes engine": workflows that run   *)
(* one after the other do not fail for ids another workflow used.          *)
UniqueIds(p) == \A a, b \in DOMAIN p : a # b => p[a].id # p[b].id
UniqueIdsSuffice ==
    ~Concurrent => \A f \in Flows : UniqueIds(prog[f]) => err[f] # "duplicate"

(* docs/deployment.md:114, "use the -cleanup flag to remove any leftover   *)
(* objects created by the test": once Reset returned nil, no object the    *)
(* workflow created is left.                                               *)
CleanupRemovesCreated ==
    \A f \in Flows : At(f, "done") /\ Cleanup /\ ~resetErr[f] /\ faults = 0 =>
      \A c \in created : c.by = f => c.obj \notin cluster

(* README.md:300, "canExist ... If true, doesn't error when object already *)
(* exists": such a task never fails because an object exists.              *)
CanExistTolerated ==
    \A f \in Flows : err[f] = "exists" => ~Task(f).canExist

-----------------------------------------------------------------------------
(* Run returns, whether tasks fail, requests fail, the client goes away or *)
(* the cleanup goroutine hangs.                                            *)
RunReturns == \A f \in Flows : pc[f] # "idle" ~> (pc[f] = "done" \/ crashed)
=============================================================================
