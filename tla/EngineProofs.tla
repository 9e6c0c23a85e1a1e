---------------------------- MODULE EngineProofs ----------------------------
(***************************************************************************)
(* Theorems about Engine for every set of flows, tasks, templates and      *)
(* programs.  The first part is about one task: type correctness,          *)
(* references that stay resolved between GetTask and Exec, and the         *)
(* registry that only records what was created, from which deletions are   *)
(* confined to objects of the flows.  The second is about what runs do to  *)
(* each other: workflows of the command line never race on the registry,   *)
(* no two tasks hold the same number, what a task submitted is recorded    *)
(* under its id, and a Reset that returned nil in time left no numbered    *)
(* object behind.                                                          *)
(***************************************************************************)
EXTENDS Engine, SequenceTheorems, TLAPS

Busy == {"exec", "setType", "names", "submit", "create", "work"}
Submitting == {"names", "submit", "create"}

(* A flow inside a task is at a task of its list, of the kind its label is *)
(* about.                                                                  *)
TaskInRange == \A f \in Flows : pc[f] \in Busy => idx[f] \in DOMAIN prog[f]
KindAtLabel ==
    \A f \in Flows :
      /\ pc[f] = "setType" => Task(f).kind = "Register"
      /\ pc[f] \in Submitting => Task(f).kind = "Submit"
      /\ pc[f] = "work" => Task(f).kind \in {"Update", "Check", "Delete"}

(* Every ObjInfo has at least one resource type.                           *)
InfoNotEmpty == \A id \in TaskIds : objInfo[id] # None => objInfo[id].tpls # <<>>

TypeInv == TypeOK /\ TaskInRange /\ KindAtLabel /\ RefStaysResolved /\ InfoNotEmpty

-----------------------------------------------------------------------------
LEMMA CurrentInObjects ==
    ASSUME NEW l \in Loops, InLoop(l)
    PROVE  Current(l) \in Objects /\ Bump(l) \in Loops
<1>1. l.i \in DOMAIN l.names /\ l.j \in DOMAIN l.tpls
  BY DEF Loops, InLoop
<1>2. l.names[l.i] \in Names /\ l.tpls[l.j] \in Templates
  BY <1>1, ElementOfSeq DEF Loops
<1>3. Current(l) \in Objects
  BY <1>2 DEF Current, Target, Objects, Templates
<1>4. Bump(l) \in Loops
  <2>1. l.i + 1 \in Nat \ {0} /\ l.j + 1 \in Nat \ {0}
    BY DEF Loops
  <2>2. CASE l.j < Len(l.tpls)
    <3>1. Bump(l) = [l EXCEPT !.j = l.j + 1]
      BY <2>2 DEF Bump
    <3> QED BY <2>1, <3>1 DEF Loops
  <2>3. CASE ~(l.j < Len(l.tpls))
    <3>1. Bump(l) = [names |-> l.names, tpls |-> l.tpls, i |-> l.i + 1, j |-> 1]
      BY <2>3 DEF Bump, LoopOver
    <3> QED BY <2>1, <3>1 DEF Loops
  <2> QED BY <2>2, <2>3
<1> QED BY <1>3, <1>4

LEMMA NewLoopsTyped ==
    /\ NoLoop \in Loops
    /\ NoSweep \in Sweeps
    /\ ~InLoop(NoLoop)
    /\ \A ns \in Seq(Names), ts \in Seq(Templates) : LoopOver(ns, ts) \in Loops
BY DEF NoLoop, NoSweep, Loops, Sweeps, LoopOver, InLoop

LEMMA SeqMap ==
    ASSUME NEW S, NEW T, NEW s \in Seq(S), NEW g \in [DOMAIN s -> T]
    PROVE  g \in Seq(T) /\ Len(g) = Len(s) /\ (s # <<>> => g # <<>>)
<1>1. DOMAIN s = 1..Len(s) /\ Len(s) \in Nat
  BY LenProperties
<1>2. g \in [1..Len(s) -> T]
  BY <1>1
<1>3. g \in Seq(T)
  BY <1>1, <1>2, SeqDef
<1>4. Len(g) = Len(s)
  BY <1>1, <1>2, <1>3, LenProperties
<1> QED BY <1>3, <1>4

LEMMA NewInfoTyped ==
    ASSUME NEW shape \in Shapes, NEW ns \in Seq(Names)
    PROVE  /\ NewObjInfo(shape, ns) \in Infos
           /\ NewObjInfo(shape, ns).tpls # <<>>
           /\ NewObjInfo(shape, ns) # None
<1>1. shape.tpls \in Seq(Templates) /\ shape.tpls # <<>> /\ shape \in ShapeType
  BY ShapesAssumption DEF ShapeType
<1>2. 1 \in DOMAIN shape.tpls
  BY <1>1
<1>3. \A j \in DOMAIN shape.tpls : shape.tpls[j] \in Templates
  BY <1>1, ElementOfSeq
<1> DEFINE ts == [j \in DOMAIN shape.tpls |->
                    [gvr |-> shape.tpls[j].gvr, ns |-> shape.tpls[1].ns]]
           bs == [i \in DOMAIN ns |-> Blank]
<1>4. ts \in [DOMAIN shape.tpls -> Templates]
  BY <1>2, <1>3 DEF Templates
<1>5. ts \in Seq(Templates) /\ ts # <<>>
  <2> HIDE DEF ts
  <2> QED BY <1>1, <1>4, SeqMap
<1>6. bs \in [DOMAIN ns -> Names]
  BY DEF Names
<1>7. bs \in Seq(Names)
  <2> HIDE DEF bs
  <2> QED BY <1>6, SeqMap
<1>8. NewObjInfo(shape, ns) \in Infos
  BY <1>5, <1>7 DEF NewObjInfo, Infos
<1> QED BY <1>5, <1>8, NoneAssumption DEF NewObjInfo

-----------------------------------------------------------------------------
(* TypeInv is inductive.  Every handler step is proved on its own; what a  *)
(* step of flow f leaves alone carries over to the other flows because     *)
(* the registries only gain entries.                                       *)

Grows == /\ \A id \in TaskIds : objType[id] # None => objType'[id] = objType[id]
         /\ \A id \in TaskIds : objInfo[id] # None => objInfo'[id] = objInfo[id]

LEMMA TaskTyped ==
    ASSUME TypeOK, NEW f \in Flows, idx[f] \in DOMAIN prog[f]
    PROVE  Task(f) \in Tasks
<1>1. prog[f] \in Seq(Tasks)
  BY ProgramsAssumption DEF TypeOK
<1> QED BY <1>1, ElementOfSeq DEF Task

LEMMA InitTypeInv == Init => TypeInv
<1> SUFFICES ASSUME Init PROVE TypeInv
  OBVIOUS
<1>1. cluster \subseteq Objects
  <2>1. [gvr : Gvrs, ns : Spaces, name : {0}] \subseteq Objects
    BY DEF Objects, Names
  <2>2. cluster \subseteq Foreign
    BY DEF Init
  <2> QED BY <2>1, <2>2, ForeignAssumption
<1>2. TypeOK
  <2>1. prog \in [Flows -> Programs]
    BY DEF Init
  <2>2. /\ pc \in [Flows -> Labels] /\ idx \in [Flows -> Nat \ {0}]
        /\ err \in [Flows -> Reasons] /\ resetErr \in [Flows -> BOOLEAN]
        /\ ctxDone \in [Flows -> BOOLEAN]
    <3>1. pc \in [Flows -> Labels]
      BY DEF Init, Labels
    <3>2. idx \in [Flows -> Nat \ {0}]
      <4>1. idx = [f \in Flows |-> 1]
        BY DEF Init
      <4> QED BY <4>1
    <3>3. err \in [Flows -> Reasons]
      BY DEF Init, Reasons
    <3>4. resetErr \in [Flows -> BOOLEAN] /\ ctxDone \in [Flows -> BOOLEAN]
      BY DEF Init
    <3> QED BY <3>1, <3>2, <3>3, <3>4
  <2>3. loop \in [Flows -> Loops] /\ sweep \in [Flows -> Sweeps]
    BY NewLoopsTyped DEF Init
  <2>4. /\ objType \in [TaskIds -> Shapes \cup {None}]
        /\ objInfo \in [TaskIds -> Infos \cup {None}]
    BY DEF Init
  <2>5. objID \in Nat /\ faults \in Nat /\ crashed \in BOOLEAN /\ created = {}
    BY DEF Init
  <2> QED BY <1>1, <2>1, <2>2, <2>3, <2>4, <2>5 DEF TypeOK
<1>3. TaskInRange /\ KindAtLabel /\ RefStaysResolved /\ InfoNotEmpty
  BY DEF Init, TaskInRange, KindAtLabel, RefStaysResolved, InfoNotEmpty, Busy, Submitting
<1> QED BY <1>2, <1>3 DEF TypeInv

(* The control invariants follow for all flows when they hold for the flow *)
(* that moved, nobody else moved, and the registries only grew.            *)
LEMMA OthersUndisturbed ==
    ASSUME TypeInv, Grows, TypeOK', NEW f \in Flows,
           \A g \in Flows : g # f => pc'[g] = pc[g] /\ idx'[g] = idx[g],
           prog' = prog,
           InfoNotEmpty',
           pc'[f] \in Busy => /\ idx'[f] \in DOMAIN prog[f]
                             /\ RefKnown(Task(f))',
           pc'[f] = "setType" => Task(f)'.kind = "Register",
           pc'[f] \in Submitting => Task(f)'.kind = "Submit",
           pc'[f] = "work" => Task(f)'.kind \in {"Update", "Check", "Delete"}
    PROVE  TypeInv'
<1>1. TaskInRange'
  BY DEF TypeInv, TaskInRange
<1>2. KindAtLabel'
  BY DEF TypeInv, KindAtLabel, Task
<1>3. RefStaysResolved'
  <2> SUFFICES ASSUME NEW g \in Flows, g # f,
                      pc[g] \in {"exec", "names", "submit", "create", "work"}
               PROVE  RefKnown(Task(g))'
    BY DEF RefStaysResolved, Busy
  <2>1. Task(g) \in Tasks /\ Task(g)' = Task(g)
    BY TaskTyped DEF TypeInv, TaskInRange, Busy, Task
  <2>2. RefKnown(Task(g))
    BY DEF TypeInv, RefStaysResolved
  <2> QED BY <2>1, <2>2 DEF RefKnown, Grows, Tasks
<1> QED BY <1>1, <1>2, <1>3 DEF TypeInv

-----------------------------------------------------------------------------
(* One lemma per group of steps of a flow.                                 *)

ControlStep(f) ==
    \/ Advance(f)
    \/ \E why \in Reasons : Fail(f, why)
    \/ \E label \in Labels : Goto(f, label) /\ UNCHANGED <<idx, loop, err>>

ControlTypeOK == /\ pc \in [Flows -> Labels]
                 /\ idx \in [Flows -> Nat \ {0}]
                 /\ loop \in [Flows -> Loops]
                 /\ err \in [Flows -> Reasons]

LEMMA ControlTyped ==
    ASSUME TypeOK, NEW f \in Flows, ControlStep(f)
    PROVE  /\ ControlTypeOK'
           /\ \A g \in Flows : g # f => pc'[g] = pc[g] /\ idx'[g] = idx[g]
<1>1. CASE Advance(f)
  <2>1. pc' \in [Flows -> Labels] /\ \A g \in Flows : g # f => pc'[g] = pc[g]
    BY <1>1 DEF Advance, Goto, TypeOK, Labels
  <2>2. idx' \in [Flows -> Nat \ {0}] /\ \A g \in Flows : g # f => idx'[g] = idx[g]
    BY <1>1 DEF Advance, TypeOK
  <2>3. loop' \in [Flows -> Loops] /\ err' \in [Flows -> Reasons]
    BY <1>1, NewLoopsTyped DEF Advance, TypeOK
  <2> QED BY <2>1, <2>2, <2>3 DEF ControlTypeOK
<1>2. ASSUME NEW why \in Reasons, Fail(f, why)
      PROVE  /\ ControlTypeOK'
             /\ \A g \in Flows : g # f => pc'[g] = pc[g] /\ idx'[g] = idx[g]
  <2>1. pc' \in [Flows -> Labels] /\ \A g \in Flows : g # f => pc'[g] = pc[g]
    BY <1>2 DEF Fail, Goto, TypeOK, Labels
  <2>2. idx' = idx /\ idx \in [Flows -> Nat \ {0}]
    BY <1>2 DEF Fail, TypeOK
  <2>3. loop' \in [Flows -> Loops] /\ err' \in [Flows -> Reasons]
    BY <1>2, NewLoopsTyped DEF Fail, TypeOK
  <2> QED BY <2>1, <2>2, <2>3 DEF ControlTypeOK
<1>3. ASSUME NEW label \in Labels, Goto(f, label), UNCHANGED <<idx, loop, err>>
      PROVE  /\ ControlTypeOK'
             /\ \A g \in Flows : g # f => pc'[g] = pc[g] /\ idx'[g] = idx[g]
  BY <1>3 DEF Goto, TypeOK, ControlTypeOK
<1> QED BY <1>1, <1>2, <1>3 DEF ControlStep

LEMMA RunTypeInv ==
    ASSUME TypeInv, NEW f \in Flows,
           Start(f) \/ EndOfTasks(f) \/ GetTask(f) \/ RunLocal(f) \/ WorkDone(f) \/ CheckFails(f)
    PROVE  TypeInv'
<1>1. Grows /\ prog' = prog /\ InfoNotEmpty'
  BY DEF Start, EndOfTasks, GetTask, RunLocal, WorkDone, CheckFails, unchangedRegistry,
         unchangedReset, Grows, TypeInv, InfoNotEmpty
<1>2. ControlStep(f)
  BY DEF Start, EndOfTasks, GetTask, RunLocal, WorkDone, CheckFails, ControlStep, Labels, Reasons
<1>3. TypeOK' /\ \A g \in Flows : g # f => pc'[g] = pc[g] /\ idx'[g] = idx[g]
  <2>1. UNCHANGED <<prog, resetErr, ctxDone, objType, objInfo, objID, cluster, sweep, faults,
                    crashed, created>>
    BY DEF Start, EndOfTasks, GetTask, RunLocal, WorkDone, CheckFails, unchangedRegistry,
           unchangedReset
  <2> QED BY <1>2, <2>1, ControlTyped DEF TypeInv, TypeOK, ControlTypeOK
<1>4. pc'[f] \in Busy => /\ At(f, "next") /\ pc'[f] = "exec" /\ idx' = idx
                        /\ idx[f] \in DOMAIN prog[f] /\ RefKnown(Task(f))
  BY ProgramsAssumption
     DEF Start, EndOfTasks, GetTask, RunLocal, WorkDone, CheckFails, Advance, Fail, Goto, At,
         TypeInv, TypeOK, Busy
<1>5. pc'[f] \in Busy => RefKnown(Task(f))'
  BY <1>1, <1>4
     DEF Start, EndOfTasks, GetTask, RunLocal, WorkDone, CheckFails, unchangedRegistry,
         RefKnown, Task
<1>6. /\ pc'[f] = "setType" => Task(f)'.kind = "Register"
      /\ pc'[f] \in Submitting => Task(f)'.kind = "Submit"
      /\ pc'[f] = "work" => Task(f)'.kind \in {"Update", "Check", "Delete"}
  BY <1>4 DEF Busy, Submitting
<1>7. pc'[f] \in Busy => idx'[f] \in DOMAIN prog[f] /\ RefKnown(Task(f))'
  BY <1>4, <1>5
<1> QED BY <1>1, <1>3, <1>6, <1>7, OthersUndisturbed

LEMMA RegisterTypeInv ==
    ASSUME TypeInv, NEW f \in Flows, RegisterStep(f)
    PROVE  TypeInv'
<1>1. idx[f] \in DOMAIN prog[f] /\ Task(f) \in Tasks
  BY TaskTyped DEF RegisterStep, Discover, SetObjType, AtTask, At, TypeInv, TaskInRange, Busy
<1>2. CASE Discover(f)
  <2>1. ControlStep(f)
    BY <1>2 DEF Discover, ControlStep, Labels, Reasons
  <2>2. UNCHANGED <<prog, resetErr, ctxDone, objType, objInfo, objID, cluster, sweep,
                    crashed, created>> /\ faults' \in Nat
    BY <1>2 DEF Discover, unchangedRegistry, unchangedReset, ApiFails, ApiAnswers, TypeInv, TypeOK
  <2>3. TypeOK' /\ \A g \in Flows : g # f => pc'[g] = pc[g] /\ idx'[g] = idx[g]
    BY <2>1, <2>2, ControlTyped DEF TypeInv, TypeOK, ControlTypeOK
  <2>4. Grows /\ prog' = prog /\ InfoNotEmpty'
    BY <2>2 DEF Grows, TypeInv, InfoNotEmpty
  <2>5. pc'[f] \in {"setType", "reset"} /\ (pc'[f] = "setType" => idx' = idx)
    BY <1>2 DEF Discover, Fail, Goto, TypeInv, TypeOK
  <2>6. Task(f).kind = "Register"
    BY <1>2 DEF Discover, AtTask
  <2>7. pc'[f] = "setType" => Task(f)' = Task(f)
    BY <2>2, <2>5 DEF Task
  <2>8. pc'[f] = "setType" => RefKnown(Task(f))'
    BY <2>6, <2>7 DEF RefKnown
  <2> QED BY <1>1, <2>3, <2>4, <2>5, <2>6, <2>7, <2>8, OthersUndisturbed DEF Busy, Submitting
<1>3. CASE SetObjType(f)
  <2>1. ControlStep(f)
    BY <1>3 DEF SetObjType, ControlStep, Labels, Reasons
  <2>2. UNCHANGED <<prog, resetErr, ctxDone, objInfo, objID, cluster, sweep, faults,
                    crashed, created>>
    BY <1>3 DEF SetObjType, unchangedReset
  <2>3. Task(f).id \in TaskIds /\ Task(f).shape \in Shapes
    BY <1>1 DEF Tasks
  <2>4. objType' \in [TaskIds -> Shapes \cup {None}] /\ Grows
    BY <1>3, <2>2, <2>3 DEF SetObjType, TypeInv, TypeOK, Grows
  <2>5. TypeOK' /\ \A g \in Flows : g # f => pc'[g] = pc[g] /\ idx'[g] = idx[g]
    BY <2>1, <2>2, <2>4, ControlTyped DEF TypeInv, TypeOK, ControlTypeOK
  <2>6. prog' = prog /\ InfoNotEmpty'
    BY <2>2 DEF TypeInv, InfoNotEmpty
  <2>7. pc'[f] \in {"next", "reset"}
    BY <1>3 DEF SetObjType, Advance, Fail, Goto, TypeInv, TypeOK
  <2> QED BY <2>4, <2>5, <2>6, <2>7, OthersUndisturbed DEF Busy, Submitting
<1> QED BY <1>2, <1>3 DEF RegisterStep

(* The three steps of SubmitObj before the loop, and the loop itself: no   *)
(* registry changes, and the flow stays at its task or leaves Submitting.  *)
LEMMA SubmitControl ==
    ASSUME TypeInv, NEW f \in Flows,
           GetObjType(f) \/ GenerateName(f) \/ NamesReady(f) \/ GetExisting(f) \/ Create(f)
    PROVE  /\ UNCHANGED <<prog, resetErr, ctxDone, objType, objInfo, sweep, crashed>>
           /\ Task(f).kind = "Submit" /\ idx[f] \in DOMAIN prog[f] /\ Task(f) \in Tasks
           /\ objType[Task(f).ref] \in Shapes
           /\ pc' \in [Flows -> Labels] /\ pc'[f] \in Submitting \cup {"next", "reset"}
           /\ idx' \in [Flows -> Nat \ {0}] /\ err' \in [Flows -> Reasons]
           /\ pc'[f] \in Submitting => idx' = idx
           /\ \A g \in Flows : g # f => pc'[g] = pc[g] /\ idx'[g] = idx[g]
<1>1. UNCHANGED <<prog, resetErr, ctxDone, objType, objInfo, sweep, crashed>>
  BY DEF GetObjType, GenerateName, NamesReady, GetExisting, Create, unchangedRegistry,
         unchangedReset
<1>2. Task(f).kind = "Submit" /\ idx[f] \in DOMAIN prog[f] /\ Task(f) \in Tasks
  <2>1. pc[f] \in Submitting \cup {"exec"} /\ (pc[f] = "exec" => Task(f).kind = "Submit")
    BY DEF GetObjType, GenerateName, NamesReady, GetExisting, Create, AtTask, At, Submitting
  <2> QED BY <2>1, TaskTyped DEF TypeInv, KindAtLabel, TaskInRange, Busy, Submitting
<1>3. objType[Task(f).ref] \in Shapes
  <2>1. pc[f] \in {"exec", "names", "submit", "create", "work"}
    BY DEF GetObjType, GenerateName, NamesReady, GetExisting, Create, AtTask, At
  <2>2. objType[Task(f).ref] # None
    BY <1>2, <2>1 DEF TypeInv, RefStaysResolved, RefKnown
  <2> QED BY <1>2, <2>2 DEF TypeInv, TypeOK, Tasks
<1>4. /\ pc' \in [Flows -> Labels] /\ pc'[f] \in Submitting \cup {"next", "reset"}
      /\ \A g \in Flows : g # f => pc'[g] = pc[g]
  BY DEF GetObjType, GenerateName, NamesReady, GetExisting, Create, Fail, Advance, Goto, At,
         TypeInv, TypeOK, Labels, Submitting
<1>5. idx' = idx \/ (pc'[f] = "next" /\ idx' = [idx EXCEPT ![f] = @ + 1])
  BY DEF GetObjType, GenerateName, NamesReady, GetExisting, Create, Fail, Advance, Goto,
         TypeInv, TypeOK
<1>6. /\ idx' \in [Flows -> Nat \ {0}]
      /\ pc'[f] \in Submitting => idx' = idx
      /\ \A g \in Flows : g # f => idx'[g] = idx[g]
  BY <1>5 DEF TypeInv, TypeOK, Submitting
<1>7. err' = err \/ \E why \in Reasons : err' = [err EXCEPT ![f] = why]
  BY DEF GetObjType, GenerateName, NamesReady, GetExisting, Create, Fail, Advance, Reasons
<1>8. err' \in [Flows -> Reasons]
  BY <1>7 DEF TypeInv, TypeOK
<1> QED BY <1>1, <1>2, <1>3, <1>4, <1>6, <1>8

LEMMA SubmitLoopTyped ==
    ASSUME TypeInv, NEW f \in Flows,
           GetObjType(f) \/ GenerateName(f) \/ NamesReady(f) \/ GetExisting(f) \/ Create(f)
    PROVE  /\ loop' \in [Flows -> Loops] /\ objID' \in Nat /\ faults' \in Nat
           /\ cluster' \subseteq Objects
           /\ created' \subseteq [by : Flows, at : Nat \ {0}, obj : Objects]
<1>1. objType[Task(f).ref] \in Shapes
  BY SubmitControl
<1>2. objType[Task(f).ref].tpls \in Seq(Templates)
  BY <1>1, ShapesAssumption DEF ShapeType
<1>3. objID' \in Nat /\ faults' \in Nat
  BY DEF GetObjType, GenerateName, NamesReady, GetExisting, Create, ApiFails, ApiAnswers,
         TypeInv, TypeOK
<1>4. CASE GetObjType(f)
  <2> DEFINE ts == objType[Task(f).ref].tpls
  <2>1. LoopOver(<<>>, ts) \in Loops
    <3> HIDE DEF ts
    <3>1. ts \in Seq(Templates)
      BY <1>2 DEF ts
    <3>2. <<>> \in Seq(Names)
      OBVIOUS
    <3> QED BY <3>1, <3>2, NewLoopsTyped
  <2>2. loop' = [loop EXCEPT ![f] = NoLoop] \/ loop' = [loop EXCEPT ![f] = LoopOver(<<>>, ts)]
    BY <1>4 DEF GetObjType, Fail
  <2>3. loop' \in [Flows -> Loops]
    <3> HIDE DEF ts
    <3> QED BY <2>1, <2>2, NewLoopsTyped DEF TypeInv, TypeOK
  <2> QED BY <1>3, <1>4, <2>3 DEF GetObjType, TypeInv, TypeOK
<1>5. CASE GenerateName(f)
  <2> DEFINE named == objType[Task(f).ref].named
             count == IF named = "none" THEN objID ELSE objID + 1
             name == IF named = "enum" THEN count ELSE 0
  <2>1. name \in Names
    BY DEF Names, TypeInv, TypeOK
  <2>2. Append(loop[f].names, name) \in Seq(Names)
    BY <2>1 DEF TypeInv, TypeOK, Loops
  <2>3. loop' = [loop EXCEPT ![f].names = Append(@, name)]
    BY <1>5 DEF GenerateName
  <2>4. loop' \in [Flows -> Loops]
    <3>1. loop[f] \in Loops /\ loop \in [Flows -> Loops]
      BY DEF TypeInv, TypeOK
    <3>2. \A s \in Seq(Names), l \in Loops : [l EXCEPT !.names = s] \in Loops
      BY DEF Loops
    <3>3. loop' = [loop EXCEPT ![f] = [loop[f] EXCEPT !.names = Append(loop[f].names, name)]]
      BY <2>3
    <3> QED BY <2>2, <3>1, <3>2, <3>3
  <2> QED BY <1>3, <1>5, <2>4 DEF GenerateName, TypeInv, TypeOK
<1>6. CASE NamesReady(f) \/ GetExisting(f)
  <2>1. loop' = loop \/ loop' = [loop EXCEPT ![f] = NoLoop]
    BY <1>6 DEF NamesReady, GetExisting, Advance
  <2>2. loop' \in [Flows -> Loops]
    BY <2>1, NewLoopsTyped DEF TypeInv, TypeOK
  <2> QED BY <1>3, <1>6, <2>2 DEF NamesReady, GetExisting, TypeInv, TypeOK
<1>7. CASE Create(f)
  <2>1. loop[f] \in Loops /\ InLoop(loop[f])
    BY <1>7 DEF Create, TypeInv, TypeOK
  <2>2. Current(loop[f]) \in Objects /\ Bump(loop[f]) \in Loops
    BY <2>1, CurrentInObjects
  <2>3. loop' = [loop EXCEPT ![f] = Bump(loop[f])] \/ loop' = [loop EXCEPT ![f] = NoLoop]
    BY <1>7 DEF Create, Fail
  <2>4. loop' \in [Flows -> Loops]
    BY <2>2, <2>3, NewLoopsTyped DEF TypeInv, TypeOK
  <2>5. /\ cluster' = cluster \/ cluster' = cluster \cup {Current(loop[f])}
        /\ \/ created' = created
           \/ created' = created \cup {[by |-> f, at |-> idx[f], obj |-> Current(loop[f])]}
    BY <1>7 DEF Create
  <2>6. idx[f] \in Nat \ {0}
    BY DEF TypeInv, TypeOK
  <2> QED BY <1>3, <2>2, <2>4, <2>5, <2>6 DEF TypeInv, TypeOK
<1> QED BY <1>4, <1>5, <1>6, <1>7

LEMMA SubmitTypeInv ==
    ASSUME TypeInv, NEW f \in Flows, SubmitStep(f)
    PROVE  TypeInv'
<1>1. CASE GetObjType(f) \/ GenerateName(f) \/ NamesReady(f) \/ GetExisting(f) \/ Create(f)
  <2>1. TypeOK'
    BY <1>1, SubmitControl, SubmitLoopTyped DEF TypeInv, TypeOK
  <2>2. Grows /\ InfoNotEmpty'
    BY <1>1, SubmitControl DEF Grows, TypeInv, InfoNotEmpty
  <2>3. pc'[f] \in Submitting => Task(f)' = Task(f) /\ RefKnown(Task(f))'
    BY <1>1, SubmitControl, NoneAssumption DEF Task, RefKnown
  <2> QED BY <1>1, <2>1, <2>2, <2>3, SubmitControl, OthersUndisturbed DEF Busy, Submitting
<1>2. CASE SetObjInfo(f)
  <2>1. idx[f] \in DOMAIN prog[f] /\ Task(f).kind = "Submit" /\ Task(f) \in Tasks
    BY <1>2, TaskTyped DEF SetObjInfo, At, TypeInv, TaskInRange, KindAtLabel, Busy, Submitting
  <2>2. objType[Task(f).ref] # None
    BY <1>2, <2>1 DEF SetObjInfo, At, TypeInv, RefStaysResolved, RefKnown
  <2>3. objType[Task(f).ref] \in Shapes /\ Task(f).id \in TaskIds
    BY <2>1, <2>2 DEF TypeInv, TypeOK, Tasks
  <2>4. loop[f].names \in Seq(Names)
    BY DEF TypeInv, TypeOK, Loops
  <2> DEFINE info == NewObjInfo(objType[Task(f).ref], loop[f].names)
  <2>5. info \in Infos /\ info.tpls # <<>> /\ info # None
    BY <2>3, <2>4, NewInfoTyped
  <2>6. \/ objInfo' = objInfo
        \/ objInfo[Task(f).id] = None /\ objInfo' = [objInfo EXCEPT ![Task(f).id] = info]
    BY <1>2 DEF SetObjInfo
  <2>7. objInfo' \in [TaskIds -> Infos \cup {None}] /\ InfoNotEmpty'
    <3> HIDE DEF info
    <3> QED BY <2>3, <2>5, <2>6 DEF TypeInv, TypeOK, InfoNotEmpty
  <2>8. UNCHANGED <<prog, resetErr, ctxDone, objType, objID, cluster, sweep, faults, created>>
    BY <1>2 DEF SetObjInfo, unchangedReset
  <2>9. Grows
    <3> HIDE DEF info
    <3> QED BY <2>6, <2>8 DEF Grows, TypeInv, TypeOK
  <2>10. crashed' \in BOOLEAN
    BY <1>2 DEF SetObjInfo, TypeInv, TypeOK
  <2>11. ControlStep(f)
    BY <1>2 DEF SetObjInfo, ControlStep, Labels, Reasons
  <2>12. TypeOK' /\ \A g \in Flows : g # f => pc'[g] = pc[g] /\ idx'[g] = idx[g]
    BY <2>7, <2>8, <2>10, <2>11, ControlTyped DEF TypeInv, TypeOK, ControlTypeOK
  <2>13. pc'[f] \in {"next", "reset"}
    BY <1>2 DEF SetObjInfo, Advance, Fail, Goto, TypeInv, TypeOK
  <2> QED BY <2>7, <2>8, <2>9, <2>12, <2>13, OthersUndisturbed DEF Busy, Submitting
<1> QED BY <1>1, <1>2 DEF SubmitStep

LEMMA InfoTypeInv ==
    ASSUME TypeInv, NEW f \in Flows, GetObjInfo(f) \/ WorkOnObject(f)
    PROVE  TypeInv'
<1>1. UNCHANGED <<prog, resetErr, ctxDone, objType, objInfo, objID, sweep, crashed, created>>
  BY DEF GetObjInfo, WorkOnObject, unchangedRegistry, unchangedReset
<1>2. Grows /\ InfoNotEmpty'
  BY <1>1 DEF Grows, TypeInv, InfoNotEmpty
<1>3. idx[f] \in DOMAIN prog[f] /\ Task(f) \in Tasks /\ RefKnown(Task(f))
      /\ Task(f).kind \in {"Update", "Check", "Delete"}
  <2>1. pc[f] \in {"exec", "work"} /\ Task(f).kind \in {"Update", "Check", "Delete"}
    BY DEF GetObjInfo, WorkOnObject, At
  <2> QED BY <2>1, TaskTyped DEF TypeInv, TaskInRange, RefStaysResolved, Busy
<1>4. /\ pc' \in [Flows -> Labels] /\ pc'[f] \in {"work", "reset"}
      /\ \A g \in Flows : g # f => pc'[g] = pc[g]
  BY DEF GetObjInfo, WorkOnObject, Fail, Goto, At, TypeInv, TypeOK, Labels
<1>5. idx' = idx
  BY DEF GetObjInfo, WorkOnObject, Fail
<1>6. err' = err \/ \E why \in Reasons : err' = [err EXCEPT ![f] = why]
  BY DEF GetObjInfo, WorkOnObject, Fail, Reasons
<1>7. err' \in [Flows -> Reasons]
  BY <1>6 DEF TypeInv, TypeOK
<1>8. faults' \in Nat
  BY DEF GetObjInfo, WorkOnObject, ApiFails, ApiAnswers, TypeInv, TypeOK
<1>9. cluster' \subseteq Objects
  BY DEF GetObjInfo, WorkOnObject, TypeInv, TypeOK
<1>10. loop' \in [Flows -> Loops]
  <2>1. CASE GetObjInfo(f)
    <3> DEFINE info == objInfo[Task(f).ref]
               ts == IF Task(f).kind = "Update" THEN <<info.tpls[1]>> ELSE info.tpls
    <3>1. info \in Infos /\ info.tpls # <<>>
      BY <1>3 DEF TypeInv, TypeOK, RefKnown, InfoNotEmpty, Tasks
    <3>2. info.names \in Seq(Names) /\ info.tpls \in Seq(Templates)
      BY <3>1 DEF Infos
    <3>3. info.tpls[1] \in Templates
      BY <3>1, <3>2
    <3>4. ts \in Seq(Templates)
      BY <3>2, <3>3
    <3>5. LoopOver(info.names, ts) \in Loops
      <4> HIDE DEF ts
      <4> QED BY <3>2, <3>4, NewLoopsTyped
    <3>6. \/ loop' = [loop EXCEPT ![f] = NoLoop]
          \/ loop' = [loop EXCEPT ![f] = LoopOver(info.names, ts)]
      BY <2>1 DEF GetObjInfo, Fail
    <3> QED
      <4> HIDE DEF ts, info
      <4> QED BY <3>5, <3>6, NewLoopsTyped DEF TypeInv, TypeOK
  <2>2. CASE WorkOnObject(f)
    <3>1. loop[f] \in Loops /\ InLoop(loop[f])
      BY <2>2 DEF WorkOnObject, TypeInv, TypeOK
    <3>2. loop' = [loop EXCEPT ![f] = Bump(loop[f])] \/ loop' = [loop EXCEPT ![f] = NoLoop]
      BY <2>2 DEF WorkOnObject, Fail
    <3> QED BY <3>1, <3>2, CurrentInObjects, NewLoopsTyped DEF TypeInv, TypeOK
  <2> QED BY <2>1, <2>2
<1>11. TypeOK'
  BY <1>1, <1>4, <1>5, <1>7, <1>8, <1>9, <1>10 DEF TypeInv, TypeOK
<1>12. Task(f)' = Task(f) /\ RefKnown(Task(f))'
  BY <1>1, <1>3, <1>5 DEF Task, RefKnown
<1> QED BY <1>1, <1>2, <1>3, <1>4, <1>5, <1>11, <1>12, OthersUndisturbed DEF Submitting

(* Reset and its goroutine touch no registry and leave every task alone.   *)
LEMMA ResetTypeInv ==
    ASSUME TypeInv, NEW f \in Flows,
           \/ Reset(f) \/ ResetStops(f) \/ ResetTimesOut(f) \/ SweepStep(f)
           \/ Expire(f) \/ Cancel(f)
    PROVE  TypeInv'
<1>1. UNCHANGED <<prog, idx, loop, err, objType, objInfo, objID, crashed, created>>
  BY DEF Reset, ResetStops, ResetTimesOut, SweepStep, PickEntry, SweepOne, SweepDone, Expire,
         Cancel, flowVars, unchangedRegistry
<1>2. /\ pc' \in [Flows -> Labels]
      /\ \A g \in Flows : g # f => pc'[g] = pc[g]
      /\ pc' = pc \/ pc'[f] \in {"await", "done"}
  BY DEF Reset, ResetStops, ResetTimesOut, SweepStep, PickEntry, SweepOne, SweepDone, Expire,
         Cancel, flowVars, Goto, TypeInv, TypeOK, Labels
<1>3. resetErr' \in [Flows -> BOOLEAN] /\ ctxDone' \in [Flows -> BOOLEAN]
  BY DEF Reset, ResetStops, ResetTimesOut, SweepStep, PickEntry, SweepOne, SweepDone, Expire,
         Cancel, flowVars, TypeInv, TypeOK
<1>4. faults' \in Nat /\ cluster' \subseteq Objects
  <2>1. faults' = faults \/ faults' = faults + 1
    BY DEF Reset, ResetStops, ResetTimesOut, SweepStep, PickEntry, SweepOne, SweepDone, Expire,
           Cancel, ApiFails, ApiAnswers
  <2>2. cluster' \subseteq cluster
    BY DEF Reset, ResetStops, ResetTimesOut, SweepStep, PickEntry, SweepOne, SweepDone, Expire,
           Cancel
  <2> QED BY <2>1, <2>2 DEF TypeInv, TypeOK
<1>5. sweep' \in [Flows -> Sweeps]
  <2>1. sweep[f] \in Sweeps /\ sweep \in [Flows -> Sweeps] /\ sweep[f].loop \in Loops
    BY DEF TypeInv, TypeOK, Sweeps
  <2>2. Recorded \subseteq TaskIds
    BY DEF Recorded
  <2>3. CASE sweep' = sweep
    BY <2>1, <2>3
  <2>4. CASE Reset(f)
    <3>1. [NoSweep EXCEPT !.st = "iter", !.start = Recorded] \in Sweeps
      BY <2>2, NewLoopsTyped DEF NoSweep, Sweeps
    <3>2. sweep' = sweep \/ sweep' = [sweep EXCEPT ![f] = [NoSweep EXCEPT !.st = "iter", !.start = Recorded]]
      BY <2>4 DEF Reset
    <3> QED BY <2>1, <3>1, <3>2
  <2>5. CASE ResetStops(f) \/ SweepDone(f)
    BY <2>1, <2>5 DEF ResetStops, SweepDone, Sweeps
  <2>6. ASSUME NEW id \in TaskIds, PickEntry(f, id) PROVE sweep' \in [Flows -> Sweeps]
    <3>1. objInfo[id] \in Infos
      BY <2>6 DEF PickEntry, Recorded, TypeInv, TypeOK
    <3>2. LoopOver(objInfo[id].names, objInfo[id].tpls) \in Loops
      BY <3>1, NewLoopsTyped DEF Infos
    <3> QED BY <2>1, <2>6, <3>2 DEF PickEntry, Sweeps
  <2>7. CASE SweepOne(f)
    <3>1. Bump(sweep[f].loop) \in Loops
      BY <2>1, <2>7, CurrentInObjects DEF SweepOne
    <3> QED BY <2>1, <2>7, <3>1 DEF SweepOne, Sweeps
  <2> QED BY <2>3, <2>4, <2>5, <2>6, <2>7 DEF ResetTimesOut, Expire, Cancel, SweepStep
<1>6. TypeOK'
  BY <1>1, <1>2, <1>3, <1>4, <1>5 DEF TypeInv, TypeOK
<1>7. Grows /\ InfoNotEmpty'
  BY <1>1 DEF Grows, TypeInv, InfoNotEmpty
<1>8. TaskInRange' /\ KindAtLabel' /\ RefStaysResolved'
  <2>1. \A g \in Flows : pc'[g] \in Busy => pc'[g] = pc[g] /\ Task(g)' = Task(g)
    BY <1>1, <1>2 DEF Busy, Task
  <2>2. TaskInRange'
    BY <1>1, <2>1 DEF TypeInv, TaskInRange
  <2>3. KindAtLabel'
    BY <2>1 DEF TypeInv, KindAtLabel, Busy, Submitting
  <2>4. RefStaysResolved'
    BY <1>1, <2>1 DEF TypeInv, RefStaysResolved, RefKnown, Busy
  <2> QED BY <2>2, <2>3, <2>4
<1> QED BY <1>6, <1>7, <1>8 DEF TypeInv

LEMMA NextTypeInv == TypeInv /\ [Next]_vars => TypeInv'
<1> SUFFICES ASSUME TypeInv, [Next]_vars PROVE TypeInv'
  OBVIOUS
<1>1. CASE UNCHANGED vars
  BY <1>1 DEF vars, TypeInv, TypeOK, TaskInRange, KindAtLabel, RefStaysResolved, InfoNotEmpty,
              RefKnown, Task
<1>2. ASSUME NEW f \in Flows,
             Start(f) \/ RunStep(f) \/ SweepStep(f) \/ Expire(f) \/ Cancel(f)
      PROVE  TypeInv'
  BY <1>2, RunTypeInv, RegisterTypeInv, SubmitTypeInv, InfoTypeInv, ResetTypeInv
     DEF RunStep, InfoStep
<1> QED BY <1>1, <1>2 DEF Next

(* Type correctness for every instance (engine.go, types.go).              *)
THEOREM TypeCorrect == Spec => []TypeOK
<1>1. TypeInv => TypeOK
  BY DEF TypeInv
<1> QED BY <1>1, InitTypeInv, NextTypeInv, PTL DEF Spec

(* A reference GetTask has resolved stays resolved until Exec has used it, *)
(* although eng.mutex is released in between (engine.go:106, 215-258).     *)
THEOREM RefStaysResolvedAlways == Spec => []RefStaysResolved
<1>1. TypeInv => RefStaysResolved
  BY DEF TypeInv
<1> QED BY <1>1, InitTypeInv, NextTypeInv, PTL DEF Spec

-----------------------------------------------------------------------------
(* The registry records only what was created.  The strengthening: the     *)
(* submit loop has created everything before its position, and it runs     *)
(* over the templates of the registered shape.                             *)

Before(l, i, j) == i < l.i \/ (i = l.i /\ j < l.j)

LoopCreatedAt(f) ==
    /\ loop[f].tpls = objType[Task(f).ref].tpls
    /\ loop[f].j \in DOMAIN loop[f].tpls
    /\ pc[f] = "names" => loop[f].i = 1 /\ loop[f].j = 1
    /\ \A i \in DOMAIN loop[f].names, j \in DOMAIN loop[f].tpls :
         Before(loop[f], i, j) =>
           [by |-> f, at |-> idx[f], obj |-> Target(loop[f].tpls[j], loop[f].names[i])]
             \in created
LoopCreated == \A f \in Flows : pc[f] \in Submitting => LoopCreatedAt(f)

CreatedInv == TypeInv /\ LoopCreated /\ RecordedWasCreated

LEMMA BeforeBump ==
    ASSUME NEW l \in Loops, InLoop(l),
           NEW i \in DOMAIN l.names, NEW j \in DOMAIN l.tpls, Before(Bump(l), i, j)
    PROVE  Before(l, i, j) \/ (i = l.i /\ j = l.j)
<1>1. /\ l.i \in Nat /\ l.j \in Nat /\ i \in Nat /\ j \in 1..Len(l.tpls) /\ Len(l.tpls) \in Nat
  BY DEF Loops
<1>2. CASE l.j < Len(l.tpls)
  <2>1. Bump(l).i = l.i /\ Bump(l).j = l.j + 1
    BY <1>2 DEF Bump, Loops
  <2> QED BY <1>1, <2>1 DEF Before
<1>3. CASE ~(l.j < Len(l.tpls))
  <2>1. Bump(l).i = l.i + 1 /\ Bump(l).j = 1
    BY <1>3 DEF Bump, LoopOver
  <2>2. l.j = Len(l.tpls)
    BY <1>1, <1>3 DEF InLoop
  <2> QED BY <1>1, <2>1, <2>2 DEF Before
<1> QED BY <1>2, <1>3

LEMMA BumpKeeps ==
    ASSUME NEW l \in Loops, InLoop(l)
    PROVE  /\ Bump(l).names = l.names /\ Bump(l).tpls = l.tpls
           /\ Bump(l).j \in DOMAIN l.tpls
<1>1. l.j \in Nat \ {0} /\ Len(l.tpls) \in Nat /\ l.j <= Len(l.tpls)
      /\ DOMAIN l.tpls = 1..Len(l.tpls)
  BY DEF Loops, InLoop
<1>2. CASE l.j < Len(l.tpls)
  BY <1>1, <1>2 DEF Bump, Loops
<1>3. CASE ~(l.j < Len(l.tpls))
  <2>1. Bump(l).j = 1 /\ Bump(l).names = l.names /\ Bump(l).tpls = l.tpls
    BY <1>3 DEF Bump, LoopOver
  <2> QED BY <1>1, <2>1
<1> QED BY <1>2, <1>3

LEMMA OtherLoops ==
    ASSUME TypeInv, LoopCreated, Grows, prog' = prog, created \subseteq created', NEW f \in Flows,
           \A g \in Flows : g # f => pc'[g] = pc[g] /\ idx'[g] = idx[g] /\ loop'[g] = loop[g],
           pc'[f] \in Submitting => LoopCreatedAt(f)'
    PROVE  LoopCreated'
<1> SUFFICES ASSUME NEW g \in Flows, g # f, pc[g] \in Submitting PROVE LoopCreatedAt(g)'
  BY DEF LoopCreated
<1>1. LoopCreatedAt(g)
  BY DEF LoopCreated
<1>2. Task(g)' = Task(g) /\ Task(g) \in Tasks /\ Task(g).kind = "Submit"
  BY TaskTyped DEF Task, TypeInv, TaskInRange, KindAtLabel, Busy, Submitting
<1>3. objType[Task(g).ref] # None
  BY <1>2 DEF TypeInv, RefStaysResolved, RefKnown, Submitting
<1>4. objType'[Task(g).ref] = objType[Task(g).ref]
  BY <1>2, <1>3 DEF Grows, Tasks
<1> QED BY <1>1, <1>2, <1>4 DEF LoopCreatedAt, Before

LEMMA RecordedKept ==
    ASSUME RecordedWasCreated, objInfo' = objInfo, prog' = prog, created \subseteq created'
    PROVE  RecordedWasCreated'
BY DEF RecordedWasCreated, Recorded, Targets

(* Steps that are not part of a submit loop.                               *)
LEMMA QuietStep ==
    ASSUME CreatedInv, NEW f \in Flows,
           \/ Start(f) \/ EndOfTasks(f) \/ GetTask(f) \/ RunLocal(f) \/ WorkDone(f) \/ CheckFails(f)
           \/ RegisterStep(f) \/ GetObjInfo(f) \/ WorkOnObject(f)
           \/ Reset(f) \/ ResetStops(f) \/ ResetTimesOut(f) \/ SweepStep(f)
           \/ Expire(f) \/ Cancel(f)
    PROVE  LoopCreated' /\ RecordedWasCreated'
<1>1. objInfo' = objInfo /\ prog' = prog /\ created' = created
  BY DEF Start, EndOfTasks, GetTask, RunLocal, WorkDone, CheckFails, RegisterStep, Discover,
         SetObjType, GetObjInfo, WorkOnObject, Reset, ResetStops, ResetTimesOut, SweepStep,
         PickEntry, SweepOne, SweepDone, Expire, Cancel, flowVars, unchangedRegistry,
         unchangedReset
<1>2. RecordedWasCreated'
  BY <1>1, RecordedKept DEF CreatedInv
<1>3. Grows
  <2>1. objType' = objType \/ SetObjType(f)
    BY DEF Start, EndOfTasks, GetTask, RunLocal, WorkDone, CheckFails, RegisterStep, Discover,
           GetObjInfo, WorkOnObject, Reset, ResetStops, ResetTimesOut, SweepStep,
           PickEntry, SweepOne, SweepDone, Expire, Cancel, unchangedRegistry
  <2>2. SetObjType(f) => \A id \in TaskIds : objType[id] # None => objType'[id] = objType[id]
    BY DEF SetObjType, CreatedInv, TypeInv, TypeOK
  <2> QED BY <1>1, <2>1, <2>2 DEF Grows
<1>4. /\ \A g \in Flows : g # f => pc'[g] = pc[g] /\ idx'[g] = idx[g] /\ loop'[g] = loop[g]
      /\ pc'[f] \in Submitting => pc' = pc /\ idx' = idx /\ loop' = loop /\ objType' = objType
  <2>1. CASE \/ Start(f) \/ EndOfTasks(f) \/ GetTask(f) \/ RunLocal(f) \/ WorkDone(f)
             \/ CheckFails(f)
    BY <2>1 DEF Start, EndOfTasks, GetTask, RunLocal, WorkDone, CheckFails, Advance, Fail, Goto,
                CreatedInv, TypeInv, TypeOK, Submitting
  <2>2. CASE RegisterStep(f)
    BY <2>2 DEF RegisterStep, Discover, SetObjType, Advance, Fail, Goto,
                CreatedInv, TypeInv, TypeOK, Submitting
  <2>3. CASE GetObjInfo(f)
    BY <2>3 DEF GetObjInfo, Fail, Goto, CreatedInv, TypeInv, TypeOK, Submitting
  <2>4. CASE WorkOnObject(f)
    BY <2>4 DEF WorkOnObject, Fail, Goto, At, CreatedInv, TypeInv, TypeOK, Submitting
  <2>5. CASE \/ Reset(f) \/ ResetStops(f) \/ ResetTimesOut(f) \/ SweepStep(f)
             \/ Expire(f) \/ Cancel(f)
    BY <2>5 DEF Reset, ResetStops, ResetTimesOut, SweepStep, PickEntry, SweepOne, SweepDone,
                Expire, Cancel, flowVars, Goto, unchangedRegistry,
                CreatedInv, TypeInv, TypeOK, Submitting
  <2> QED BY <2>1, <2>2, <2>3, <2>4, <2>5
<1>5. pc'[f] \in Submitting => LoopCreatedAt(f)'
  BY <1>1, <1>4 DEF CreatedInv, LoopCreated, LoopCreatedAt, Task
<1>6. LoopCreated'
  BY <1>1, <1>3, <1>4, <1>5, OtherLoops DEF CreatedInv
<1> QED BY <1>2, <1>6

LEMMA SubmitLoopStep ==
    ASSUME CreatedInv, NEW f \in Flows,
           GetObjType(f) \/ GenerateName(f) \/ NamesReady(f) \/ GetExisting(f) \/ Create(f)
    PROVE  LoopCreated' /\ RecordedWasCreated'
<1>1. TypeInv
  BY DEF CreatedInv
<1>2. /\ UNCHANGED <<prog, objType, objInfo>>
      /\ objType[Task(f).ref] \in Shapes
      /\ pc'[f] \in Submitting => idx' = idx
      /\ \A g \in Flows : g # f => pc'[g] = pc[g] /\ idx'[g] = idx[g]
  BY <1>1, SubmitControl
<1>3. created \subseteq created'
  BY DEF GetObjType, GenerateName, NamesReady, GetExisting, Create
<1>4. RecordedWasCreated'
  BY <1>2, <1>3, RecordedKept DEF CreatedInv
<1>5. \A g \in Flows : g # f => loop'[g] = loop[g]
  BY <1>1 DEF GetObjType, GenerateName, NamesReady, GetExisting, Create, Advance, Fail,
              TypeInv, TypeOK
<1>6. Grows
  BY <1>2 DEF Grows
<1>7. loop[f] \in Loops /\ f \in DOMAIN loop /\ f \in DOMAIN pc
  BY <1>1 DEF TypeInv, TypeOK
<1>8. ASSUME pc'[f] \in Submitting PROVE LoopCreatedAt(f)'
  <2>1. Task(f)' = Task(f) /\ idx' = idx
    BY <1>2, <1>8 DEF Task
  <2>2. CASE GetObjType(f)
    <3> DEFINE ts == objType[Task(f).ref].tpls
    <3>1. pc'[f] = "names" /\ loop'[f] = LoopOver(<<>>, ts)
      BY <1>7, <1>8, <2>2 DEF GetObjType, Fail, Goto, Submitting
    <3>2. 1 \in DOMAIN ts
      <4>1. ts \in Seq(Templates) /\ ts # <<>>
        BY <1>2, ShapesAssumption DEF ShapeType
      <4> HIDE DEF ts
      <4> QED BY <4>1
    <3>3. /\ loop'[f].names = <<>> /\ loop'[f].tpls = ts
          /\ loop'[f].i = 1 /\ loop'[f].j = 1
      BY <3>1 DEF LoopOver
    <3> QED BY <1>2, <2>1, <3>2, <3>3 DEF LoopCreatedAt
  <2>3. CASE GenerateName(f)
    <3>1. pc' = pc /\ pc[f] = "names" /\ created' = created
      BY <2>3 DEF GenerateName, At
    <3>2. \E n : loop'[f] = [loop[f] EXCEPT !.names = Append(loop[f].names, n)]
      BY <1>7, <2>3 DEF GenerateName
    <3>3. loop'[f].i = loop[f].i /\ loop'[f].j = loop[f].j /\ loop'[f].tpls = loop[f].tpls
      BY <1>7, <3>2 DEF Loops
    <3>4. LoopCreatedAt(f)
      BY <3>1 DEF CreatedInv, LoopCreated, Submitting
    <3>5. loop[f].i = 1 /\ loop[f].j = 1
      BY <3>1, <3>4 DEF LoopCreatedAt
    <3>6. \A i \in DOMAIN loop'[f].names, j \in DOMAIN loop'[f].tpls : ~Before(loop'[f], i, j)
      <4>1. loop'[f] \in Loops
        BY <1>1, <2>3, SubmitLoopTyped
      <4>2. \A i \in DOMAIN loop'[f].names : i \in Nat \ {0}
        BY <4>1 DEF Loops
      <4>3. \A j \in DOMAIN loop'[f].tpls : j \in Nat \ {0}
        BY <4>1 DEF Loops
      <4> QED BY <3>3, <3>5, <4>2, <4>3 DEF Before
    <3>7. loop'[f].tpls = objType'[Task(f)'.ref].tpls
      BY <1>2, <2>1, <3>3, <3>4 DEF LoopCreatedAt
    <3>8. loop'[f].j \in DOMAIN loop'[f].tpls /\ loop'[f].i = 1 /\ loop'[f].j = 1
      BY <3>3, <3>4, <3>5 DEF LoopCreatedAt
    <3> QED BY <3>6, <3>7, <3>8 DEF LoopCreatedAt
  <2>4. CASE NamesReady(f) \/ GetExisting(f)
    <3>1. loop' = loop /\ created' = created /\ pc[f] \in Submitting /\ pc'[f] # "names"
      BY <1>7, <1>8, <2>4 DEF NamesReady, GetExisting, Advance, Goto, At, Submitting
    <3>2. LoopCreatedAt(f)
      BY <3>1 DEF CreatedInv, LoopCreated
    <3> QED BY <1>2, <2>1, <3>1, <3>2 DEF LoopCreatedAt, Before
  <2>5. CASE Create(f)
    <3>1. /\ pc'[f] = "submit" /\ pc[f] \in Submitting /\ InLoop(loop[f])
          /\ loop'[f] = Bump(loop[f])
          /\ created' = created \cup {[by |-> f, at |-> idx[f], obj |-> Current(loop[f])]}
      BY <1>7, <1>8, <2>5 DEF Create, Fail, Goto, At, Submitting
    <3>2. LoopCreatedAt(f)
      BY <3>1 DEF CreatedInv, LoopCreated
    <3>3. /\ loop'[f].names = loop[f].names /\ loop'[f].tpls = loop[f].tpls
          /\ loop'[f].j \in DOMAIN loop[f].tpls
      BY <1>7, <3>1, BumpKeeps
    <3>4. ASSUME NEW i \in DOMAIN loop[f].names, NEW j \in DOMAIN loop[f].tpls,
                 Before(loop'[f], i, j)
          PROVE  [by |-> f, at |-> idx[f], obj |-> Target(loop[f].tpls[j], loop[f].names[i])]
                   \in created'
      <4>1. Before(loop[f], i, j) \/ (i = loop[f].i /\ j = loop[f].j)
        BY <1>7, <3>1, <3>4, BeforeBump
      <4> QED BY <3>1, <3>2, <4>1 DEF LoopCreatedAt, Current
    <3> QED BY <1>2, <2>1, <3>1, <3>2, <3>3, <3>4 DEF LoopCreatedAt
  <2> QED BY <2>2, <2>3, <2>4, <2>5
<1>9. LoopCreated'
  BY <1>1, <1>2, <1>3, <1>5, <1>6, <1>8, OtherLoops DEF CreatedInv
<1> QED BY <1>4, <1>9

LEMMA SetObjInfoStep ==
    ASSUME CreatedInv, NEW f \in Flows, SetObjInfo(f)
    PROVE  LoopCreated' /\ RecordedWasCreated'
<1>1. TypeInv /\ TypeInv'
  BY SubmitTypeInv DEF CreatedInv, SubmitStep
<1>2. /\ UNCHANGED <<prog, objType, created>> /\ pc'[f] \notin Submitting
      /\ \A g \in Flows : g # f => pc'[g] = pc[g] /\ idx'[g] = idx[g] /\ loop'[g] = loop[g]
  BY <1>1 DEF SetObjInfo, Advance, Fail, Goto, unchangedReset, TypeInv, TypeOK, Submitting
<1> DEFINE t == Task(f)
           shape == objType[t.ref]
           info == NewObjInfo(shape, loop[f].names)
<1>3. \/ objInfo' = objInfo
      \/ objInfo[t.id] = None /\ objInfo' = [objInfo EXCEPT ![t.id] = info]
  BY DEF SetObjInfo
<1>4. pc[f] = "submit" /\ ~InLoop(loop[f]) /\ idx[f] \in DOMAIN prog[f] /\ t \in Tasks
  BY <1>1, TaskTyped DEF SetObjInfo, At, TypeInv, TaskInRange, Busy
<1>5. shape \in Shapes
  BY <1>1, <1>4 DEF TypeInv, RefStaysResolved, RefKnown, KindAtLabel, Submitting, TypeOK, Tasks
<1>6. Grows
  <2> HIDE DEF info, t
  <2> QED BY <1>1, <1>2, <1>3 DEF Grows, TypeInv, TypeOK
<1>7. LoopCreated'
  BY <1>1, <1>2, <1>6, OtherLoops DEF CreatedInv
<1>8. CASE objInfo' = objInfo
  BY <1>2, <1>7, <1>8, RecordedKept DEF CreatedInv
<1>9. CASE objInfo' = [objInfo EXCEPT ![t.id] = info]
  <2>1. LoopCreatedAt(f) /\ loop[f] \in Loops
    BY <1>1, <1>4 DEF CreatedInv, LoopCreated, Submitting, TypeInv, TypeOK
  <2>2. \A i \in DOMAIN loop[f].names, j \in DOMAIN shape.tpls :
          [by |-> f, at |-> idx[f], obj |-> Target(shape.tpls[j], loop[f].names[i])] \in created
    <3>1. loop[f].tpls = shape.tpls /\ loop[f].j \in DOMAIN loop[f].tpls
      BY <2>1 DEF LoopCreatedAt
    <3>2. loop[f].j <= Len(loop[f].tpls)
      BY <2>1, <3>1 DEF Loops
    <3>3. loop[f].i > Len(loop[f].names)
      BY <1>4, <2>1, <3>2 DEF InLoop, Loops
    <3>4. \A i \in DOMAIN loop[f].names, j \in DOMAIN loop[f].tpls : Before(loop[f], i, j)
      BY <2>1, <3>3 DEF Loops, Before
    <3> QED BY <2>1, <3>1, <3>4 DEF LoopCreatedAt
  <2>3. ASSUME UniformShapes, NEW o \in Targets(info), o.name # Blank
        PROVE  \E c \in created : c.obj = o /\ prog[c.by][c.at].id = t.id
    <3>1. shape.tpls \in Seq(Templates) /\ shape.tpls # <<>>
      BY <1>5, ShapesAssumption DEF ShapeType
    <3>2. 1 \in DOMAIN shape.tpls
      BY <3>1
    <3>3. PICK i \in DOMAIN info.names, j \in DOMAIN info.tpls :
                 o = Target(info.tpls[j], info.names[i])
      BY <2>3 DEF Targets
    <3>4. j \in DOMAIN shape.tpls /\ i \in DOMAIN loop[f].names
      BY <3>3 DEF NewObjInfo
    <3>5. info.tpls[j].gvr = shape.tpls[j].gvr /\ info.tpls[j].ns = shape.tpls[1].ns
      BY <3>4 DEF NewObjInfo
    <3>6. shape.tpls[1].ns = shape.tpls[j].ns
      BY <1>5, <2>3, <3>2, <3>4 DEF UniformShapes, Uniform
    <3>7. info.names[i] = loop[f].names[i]
      <4>1. o.name = info.names[i]
        BY <3>3 DEF Target
      <4>2. shape.named # "none"
        BY <2>3, <3>4, <4>1 DEF NewObjInfo
      <4> QED BY <4>2 DEF NewObjInfo
    <3>8. o = Target(shape.tpls[j], loop[f].names[i])
      BY <3>3, <3>5, <3>6, <3>7 DEF Target
    <3>9. [by |-> f, at |-> idx[f], obj |-> o] \in created
      BY <2>2, <3>4, <3>8
    <3> QED BY <3>9 DEF Task
  <2>4. RecordedWasCreated'
    <3> HIDE DEF info
    <3> SUFFICES ASSUME UniformShapes, NEW id \in Recorded', NEW o \in Targets(objInfo'[id]),
                        o.name # Blank
                 PROVE  \E c \in created : c.obj = o /\ prog[c.by][c.at].id = id
      BY <1>2 DEF RecordedWasCreated, Targets
    <3>1. CASE id = t.id
      BY <1>1, <1>4, <1>9, <2>3, <3>1 DEF TypeInv, TypeOK, Tasks
    <3>2. CASE id # t.id
      <4>1. id \in Recorded /\ objInfo'[id] = objInfo[id]
        BY <1>1, <1>9, <3>2 DEF Recorded, TypeInv, TypeOK
      <4> QED BY <4>1 DEF CreatedInv, RecordedWasCreated
    <3> QED BY <3>1, <3>2
  <2> QED BY <1>7, <2>4
<1> QED BY <1>3, <1>8, <1>9

LEMMA InitCreatedInv == Init => CreatedInv
<1>1. Init => LoopCreated /\ RecordedWasCreated
  BY DEF Init, LoopCreated, RecordedWasCreated, Recorded, Submitting
<1> QED BY <1>1, InitTypeInv DEF CreatedInv

LEMMA NextCreatedInv == CreatedInv /\ [Next]_vars => CreatedInv'
<1> SUFFICES ASSUME CreatedInv, [Next]_vars PROVE CreatedInv'
  OBVIOUS
<1>1. TypeInv'
  BY NextTypeInv DEF CreatedInv
<1>2. CASE UNCHANGED vars
  <2>1. RecordedWasCreated'
    BY <1>2, RecordedKept DEF vars, CreatedInv
  <2>2. LoopCreated'
    <3>1. UNCHANGED <<pc, prog, idx, loop, objType, created>>
      BY <1>2 DEF vars, flowVars
    <3>2. LoopCreated
      BY DEF CreatedInv
    <3>3. \A f : Task(f)' = Task(f)
      BY <3>1 DEF Task
    <3>4. \A f : LoopCreatedAt(f)' <=> LoopCreatedAt(f)
      BY <3>1, <3>3 DEF LoopCreatedAt, Before
    <3> QED BY <3>1, <3>2, <3>4 DEF LoopCreated
  <2> QED BY <1>1, <2>1, <2>2 DEF CreatedInv
<1>3. ASSUME NEW f \in Flows,
             Start(f) \/ RunStep(f) \/ SweepStep(f) \/ Expire(f) \/ Cancel(f)
      PROVE  LoopCreated' /\ RecordedWasCreated'
  BY <1>3, QuietStep, SubmitLoopStep, SetObjInfoStep DEF RunStep, InfoStep, SubmitStep
<1> QED BY <1>1, <1>2, <1>3 DEF Next, CreatedInv

(* The registry of submitted objects only names objects that a task with   *)
(* that id created, in every instance whose templates share a namespace.   *)
THEOREM RecordedWasCreatedAlways == Spec => []RecordedWasCreated
<1>1. CreatedInv => RecordedWasCreated
  BY DEF CreatedInv
<1> QED BY <1>1, InitCreatedInv, NextCreatedInv, PTL DEF Spec

-----------------------------------------------------------------------------
(* Deletions stay within what was created: DeleteObj and the cleanup loop  *)
(* over a recorded entry, and no object in the cluster has a blank name.   *)

WorkAims ==
    \A f \in Flows : pc[f] = "work" /\ Task(f).kind = "Delete" =>
      /\ loop[f].names = objInfo[Task(f).ref].names
      /\ loop[f].tpls = objInfo[Task(f).ref].tpls
SweepAims ==
    \A f \in Flows : InLoop(sweep[f].loop) => \E id \in Recorded :
      /\ sweep[f].loop.names = objInfo[id].names
      /\ sweep[f].loop.tpls = objInfo[id].tpls
NoBlankName ==
    /\ \A o \in cluster : o.name # Blank
    /\ \A f \in Flows : pc[f] \in Submitting =>
         \A i \in DOMAIN loop[f].names : loop[f].names[i] # Blank

AimInv == CreatedInv /\ WorkAims /\ SweepAims /\ NoBlankName

LEMMA CurrentIsTarget ==
    ASSUME NEW l \in Loops, InLoop(l), NEW info, l.names = info.names, l.tpls = info.tpls
    PROVE  Current(l) \in Targets(info)
<1>1. l.i \in DOMAIN l.names /\ l.j \in DOMAIN l.tpls
  BY DEF Loops, InLoop
<1> QED BY <1>1 DEF Current, Targets

LEMMA AimedAtOwn ==
    ASSUME AimInv, UniformShapes, NEW id \in Recorded, NEW o \in Targets(objInfo[id]), o \in cluster
    PROVE  \E c \in created : c.obj = o
BY DEF AimInv, CreatedInv, RecordedWasCreated, NoBlankName

LEMMA InitAimInv == Init => AimInv
<1> SUFFICES ASSUME Init PROVE AimInv
  OBVIOUS
<1>1. WorkAims
  BY DEF Init, WorkAims
<1>2. SweepAims
  BY NewLoopsTyped DEF Init, SweepAims, NoSweep
<1>3. NoBlankName
  <2>1. \A o \in Foreign : o.name = 0
    BY ForeignAssumption
  <2>2. cluster \subseteq Foreign
    BY DEF Init
  <2>3. \A o \in cluster : o.name # Blank
    BY <2>1, <2>2 DEF Blank
  <2>4. \A f \in Flows : pc[f] \notin Submitting
    BY DEF Init, Submitting
  <2> QED BY <2>3, <2>4 DEF NoBlankName
<1> QED BY <1>1, <1>2, <1>3, InitCreatedInv DEF AimInv

LEMMA NextWorkAims == ASSUME AimInv, NEW f \in Flows,
             Start(f) \/ RunStep(f) \/ SweepStep(f) \/ Expire(f) \/ Cancel(f)
      PROVE  WorkAims'
<1>1. TypeInv
  BY DEF AimInv, CreatedInv
<1>2. prog' = prog /\ \A id \in TaskIds : objInfo[id] # None => objInfo'[id] = objInfo[id]
  BY <1>1 DEF Start, RunStep, EndOfTasks, GetTask, RegisterStep, Discover, SetObjType, SubmitStep,
         GetObjType, GenerateName, NamesReady, GetExisting, Create, SetObjInfo, InfoStep,
         GetObjInfo, WorkOnObject, WorkDone, CheckFails, RunLocal, Reset, ResetStops,
         ResetTimesOut, SweepStep, PickEntry, SweepOne, SweepDone, Expire, Cancel, flowVars,
         unchangedRegistry, unchangedReset, TypeInv, TypeOK
<1>3. \A g \in Flows : g # f => pc'[g] = pc[g] /\ idx'[g] = idx[g] /\ loop'[g] = loop[g]
  BY <1>1 DEF Start, RunStep, EndOfTasks, GetTask, RegisterStep, Discover, SetObjType, SubmitStep,
         GetObjType, GenerateName, NamesReady, GetExisting, Create, SetObjInfo, InfoStep,
         GetObjInfo, WorkOnObject, WorkDone, CheckFails, RunLocal, Reset, ResetStops,
         ResetTimesOut, SweepStep, PickEntry, SweepOne, SweepDone, Expire, Cancel, flowVars,
         Advance, Fail, Goto, TypeInv, TypeOK
<1>4. ASSUME NEW g \in Flows, pc[g] = "work"
      PROVE  Task(g) \in Tasks /\ objInfo'[Task(g).ref] = objInfo[Task(g).ref]
  BY <1>1, <1>2, <1>4, TaskTyped
     DEF TypeInv, TaskInRange, KindAtLabel, RefStaysResolved, RefKnown, Busy, Tasks
<1>5. \/ pc'[f] # "work"
      \/ pc[f] = "work" /\ idx' = idx /\ loop' = loop
      \/ WorkOnObject(f) /\ idx' = idx /\ pc[f] = "work" /\ loop'[f] = Bump(loop[f])
           /\ InLoop(loop[f])
      \/ GetObjInfo(f) /\ idx' = idx /\ objInfo' = objInfo
           /\ (Task(f).kind = "Delete" =>
                 loop'[f] = LoopOver(objInfo[Task(f).ref].names, objInfo[Task(f).ref].tpls))
  <2>1. CASE Start(f) \/ EndOfTasks(f) \/ GetTask(f) \/ RegisterStep(f) \/ RunLocal(f)
    BY <1>1, <2>1 DEF Start, EndOfTasks, GetTask, RegisterStep, Discover, SetObjType, RunLocal,
         Advance, Fail, Goto, TypeInv, TypeOK
  <2>2. CASE SubmitStep(f)
    BY <1>1, <2>2 DEF SubmitStep, GetObjType, GenerateName, NamesReady, GetExisting, Create,
         SetObjInfo, Advance, Fail, Goto, At, TypeInv, TypeOK
  <2>3. CASE GetObjInfo(f)
    BY <1>1, <2>3 DEF GetObjInfo, Fail, Goto, unchangedRegistry, TypeInv, TypeOK
  <2>4. CASE WorkOnObject(f) \/ WorkDone(f) \/ CheckFails(f)
    BY <1>1, <2>4 DEF WorkOnObject, WorkDone, CheckFails, Advance, Fail, Goto, At, TypeInv, TypeOK
  <2>5. CASE Reset(f) \/ ResetStops(f) \/ ResetTimesOut(f) \/ SweepStep(f) \/ Expire(f) \/ Cancel(f)
    BY <1>1, <2>5 DEF Reset, ResetStops, ResetTimesOut, SweepStep, PickEntry, SweepOne, SweepDone,
         Expire, Cancel, flowVars, Goto, TypeInv, TypeOK
  <2> QED BY <2>1, <2>2, <2>3, <2>4, <2>5 DEF RunStep, InfoStep
<1> SUFFICES ASSUME NEW g \in Flows, pc'[g] = "work", Task(g)'.kind = "Delete"
             PROVE  /\ loop'[g].names = objInfo'[Task(g)'.ref].names
                    /\ loop'[g].tpls = objInfo'[Task(g)'.ref].tpls
  BY DEF WorkAims
<1>6. Task(g)' = Task(g)
  BY <1>2, <1>3, <1>5 DEF Task
<1>7. CASE g # f
  BY <1>3, <1>4, <1>6, <1>7 DEF AimInv, WorkAims
<1>8. CASE g = f /\ pc[f] = "work" /\ loop' = loop
  BY <1>4, <1>6, <1>8 DEF AimInv, WorkAims
<1>9. CASE g = f /\ pc[f] = "work" /\ loop'[f] = Bump(loop[f]) /\ InLoop(loop[f])
  <2>1. loop[f] \in Loops
    BY <1>1 DEF TypeInv, TypeOK
  <2> QED BY <1>4, <1>6, <1>9, <2>1, BumpKeeps DEF AimInv, WorkAims
<1>10. CASE g = f /\ objInfo' = objInfo /\
            loop'[f] = LoopOver(objInfo[Task(f).ref].names, objInfo[Task(f).ref].tpls)
  BY <1>6, <1>10 DEF LoopOver
<1> QED BY <1>5, <1>6, <1>7, <1>8, <1>9, <1>10

LEMMA NextSweepAims ==
    ASSUME AimInv, NEW f \in Flows,
           Start(f) \/ RunStep(f) \/ SweepStep(f) \/ Expire(f) \/ Cancel(f)
    PROVE  SweepAims'
<1>1. TypeInv
  BY DEF AimInv, CreatedInv
<1>2. \A id \in Recorded : id \in Recorded' /\ objInfo'[id] = objInfo[id]
  BY <1>1 DEF Start, RunStep, EndOfTasks, GetTask, RegisterStep, Discover, SetObjType, SubmitStep,
         GetObjType, GenerateName, NamesReady, GetExisting, Create, SetObjInfo, InfoStep,
         GetObjInfo, WorkOnObject, WorkDone, CheckFails, RunLocal, Reset, ResetStops,
         ResetTimesOut, SweepStep, PickEntry, SweepOne, SweepDone, Expire, Cancel,
         unchangedRegistry, Recorded, TypeInv, TypeOK
<1>3. sweep[f] \in Sweeps /\ sweep[f].loop \in Loops /\ f \in DOMAIN sweep
  BY <1>1 DEF TypeInv, TypeOK, Sweeps
<1>4. /\ \A g \in Flows : g # f => sweep'[g] = sweep[g]
      /\ \/ sweep'[f].loop = sweep[f].loop
         \/ sweep'[f].loop = NoLoop
         \/ SweepOne(f) /\ sweep'[f].loop = Bump(sweep[f].loop) /\ InLoop(sweep[f].loop)
         \/ \E id \in Recorded : sweep'[f].loop = LoopOver(objInfo[id].names, objInfo[id].tpls)
  <2>1. CASE Start(f) \/ EndOfTasks(f) \/ GetTask(f) \/ RegisterStep(f) \/ RunLocal(f)
             \/ SubmitStep(f) \/ InfoStep(f) \/ ResetTimesOut(f) \/ Expire(f) \/ Cancel(f)
    BY <2>1 DEF Start, EndOfTasks, GetTask, RegisterStep, Discover, SetObjType, SubmitStep,
         GetObjType, GenerateName, NamesReady, GetExisting, Create, SetObjInfo, InfoStep,
         GetObjInfo, WorkOnObject, WorkDone, CheckFails, RunLocal, ResetTimesOut, Expire, Cancel,
         unchangedReset
  <2>2. CASE Reset(f)
    BY <1>1, <1>3, <2>2 DEF Reset, NoSweep, TypeInv, TypeOK
  <2>3. CASE ResetStops(f) \/ SweepDone(f)
    BY <1>1, <1>3, <2>3 DEF ResetStops, SweepDone, TypeInv, TypeOK, Sweeps
  <2>4. CASE \E id \in TaskIds : PickEntry(f, id)
    BY <1>1, <1>3, <2>4 DEF PickEntry, TypeInv, TypeOK, Sweeps
  <2>5. CASE SweepOne(f)
    BY <1>1, <1>3, <2>5 DEF SweepOne, TypeInv, TypeOK, Sweeps
  <2> QED BY <2>1, <2>2, <2>3, <2>4, <2>5 DEF RunStep, SweepStep
<1> SUFFICES ASSUME NEW g \in Flows, InLoop(sweep'[g].loop)
             PROVE  \E id \in Recorded' :
                      /\ sweep'[g].loop.names = objInfo'[id].names
                      /\ sweep'[g].loop.tpls = objInfo'[id].tpls
  BY DEF SweepAims, InLoop
<1>5. CASE sweep'[g].loop = sweep[g].loop
  BY <1>2, <1>5 DEF AimInv, SweepAims
<1>6. CASE sweep'[g].loop = NoLoop
  BY <1>6, NewLoopsTyped
<1>7. CASE g = f /\ sweep'[f].loop = Bump(sweep[f].loop) /\ InLoop(sweep[f].loop)
  BY <1>2, <1>3, <1>7, BumpKeeps DEF AimInv, SweepAims
<1>8. ASSUME NEW id \in Recorded, g = f,
             sweep'[f].loop = LoopOver(objInfo[id].names, objInfo[id].tpls)
      PROVE  \E jd \in Recorded' :
               /\ sweep'[g].loop.names = objInfo'[jd].names
               /\ sweep'[g].loop.tpls = objInfo'[jd].tpls
  BY <1>2, <1>8 DEF LoopOver
<1> QED BY <1>4, <1>5, <1>6, <1>7, <1>8

LEMMA NextNoBlankName ==
    ASSUME AimInv, NEW f \in Flows,
           Start(f) \/ RunStep(f) \/ SweepStep(f) \/ Expire(f) \/ Cancel(f)
    PROVE  NoBlankName'
<1>1. TypeInv
  BY DEF AimInv, CreatedInv
<1>2. loop[f] \in Loops /\ f \in DOMAIN loop /\ f \in DOMAIN pc
  BY <1>1 DEF TypeInv, TypeOK
<1>3. CASE GetObjType(f) \/ GenerateName(f) \/ NamesReady(f) \/ GetExisting(f) \/ Create(f)
  <2>1. \A g \in Flows : g # f => pc'[g] = pc[g] /\ loop'[g] = loop[g]
    BY <1>1, <1>3 DEF GetObjType, GenerateName, NamesReady, GetExisting, Create, Advance, Fail,
              Goto, TypeInv, TypeOK
  <2>2. ASSUME pc'[f] \in Submitting, NEW i \in DOMAIN loop'[f].names
        PROVE  loop'[f].names[i] # Blank
    <3>1. CASE GetObjType(f)
      BY <1>2, <2>2, <3>1 DEF GetObjType, Fail, Goto, LoopOver, Submitting
    <3>2. CASE GenerateName(f)
      <4> DEFINE named == objType[Task(f).ref].named
                 count == IF named = "none" THEN objID ELSE objID + 1
                 n == IF named = "enum" THEN count ELSE 0
      <4>0. n \in Nat
        BY <1>1 DEF TypeInv, TypeOK
      <4>1. loop'[f] = [loop[f] EXCEPT !.names = Append(loop[f].names, n)]
        BY <1>2, <3>2 DEF GenerateName
      <4> HIDE DEF n
      <4>2. loop'[f].names = Append(loop[f].names, n) /\ loop[f].names \in Seq(Names)
        BY <1>2, <4>1 DEF Loops
      <4>3. \A k \in DOMAIN loop[f].names : loop[f].names[k] # Blank
        BY <3>2 DEF GenerateName, At, AimInv, NoBlankName, Submitting
      <4>4. i \in 1..(Len(loop[f].names) + 1)
        BY <2>2, <4>2
      <4> QED BY <4>0, <4>2, <4>3, <4>4 DEF Blank
    <3>3. CASE NamesReady(f) \/ GetExisting(f)
      BY <1>2, <2>2, <3>3 DEF NamesReady, GetExisting, Advance, Goto, At, AimInv, NoBlankName,
                              Submitting
    <3>4. CASE Create(f)
      <4>1. pc[f] \in Submitting /\ loop'[f] = Bump(loop[f]) /\ InLoop(loop[f])
        BY <1>2, <2>2, <3>4 DEF Create, Fail, Goto, At, Submitting
      <4> QED BY <1>2, <2>2, <4>1, BumpKeeps DEF AimInv, NoBlankName
    <3> QED BY <1>3, <3>1, <3>2, <3>3, <3>4
  <2>3. \A o \in cluster' : o.name # Blank
    <3>1. CASE cluster' = cluster
      BY <3>1 DEF AimInv, NoBlankName
    <3>2. CASE Create(f) /\ cluster' = cluster \cup {Current(loop[f])}
      <4>1. InLoop(loop[f]) /\ pc[f] \in Submitting
        BY <3>2 DEF Create, At, Submitting
      <4>2. loop[f].i \in DOMAIN loop[f].names
        BY <1>2, <4>1 DEF Loops, InLoop
      <4>3. loop[f].names[loop[f].i] # Blank
        BY <4>1, <4>2 DEF AimInv, NoBlankName
      <4>4. Current(loop[f]).name # Blank
        BY <4>3 DEF Current, Target
      <4> QED BY <3>2, <4>4 DEF AimInv, NoBlankName
    <3> QED BY <1>3, <3>1, <3>2 DEF GetObjType, GenerateName, NamesReady, GetExisting, Create
  <2> QED BY <2>1, <2>2, <2>3 DEF AimInv, NoBlankName
<1>4. CASE ~(GetObjType(f) \/ GenerateName(f) \/ NamesReady(f) \/ GetExisting(f) \/ Create(f))
  <2>1. cluster' \subseteq cluster
    BY <1>4 DEF Start, RunStep, EndOfTasks, GetTask, RegisterStep, Discover, SetObjType, SubmitStep,
         SetObjInfo, InfoStep, GetObjInfo, WorkOnObject, WorkDone, CheckFails, RunLocal, Reset,
         ResetStops, ResetTimesOut, SweepStep, PickEntry, SweepOne, SweepDone, Expire, Cancel
  <2>2. /\ \A g \in Flows : g # f => pc'[g] = pc[g] /\ loop'[g] = loop[g]
        /\ pc'[f] \in Submitting => pc'[f] = pc[f] /\ loop'[f] = loop[f]
    <3>1. CASE Start(f) \/ EndOfTasks(f) \/ GetTask(f) \/ RegisterStep(f) \/ RunLocal(f)
      BY <1>1, <3>1 DEF Start, EndOfTasks, GetTask, RegisterStep, Discover, SetObjType, RunLocal,
           Advance, Fail, Goto, TypeInv, TypeOK, Submitting
    <3>2. CASE SetObjInfo(f)
      BY <1>1, <3>2 DEF SetObjInfo, Advance, Fail, Goto, TypeInv, TypeOK, Submitting
    <3>3. CASE InfoStep(f)
      BY <1>1, <3>3 DEF InfoStep, GetObjInfo, WorkOnObject, WorkDone, CheckFails, Advance, Fail,
           Goto, At, TypeInv, TypeOK, Submitting
    <3>4. CASE Reset(f) \/ ResetStops(f) \/ ResetTimesOut(f) \/ SweepStep(f) \/ Expire(f) \/ Cancel(f)
      BY <1>1, <3>4 DEF Reset, ResetStops, ResetTimesOut, SweepStep, PickEntry, SweepOne, SweepDone,
           Expire, Cancel, flowVars, Goto, TypeInv, TypeOK, Submitting
    <3> QED BY <1>4, <3>1, <3>2, <3>3, <3>4 DEF RunStep, SubmitStep
  <2> QED BY <2>1, <2>2 DEF AimInv, NoBlankName
<1> QED BY <1>3, <1>4

LEMMA NextAimInv == AimInv /\ [Next]_vars => AimInv'
<1> SUFFICES ASSUME AimInv, [Next]_vars PROVE AimInv'
  OBVIOUS
<1>1. CreatedInv'
  BY NextCreatedInv DEF AimInv
<1>2. CASE UNCHANGED vars
  BY <1>1, <1>2 DEF vars, AimInv, WorkAims, SweepAims, NoBlankName, Recorded, Task, InLoop
<1>3. CASE Next
  BY <1>1, <1>3, NextWorkAims, NextSweepAims, NextNoBlankName DEF Next, AimInv
<1> QED BY <1>2, <1>3

(* Whatever the flows do, an object is only deleted when some flow created *)
(* an object of that name: objects that were there before stay.            *)
THEOREM OnlyOwnDeletedAlways == Spec => OnlyOwnDeleted
<1> DEFINE OwnStep == UniformShapes =>
             \A o \in cluster \ cluster' : \E c \in created : c.obj = o
<1>1. ASSUME AimInv, [Next]_vars PROVE [OwnStep]_vars
  <2> SUFFICES ASSUME UniformShapes, NEW f \in Flows,
                      Start(f) \/ RunStep(f) \/ SweepStep(f) \/ Expire(f) \/ Cancel(f),
                      NEW o \in cluster, o \notin cluster'
               PROVE  \E c \in created : c.obj = o
    BY <1>1 DEF Next
  <2>1. \/ WorkOnObject(f) /\ Task(f).kind = "Delete" /\ o = Current(loop[f])
        \/ SweepOne(f) /\ o = Current(sweep[f].loop)
    BY DEF Start, RunStep, EndOfTasks, GetTask, RegisterStep, Discover, SetObjType, SubmitStep,
         GetObjType, GenerateName, NamesReady, GetExisting, Create, SetObjInfo, InfoStep,
         GetObjInfo, WorkOnObject, WorkDone, CheckFails, RunLocal, Reset, ResetStops,
         ResetTimesOut, SweepStep, PickEntry, SweepOne, SweepDone, Expire, Cancel
  <2>2. TypeInv
    BY <1>1 DEF AimInv, CreatedInv
  <2>3. CASE WorkOnObject(f) /\ Task(f).kind = "Delete" /\ o = Current(loop[f])
    <3>1. pc[f] = "work" /\ InLoop(loop[f]) /\ loop[f] \in Loops
      BY <2>2, <2>3 DEF WorkOnObject, At, TypeInv, TypeOK
    <3>2. Task(f) \in Tasks /\ RefKnown(Task(f))
      BY <2>2, <3>1, TaskTyped DEF TypeInv, TaskInRange, RefStaysResolved, Busy
    <3>3. Task(f).ref \in Recorded
      BY <2>3, <3>2 DEF RefKnown, Recorded, Tasks
    <3>4. o \in Targets(objInfo[Task(f).ref])
      BY <1>1, <2>3, <3>1, CurrentIsTarget DEF AimInv, WorkAims
    <3> QED BY <1>1, <3>3, <3>4, AimedAtOwn
  <2>4. CASE SweepOne(f) /\ o = Current(sweep[f].loop)
    <3>1. InLoop(sweep[f].loop) /\ sweep[f].loop \in Loops
      BY <2>2, <2>4 DEF SweepOne, TypeInv, TypeOK, Sweeps
    <3>2. PICK id \in Recorded : /\ sweep[f].loop.names = objInfo[id].names
                                 /\ sweep[f].loop.tpls = objInfo[id].tpls
      BY <1>1, <3>1 DEF AimInv, SweepAims
    <3>3. o \in Targets(objInfo[id])
      BY <2>4, <3>1, <3>2, CurrentIsTarget
    <3> QED BY <1>1, <3>3, AimedAtOwn
  <2> QED BY <2>1, <2>3, <2>4
<1> QED BY <1>1, InitAimInv, NextAimInv, PTL DEF Spec, OnlyOwnDeleted

-----------------------------------------------------------------------------
(* Several runs.                                                           *)

FlowStep(f) == Start(f) \/ RunStep(f) \/ SweepStep(f) \/ Expire(f) \/ Cancel(f)

(* The steps of a flow until it reaches Reset.                             *)
TaskStep(f) == \/ EndOfTasks(f) \/ GetTask(f) \/ RegisterStep(f) \/ SubmitStep(f)
               \/ InfoStep(f) \/ RunLocal(f)

-----------------------------------------------------------------------------
(* The invariants.                                                         *)

(* On the command line a workflow starts after the ones before it are done *)
(* and their Reset returned nil.                                           *)
OneAfterTheOther ==
    ~Concurrent => \A f, g \in Flows : g < f /\ pc[f] # "idle" => pc[g] = "done" /\ ~resetErr[g]

(* The goroutine of Reset starts with Reset and has sent its signal when   *)
(* Reset returns nil.                                                      *)
SweepFollowsReset ==
    \A f \in Flows :
      /\ pc[f] \notin {"await", "done"} => sweep[f].st = "none"
      /\ pc[f] = "done" /\ ~resetErr[f] => sweep[f].st \notin {"iter", "send"}
      /\ pc[f] = "done" /\ ~resetErr[f] /\ Cleanup => sweep[f].st = "gone"

SequenceInv == TypeInv /\ OneAfterTheOther /\ SweepFollowsReset /\ SequentialNeverRaces

(* A number was taken from the counter; only "enum" formats take numbers.  *)
HeldNames ==
    \A f \in Flows : pc[f] \in Submitting =>
      \A i \in DOMAIN loop[f].names :
        IF objType[Task(f).ref].named = "enum"
        THEN loop[f].names[i] \in 1..objID ELSE loop[f].names[i] = 0
RecordedNames ==
    \A id \in Recorded : \A i \in DOMAIN objInfo[id].names :
      objInfo[id].names[i] \in {0, Blank} \cup 1..objID

NumberInv == TypeInv /\ HeldNames /\ RecordedNames /\ NumbersUnique

(* An object was created by a SubmitObj task of a registered type.  While  *)
(* the flow is at that task, the object is one of those its loop goes over.*)
CreatedBySubmit ==
    \A c \in created :
      /\ c.at <= idx[c.by] /\ c.at \in DOMAIN prog[c.by]
      /\ prog[c.by][c.at].kind = "Submit"
      /\ objType[prog[c.by][c.at].ref] # None
      /\ c.at = idx[c.by] => pc[c.by] \in {"submit", "create", "reset", "await", "done"}
CreatedInLoop ==
    \A c \in created : c.at = idx[c.by] /\ pc[c.by] \in {"submit", "create"} =>
      \E i \in DOMAIN loop[c.by].names, j \in DOMAIN loop[c.by].tpls :
        c.obj = Target(loop[c.by].tpls[j], loop[c.by].names[i])

SubmittedInv == CreatedInv /\ CreatedBySubmit /\ CreatedInLoop /\ SubmittedIsRecorded

(* An object at or after the position of a loop.                           *)
Ahead(o, l) == \E i \in DOMAIN l.names, j \in DOMAIN l.tpls :
                 ~Before(l, i, j) /\ o = Target(l.tpls[j], l.names[i])

(* The cleanup of f, as long as no request failed: of the entries it has   *)
(* picked only the objects ahead of it are left.                           *)
Left(f, id, o) == id \in sweep[f].seen /\ o \in Targets(objInfo[id]) /\ o.name > 0 /\ o \in cluster
SweepTyped ==
    \A f \in Flows :
      /\ sweep[f].seen \subseteq Recorded
      /\ sweep[f].loop.tpls # <<>> => sweep[f].loop.j \in DOMAIN sweep[f].loop.tpls
SweepClears ==
    \A f \in Flows : ~ctxDone[f] /\ faults = 0 =>
      /\ sweep[f].st = "iter" =>
           \A id \in TaskIds, o \in cluster : Left(f, id, o) => Ahead(o, sweep[f].loop)
      /\ sweep[f].st \in {"send", "gone"} =>
           /\ sweep[f].start \subseteq sweep[f].seen
           /\ \A id \in TaskIds, o \in cluster : ~Left(f, id, o)

SweepInv == /\ NumberInv /\ OneAfterTheOther /\ SweepFollowsReset /\ SequentialNeverRaces
            /\ SweepTyped /\ SweepClears

-----------------------------------------------------------------------------
(* What a step of one flow may change at all.                              *)

LEMMA StepOfOneFlow ==
    ASSUME TypeInv, NEW f \in Flows, FlowStep(f)
    PROVE  /\ prog' = prog /\ Grows /\ created \subseteq created'
           /\ \A g \in Flows : g # f => /\ pc'[g] = pc[g] /\ idx'[g] = idx[g]
                                        /\ loop'[g] = loop[g] /\ sweep'[g] = sweep[g]
                                        /\ resetErr'[g] = resetErr[g]
<1>1. prog' = prog /\ created \subseteq created'
  BY DEF FlowStep, Start, RunStep, EndOfTasks, GetTask, RegisterStep, Discover, SetObjType,
         SubmitStep, GetObjType, GenerateName, NamesReady, GetExisting, Create, SetObjInfo,
         InfoStep, GetObjInfo, WorkOnObject, WorkDone, CheckFails, RunLocal, Reset, ResetStops,
         ResetTimesOut, SweepStep, PickEntry, SweepOne, SweepDone, Expire, Cancel, flowVars,
         unchangedReset
<1>2. Grows
  <2>1. CASE SetObjType(f)
    BY <2>1 DEF SetObjType, Grows, TypeInv, TypeOK
  <2>2. CASE SetObjInfo(f)
    BY <2>2 DEF SetObjInfo, Grows, TypeInv, TypeOK
  <2>3. CASE ~SetObjType(f) /\ ~SetObjInfo(f)
    BY <2>3
       DEF FlowStep, Start, RunStep, EndOfTasks, GetTask, RegisterStep, Discover,
           SubmitStep, GetObjType, GenerateName, NamesReady, GetExisting, Create,
           InfoStep, GetObjInfo, WorkOnObject, WorkDone, CheckFails, RunLocal, Reset, ResetStops,
           ResetTimesOut, SweepStep, PickEntry, SweepOne, SweepDone, Expire, Cancel,
           unchangedRegistry, Grows
  <2> QED BY <2>1, <2>2, <2>3
<1>3. \A g \in Flows : g # f => pc'[g] = pc[g] /\ idx'[g] = idx[g] /\ loop'[g] = loop[g]
  BY DEF FlowStep, Start, RunStep, EndOfTasks, GetTask, RegisterStep, Discover, SetObjType,
         SubmitStep, GetObjType, GenerateName, NamesReady, GetExisting, Create, SetObjInfo,
         InfoStep, GetObjInfo, WorkOnObject, WorkDone, CheckFails, RunLocal, Reset, ResetStops,
         ResetTimesOut, SweepStep, PickEntry, SweepOne, SweepDone, Expire, Cancel, flowVars,
         Advance, Fail, Goto, TypeInv, TypeOK
<1>4. \A g \in Flows : g # f => sweep'[g] = sweep[g] /\ resetErr'[g] = resetErr[g]
  BY DEF FlowStep, Start, RunStep, EndOfTasks, GetTask, RegisterStep, Discover, SetObjType,
         SubmitStep, GetObjType, GenerateName, NamesReady, GetExisting, Create, SetObjInfo,
         InfoStep, GetObjInfo, WorkOnObject, WorkDone, CheckFails, RunLocal, Reset, ResetStops,
         ResetTimesOut, SweepStep, PickEntry, SweepOne, SweepDone, Expire, Cancel, flowVars,
         unchangedReset, TypeInv, TypeOK
<1> QED BY <1>1, <1>2, <1>3, <1>4

(* A flow in a task has no business with Reset.                            *)
LEMMA TaskStepLabels ==
    ASSUME TypeInv, NEW f \in Flows, TaskStep(f)
    PROVE  /\ pc[f] \in Labels \ {"idle", "reset", "await", "done"}
           /\ pc'[f] \in Labels \ {"idle", "await", "done"}
           /\ UNCHANGED <<resetErr, sweep>>
<1>1. UNCHANGED <<resetErr, sweep>>
  BY DEF TaskStep, EndOfTasks, GetTask, RegisterStep, Discover, SetObjType, SubmitStep,
         GetObjType, GenerateName, NamesReady, GetExisting, Create, SetObjInfo, InfoStep,
         GetObjInfo, WorkOnObject, WorkDone, CheckFails, RunLocal, unchangedReset
<1>2. pc[f] \in Labels \ {"idle", "reset", "await", "done"}
  BY DEF TaskStep, EndOfTasks, GetTask, RegisterStep, Discover, SetObjType, SubmitStep,
         GetObjType, GenerateName, NamesReady, GetExisting, Create, SetObjInfo, InfoStep,
         GetObjInfo, WorkOnObject, WorkDone, CheckFails, RunLocal, AtTask, At, Labels
<1>3. pc'[f] \in Labels \ {"idle", "await", "done"}
  <2>1. CASE EndOfTasks(f) \/ GetTask(f) \/ RegisterStep(f) \/ RunLocal(f)
    BY <2>1 DEF EndOfTasks, GetTask, RegisterStep, Discover, SetObjType, RunLocal,
                Advance, Fail, Goto, TypeInv, TypeOK, Labels
  <2>2. CASE SubmitStep(f)
    BY <2>2, <1>2 DEF SubmitStep, GetObjType, GenerateName, NamesReady, GetExisting, Create,
                SetObjInfo, Advance, Fail, Goto, TypeInv, TypeOK, Labels
  <2>3. CASE InfoStep(f)
    BY <2>3, <1>2 DEF InfoStep, GetObjInfo, WorkOnObject, WorkDone, CheckFails, Advance, Fail, Goto,
                TypeInv, TypeOK, Labels
  <2> QED BY <2>1, <2>2, <2>3 DEF TaskStep
<1> QED BY <1>1, <1>2, <1>3

(* The other steps, as far as Reset and the cleanup are concerned.         *)
LEMMA SweepStepKeeps ==
    ASSUME TypeInv, NEW f \in Flows, SweepStep(f)
    PROVE  /\ UNCHANGED <<prog, pc, idx, loop, err, resetErr, ctxDone, objType, objInfo, objID,
                          crashed, created>>
           /\ sweep[f].st = "iter" /\ sweep'[f].st \in {"iter", "send"}
<1>1. UNCHANGED <<prog, pc, idx, loop, err, resetErr, ctxDone, objType, objInfo, objID,
                  crashed, created>>
  BY DEF SweepStep, PickEntry, SweepOne, SweepDone, flowVars, unchangedRegistry
<1>2. sweep[f] \in Sweeps /\ f \in DOMAIN sweep
  BY DEF TypeInv, TypeOK
<1>3. CASE \E id \in TaskIds : PickEntry(f, id)
  BY <1>1, <1>2, <1>3 DEF PickEntry, Sweeps
<1>4. CASE SweepOne(f) \/ SweepDone(f)
  BY <1>1, <1>2, <1>4 DEF SweepOne, SweepDone, Sweeps
<1> QED BY <1>1, <1>3, <1>4 DEF SweepStep

-----------------------------------------------------------------------------
(* One workflow after the other.                                           *)

LEMMA InitSequenceInv == Init => SequenceInv
<1> SUFFICES ASSUME Init PROVE SequenceInv
  OBVIOUS
<1>1. \A f \in Flows : pc[f] = "idle" /\ sweep[f].st = "none"
  BY DEF Init, NoSweep
<1>2. OneAfterTheOther /\ SweepFollowsReset
  BY <1>1 DEF OneAfterTheOther, SweepFollowsReset
<1>3. SequentialNeverRaces
  BY DEF Init, SequentialNeverRaces
<1> QED BY <1>2, <1>3, InitTypeInv DEF SequenceInv

LEMMA NextSweepFollowsReset ==
    ASSUME TypeInv, SweepFollowsReset, NEW f \in Flows, FlowStep(f)
    PROVE  SweepFollowsReset'
<1>1. \A g \in Flows : g # f => /\ pc'[g] = pc[g] /\ sweep'[g] = sweep[g]
                                /\ resetErr'[g] = resetErr[g]
  BY StepOfOneFlow
<1>2. sweep[f] \in Sweeps /\ f \in DOMAIN sweep /\ f \in DOMAIN pc /\ f \in DOMAIN resetErr
  BY DEF TypeInv, TypeOK
<1> SUFFICES /\ pc'[f] \notin {"await", "done"} => sweep'[f].st = "none"
             /\ pc'[f] = "done" /\ ~resetErr'[f] => sweep'[f].st \notin {"iter", "send"}
             /\ pc'[f] = "done" /\ ~resetErr'[f] /\ Cleanup => sweep'[f].st = "gone"
  BY <1>1 DEF SweepFollowsReset
<1>3. CASE TaskStep(f)
  BY <1>3, TaskStepLabels DEF SweepFollowsReset
<1>4. CASE Start(f)
  BY <1>2, <1>4 DEF Start, Goto, At, unchangedReset, SweepFollowsReset
<1>5. CASE Reset(f)
  <2>1. pc[f] = "reset" /\ sweep[f].st = "none"
    BY <1>5 DEF Reset, At, SweepFollowsReset
  <2>2. CASE ~Cleanup
    BY <1>2, <1>5, <2>1, <2>2 DEF Reset, Goto
  <2>3. CASE Cleanup
    BY <1>2, <1>5, <2>1, <2>3 DEF Reset, Goto, NoSweep
  <2> QED BY <2>2, <2>3
<1>6. CASE ResetStops(f)
  BY <1>2, <1>6 DEF ResetStops, Goto, Sweeps
<1>7. CASE ResetTimesOut(f)
  BY <1>2, <1>7 DEF ResetTimesOut, Goto
<1>8. CASE SweepStep(f)
  <2>1. UNCHANGED <<pc, resetErr>> /\ sweep[f].st = "iter" /\ sweep'[f].st \in {"iter", "send"}
    BY <1>8, SweepStepKeeps
  <2> QED BY <2>1 DEF SweepFollowsReset
<1>9. CASE Expire(f) \/ Cancel(f)
  BY <1>9 DEF Expire, Cancel, SweepFollowsReset
<1> QED BY <1>3, <1>4, <1>5, <1>6, <1>7, <1>8, <1>9 DEF FlowStep, RunStep, TaskStep

LEMMA NextOneAfterTheOther ==
    ASSUME TypeInv, OneAfterTheOther, NEW f \in Flows, FlowStep(f)
    PROVE  OneAfterTheOther'
<1> SUFFICES ASSUME ~Concurrent, NEW g \in Flows, NEW h \in Flows, h < g, pc'[g] # "idle"
             PROVE  pc'[h] = "done" /\ ~resetErr'[h]
  BY DEF OneAfterTheOther
<1>1. \A k \in Flows : k # f => pc'[k] = pc[k] /\ resetErr'[k] = resetErr[k]
  BY StepOfOneFlow
<1>2. f \in DOMAIN pc /\ f \in DOMAIN resetErr
  BY DEF TypeInv, TypeOK
<1>3. CASE Start(f)
  <2>1. resetErr' = resetErr /\ pc[f] = "idle" /\ MayStart(f)
    BY <1>3 DEF Start, At, unchangedReset
  <2>2. CASE g = f
    BY <1>1, <2>1, <2>2 DEF MayStart, At
  <2>3. CASE g # f
    BY <1>1, <2>1, <2>3 DEF OneAfterTheOther
  <2> QED BY <2>2, <2>3
<1>4. CASE ~Start(f)
  <2>1. pc[f] # "idle" \/ (pc' = pc /\ resetErr' = resetErr)
    <3>1. CASE TaskStep(f)
      BY <3>1, TaskStepLabels
    <3>2. CASE Reset(f) \/ ResetStops(f) \/ ResetTimesOut(f)
      BY <3>2 DEF Reset, ResetStops, ResetTimesOut, At
    <3>3. CASE SweepStep(f)
      BY <3>3, SweepStepKeeps
    <3>4. CASE Expire(f) \/ Cancel(f)
      BY <3>4 DEF Expire, Cancel
    <3> QED BY <1>4, <3>1, <3>2, <3>3, <3>4 DEF FlowStep, RunStep, TaskStep
  <2>2. pc[g] # "idle"
    BY <1>1, <2>1
  <2>3. pc[h] = "done" /\ ~resetErr[h]
    BY <2>2 DEF OneAfterTheOther
  <2>4. pc[f] = "done" => pc' = pc /\ resetErr' = resetErr
    <3>1. CASE TaskStep(f)
      BY <3>1, TaskStepLabels
    <3>2. CASE Reset(f) \/ ResetStops(f) \/ ResetTimesOut(f)
      BY <3>2 DEF Reset, ResetStops, ResetTimesOut, At
    <3>3. CASE SweepStep(f)
      BY <3>3, SweepStepKeeps
    <3>4. CASE Expire(f) \/ Cancel(f)
      BY <3>4 DEF Expire, Cancel
    <3> QED BY <1>4, <3>1, <3>2, <3>3, <3>4 DEF FlowStep, RunStep, TaskStep
  <2> QED BY <1>1, <2>3, <2>4
<1> QED BY <1>3, <1>4

LEMMA NextSequential ==
    ASSUME SequenceInv, NEW f \in Flows, FlowStep(f)
    PROVE  SequentialNeverRaces'
<1>1. CASE ~SetObjInfo(f)
  <2>1. crashed' = crashed
    BY <1>1
       DEF FlowStep, Start, RunStep, EndOfTasks, GetTask, RegisterStep, Discover, SetObjType,
         SubmitStep, GetObjType, GenerateName, NamesReady, GetExisting, Create,
         InfoStep, GetObjInfo, WorkOnObject, WorkDone, CheckFails, RunLocal, Reset, ResetStops,
         ResetTimesOut, SweepStep, PickEntry, SweepOne, SweepDone, Expire, Cancel
  <2> QED BY <2>1 DEF SequenceInv, SequentialNeverRaces
<1>2. CASE SetObjInfo(f) /\ ~Concurrent
  <2>1. \A g \in Flows : sweep[g].st # "iter"
    <3> SUFFICES ASSUME NEW g \in Flows PROVE sweep[g].st # "iter"
      OBVIOUS
    <3>1. pc[f] = "submit"
      BY <1>2 DEF SetObjInfo, At
    <3>2. f \in Nat /\ g \in Nat
      BY FlowsAssumption
    <3>3. CASE g = f
      BY <3>1, <3>3 DEF SequenceInv, SweepFollowsReset
    <3>4. CASE g < f
      <4>1. pc[g] = "done" /\ ~resetErr[g]
        BY <1>2, <3>1, <3>4 DEF SequenceInv, OneAfterTheOther
      <4> QED BY <4>1 DEF SequenceInv, SweepFollowsReset
    <3>5. CASE f < g
      <4>1. pc[g] = "idle"
        BY <1>2, <3>1, <3>5 DEF SequenceInv, OneAfterTheOther
      <4> QED BY <4>1 DEF SequenceInv, SweepFollowsReset
    <3> QED BY <3>2, <3>3, <3>4, <3>5
  <2>2. ~Iterating
    BY <2>1 DEF Iterating
  <2> QED BY <1>2, <2>2 DEF SetObjInfo, SequenceInv, SequentialNeverRaces
<1> QED BY <1>1, <1>2 DEF SequentialNeverRaces

LEMMA NextSequenceInv == SequenceInv /\ [Next]_vars => SequenceInv'
<1> SUFFICES ASSUME SequenceInv, [Next]_vars PROVE SequenceInv'
  OBVIOUS
<1>1. TypeInv'
  BY NextTypeInv DEF SequenceInv
<1>2. CASE UNCHANGED vars
  BY <1>1, <1>2 DEF vars, SequenceInv, OneAfterTheOther, SweepFollowsReset, SequentialNeverRaces
<1>3. ASSUME NEW f \in Flows, FlowStep(f)
      PROVE  OneAfterTheOther' /\ SweepFollowsReset' /\ SequentialNeverRaces'
  BY <1>3, NextSweepFollowsReset, NextOneAfterTheOther, NextSequential DEF SequenceInv
<1> QED BY <1>1, <1>2, <1>3 DEF Next, FlowStep, SequenceInv

(* The workflows of one command line never write the registry while the    *)
(* goroutine of a Reset iterates over it: a Reset that timed out ends the  *)
(* program before the next workflow (main.go:81-84, engine.go:273-298).    *)
THEOREM SequentialNeverRacesAlways == Spec => []SequentialNeverRaces
<1>1. SequenceInv => SequentialNeverRaces
  BY DEF SequenceInv
<1> QED BY <1>1, InitSequenceInv, NextSequenceInv, PTL DEF Spec

-----------------------------------------------------------------------------
(* Numbers.                                                                *)

LEMMA SubmittingTask ==
    ASSUME TypeInv, NEW f \in Flows, pc[f] \in Submitting
    PROVE  /\ Task(f) \in Tasks /\ Task(f).kind = "Submit" /\ idx[f] \in DOMAIN prog[f]
           /\ objType[Task(f).ref] \in Shapes /\ objType[Task(f).ref] # None
<1>1. Task(f) \in Tasks /\ Task(f).kind = "Submit" /\ idx[f] \in DOMAIN prog[f]
  BY TaskTyped DEF TypeInv, TaskInRange, KindAtLabel, Busy, Submitting
<1>2. objType[Task(f).ref] # None
  BY <1>1 DEF TypeInv, RefStaysResolved, RefKnown, Submitting
<1> QED BY <1>1, <1>2 DEF TypeInv, TypeOK, Tasks

(* A step that is neither a new name nor a new entry: the names of a flow  *)
(* stay, or its loop starts without names.                                 *)
LEMMA NamesStay ==
    ASSUME TypeInv, NEW f \in Flows, FlowStep(f), ~GenerateName(f), ~SetObjInfo(f)
    PROVE  /\ objInfo' = objInfo /\ objID' = objID
           /\ pc'[f] \in Submitting =>
                /\ idx'[f] = idx[f] /\ pc[f] \in Submitting \cup {"exec"}
                /\ \/ loop'[f].names = <<>> /\ GetObjType(f)
                   \/ pc[f] \in Submitting /\ loop'[f].names = loop[f].names
<1>1. objInfo' = objInfo /\ objID' = objID
  BY DEF FlowStep, Start, RunStep, EndOfTasks, GetTask, RegisterStep, Discover, SetObjType,
         SubmitStep, GetObjType, NamesReady, GetExisting, Create,
         InfoStep, GetObjInfo, WorkOnObject, WorkDone, CheckFails, RunLocal, Reset, ResetStops,
         ResetTimesOut, SweepStep, PickEntry, SweepOne, SweepDone, Expire, Cancel, flowVars,
         unchangedRegistry
<1>2. f \in DOMAIN pc /\ f \in DOMAIN idx /\ f \in DOMAIN loop /\ loop[f] \in Loops
  BY DEF TypeInv, TypeOK
<1> SUFFICES ASSUME pc'[f] \in Submitting
             PROVE  /\ idx'[f] = idx[f] /\ pc[f] \in Submitting \cup {"exec"}
                    /\ \/ loop'[f].names = <<>> /\ GetObjType(f)
                       \/ pc[f] \in Submitting /\ loop'[f].names = loop[f].names
  BY <1>1
<1>3. CASE Start(f) \/ EndOfTasks(f) \/ GetTask(f) \/ RegisterStep(f) \/ RunLocal(f)
  BY <1>2, <1>3 DEF Start, EndOfTasks, GetTask, RegisterStep, Discover, SetObjType, RunLocal,
       Advance, Fail, Goto, Submitting
<1>4. CASE GetObjType(f)
  BY <1>2, <1>4 DEF GetObjType, Fail, Goto, AtTask, At, LoopOver, Submitting
<1>5. CASE NamesReady(f) \/ GetExisting(f)
  BY <1>2, <1>5 DEF NamesReady, GetExisting, Advance, Goto, At, Submitting
<1>6. CASE Create(f)
  <2>1. /\ loop'[f] = Bump(loop[f]) /\ InLoop(loop[f]) /\ idx' = idx /\ pc[f] \in Submitting
    BY <1>2, <1>6 DEF Create, Fail, Goto, At, Submitting
  <2> QED BY <1>2, <2>1, BumpKeeps
<1>7. CASE InfoStep(f)
  BY <1>2, <1>7 DEF InfoStep, GetObjInfo, WorkOnObject, WorkDone, CheckFails, Advance, Fail,
       Goto, At, Submitting
<1>8. CASE Reset(f) \/ ResetStops(f) \/ ResetTimesOut(f) \/ SweepStep(f) \/ Expire(f) \/ Cancel(f)
  BY <1>2, <1>8 DEF Reset, ResetStops, ResetTimesOut, SweepStep, PickEntry, SweepOne, SweepDone,
       Expire, Cancel, flowVars, Goto, Submitting
<1> QED BY <1>3, <1>4, <1>5, <1>6, <1>7, <1>8 DEF FlowStep, RunStep, SubmitStep

(* What a flow holds depends on its own state and its registration.        *)
LEMMA HeldByOthers ==
    ASSUME TypeInv, Grows, NEW g \in Flows, prog' = prog,
           pc'[g] = pc[g], idx'[g] = idx[g], loop'[g].names = loop[g].names
    PROVE  /\ NumbersOf(g)' = NumbersOf(g)
           /\ pc[g] \in Submitting => objType'[Task(g)'.ref] = objType[Task(g).ref]
<1>1. Task(g)' = Task(g)
  BY DEF Task
<1>2. pc[g] \in Submitting => objType'[Task(g)'.ref] = objType[Task(g).ref]
  BY <1>1, SubmittingTask DEF Grows, Tasks
<1>3. CASE pc[g] \in Submitting
  BY <1>1, <1>2, <1>3 DEF NumbersOf, Submitting
<1>4. CASE pc[g] \notin Submitting
  BY <1>4 DEF NumbersOf, Submitting
<1> QED BY <1>2, <1>3, <1>4

(* Numbers held or recorded are at most the counter.                       *)
LEMMA NumbersTaken ==
    ASSUME TypeInv, HeldNames, RecordedNames
    PROVE  /\ \A g \in Flows : NumbersOf(g) \subseteq 1..objID
           /\ \A id \in Recorded : RecordedNumbers(id) \subseteq 1..objID
<1>1. \A g \in Flows : NumbersOf(g) \subseteq 1..objID
  BY DEF HeldNames, NumbersOf, Submitting
<1>2. \A id \in Recorded : RecordedNumbers(id) \subseteq 1..objID
  BY DEF RecordedNames, RecordedNumbers
<1> QED BY <1>1, <1>2

LEMMA QuietNumbers ==
    ASSUME NumberInv, NEW f \in Flows, FlowStep(f), ~GenerateName(f), ~SetObjInfo(f)
    PROVE  HeldNames' /\ RecordedNames' /\ NumbersUnique'
<1>1. TypeInv
  BY DEF NumberInv
<1>2. /\ prog' = prog /\ Grows
      /\ \A g \in Flows : g # f => /\ pc'[g] = pc[g] /\ idx'[g] = idx[g] /\ loop'[g] = loop[g]
  BY <1>1, StepOfOneFlow
<1>3. /\ objInfo' = objInfo /\ objID' = objID
      /\ pc'[f] \in Submitting =>
           /\ idx'[f] = idx[f]
           /\ \/ loop'[f].names = <<>>
              \/ pc[f] \in Submitting /\ loop'[f].names = loop[f].names
  BY <1>1, NamesStay
<1>4. RecordedNames' /\ \A id \in Recorded' : id \in Recorded /\ RecordedNumbers(id)' = RecordedNumbers(id)
  BY <1>3 DEF NumberInv, RecordedNames, Recorded, RecordedNumbers
<1>5. ASSUME pc'[f] \in Submitting, loop'[f].names # <<>>
      PROVE  /\ pc[f] \in Submitting /\ loop'[f].names = loop[f].names
             /\ objType'[Task(f)'.ref] = objType[Task(f).ref]
  <2>1. Task(f)' = Task(f) /\ pc[f] \in Submitting /\ loop'[f].names = loop[f].names
    BY <1>2, <1>3, <1>5 DEF Task
  <2> QED BY <1>1, <1>2, <2>1, SubmittingTask DEF Grows, Tasks
<1>6. HeldNames'
  <2> SUFFICES ASSUME NEW g \in Flows, pc'[g] \in Submitting, NEW i \in DOMAIN loop'[g].names
               PROVE  IF objType'[Task(g)'.ref].named = "enum"
                      THEN loop'[g].names[i] \in 1..objID ELSE loop'[g].names[i] = 0
    BY <1>3 DEF HeldNames
  <2>1. CASE g = f
    <3>1. loop'[f].names # <<>>
      BY <2>1
    <3> QED BY <1>5, <2>1, <3>1 DEF NumberInv, HeldNames
  <2>2. CASE g # f
    BY <1>1, <1>2, <2>2, HeldByOthers DEF NumberInv, HeldNames
  <2> QED BY <2>1, <2>2
<1>7. \A g \in Flows : NumbersOf(g)' \subseteq NumbersOf(g)
  <2> SUFFICES ASSUME NEW g \in Flows PROVE NumbersOf(g)' \subseteq NumbersOf(g)
    OBVIOUS
  <2>1. CASE g = f
    BY <1>5, <2>1 DEF NumbersOf, Submitting
  <2>2. CASE g # f
    BY <1>1, <1>2, <2>2, HeldByOthers
  <2> QED BY <2>1, <2>2
<1>8. NumbersUnique'
  BY <1>4, <1>7 DEF NumberInv, NumbersUnique
<1> QED BY <1>4, <1>6, <1>8

LEMMA GenerateNumbers ==
    ASSUME NumberInv, NEW f \in Flows, GenerateName(f)
    PROVE  HeldNames' /\ RecordedNames' /\ NumbersUnique'
<1>1. TypeInv /\ HeldNames /\ RecordedNames /\ NumbersUnique
  BY DEF NumberInv
<1>2. /\ prog' = prog /\ Grows
      /\ \A g \in Flows : g # f => /\ pc'[g] = pc[g] /\ idx'[g] = idx[g] /\ loop'[g] = loop[g]
  BY <1>1, StepOfOneFlow DEF FlowStep, RunStep, SubmitStep
<1> DEFINE named == objType[Task(f).ref].named
           count == IF named = "none" THEN objID ELSE objID + 1
           n == IF named = "enum" THEN count ELSE 0
<1>3. /\ pc' = pc /\ idx' = idx /\ objInfo' = objInfo /\ objType' = objType /\ pc[f] = "names"
      /\ objID' = count
  BY DEF GenerateName, At, unchangedRegistry
<1>4. loop'[f].names = Append(loop[f].names, n) /\ loop[f].names \in Seq(Names)
  <2>1. f \in DOMAIN loop /\ loop[f] \in Loops
    BY <1>1 DEF TypeInv, TypeOK
  <2>2. loop'[f] = [loop[f] EXCEPT !.names = Append(loop[f].names, n)]
    BY <2>1 DEF GenerateName
  <2> HIDE DEF n
  <2> QED BY <2>1, <2>2 DEF Loops
<1>5. objID \in Nat /\ objID' \in Nat /\ objID <= objID' /\ 1..objID \subseteq 1..objID'
  <2>1. objID \in Nat
    BY <1>1 DEF TypeInv, TypeOK
  <2> QED BY <1>3, <2>1
<1>6. Task(f)' = Task(f)
  BY <1>2, <1>3 DEF Task
<1>7. \A i \in DOMAIN loop'[f].names :
        \/ i \in DOMAIN loop[f].names /\ loop'[f].names[i] = loop[f].names[i]
        \/ loop'[f].names[i] = n
  <2> HIDE DEF n
  <2>1. DOMAIN loop'[f].names = 1..(Len(loop[f].names) + 1) /\ Len(loop[f].names) \in Nat
        /\ DOMAIN loop[f].names = 1..Len(loop[f].names)
    BY <1>4
  <2> QED BY <1>4, <2>1
<1>8. HeldNames'
  <2> SUFFICES ASSUME NEW g \in Flows, pc'[g] \in Submitting, NEW i \in DOMAIN loop'[g].names
               PROVE  IF objType'[Task(g)'.ref].named = "enum"
                      THEN loop'[g].names[i] \in 1..objID' ELSE loop'[g].names[i] = 0
    BY DEF HeldNames
  <2>1. CASE g = f
    <3>1. CASE i \in DOMAIN loop[f].names /\ loop'[f].names[i] = loop[f].names[i]
      BY <1>1, <1>3, <1>5, <1>6, <2>1, <3>1 DEF HeldNames
    <3>2. CASE loop'[f].names[i] = n /\ named = "enum"
      <4>1. n = objID + 1 /\ objID' = objID + 1
        BY <1>3, <3>2
      <4> QED BY <1>3, <1>5, <1>6, <2>1, <3>2, <4>1
    <3>3. CASE loop'[f].names[i] = n /\ named # "enum"
      BY <1>3, <1>6, <2>1, <3>3
    <3> QED BY <1>7, <2>1, <3>1, <3>2, <3>3
  <2>2. CASE g # f
    BY <1>1, <1>2, <1>3, <1>5, <2>2, HeldByOthers DEF HeldNames
  <2> QED BY <2>1, <2>2
<1>9. RecordedNames' /\ \A id \in Recorded' : id \in Recorded /\ RecordedNumbers(id)' = RecordedNumbers(id)
  BY <1>1, <1>3, <1>5 DEF RecordedNames, Recorded, RecordedNumbers
<1>10. \A g \in Flows : g # f => NumbersOf(g)' = NumbersOf(g)
  BY <1>1, <1>2, HeldByOthers
<1>11. NumbersOf(f)' \subseteq NumbersOf(f) \cup {objID + 1}
  <2>1. CASE named = "enum"
    <3>1. n = objID + 1
      BY <2>1
    <3> HIDE DEF n
    <3>2. NumbersOf(f)' = {loop'[f].names[i] : i \in DOMAIN loop'[f].names}
      BY <1>3, <1>6, <2>1 DEF NumbersOf
    <3>3. NumbersOf(f) = {loop[f].names[i] : i \in DOMAIN loop[f].names}
      BY <1>3, <2>1 DEF NumbersOf
    <3> QED BY <1>7, <3>1, <3>2, <3>3
  <2>2. CASE named # "enum"
    BY <1>3, <1>6, <2>2 DEF NumbersOf
  <2> QED BY <2>1, <2>2
<1>12. /\ \A g \in Flows : objID + 1 \notin NumbersOf(g)
       /\ \A id \in Recorded : objID + 1 \notin RecordedNumbers(id)
  <2>1. objID + 1 \notin 1..objID
    BY <1>5
  <2> QED BY <1>1, <2>1, NumbersTaken
<1>13. NumbersUnique'
  BY <1>1, <1>9, <1>10, <1>11, <1>12 DEF NumbersUnique
<1> QED BY <1>8, <1>9, <1>13

LEMMA SetObjInfoNumbers ==
    ASSUME NumberInv, NEW f \in Flows, SetObjInfo(f)
    PROVE  HeldNames' /\ RecordedNames' /\ NumbersUnique'
<1>1. TypeInv /\ HeldNames /\ RecordedNames /\ NumbersUnique
  BY DEF NumberInv
<1>2. /\ prog' = prog /\ Grows
      /\ \A g \in Flows : g # f => /\ pc'[g] = pc[g] /\ idx'[g] = idx[g] /\ loop'[g] = loop[g]
  BY <1>1, StepOfOneFlow DEF FlowStep, RunStep, SubmitStep
<1>3. pc[f] = "submit" /\ pc'[f] \notin Submitting /\ objID' = objID
  BY <1>1 DEF SetObjInfo, Advance, Fail, Goto, At, Submitting, TypeInv, TypeOK
<1> DEFINE t == Task(f)
           info == NewObjInfo(objType[t.ref], loop[f].names)
<1>4. t \in Tasks /\ objType[t.ref] \in Shapes
  BY <1>1, <1>3, SubmittingTask DEF Submitting
<1>5. \/ objInfo' = objInfo
      \/ t.id \notin Recorded /\ objInfo' = [objInfo EXCEPT ![t.id] = info]
  BY DEF SetObjInfo, Recorded
<1>6. HeldNames' /\ \A g \in Flows : NumbersOf(g)' = IF g = f THEN {} ELSE NumbersOf(g)
  <2>1. \A g \in Flows : g # f => NumbersOf(g)' = NumbersOf(g)
    BY <1>1, <1>2, HeldByOthers
  <2>2. NumbersOf(f)' = {}
    BY <1>3 DEF NumbersOf, Submitting
  <2>3. HeldNames'
    BY <1>1, <1>2, <1>3, HeldByOthers DEF HeldNames
  <2> QED BY <2>1, <2>2, <2>3
<1>7. \A i \in DOMAIN info.names :
        /\ info.names[i] \in {0, Blank} \cup 1..objID
        /\ info.names[i] \notin {0, Blank} => info.names[i] \in NumbersOf(f)
  <2> SUFFICES ASSUME NEW i \in DOMAIN info.names
               PROVE  /\ info.names[i] \in {0, Blank} \cup 1..objID
                      /\ info.names[i] \notin {0, Blank} => info.names[i] \in NumbersOf(f)
    OBVIOUS
  <2>1. i \in DOMAIN loop[f].names
    BY DEF NewObjInfo
  <2>2. CASE objType[t.ref].named = "none"
    BY <2>1, <2>2 DEF NewObjInfo
  <2>3. CASE objType[t.ref].named = "enum"
    <3>1. info.names[i] = loop[f].names[i] /\ loop[f].names[i] \in NumbersOf(f)
      BY <1>3, <2>1, <2>3 DEF NewObjInfo, NumbersOf
    <3>2. loop[f].names[i] \in 1..objID
      BY <1>1, <1>3, <2>1, <2>3 DEF HeldNames, Submitting
    <3> QED BY <3>1, <3>2
  <2>4. CASE objType[t.ref].named \notin {"none", "enum"}
    <3>1. info.names[i] = loop[f].names[i]
      BY <2>4 DEF NewObjInfo
    <3>2. loop[f].names[i] = 0
      BY <1>1, <1>3, <2>1, <2>4 DEF HeldNames, Submitting
    <3> QED BY <3>1, <3>2
  <2> QED BY <2>2, <2>3, <2>4
<1>8. CASE objInfo' = objInfo
  <2>1. RecordedNames' /\ \A id \in Recorded' : id \in Recorded /\ RecordedNumbers(id)' = RecordedNumbers(id)
    BY <1>1, <1>3, <1>8 DEF RecordedNames, Recorded, RecordedNumbers
  <2>2. NumbersUnique'
    BY <1>1, <1>6, <2>1 DEF NumbersUnique
  <2> QED BY <1>6, <2>1, <2>2
<1>9. CASE t.id \notin Recorded /\ objInfo' = [objInfo EXCEPT ![t.id] = info]
  <2> HIDE DEF info
  <2>1. t.id \in TaskIds /\ objInfo'[t.id] = info
        /\ \A id \in TaskIds : id # t.id => objInfo'[id] = objInfo[id]
    BY <1>1, <1>4, <1>9 DEF Tasks, TypeInv, TypeOK
  <2> HIDE DEF t
  <2>2. RecordedNames'
    BY <1>1, <1>3, <1>7, <2>1 DEF RecordedNames, Recorded
  <2>3. \A id \in Recorded' :
          \/ id = t.id /\ RecordedNumbers(id)' \subseteq NumbersOf(f)
          \/ id # t.id /\ id \in Recorded /\ RecordedNumbers(id)' = RecordedNumbers(id)
    <3> SUFFICES ASSUME NEW id \in Recorded'
                 PROVE  \/ id = t.id /\ RecordedNumbers(id)' \subseteq NumbersOf(f)
                        \/ id # t.id /\ id \in Recorded /\ RecordedNumbers(id)' = RecordedNumbers(id)
      OBVIOUS
    <3>1. CASE id = t.id
      BY <1>7, <2>1, <3>1 DEF RecordedNumbers
    <3>2. CASE id # t.id
      BY <2>1, <3>2 DEF Recorded, RecordedNumbers
    <3> QED BY <3>1, <3>2
  <2>4. NumbersUnique'
    <3>1. \A g, h \in Flows : g # h => NumbersOf(g)' \cap NumbersOf(h)' = {}
      BY <1>1, <1>6 DEF NumbersUnique
    <3>2. \A g \in Flows, id \in Recorded' : NumbersOf(g)' \cap RecordedNumbers(id)' = {}
      BY <1>1, <1>6, <2>3 DEF NumbersUnique
    <3>3. \A id, jd \in Recorded' : id # jd => RecordedNumbers(id)' \cap RecordedNumbers(jd)' = {}
      BY <1>1, <2>3 DEF NumbersUnique
    <3> QED BY <3>1, <3>2, <3>3 DEF NumbersUnique
  <2> QED BY <1>6, <2>2, <2>4
<1> QED BY <1>5, <1>8, <1>9

LEMMA InitNumberInv == Init => NumberInv
<1> SUFFICES ASSUME Init PROVE NumberInv
  OBVIOUS
<1>1. Recorded = {} /\ \A f \in Flows : pc[f] = "idle"
  BY DEF Init, Recorded
<1>2. HeldNames /\ RecordedNames /\ NumbersUnique
  BY <1>1 DEF HeldNames, RecordedNames, NumbersUnique, NumbersOf, Submitting
<1> QED BY <1>2, InitTypeInv DEF NumberInv

LEMMA NextNumberInv == NumberInv /\ [Next]_vars => NumberInv'
<1> SUFFICES ASSUME NumberInv, [Next]_vars PROVE NumberInv'
  OBVIOUS
<1>1. TypeInv'
  BY NextTypeInv DEF NumberInv
<1>2. CASE UNCHANGED vars
  <2>1. HeldNames' /\ RecordedNames'
    BY <1>2 DEF vars, NumberInv, HeldNames, RecordedNames, Recorded, Task
  <2>2. NumbersUnique'
    <3>1. \A f \in Flows : NumbersOf(f)' = NumbersOf(f)
      BY <1>2 DEF vars, NumbersOf, Task
    <3>2. Recorded' = Recorded /\ \A id \in Recorded : RecordedNumbers(id)' = RecordedNumbers(id)
      BY <1>2 DEF vars, Recorded, RecordedNumbers
    <3> QED BY <3>1, <3>2 DEF NumberInv, NumbersUnique
  <2> QED BY <1>1, <2>1, <2>2 DEF NumberInv
<1>3. ASSUME NEW f \in Flows, FlowStep(f)
      PROVE  HeldNames' /\ RecordedNames' /\ NumbersUnique'
  BY <1>3, QuietNumbers, GenerateNumbers, SetObjInfoNumbers
<1> QED BY <1>1, <1>2, <1>3 DEF Next, FlowStep, NumberInv

(* The counter is taken once per name whatever the runs do at the same     *)
(* time: no two tasks hold or record the same number (utils.go:65-84).     *)
THEOREM NumbersUniqueAlways == Spec => []NumbersUnique
<1>1. NumberInv => NumbersUnique
  BY DEF NumberInv
<1> QED BY <1>1, InitNumberInv, NextNumberInv, PTL DEF Spec

-----------------------------------------------------------------------------
(* What was submitted is recorded.                                         *)

(* The creations a step adds: the current object of the submit loop.       *)
LEMMA CreatedGrowsBy ==
    ASSUME TypeInv, NEW f \in Flows, FlowStep(f), NEW c \in created', c \notin created
    PROVE  /\ Create(f) /\ pc[f] \in {"submit", "create"} /\ InLoop(loop[f])
           /\ c = [by |-> f, at |-> idx[f], obj |-> Current(loop[f])]
<1>1. Create(f)
  BY DEF FlowStep, Start, RunStep, EndOfTasks, GetTask, RegisterStep, Discover, SetObjType,
         SubmitStep, GetObjType, GenerateName, NamesReady, GetExisting, SetObjInfo,
         InfoStep, GetObjInfo, WorkOnObject, WorkDone, CheckFails, RunLocal, Reset, ResetStops,
         ResetTimesOut, SweepStep, PickEntry, SweepOne, SweepDone, Expire, Cancel
<1> QED BY <1>1 DEF Create, At

(* The index of a flow moves on in these steps only.                       *)
LEMMA IndexMoves ==
    ASSUME TypeInv, NEW f \in Flows, FlowStep(f)
    PROVE  \/ idx'[f] = idx[f]
           \/ /\ idx'[f] = idx[f] + 1
              /\ \/ pc[f] \in {"exec", "setType", "work"}
                 \/ GetExisting(f)
                 \/ SetObjInfo(f)
<1>1. f \in DOMAIN idx
  BY DEF TypeInv, TypeOK
<1>2. CASE SetObjType(f) \/ WorkDone(f) \/ RunLocal(f) \/ GetExisting(f) \/ SetObjInfo(f)
  BY <1>1, <1>2 DEF SetObjType, WorkDone, RunLocal, GetExisting, SetObjInfo, Advance, Fail,
                    AtTask, At
<1>3. CASE ~(SetObjType(f) \/ WorkDone(f) \/ RunLocal(f) \/ GetExisting(f) \/ SetObjInfo(f))
  BY <1>3 DEF FlowStep, Start, RunStep, EndOfTasks, GetTask, RegisterStep, Discover, SubmitStep,
         GetObjType, GenerateName, NamesReady, Create, InfoStep, GetObjInfo, WorkOnObject,
         CheckFails, Reset, ResetStops, ResetTimesOut, SweepStep, PickEntry, SweepOne, SweepDone,
         Expire, Cancel, flowVars, Fail
<1> QED BY <1>2, <1>3

(* At a label where an object of the current task may exist, the label     *)
(* only moves on within such labels; the loop keeps what it goes over.     *)
LEMMA LabelMoves ==
    ASSUME TypeInv, NEW f \in Flows, FlowStep(f), idx'[f] = idx[f],
           pc[f] \in {"submit", "create", "reset", "await", "done"}
    PROVE  /\ pc'[f] \in {"submit", "create", "reset", "await", "done"}
           /\ pc'[f] \in {"submit", "create"} =>
                /\ pc[f] \in {"submit", "create"}
                /\ loop'[f].names = loop[f].names /\ loop'[f].tpls = loop[f].tpls
<1>1. /\ f \in DOMAIN idx /\ f \in DOMAIN pc /\ f \in DOMAIN loop /\ loop[f] \in Loops
      /\ idx[f] \in Nat
  BY DEF TypeInv, TypeOK
<1>2. CASE GetExisting(f)
  <2>1. idx' # [idx EXCEPT ![f] = @ + 1]
    BY <1>1
  <2> QED BY <1>1, <1>2, <2>1 DEF GetExisting, Advance, Goto, At
<1>3. CASE SetObjInfo(f)
  <2>1. idx' # [idx EXCEPT ![f] = @ + 1]
    BY <1>1
  <2> QED BY <1>1, <1>3, <2>1 DEF SetObjInfo, Advance, Fail, Goto, At
<1>4. CASE Create(f)
  <2>1. \/ loop'[f] = Bump(loop[f]) /\ InLoop(loop[f]) /\ pc'[f] = "submit"
        \/ pc'[f] = "reset"
    BY <1>1, <1>4 DEF Create, Fail, Goto
  <2>2. pc[f] \in {"submit", "create"}
    BY <1>4 DEF Create, At
  <2> QED BY <1>1, <2>1, <2>2, BumpKeeps
<1>5. CASE \/ Start(f) \/ EndOfTasks(f) \/ GetTask(f) \/ RegisterStep(f) \/ InfoStep(f)
           \/ RunLocal(f) \/ GetObjType(f) \/ GenerateName(f) \/ NamesReady(f)
  BY <1>5 DEF Start, EndOfTasks, GetTask, RegisterStep, Discover, SetObjType, InfoStep, GetObjInfo,
              WorkOnObject, WorkDone, CheckFails, RunLocal, GetObjType, GenerateName, NamesReady,
              AtTask, At
<1>6. CASE Reset(f) \/ ResetStops(f) \/ ResetTimesOut(f)
  BY <1>1, <1>6 DEF Reset, ResetStops, ResetTimesOut, Goto
<1>7. CASE SweepStep(f) \/ Expire(f) \/ Cancel(f)
  BY <1>7 DEF SweepStep, PickEntry, SweepOne, SweepDone, Expire, Cancel, flowVars
<1> QED BY <1>2, <1>3, <1>4, <1>5, <1>6, <1>7 DEF FlowStep, RunStep, SubmitStep

LEMMA NextCreatedBySubmit ==
    ASSUME CreatedInv, CreatedBySubmit, NEW f \in Flows, FlowStep(f)
    PROVE  CreatedBySubmit'
<1> SUFFICES ASSUME NEW c \in created'
             PROVE  /\ c.at <= idx'[c.by] /\ c.at \in DOMAIN prog'[c.by]
                    /\ prog'[c.by][c.at].kind = "Submit"
                    /\ objType'[prog'[c.by][c.at].ref] # None
                    /\ c.at = idx'[c.by] =>
                         pc'[c.by] \in {"submit", "create", "reset", "await", "done"}
  BY DEF CreatedBySubmit
<1>1. TypeInv
  BY DEF CreatedInv
<1>2. /\ prog' = prog /\ Grows
      /\ \A g \in Flows : g # f => /\ pc'[g] = pc[g] /\ idx'[g] = idx[g] /\ loop'[g] = loop[g]
  BY <1>1, StepOfOneFlow
<1>3. \A g \in Flows : idx[g] \in Nat \ {0}
  BY <1>1 DEF TypeInv, TypeOK
<1>4. CASE c \in created
  <2>1. c.by \in Flows /\ c.at \in Nat /\ c.obj \in Objects
    BY <1>1, <1>4 DEF TypeInv, TypeOK
  <2>2. /\ c.at <= idx[c.by] /\ c.at \in DOMAIN prog[c.by]
        /\ prog[c.by][c.at].kind = "Submit"
        /\ objType[prog[c.by][c.at].ref] # None
        /\ c.at = idx[c.by] => pc[c.by] \in {"submit", "create", "reset", "await", "done"}
    BY <1>4 DEF CreatedBySubmit
  <2>3. objType'[prog[c.by][c.at].ref] # None
    <3>1. prog[c.by][c.at] \in Tasks
      <4>1. prog[c.by] \in Seq(Tasks)
        BY <1>1, <2>1, ProgramsAssumption DEF TypeInv, TypeOK
      <4> QED BY <2>2, <4>1, ElementOfSeq
    <3> QED BY <1>2, <2>2, <3>1 DEF Grows, Tasks
  <2>4. CASE c.by # f
    BY <1>2, <2>1, <2>2, <2>3, <2>4
  <2>5. CASE c.by = f /\ idx'[f] = idx[f]
    BY <1>1, <1>2, <2>2, <2>3, <2>5, LabelMoves
  <2>6. CASE c.by = f /\ idx'[f] = idx[f] + 1
    BY <1>2, <1>3, <2>1, <2>2, <2>3, <2>6
  <2> QED BY <1>1, <2>4, <2>5, <2>6, IndexMoves
<1>5. CASE c \notin created
  <2>1. /\ Create(f) /\ pc[f] \in {"submit", "create"} /\ c.by = f /\ c.at = idx[f]
    BY <1>1, <1>5, CreatedGrowsBy
  <2>2. /\ Task(f).kind = "Submit" /\ idx[f] \in DOMAIN prog[f] /\ Task(f) \in Tasks
        /\ objType[Task(f).ref] # None
    BY <1>1, <2>1, SubmittingTask DEF Submitting
  <2>3. objType'[Task(f).ref] # None
    BY <1>2, <2>2 DEF Grows, Tasks
  <2>4. idx'[f] = idx[f] /\ pc'[f] \in {"submit", "reset"}
    BY <1>1, <2>1 DEF Create, Fail, Goto, TypeInv, TypeOK
  <2> QED BY <1>2, <1>3, <2>1, <2>2, <2>3, <2>4 DEF Task
<1> QED BY <1>4, <1>5

LEMMA NextCreatedInLoop ==
    ASSUME CreatedInv, CreatedBySubmit, CreatedInLoop, NEW f \in Flows, FlowStep(f)
    PROVE  CreatedInLoop'
<1> SUFFICES ASSUME NEW c \in created', c.at = idx'[c.by], pc'[c.by] \in {"submit", "create"}
             PROVE  \E i \in DOMAIN loop'[c.by].names, j \in DOMAIN loop'[c.by].tpls :
                      c.obj = Target(loop'[c.by].tpls[j], loop'[c.by].names[i])
  BY DEF CreatedInLoop
<1>1. TypeInv
  BY DEF CreatedInv
<1>2. \A g \in Flows : g # f => /\ pc'[g] = pc[g] /\ idx'[g] = idx[g] /\ loop'[g] = loop[g]
  BY <1>1, StepOfOneFlow
<1>3. \A g \in Flows : idx[g] \in Nat \ {0}
  BY <1>1 DEF TypeInv, TypeOK
<1>4. CASE c \in created
  <2>1. c.by \in Flows /\ c.at \in Nat /\ c.at <= idx[c.by]
    BY <1>1, <1>4 DEF TypeInv, TypeOK, CreatedBySubmit
  <2>2. CASE c.by # f
    BY <1>2, <1>4, <2>1, <2>2 DEF CreatedInLoop
  <2>3. CASE c.by = f
    <3>1. idx'[f] = idx[f]
      BY <1>1, <1>3, <2>1, <2>3, IndexMoves
    <3>2. pc[f] \in {"submit", "create", "reset", "await", "done"}
      BY <1>4, <2>3, <3>1 DEF CreatedBySubmit
    <3>3. /\ pc[f] \in {"submit", "create"}
          /\ loop'[f].names = loop[f].names /\ loop'[f].tpls = loop[f].tpls
      BY <1>1, <2>3, <3>1, <3>2, LabelMoves
    <3> QED BY <1>4, <2>3, <3>1, <3>3 DEF CreatedInLoop
  <2> QED BY <2>2, <2>3
<1>5. CASE c \notin created
  <2>1. /\ Create(f) /\ InLoop(loop[f]) /\ c.by = f /\ c.obj = Current(loop[f])
    BY <1>1, <1>5, CreatedGrowsBy
  <2>2. loop[f] \in Loops /\ f \in DOMAIN loop /\ f \in DOMAIN pc
    BY <1>1 DEF TypeInv, TypeOK
  <2>3. loop'[f] = Bump(loop[f])
    BY <2>1, <2>2 DEF Create, Fail, Goto
  <2>4. loop'[f].names = loop[f].names /\ loop'[f].tpls = loop[f].tpls
    BY <2>1, <2>2, <2>3, BumpKeeps
  <2>5. loop[f].i \in DOMAIN loop[f].names /\ loop[f].j \in DOMAIN loop[f].tpls
    BY <2>1, <2>2 DEF Loops, InLoop
  <2> QED BY <2>1, <2>4, <2>5 DEF Current
<1> QED BY <1>4, <1>5

LEMMA RecordsItsLoop ==
    ASSUME CreatedInv, CreatedInLoop, UniformShapes, NEW f \in Flows, SetObjInfo(f),
           idx'[f] # idx[f], NEW c \in created, c.by = f, c.at = idx[f],
           objType[Task(f).ref].named # "none"
    PROVE  objInfo'[Task(f).id] # None /\ c.obj \in Targets(objInfo'[Task(f).id])
<1> DEFINE t == Task(f)
           shape == objType[t.ref]
           info == NewObjInfo(shape, loop[f].names)
<1>1. TypeInv /\ pc[f] = "submit" /\ loop[f] \in Loops
  BY DEF SetObjInfo, At, CreatedInv, TypeInv, TypeOK
<1>2. t \in Tasks /\ shape \in Shapes
  BY <1>1, SubmittingTask DEF Submitting
<1>3. objInfo' = [objInfo EXCEPT ![t.id] = info]
  BY DEF SetObjInfo, Fail
<1>4. objInfo'[t.id] = info
  <2> HIDE DEF info
  <2> QED BY <1>1, <1>2, <1>3 DEF TypeInv, TypeOK, Tasks
<1>5. info # None
  <2>1. loop[f].names \in Seq(Names)
    BY <1>1 DEF Loops
  <2> QED BY <1>2, <2>1, NewInfoTyped
<1>6. PICK i \in DOMAIN loop[f].names, j \in DOMAIN loop[f].tpls :
             c.obj = Target(loop[f].tpls[j], loop[f].names[i])
  BY <1>1 DEF CreatedInLoop
<1>7. loop[f].tpls = shape.tpls
  BY <1>1 DEF CreatedInv, LoopCreated, LoopCreatedAt, Submitting
<1>8. /\ i \in DOMAIN info.names /\ j \in DOMAIN info.tpls
      /\ info.names[i] = loop[f].names[i]
      /\ info.tpls[j] = [gvr |-> shape.tpls[j].gvr, ns |-> shape.tpls[1].ns]
  BY <1>6, <1>7 DEF NewObjInfo
<1>9. shape.tpls[1].ns = shape.tpls[j].ns
  <2>1. shape.tpls \in Seq(Templates) /\ shape.tpls # <<>>
    BY <1>2, ShapesAssumption DEF ShapeType
  <2>2. 1 \in DOMAIN shape.tpls
    BY <2>1
  <2> QED BY <1>2, <1>6, <1>7, <2>2 DEF UniformShapes, Uniform
<1>10. c.obj = Target(info.tpls[j], info.names[i])
  BY <1>6, <1>7, <1>8, <1>9 DEF Target
<1>11. c.obj \in Targets(info)
  <2> HIDE DEF info, shape, t
  <2> QED BY <1>8, <1>10 DEF Targets
<1> QED BY <1>4, <1>5, <1>11

LEMMA NextSubmittedIsRecorded ==
    ASSUME SubmittedInv, NEW f \in Flows, FlowStep(f)
    PROVE  SubmittedIsRecorded'
<1> SUFFICES ASSUME UniformShapes, NEW c \in created', c.at < idx'[c.by],
                    ~prog'[c.by][c.at].canExist,
                    objType'[prog'[c.by][c.at].ref].named # "none"
             PROVE  /\ objInfo'[prog'[c.by][c.at].id] # None
                    /\ c.obj \in Targets(objInfo'[prog'[c.by][c.at].id])
  BY DEF SubmittedIsRecorded
<1>1. TypeInv /\ CreatedInv /\ CreatedBySubmit /\ CreatedInLoop
  BY DEF SubmittedInv, CreatedInv
<1>2. /\ prog' = prog /\ Grows /\ \A g \in Flows : g # f => idx'[g] = idx[g]
  BY <1>1, StepOfOneFlow
<1>3. \A g \in Flows : idx[g] \in Nat \ {0}
  BY <1>1 DEF TypeInv, TypeOK
<1>4. CASE c \in created
  <2> DEFINE t == prog[c.by][c.at]
  <2>1. /\ c.by \in Flows /\ c.at \in Nat /\ c.at <= idx[c.by] /\ c.at \in DOMAIN prog[c.by]
        /\ objType[t.ref] # None
        /\ c.at = idx[c.by] => pc[c.by] \in {"submit", "create", "reset", "await", "done"}
    BY <1>1, <1>4 DEF TypeInv, TypeOK, CreatedBySubmit
  <2>2. t \in Tasks
    <3>1. prog[c.by] \in Seq(Tasks)
      BY <1>1, <2>1, ProgramsAssumption DEF TypeInv, TypeOK
    <3> QED BY <2>1, <3>1, ElementOfSeq
  <2>3. objType'[t.ref] = objType[t.ref] /\ ~t.canExist /\ objType[t.ref].named # "none"
    BY <1>2, <2>1, <2>2 DEF Grows, Tasks
  <2>4. CASE c.at < idx[c.by]
    <3>1. objInfo[t.id] # None /\ c.obj \in Targets(objInfo[t.id])
      BY <1>4, <2>3, <2>4 DEF SubmittedInv, SubmittedIsRecorded
    <3>2. objInfo'[t.id] = objInfo[t.id]
      BY <1>2, <2>2, <3>1 DEF Grows, Tasks
    <3> QED BY <1>2, <3>1, <3>2
  <2>5. CASE c.at = idx[c.by]
    <3>1. c.by = f /\ idx'[f] # idx[f]
      BY <1>2, <1>3, <2>1, <2>5
    <3>2. GetExisting(f) \/ SetObjInfo(f)
      BY <1>1, <2>1, <2>5, <3>1, IndexMoves
    <3>3. t = Task(f)
      BY <2>5, <3>1 DEF Task
    <3>4. SetObjInfo(f)
      BY <2>3, <3>2, <3>3 DEF GetExisting
    <3> HIDE DEF t
    <3> QED BY <1>1, <1>2, <1>4, <2>3, <2>5, <3>1, <3>3, <3>4, RecordsItsLoop DEF Task
  <2> QED BY <1>3, <2>1, <2>4, <2>5
<1>5. CASE c \notin created
  <2>1. Create(f) /\ c.by = f /\ c.at = idx[f]
    BY <1>1, <1>5, CreatedGrowsBy
  <2>2. idx' = idx
    BY <2>1 DEF Create, Fail
  <2> QED BY <1>3, <2>1, <2>2
<1> QED BY <1>4, <1>5

LEMMA InitSubmittedInv == Init => SubmittedInv
<1> SUFFICES ASSUME Init PROVE SubmittedInv
  OBVIOUS
<1>1. created = {}
  BY DEF Init
<1> QED BY <1>1, InitCreatedInv
        DEF SubmittedInv, CreatedBySubmit, CreatedInLoop, SubmittedIsRecorded

LEMMA NextSubmittedInv == SubmittedInv /\ [Next]_vars => SubmittedInv'
<1> SUFFICES ASSUME SubmittedInv, [Next]_vars PROVE SubmittedInv'
  OBVIOUS
<1>1. CreatedInv'
  BY NextCreatedInv DEF SubmittedInv
<1>2. CASE UNCHANGED vars
  <2>1. CreatedBySubmit' /\ CreatedInLoop'
    BY <1>2 DEF vars, SubmittedInv, CreatedBySubmit, CreatedInLoop
  <2>2. SubmittedIsRecorded'
    BY <1>2 DEF vars, SubmittedInv, SubmittedIsRecorded
  <2> QED BY <1>1, <2>1, <2>2 DEF SubmittedInv
<1>3. ASSUME NEW f \in Flows, FlowStep(f)
      PROVE  CreatedBySubmit' /\ CreatedInLoop' /\ SubmittedIsRecorded'
  BY <1>3, NextCreatedBySubmit, NextCreatedInLoop, NextSubmittedIsRecorded DEF SubmittedInv
<1> QED BY <1>1, <1>2, <1>3 DEF Next, FlowStep, SubmittedInv

(* A SubmitObj that went through its loop has every object it created in   *)
(* the entry of its id, so that later tasks and the cleanup reach them     *)
(* (submit_object_task.go:105-148).                                        *)
THEOREM SubmittedIsRecordedAlways == Spec => []SubmittedIsRecorded
<1>1. SubmittedInv => SubmittedIsRecorded
  BY DEF SubmittedInv
<1> QED BY <1>1, InitSubmittedInv, NextSubmittedInv, PTL DEF Spec

-----------------------------------------------------------------------------
(* The cleanup leaves nothing behind.                                      *)

LEMMA AheadEnds ==
    ASSUME NEW l \in Loops, ~InLoop(l), l.tpls # <<>> => l.j \in DOMAIN l.tpls, NEW o, Ahead(o, l)
    PROVE  FALSE
<1>1. PICK i \in DOMAIN l.names, j \in DOMAIN l.tpls : ~Before(l, i, j)
  BY DEF Ahead
<1>2. l.tpls # <<>>
  BY <1>1 DEF Loops
<1>3. l.j \in 1..Len(l.tpls) /\ Len(l.tpls) \in Nat
  BY <1>2 DEF Loops
<1>4. l.i > Len(l.names)
  BY <1>3 DEF InLoop, Loops
<1>5. i \in 1..Len(l.names) /\ Len(l.names) \in Nat
  BY DEF Loops
<1>6. i < l.i
  BY <1>4, <1>5 DEF Loops
<1> QED BY <1>1, <1>6 DEF Before

LEMMA AheadBump ==
    ASSUME NEW l \in Loops, InLoop(l), NEW o, Ahead(o, l), o # Current(l)
    PROVE  Ahead(o, Bump(l))
<1>1. PICK i \in DOMAIN l.names, j \in DOMAIN l.tpls :
             ~Before(l, i, j) /\ o = Target(l.tpls[j], l.names[i])
  BY DEF Ahead
<1>2. ~(i = l.i /\ j = l.j)
  BY <1>1 DEF Current
<1>3. ~Before(Bump(l), i, j)
  BY <1>1, <1>2, BeforeBump
<1>4. Bump(l).names = l.names /\ Bump(l).tpls = l.tpls
  BY BumpKeeps
<1> QED BY <1>1, <1>3, <1>4 DEF Ahead

LEMMA AheadAtStart ==
    ASSUME NEW info \in Infos, NEW o \in Targets(info)
    PROVE  Ahead(o, LoopOver(info.names, info.tpls))
<1> DEFINE l == LoopOver(info.names, info.tpls)
<1>1. PICK i \in DOMAIN info.names, j \in DOMAIN info.tpls :
             o = Target(info.tpls[j], info.names[i])
  BY DEF Targets
<1>2. i \in Nat \ {0} /\ j \in Nat \ {0}
  BY DEF Infos
<1>3. l.names = info.names /\ l.tpls = info.tpls /\ l.i = 1 /\ l.j = 1
  BY DEF LoopOver
<1>4. ~Before(l, i, j)
  <2> HIDE DEF l
  <2> QED BY <1>2, <1>3 DEF Before
<1>5. Ahead(o, l)
  <2> HIDE DEF l
  <2> QED BY <1>1, <1>3, <1>4 DEF Ahead
<1> QED BY <1>5

(* A numbered object that is about to be created is not recorded: its      *)
(* number is held by the flow that creates it.                             *)
LEMMA CreatesFresh ==
    ASSUME NumberInv, NEW f \in Flows, pc[f] \in Submitting, InLoop(loop[f]),
           Current(loop[f]).name > 0, NEW id \in Recorded
    PROVE  Current(loop[f]) \notin Targets(objInfo[id])
<1> DEFINE o == Current(loop[f])
<1>1. loop[f] \in Loops
  BY DEF NumberInv, TypeInv, TypeOK
<1>2. loop[f].i \in DOMAIN loop[f].names /\ o.name = loop[f].names[loop[f].i]
  BY <1>1 DEF Loops, InLoop, Current, Target
<1>3. objType[Task(f).ref].named = "enum"
  <2>1. o.name # 0
    OBVIOUS
  <2> HIDE DEF o
  <2> QED BY <1>2, <2>1 DEF NumberInv, HeldNames
<1>4. o.name \in NumbersOf(f)
  BY <1>2, <1>3 DEF NumbersOf, Submitting
<1> SUFFICES ASSUME o \in Targets(objInfo[id]) PROVE FALSE
  OBVIOUS
<1>5. \E i \in DOMAIN objInfo[id].names : o.name = objInfo[id].names[i]
  <2> HIDE DEF o
  <2> QED BY DEF Targets, Target
<1>6. o.name \notin {0, Blank}
  BY DEF Blank
<1>7. o.name \in RecordedNumbers(id)
  BY <1>5, <1>6 DEF RecordedNumbers
<1> HIDE DEF o
<1> QED BY <1>4, <1>7 DEF NumberInv, NumbersUnique

(* What a step may add to the cluster, and what it does to the clock.      *)
LEMMA ClusterGrowsBy ==
    ASSUME TypeInv, NEW f \in Flows, FlowStep(f)
    PROVE  /\ \A o \in cluster' \ cluster :
                /\ pc[f] \in Submitting /\ InLoop(loop[f]) /\ o = Current(loop[f])
           /\ \A g \in Flows : ctxDone[g] => ctxDone'[g]
           /\ faults' \in {faults, faults + 1}
<1>1. CASE Create(f)
  <2>1. pc[f] \in Submitting /\ InLoop(loop[f]) /\ cluster' \subseteq cluster \cup {Current(loop[f])}
    BY <1>1 DEF Create, At, Submitting
  <2>2. ctxDone' = ctxDone /\ faults' \in {faults, faults + 1}
    BY <1>1 DEF Create, unchangedReset, ApiFails, ApiAnswers
  <2> QED BY <2>1, <2>2
<1>2. CASE ~Create(f)
  <2>1. cluster' \subseteq cluster
    BY <1>2 DEF FlowStep, Start, RunStep, EndOfTasks, GetTask, RegisterStep, Discover, SetObjType,
         SubmitStep, GetObjType, GenerateName, NamesReady, GetExisting, SetObjInfo, InfoStep,
         GetObjInfo, WorkOnObject, WorkDone, CheckFails, RunLocal, Reset, ResetStops,
         ResetTimesOut, SweepStep, PickEntry, SweepOne, SweepDone, Expire, Cancel
  <2>2. faults' \in {faults, faults + 1}
    BY <1>2 DEF FlowStep, Start, RunStep, EndOfTasks, GetTask, RegisterStep, Discover, SetObjType,
         SubmitStep, GetObjType, GenerateName, NamesReady, GetExisting, SetObjInfo, InfoStep,
         GetObjInfo, WorkOnObject, WorkDone, CheckFails, RunLocal, Reset, ResetStops,
         ResetTimesOut, SweepStep, PickEntry, SweepOne, SweepDone, Expire, Cancel,
         ApiFails, ApiAnswers
  <2>3. \A g \in Flows : ctxDone[g] => ctxDone'[g]
    <3>1. CASE Expire(f) \/ Cancel(f)
      BY <3>1 DEF Expire, Cancel, TypeInv, TypeOK
    <3>2. CASE ~(Expire(f) \/ Cancel(f))
      <4>1. ctxDone' = ctxDone
        BY <1>2, <3>2 DEF FlowStep, Start, RunStep, EndOfTasks, GetTask, RegisterStep, Discover,
             SetObjType, SubmitStep, GetObjType, GenerateName, NamesReady, GetExisting, SetObjInfo,
             InfoStep, GetObjInfo, WorkOnObject, WorkDone, CheckFails, RunLocal, Reset, ResetStops,
             ResetTimesOut, SweepStep, PickEntry, SweepOne, SweepDone, flowVars, unchangedReset
      <4> QED BY <4>1
    <3> QED BY <3>1, <3>2
  <2> QED BY <2>1, <2>2, <2>3
<1> QED BY <1>1, <1>2

(* Whatever a step does, a numbered object of a recorded entry that is in  *)
(* the cluster afterwards was there before.                                *)
LEMMA RecordedNotRecreated ==
    ASSUME NumberInv, NEW f \in Flows, FlowStep(f), NEW id \in Recorded, NEW o \in cluster',
           o \in Targets(objInfo'[id]), o.name > 0
    PROVE  o \in cluster /\ o \in Targets(objInfo[id])
<1>1. TypeInv
  BY DEF NumberInv
<1>2. objInfo'[id] = objInfo[id]
  BY <1>1, StepOfOneFlow DEF Grows, Recorded
<1>3. o \in Targets(objInfo[id])
  BY <1>2
<1>4. o \in cluster
  <2> SUFFICES ASSUME o \notin cluster PROVE FALSE
    OBVIOUS
  <2>1. pc[f] \in Submitting /\ InLoop(loop[f]) /\ o = Current(loop[f])
    BY <1>1, ClusterGrowsBy
  <2> QED BY <1>3, <2>1, CreatesFresh
<1> QED BY <1>3, <1>4

(* What a step of a flow does to its own cleanup.                          *)
SweepMoves(f) ==
    \/ sweep'[f] = sweep[f]
    \/ Reset(f) /\ sweep'[f] = [NoSweep EXCEPT !.st = "iter", !.start = Recorded]
    \/ \E id \in TaskIds : PickEntry(f, id)
    \/ SweepOne(f)
    \/ SweepDone(f)
    \/ ResetStops(f)

LEMMA StepMovesSweep ==
    ASSUME TypeInv, NEW f \in Flows, FlowStep(f)
    PROVE  SweepMoves(f)
<1>1. f \in DOMAIN sweep
  BY DEF TypeInv, TypeOK
<1>2. CASE TaskStep(f)
  BY <1>2, TaskStepLabels DEF SweepMoves
<1>3. CASE Start(f) \/ ResetTimesOut(f) \/ Expire(f) \/ Cancel(f)
  BY <1>3 DEF Start, ResetTimesOut, Expire, Cancel, unchangedReset, SweepMoves
<1>4. CASE Reset(f)
  BY <1>1, <1>4 DEF Reset, SweepMoves
<1> QED BY <1>2, <1>3, <1>4 DEF FlowStep, RunStep, SweepStep, TaskStep, SweepMoves

LEMMA NextSweepTyped ==
    ASSUME TypeInv, SweepTyped, NEW f \in Flows, FlowStep(f)
    PROVE  SweepTyped'
<1>1. Recorded \subseteq Recorded'
  BY StepOfOneFlow DEF Grows, Recorded
<1>2. \A g \in Flows : g # f => sweep'[g] = sweep[g]
  BY StepOfOneFlow
<1>3. f \in DOMAIN sweep /\ sweep[f] \in Sweeps /\ sweep[f].loop \in Loops
  BY DEF TypeInv, TypeOK, Sweeps
<1> SUFFICES /\ sweep'[f].seen \subseteq Recorded'
             /\ sweep'[f].loop.tpls # <<>> => sweep'[f].loop.j \in DOMAIN sweep'[f].loop.tpls
  BY <1>1, <1>2 DEF SweepTyped
<1>4. CASE sweep'[f] = sweep[f]
  BY <1>1, <1>4 DEF SweepTyped
<1>5. CASE sweep'[f] = [NoSweep EXCEPT !.st = "iter", !.start = Recorded]
  BY <1>5 DEF NoSweep, NoLoop
<1>6. ASSUME NEW id \in TaskIds, PickEntry(f, id)
      PROVE  /\ sweep'[f].seen \subseteq Recorded'
             /\ sweep'[f].loop.tpls # <<>> => sweep'[f].loop.j \in DOMAIN sweep'[f].loop.tpls
  <2>1. /\ id \in Recorded /\ sweep'[f].seen = sweep[f].seen \cup {id}
        /\ sweep'[f].loop = LoopOver(objInfo[id].names, objInfo[id].tpls)
    BY <1>3, <1>6 DEF PickEntry, Sweeps
  <2>2. objInfo[id].tpls \in Seq(Templates)
    BY <2>1 DEF Recorded, TypeInv, TypeOK, Infos
  <2>3. objInfo[id].tpls # <<>> => 1 \in DOMAIN objInfo[id].tpls
    BY <2>2
  <2> QED BY <1>1, <2>1, <2>3 DEF SweepTyped, LoopOver
<1>7. CASE SweepOne(f)
  <2>1. sweep'[f].seen = sweep[f].seen /\ sweep'[f].loop = Bump(sweep[f].loop)
        /\ InLoop(sweep[f].loop)
    BY <1>3, <1>7 DEF SweepOne, Sweeps
  <2> QED BY <1>1, <1>3, <2>1, BumpKeeps DEF SweepTyped
<1>8. CASE SweepDone(f) \/ ResetStops(f)
  <2>1. sweep'[f].seen = sweep[f].seen /\ sweep'[f].loop = sweep[f].loop
    BY <1>3, <1>8 DEF SweepDone, ResetStops, Sweeps
  <2> QED BY <1>1, <2>1 DEF SweepTyped
<1> QED BY <1>4, <1>5, <1>6, <1>7, <1>8, StepMovesSweep DEF SweepMoves

LEMMA NextSweepClears ==
    ASSUME SweepInv, NEW f \in Flows, FlowStep(f)
    PROVE  SweepClears'
<1>1. TypeInv /\ NumberInv /\ SweepTyped /\ SweepClears
  BY DEF SweepInv, NumberInv
<1> SUFFICES ASSUME NEW g \in Flows, ~ctxDone'[g], faults' = 0
             PROVE  /\ sweep'[g].st = "iter" =>
                         \A id \in TaskIds, o \in cluster' :
                           Left(g, id, o)' => Ahead(o, sweep'[g].loop)
                    /\ sweep'[g].st \in {"send", "gone"} =>
                         /\ sweep'[g].start \subseteq sweep'[g].seen
                         /\ \A id \in TaskIds, o \in cluster' : ~Left(g, id, o)'
  BY DEF SweepClears
<1>2. ~ctxDone[g] /\ faults = 0
  <2>1. faults \in Nat
    BY <1>1 DEF TypeInv, TypeOK
  <2> QED BY <1>1, <2>1, ClusterGrowsBy
<1>3. g \in DOMAIN sweep /\ sweep[g] \in Sweeps /\ sweep[g].loop \in Loops
  BY <1>1 DEF TypeInv, TypeOK, Sweeps
<1>4. \A id \in Recorded, o \in cluster' :
        o \in Targets(objInfo'[id]) /\ o.name > 0 => o \in cluster /\ o \in Targets(objInfo[id])
  BY <1>1, RecordedNotRecreated
<1>5. ASSUME sweep'[g].seen = sweep[g].seen, NEW id \in TaskIds, NEW o \in cluster',
             Left(g, id, o)'
      PROVE  Left(g, id, o) /\ o \in cluster
  <2>1. id \in sweep[g].seen /\ o \in Targets(objInfo'[id]) /\ o.name > 0
    BY <1>5 DEF Left
  <2>2. id \in Recorded
    BY <1>1, <2>1 DEF SweepTyped
  <2> QED BY <1>4, <2>1, <2>2 DEF Left
<1>6. CASE sweep'[g] = sweep[g]
  BY <1>1, <1>2, <1>5, <1>6 DEF SweepClears
<1>7. CASE g = f /\ sweep'[f] = [NoSweep EXCEPT !.st = "iter", !.start = Recorded]
  BY <1>7 DEF NoSweep, Left
<1>8. \A o : ~InLoop(sweep[g].loop) => ~Ahead(o, sweep[g].loop)
  BY <1>1, <1>3, AheadEnds DEF SweepTyped
<1>9. ASSUME NEW jd \in TaskIds, g = f, PickEntry(f, jd)
      PROVE  /\ sweep'[g].st = "iter"
             /\ \A id \in TaskIds, o \in cluster' : Left(g, id, o)' => Ahead(o, sweep'[g].loop)
  <2>1. /\ sweep[g].st = "iter" /\ ~InLoop(sweep[g].loop) /\ jd \in Recorded
        /\ objInfo' = objInfo /\ cluster' = cluster
    BY <1>9 DEF PickEntry, unchangedRegistry
  <2>2. /\ sweep'[g].st = "iter" /\ sweep'[g].seen = sweep[g].seen \cup {jd}
        /\ sweep'[g].loop = LoopOver(objInfo[jd].names, objInfo[jd].tpls)
    BY <1>3, <1>9, <2>1 DEF PickEntry, Sweeps
  <2>3. ASSUME NEW id \in TaskIds, NEW o \in cluster, Left(g, id, o)'
        PROVE  Ahead(o, sweep'[g].loop)
    <3>1. /\ id \in sweep[g].seen \cup {jd} /\ o \in Targets(objInfo[id]) /\ o.name > 0
      BY <2>1, <2>2, <2>3 DEF Left
    <3>2. CASE id = jd
      <4>1. objInfo[jd] \in Infos
        BY <1>1, <2>1 DEF Recorded, TypeInv, TypeOK
      <4> QED BY <2>2, <3>1, <3>2, <4>1, AheadAtStart
    <3>3. CASE id \in sweep[g].seen
      <4>1. Ahead(o, sweep[g].loop)
        BY <1>1, <1>2, <2>1, <3>1, <3>3 DEF SweepClears, Left
      <4> QED BY <1>8, <2>1, <4>1
    <3> QED BY <3>1, <3>2, <3>3
  <2> QED BY <2>1, <2>2, <2>3
<1>10. CASE g = f /\ SweepOne(f)
  <2>1. /\ sweep[g].st = "iter" /\ InLoop(sweep[g].loop)
        /\ cluster' = cluster \ {Current(sweep[g].loop)}
    <3>1. ~ApiFails(f)
      BY <1>2, <1>10 DEF ApiFails
    <3> QED BY <1>10, <3>1 DEF SweepOne
  <2>2. /\ sweep'[g].st = "iter" /\ sweep'[g].seen = sweep[g].seen
        /\ sweep'[g].loop = Bump(sweep[g].loop)
    BY <1>3, <1>10, <2>1 DEF SweepOne, Sweeps
  <2>3. ASSUME NEW id \in TaskIds, NEW o \in cluster', Left(g, id, o)'
        PROVE  Ahead(o, sweep'[g].loop)
    <3>1. Left(g, id, o) /\ o \in cluster /\ o # Current(sweep[g].loop)
      BY <1>5, <2>1, <2>2, <2>3
    <3>2. Ahead(o, sweep[g].loop)
      BY <1>1, <1>2, <2>1, <3>1 DEF SweepClears
    <3> QED BY <1>3, <2>1, <2>2, <3>1, <3>2, AheadBump
  <2> QED BY <2>2, <2>3
<1>11. CASE g = f /\ SweepDone(f)
  <2>1. /\ sweep[g].st = "iter" /\ ~InLoop(sweep[g].loop) /\ sweep[g].start \subseteq sweep[g].seen
    BY <1>11 DEF SweepDone
  <2>2. /\ sweep'[g].st = "send" /\ sweep'[g].seen = sweep[g].seen
        /\ sweep'[g].start = sweep[g].start
    BY <1>3, <1>11 DEF SweepDone, Sweeps
  <2>3. \A id \in TaskIds, o \in cluster : ~Left(g, id, o)
    BY <1>1, <1>2, <1>8, <2>1 DEF SweepClears
  <2> QED BY <1>5, <2>1, <2>2, <2>3
<1>12. CASE g = f /\ ResetStops(f)
  <2>1. sweep[g].st = "send"
    BY <1>12 DEF ResetStops
  <2>2. /\ sweep'[g].st = "gone" /\ sweep'[g].seen = sweep[g].seen
        /\ sweep'[g].start = sweep[g].start
    BY <1>3, <1>12 DEF ResetStops, Sweeps
  <2>3. /\ sweep[g].start \subseteq sweep[g].seen
        /\ \A id \in TaskIds, o \in cluster : ~Left(g, id, o)
    BY <1>1, <1>2, <2>1 DEF SweepClears
  <2> QED BY <1>5, <2>2, <2>3
<1>13. CASE g # f
  BY <1>1, <1>6, <1>13, StepOfOneFlow
<1>14. CASE g = f
  <2>1. SweepMoves(f)
    BY <1>1, StepMovesSweep
  <2> QED BY <1>6, <1>7, <1>9, <1>10, <1>11, <1>12, <1>14, <2>1 DEF SweepMoves
<1> QED BY <1>13, <1>14

LEMMA InitSweepInv == Init => SweepInv
<1> SUFFICES ASSUME Init PROVE SweepInv
  OBVIOUS
<1>1. NumberInv /\ OneAfterTheOther /\ SweepFollowsReset /\ SequentialNeverRaces
  BY InitNumberInv, InitSequenceInv DEF SequenceInv
<1>2. \A f \in Flows : sweep[f].st = "none" /\ sweep[f].seen = {} /\ sweep[f].loop.tpls = <<>>
  BY DEF Init, NoSweep, NoLoop
<1>3. SweepTyped /\ SweepClears
  BY <1>2 DEF SweepTyped, SweepClears
<1> QED BY <1>1, <1>3 DEF SweepInv

LEMMA NextSweepInv == SweepInv /\ [Next]_vars => SweepInv'
<1> SUFFICES ASSUME SweepInv, [Next]_vars PROVE SweepInv'
  OBVIOUS
<1>1. NumberInv' /\ OneAfterTheOther' /\ SweepFollowsReset' /\ SequentialNeverRaces'
  BY NextNumberInv, NextSequenceInv DEF SweepInv, SequenceInv, NumberInv
<1>2. CASE UNCHANGED vars
  <2>1. SweepTyped'
    BY <1>2 DEF vars, SweepInv, SweepTyped, Recorded
  <2>2. \A f \in Flows, id \in TaskIds, o \in cluster : Left(f, id, o)' <=> Left(f, id, o)
    BY <1>2 DEF vars, Left
  <2>3. SweepClears'
    BY <1>2, <2>2 DEF vars, SweepInv, SweepClears
  <2> QED BY <1>1, <2>1, <2>3 DEF SweepInv
<1>3. ASSUME NEW f \in Flows, FlowStep(f)
      PROVE  SweepTyped' /\ SweepClears'
  BY <1>3, NextSweepTyped, NextSweepClears DEF SweepInv, NumberInv
<1> QED BY <1>1, <1>2, <1>3 DEF Next, FlowStep, SweepInv

(* Once Reset returned nil in time and no request failed, every numbered   *)
(* object recorded when it began is gone, and no other run brought one     *)
(* back meanwhile (engine.go:273-320).                                     *)
THEOREM NilResetSweptAlways == Spec => []NilResetSwept
<1>1. SweepInv => NilResetSwept
  <2> SUFFICES ASSUME SweepInv, NEW f \in Flows, pc[f] = "done", Cleanup, ~resetErr[f],
                      ~ctxDone[f], faults = 0, NEW id \in sweep[f].start,
                      NEW o \in Targets(objInfo[id]), o.name > 0, o \in cluster
               PROVE  FALSE
    BY DEF NilResetSwept, At
  <2>1. sweep[f].st = "gone"
    BY DEF SweepInv, SweepFollowsReset
  <2>2. id \in sweep[f].seen /\ id \in TaskIds
    BY <2>1 DEF SweepInv, SweepClears, SweepTyped, Recorded
  <2>3. Left(f, id, o)
    BY <2>2 DEF Left
  <2> QED BY <2>1, <2>2, <2>3 DEF SweepInv, SweepClears
<1> QED BY <1>1, InitSweepInv, NextSweepInv, PTL DEF Spec
=============================================================================
