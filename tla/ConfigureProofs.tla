-------------------------- MODULE ConfigureProofs --------------------------
(***************************************************************************)
(* Theorems about Configure for every list of operations and every bound:  *)
(* type correctness, the fan-in that lets no nil result hide an error, and *)
(* deployments that are only restarted when the configuration is in place. *)
(***************************************************************************)
EXTENDS Configure, SequenceTheorems, TLAPS

Values == {Absent, Active, Terminating} \union Data

(* A worker that got an object is at an operation; Exec polls a restart.   *)
TypeInv ==
  /\ TypeOK
  /\ idx \in [Workers -> Nat]
  /\ \A w \in Listers : wpc[w] = "change" => AtOp(w)
  /\ main = "poll" => ri <= Len(program.restarts)

(* Exec knows of every error that was handed over.                         *)
ErrorIsKept ==
  /\ main # "collect" => \A w \in Workers : wpc[w] = "gone"
  /\ \A w \in Workers : wpc[w] = "gone" /\ result[w] = "error" => err = "error"
  /\ main \in {"next", "poll"} => err = "nil"

FanInInv == TypeInv /\ ErrorIsKept

(* What an operation asks for is in the cluster, or is excused.            *)
Settled(w, i) ==
  program[w][i].obj \in touched \union Doomed \/ Holds(program[w][i])

(* A worker leaves everything behind its position settled, and a nil       *)
(* result means it came to the end.                                        *)
DoneIsSettled == \A w \in Listers : \A i \in LastOps(w) : i < idx[w] => Settled(w, i)
NilMeansEnd ==
  /\ \A w \in Listers : wpc[w] \in {"send", "gone"} /\ result[w] = "nil" => ~AtOp(w)
  /\ wpc["nodes"] \in {"send", "gone"} /\ result["nodes"] = "nil" /\ program.nodes =>
       stored[VirtualNodes] = Active

(* A namespace is there, gone, or on its way out.                          *)
SpacesTyped == \A n \in Namespaces : stored[n] \in {Absent, Active, Terminating}

AllNil == \A w \in Workers : wpc[w] = "gone" /\ result[w] = "nil"
RestartMeansNil ==
  main \in {"next", "poll"} \/ (\E d \in Deployments : rollout[d] # "none") => AllNil

PlaceInv == FanInInv /\ DoneIsSettled /\ NilMeansEnd /\ SpacesTyped /\ RestartMeansNil

-----------------------------------------------------------------------------
LEMMA Kinds ==
  /\ \A w \in Listers : KindOf(w) \subseteq Objects /\ VirtualNodes \notin KindOf(w)
  /\ \A w, x \in Listers : w # x => KindOf(w) \intersect KindOf(x) = {}
  /\ \A w \in Listers : w # "namespaces" => KindOf(w) \intersect Namespaces = {}
  /\ KindOf("namespaces") = Namespaces /\ KindOf("classes") = Classes /\ KindOf("maps") = Maps
  /\ \A w \in Listers : w \in Workers /\ w # "nodes"
BY ObjectsAssumption DEF KindOf, Listers, Objects, Workers

LEMMA OpTyped ==
  ASSUME TypeInv, NEW w \in Listers, NEW i \in DOMAIN program[w]
  PROVE  /\ program[w][i].obj \in KindOf(w)
         /\ program[w][i].op \in {"create", "delete"}
         /\ program[w][i].op = "create" =>
              program[w][i].val \in IF w = "namespaces" THEN {Active} ELSE Data
<1>1. program[w] \in Seq(Ops(w))
  BY ProgramsAssumption DEF TypeInv, TypeOK
<1>2. program[w][i] \in Ops(w)
  BY <1>1, ElementOfSeq
<1> QED BY <1>2 DEF Ops

LEMMA AtOpInRange ==
  ASSUME TypeInv, NEW w \in Listers
  PROVE  /\ Len(program[w]) \in Nat /\ DOMAIN program[w] = 1 .. Len(program[w])
         /\ AtOp(w) => idx[w] \in DOMAIN program[w] /\ Op(w) = program[w][idx[w]]
<1>1. program[w] \in Seq(Ops(w))
  BY ProgramsAssumption DEF TypeInv, TypeOK
<1> QED BY <1>1 DEF AtOp, Op, TypeInv, TypeOK

LEMMA RestartsTyped ==
  ASSUME TypeInv
  PROVE  Len(program.restarts) \in Nat
<1>1. program.restarts \in Seq([byLabels : BOOLEAN, match : SUBSET Deployments])
  BY ProgramsAssumption DEF TypeInv, TypeOK
<1> QED BY <1>1

-----------------------------------------------------------------------------
(* Type correctness.                                                       *)

LEMMA InitTypeInv == Init => TypeInv
<1> SUFFICES ASSUME Init PROVE TypeInv
  OBVIOUS
<1>1. program \in Programs
  BY DEF Init
<1>2. /\ \A w \in Listers : Len(program[w]) \in Nat
      /\ Len(program.restarts) \in Nat
  <2>1. program.restarts \in Seq([byLabels : BOOLEAN, match : SUBSET Deployments])
    BY <1>1, ProgramsAssumption
  <2>2. \A w \in Listers : program[w] \in Seq(Ops(w))
    BY <1>1, ProgramsAssumption
  <2> QED BY <2>1, <2>2
<1>3. idx \in [Workers -> Nat] /\ \A w \in Listers : idx[w] \in 1 .. Len(program[w]) + 1
  BY <1>2, Kinds DEF Init
<1>4. stored \in [Objects -> Values]
  BY DEF Init, Values
<1>5. /\ rollout \in [Deployments -> {"none", "asked", "rolling", "rolled"}]
      /\ wpc \in [Workers -> {"run", "change", "send", "gone"}]
      /\ found \in [Workers -> Values] /\ result \in [Workers -> {"nil", "error"}]
  BY DEF Init, Values
<1>6. /\ expired \in BOOLEAN /\ main \in {"collect", "closed", "next", "poll", "done"}
      /\ err \in {"nil", "error"} /\ touched \subseteq Objects
  BY DEF Init
<1>7. ri \in 1 .. Len(program.restarts) + 1 /\ faults \in 0 .. Faults
  BY <1>2, BoundAssumption DEF Init
<1>10. meddled \in 0 .. Meddlings
  BY BoundAssumption DEF Init
<1>8. TypeOK
  BY <1>1, <1>3, <1>4, <1>5, <1>6, <1>7, <1>10 DEF TypeOK, Values
<1>9. /\ \A w \in Listers : wpc[w] # "change"
      /\ main # "poll"
  BY Kinds DEF Init
<1> QED BY <1>3, <1>8, <1>9 DEF TypeInv

(* What a failing call does to the bound.                                  *)
LEMMA FaultCounted ==
  ASSUME TypeInv, CanFail, CountFault
  PROVE  faults' \in 0 .. Faults /\ meddled' = meddled
BY BoundAssumption DEF CanFail, CountFault, TypeInv, TypeOK

LEMMA WrittenTyped ==
  ASSUME TypeInv, NEW o \in Objects, NEW v \in Values
  PROVE  Written(o, v) \in [Objects -> Values]
BY DEF Written, TypeInv, TypeOK, Values

(* The value a lister writes.                                              *)
Wanted(w) == IF Op(w).op = "create" THEN Op(w).val ELSE Absent

LEMMA WantedTyped ==
  ASSUME TypeInv, NEW w \in Listers, AtOp(w)
  PROVE  Op(w).obj \in KindOf(w) /\ Op(w).obj \in Objects /\ Wanted(w) \in Values
<1>1. idx[w] \in DOMAIN program[w] /\ Op(w) = program[w][idx[w]]
  BY AtOpInRange
<1> QED BY <1>1, OpTyped, Kinds DEF Wanted, Values

(* What a step of a lister does to the workers.                            *)
LEMMA ListerMoves ==
  ASSUME TypeInv, NEW w \in Listers, ListerStep(w)
  PROVE  /\ wpc[w] \in {"run", "change"}
         /\ wpc' \in [Workers -> {"run", "change", "send", "gone"}]
         /\ \A x \in Workers : x # w => wpc'[x] = wpc[x] /\ result'[x] = result[x]
                                        /\ idx'[x] = idx[x]
         /\ result' \in [Workers -> {"nil", "error"}]
         /\ wpc'[w] \in {"run", "change", "send"}
         /\ \/ idx'[w] = idx[w] /\ touched' = touched
            \/ /\ idx'[w] = idx[w] + 1 /\ AtOp(w) /\ wpc'[w] = "run"
               /\ touched' = touched \ {Op(w).obj}
         /\ wpc'[w] = "change" => AtOp(w) /\ idx'[w] = idx[w]
         /\ idx' \in [Workers -> Nat]
<1>1. w \in Workers /\ wpc[w] \in {"run", "change"}
  BY Kinds DEF ListerStep, Get, Change, Finish
<1>2. \/ result' = result
      \/ result' = [result EXCEPT ![w] = "error"]
  BY DEF ListerStep, Get, Change, Finish, Refused, Fails
<1>3. result' \in [Workers -> {"nil", "error"}] /\ \A x \in Workers : x # w => result'[x] = result[x]
  BY <1>1, <1>2 DEF TypeInv, TypeOK
<1>4. \E label \in {"run", "change", "send"} : wpc' = [wpc EXCEPT ![w] = label]
  <2>1. CASE Get(w)
    BY <2>1 DEF Get, Passes, Fails
  <2>2. CASE Change(w)
    BY <2>2 DEF Change, Passes, Refused, Fails
  <2>3. CASE Finish(w)
    BY <2>3 DEF Finish
  <2> QED BY <2>1, <2>2, <2>3 DEF ListerStep
<1>5. wpc' \in [Workers -> {"run", "change", "send", "gone"}]
      /\ \A x \in Workers : x # w => wpc'[x] = wpc[x]
  BY <1>1, <1>4 DEF TypeInv, TypeOK
<1>6. wpc'[w] \in {"run", "change", "send"}
  BY <1>1, <1>4 DEF TypeInv, TypeOK
<1>7. \/ idx' = idx /\ touched' = touched
      \/ idx' = [idx EXCEPT ![w] = @ + 1] /\ AtOp(w) /\ wpc'[w] = "run"
         /\ touched' = touched \ {Op(w).obj}
  <2>1. CASE Get(w)
    BY <1>1, <2>1 DEF Get, Passes, TypeInv, TypeOK
  <2>2. CASE Change(w)
    <3>1. AtOp(w)
      BY <2>2 DEF Change, TypeInv
    <3> QED BY <1>1, <2>2, <3>1 DEF Change, Passes, Refused, TypeInv, TypeOK
  <2>3. CASE Finish(w)
    BY <2>3 DEF Finish
  <2> QED BY <2>1, <2>2, <2>3 DEF ListerStep
<1>8. idx' \in [Workers -> Nat] /\ \A x \in Workers : x # w => idx'[x] = idx[x]
  BY <1>1, <1>7 DEF TypeInv
<1>9. wpc'[w] = "change" => AtOp(w) /\ idx' = idx
  BY <1>1 DEF ListerStep, Get, Change, Finish, Passes, Refused, Fails, TypeInv, TypeOK
<1>10. \/ idx'[w] = idx[w] /\ touched' = touched
       \/ /\ idx'[w] = idx[w] + 1 /\ AtOp(w) /\ wpc'[w] = "run"
          /\ touched' = touched \ {Op(w).obj}
  BY <1>1, <1>7 DEF TypeInv
<1> QED BY <1>1, <1>3, <1>5, <1>6, <1>8, <1>9, <1>10

LEMMA ListerTypeInv ==
  ASSUME TypeInv, NEW w \in Listers, ListerStep(w)
  PROVE  TypeInv'
<1>1. UNCHANGED <<program, rollout, expired, exec>>
  BY DEF ListerStep, Get, Change, Finish, cluster
<1>2. w \in Workers /\ idx' \in [Workers -> Nat]
      /\ wpc' \in [Workers -> {"run", "change", "send", "gone"}]
      /\ result' \in [Workers -> {"nil", "error"}]
  BY ListerMoves, Kinds
<1>3. \A x \in Listers : idx'[x] \in 1 .. Len(program[x]) + 1
  <2> SUFFICES ASSUME NEW x \in Listers PROVE idx'[x] \in 1 .. Len(program[x]) + 1
    OBVIOUS
  <2>1. idx[x] \in 1 .. Len(program[x]) + 1 /\ Len(program[x]) \in Nat
    BY AtOpInRange DEF TypeInv, TypeOK
  <2>2. \/ idx'[x] = idx[x]
        \/ idx'[x] = idx[x] + 1 /\ AtOp(x)
    BY ListerMoves, Kinds
  <2> QED BY <2>1, <2>2 DEF AtOp
<1>4. \A x \in Listers : wpc'[x] = "change" => AtOp(x)'
  BY <1>1, ListerMoves, Kinds DEF TypeInv, AtOp
<1>5. faults' \in 0 .. Faults /\ meddled' \in 0 .. Meddlings
  BY FaultCounted DEF ListerStep, Get, Change, Finish, bounds, TypeInv, TypeOK
<1>9. touched' \subseteq Objects
  BY ListerMoves DEF TypeInv, TypeOK
<1>6. found' \in [Workers -> Values]
  <2>1. CASE Get(w)
    <3>1. stored[Op(w).obj] \in Values
      BY <2>1, WantedTyped DEF Get, TypeInv, TypeOK, Values
    <3> QED BY <1>2, <2>1, <3>1 DEF Get, TypeInv, TypeOK, Values
  <2>2. CASE Change(w) \/ Finish(w)
    BY <2>2 DEF Change, Finish, TypeInv, TypeOK, Values
  <2> QED BY <2>1, <2>2 DEF ListerStep
<1>7. stored' \in [Objects -> Values]
  <2>1. CASE Change(w)
    <3>1. AtOp(w)
      BY <2>1 DEF Change, TypeInv
    <3>2. Written(Op(w).obj, Wanted(w)) \in [Objects -> Values]
      BY <3>1, WantedTyped, WrittenTyped
    <3>3. stored' = stored \/ stored' = Written(Op(w).obj, Wanted(w))
      BY <2>1 DEF Change, Wanted
    <3> QED BY <3>2, <3>3 DEF TypeInv, TypeOK, Values
  <2>2. CASE Get(w) \/ Finish(w)
    BY <2>2 DEF Get, Finish, cluster, TypeInv, TypeOK, Values
  <2> QED BY <2>1, <2>2 DEF ListerStep
<1>8. TypeOK'
  BY <1>1, <1>2, <1>3, <1>5, <1>6, <1>7, <1>9 DEF TypeInv, TypeOK, exec, Values
<1> QED BY <1>1, <1>2, <1>4, <1>8 DEF TypeInv, exec

LEMMA NodeMoves ==
  ASSUME TypeInv, NodeStep
  PROVE  /\ UNCHANGED <<program, rollout, expired, idx, found, exec, touched>>
         /\ wpc["nodes"] \in {"run", "change"}
         /\ wpc' \in [Workers -> {"run", "change", "send", "gone"}]
         /\ \A x \in Workers : x # "nodes" => wpc'[x] = wpc[x] /\ result'[x] = result[x]
         /\ result' \in [Workers -> {"nil", "error"}]
         /\ wpc'["nodes"] \in {"change", "send"}
         /\ stored' \in {stored, [stored EXCEPT ![VirtualNodes] = Active]}
         /\ wpc'["nodes"] = "send" /\ result'["nodes"] = "nil" /\ program.nodes =>
              stored' = [stored EXCEPT ![VirtualNodes] = Active]
         /\ faults' \in 0 .. Faults /\ meddled' = meddled
<1>1. UNCHANGED <<program, rollout, expired, idx, found, exec, touched>>
  BY DEF NodeStep, NoNodes, RepoAdd, Upgrade, cluster
<1>2. "nodes" \in Workers /\ wpc["nodes"] \in {"run", "change"}
  BY DEF NodeStep, NoNodes, RepoAdd, Upgrade, Workers
<1>3. /\ wpc' = [wpc EXCEPT !["nodes"] = "change"] \/ wpc' = [wpc EXCEPT !["nodes"] = "send"]
      /\ result' = result \/ result' = [result EXCEPT !["nodes"] = "error"]
  BY DEF NodeStep, NoNodes, RepoAdd, Upgrade, Fails
<1>4. /\ wpc' \in [Workers -> {"run", "change", "send", "gone"}]
      /\ result' \in [Workers -> {"nil", "error"}]
      /\ wpc'["nodes"] \in {"change", "send"}
      /\ \A x \in Workers : x # "nodes" => wpc'[x] = wpc[x] /\ result'[x] = result[x]
  BY <1>2, <1>3 DEF TypeInv, TypeOK
<1>5. stored' \in {stored, [stored EXCEPT ![VirtualNodes] = Active]}
  BY DEF NodeStep, NoNodes, RepoAdd, Upgrade, cluster
<1>6. wpc'["nodes"] = "send" /\ result'["nodes"] = "nil" /\ program.nodes =>
        stored' = [stored EXCEPT ![VirtualNodes] = Active]
  <2>1. CASE NoNodes
    BY <2>1 DEF NoNodes
  <2>2. CASE RepoAdd
    BY <1>2, <2>2 DEF RepoAdd, Fails, TypeInv, TypeOK
  <2>3. CASE Upgrade
    BY <1>2, <2>3 DEF Upgrade, Fails, TypeInv, TypeOK
  <2> QED BY <2>1, <2>2, <2>3 DEF NodeStep
<1>7. faults' \in 0 .. Faults /\ meddled' = meddled
  BY FaultCounted DEF NodeStep, NoNodes, RepoAdd, Upgrade, bounds, TypeInv, TypeOK
<1> QED BY <1>1, <1>2, <1>4, <1>5, <1>6, <1>7

LEMMA NodeTypeInv ==
  ASSUME TypeInv, NodeStep
  PROVE  TypeInv'
<1>1. stored' \in [Objects -> Values]
  BY NodeMoves DEF TypeInv, TypeOK, Values
<1>2. TypeOK'
  BY <1>1, NodeMoves DEF TypeInv, TypeOK, exec, Values
<1>3. \A w \in Listers : wpc'[w] = "change" => AtOp(w)'
  BY NodeMoves, Kinds DEF TypeInv, AtOp
<1> QED BY <1>2, <1>3, NodeMoves DEF TypeInv, exec

(* The collecting loop and Close.                                          *)
LEMMA FanInMoves ==
  ASSUME TypeInv, FanIn
  PROVE  /\ UNCHANGED <<program, cluster, expired, idx, found, result, ri, bounds, touched>>
         /\ main = "collect" /\ main' \in {"collect", "closed"}
         /\ err' \in {err, "error"}
         /\ wpc' \in [Workers -> {"run", "change", "send", "gone"}]
         /\ \A x \in Workers : wpc'[x] = wpc[x] \/ (wpc[x] = "send" /\ wpc'[x] = "gone")
<1>1. CASE Close
  BY <1>1 DEF Close, workers, TypeInv, TypeOK
<1>2. ASSUME NEW w \in Workers, Send(w)
      PROVE  /\ UNCHANGED <<program, cluster, expired, idx, found, result, ri, bounds, touched>>
             /\ main = "collect" /\ main' \in {"collect", "closed"}
             /\ err' \in {err, "error"}
             /\ wpc' \in [Workers -> {"run", "change", "send", "gone"}]
             /\ \A x \in Workers : wpc'[x] = wpc[x] \/ (wpc[x] = "send" /\ wpc'[x] = "gone")
  BY <1>2 DEF Send, TypeInv, TypeOK
<1> QED BY <1>1, <1>2 DEF FanIn

LEMMA FanInTypeInv ==
  ASSUME TypeInv, FanIn
  PROVE  TypeInv'
<1>1. TypeOK'
  BY FanInMoves DEF TypeInv, TypeOK, cluster, bounds
<1>2. \A w \in Listers : wpc'[w] = "change" => AtOp(w)'
  BY FanInMoves, Kinds DEF TypeInv, AtOp
<1> QED BY <1>1, <1>2, FanInMoves DEF TypeInv

LEMMA ExecMoves ==
  ASSUME TypeInv, ExecStep
  PROVE  /\ UNCHANGED <<program, stored, expired, workers, touched>>
         /\ main # "collect" /\ main' \in {"next", "poll", "done"}
         /\ err' \in {err, "error"} /\ (main' \in {"next", "poll"} => err' = err)
         /\ main = "closed" /\ main' \in {"next", "poll"} => err = "nil"
         /\ main' = "poll" => ri' = ri /\ ri <= Len(program.restarts)
         /\ ri' = ri \/ (ri' = ri + 1 /\ ri <= Len(program.restarts))
         /\ rollout' \in [Deployments -> {"none", "asked", "rolling", "rolled"}]
         /\ rollout' = rollout \/ main = "next"
         /\ faults' \in 0 .. Faults /\ meddled' = meddled
<1>1. CASE Judge
  BY <1>1 DEF Judge, cluster, bounds, TypeInv, TypeOK
<1>2. CASE Patch
  <2>1. rollout' \in [Deployments -> {"none", "asked", "rolling", "rolled"}]
    BY <1>2 DEF Patch, TypeInv, TypeOK
  <2>2. faults' \in 0 .. Faults /\ meddled' = meddled
    BY <1>2, FaultCounted DEF Patch, bounds, TypeInv, TypeOK
  <2> QED BY <1>2, <2>1, <2>2 DEF Patch, TypeInv
<1>3. CASE Poll
  BY <1>3 DEF Poll, cluster, bounds, TypeInv, TypeOK
<1>4. CASE PollTimesOut
  BY <1>4 DEF PollTimesOut, cluster, bounds, TypeInv, TypeOK
<1>5. CASE Return
  BY <1>5 DEF Return, cluster, bounds, TypeInv, TypeOK
<1> QED BY <1>1, <1>2, <1>3, <1>4, <1>5 DEF ExecStep

LEMMA ExecTypeInv ==
  ASSUME TypeInv, ExecStep
  PROVE  TypeInv'
<1>1. ri' \in 1 .. Len(program.restarts) + 1
  BY ExecMoves, RestartsTyped DEF TypeInv, TypeOK
<1>2. err' \in {"nil", "error"}
  BY ExecMoves DEF TypeInv, TypeOK
<1>3. TypeOK'
  BY <1>1, <1>2, ExecMoves DEF TypeInv, TypeOK, workers
<1>4. \A w \in Listers : wpc'[w] = "change" => AtOp(w)'
  BY ExecMoves DEF TypeInv, AtOp, workers
<1> QED BY <1>3, <1>4, ExecMoves DEF TypeInv, workers

EnvStep == \/ Expire \/ Terminated
           \/ \E d \in Deployments : Controller(d)
           \/ \E n \in Namespaces : Reap(n)
           \/ \E o \in Objects \ {VirtualNodes} : Meddle(o)

LEMMA EnvMoves ==
  ASSUME TypeInv, EnvStep
  PROVE  /\ UNCHANGED <<program, workers, exec, faults>>
         /\ expired' \in BOOLEAN /\ meddled' \in 0 .. Meddlings
         /\ touched \subseteq touched' /\ touched' \subseteq Objects
         /\ stored' \in [Objects -> Values]
         /\ rollout' \in [Deployments -> {"none", "asked", "rolling", "rolled"}]
         /\ \A d \in Deployments : rollout'[d] # "none" => rollout[d] # "none"
         /\ \A o \in Objects : stored'[o] = stored[o] \/ o \in touched'
         /\ stored'[VirtualNodes] = stored[VirtualNodes]
         /\ \A n \in Namespaces : stored'[n] \in {stored[n], Absent, Active, Terminating}
<1>1. CASE Expire \/ Terminated
  BY <1>1 DEF Expire, Terminated, vars, cluster, bounds, TypeInv, TypeOK, Values, workers, exec
<1>2. ASSUME NEW d \in Deployments, Controller(d)
      PROVE  /\ UNCHANGED <<program, workers, exec, faults, meddled>>
             /\ UNCHANGED <<expired, touched, stored>>
             /\ rollout' \in [Deployments -> {"none", "asked", "rolling", "rolled"}]
             /\ \A e \in Deployments : rollout'[e] # "none" => rollout[e] # "none"
  BY <1>2 DEF Controller, bounds, TypeInv, TypeOK
<1>3. VirtualNodes \in Objects /\ VirtualNodes \notin Namespaces \union Maps
      /\ Namespaces \subseteq Objects
  BY ObjectsAssumption DEF Objects
<1>4. ASSUME NEW n \in Namespaces, Reap(n)
      PROVE  /\ UNCHANGED <<program, workers, exec, faults, meddled, expired, rollout>>
             /\ touched \subseteq touched' /\ touched' \subseteq Objects
             /\ stored' \in [Objects -> Values]
             /\ \A o \in Objects : stored'[o] \in {stored[o], Absent}
             /\ \A o \in Objects : stored'[o] = stored[o] \/ o \in touched'
             /\ stored'[VirtualNodes] = stored[VirtualNodes]
  <2>1. stored' = [o \in Objects |->
          IF o = n \/ (o \in Maps /\ Home[o] = n) THEN Absent ELSE stored[o]]
    BY <1>4 DEF Reap
  <2>2. touched' = touched \union {o \in Objects : stored'[o] # stored[o]}
    BY <1>4 DEF Reap
  <2>3. stored' \in [Objects -> Values] /\ \A o \in Objects : stored'[o] \in {stored[o], Absent}
    BY <2>1 DEF TypeInv, TypeOK, Values
  <2>4. stored'[VirtualNodes] = stored[VirtualNodes]
    BY <1>3, <2>1
  <2>5. UNCHANGED <<program, workers, exec, faults, meddled, expired, rollout>>
    BY <1>4 DEF Reap, bounds
  <2>6. touched \subseteq Objects
    BY DEF TypeInv, TypeOK
  <2> HIDE DEF Values
  <2>7. touched \subseteq touched' /\ touched' \subseteq Objects
        /\ \A o \in Objects : stored'[o] = stored[o] \/ o \in touched'
    BY <2>2, <2>6
  <2> QED BY <2>3, <2>4, <2>5, <2>7
<1>5. ASSUME NEW o \in Objects \ {VirtualNodes}, Meddle(o)
      PROVE  /\ UNCHANGED <<program, workers, exec, faults, expired, rollout>>
             /\ touched' = touched \union {o} /\ meddled' \in 0 .. Meddlings
             /\ stored' \in [Objects -> Values]
             /\ o \in Namespaces => stored'[o] \in {Absent, Active, Terminating}
             /\ \A x \in Objects : x # o => stored'[x] = stored[x]
  <2>1. UNCHANGED <<program, workers, exec, faults, expired, rollout>>
        /\ touched' = touched \union {o}
    BY <1>5 DEF Meddle
  <2>2. meddled' \in 0 .. Meddlings
    BY <1>5, BoundAssumption DEF Meddle, TypeInv, TypeOK
  <2>3. PICK v \in (IF o \in Namespaces THEN {Absent, Active} ELSE {Absent} \union Data) :
          stored' = Written(o, v)
    BY <1>5 DEF Meddle
  <2>4. v \in Values /\ stored \in [Objects -> Values]
    BY <2>3 DEF TypeInv, TypeOK, Values
  <2>5. stored' \in [Objects -> Values]
    BY <2>3, <2>4, WrittenTyped
  <2>6. stored'[o] = IF v = Absent /\ o \in Namespaces THEN Terminating ELSE v
    BY <2>3, <2>4 DEF Written
  <2>7. \A x \in Objects : x # o => stored'[x] = stored[x]
    BY <2>3, <2>4 DEF Written
  <2> QED BY <2>1, <2>2, <2>3, <2>5, <2>6, <2>7
<1>6. CASE \E d \in Deployments : Controller(d)
  BY <1>2, <1>6 DEF TypeInv, TypeOK, Values
<1>7. CASE \E n \in Namespaces : Reap(n)
  BY <1>3, <1>4, <1>7 DEF TypeInv, TypeOK
<1>8. CASE \E o \in Objects \ {VirtualNodes} : Meddle(o)
  <2>1. PICK o \in Objects \ {VirtualNodes} : Meddle(o)
    BY <1>8
  <2> QED BY <1>3, <1>5, <2>1 DEF TypeInv, TypeOK
<1> QED BY <1>1, <1>6, <1>7, <1>8 DEF EnvStep

LEMMA EnvTypeInv ==
  ASSUME TypeInv, EnvStep
  PROVE  TypeInv'
<1>1. TypeOK'
  BY EnvMoves DEF TypeInv, TypeOK, workers, exec, Values
<1>2. \A w \in Listers : wpc'[w] = "change" => AtOp(w)'
  BY EnvMoves DEF TypeInv, AtOp, workers
<1> QED BY <1>1, <1>2, EnvMoves DEF TypeInv, workers, exec

LEMMA NextTypeInv == TypeInv /\ [Next]_vars => TypeInv'
<1> SUFFICES ASSUME TypeInv, [Next]_vars PROVE TypeInv'
  OBVIOUS
<1>1. CASE UNCHANGED vars
  BY <1>1 DEF vars, cluster, workers, exec, bounds, TypeInv, TypeOK, AtOp
<1>2. CASE Next
  BY <1>2, ListerTypeInv, NodeTypeInv, FanInTypeInv, ExecTypeInv, EnvTypeInv DEF Next, EnvStep
<1> QED BY <1>1, <1>2

(* The variables of the task keep their types for every program.           *)
THEOREM TypeCorrect == Spec => []TypeOK
<1>1. TypeInv => TypeOK
  BY DEF TypeInv
<1> QED BY <1>1, InitTypeInv, NextTypeInv, PTL DEF Spec

-----------------------------------------------------------------------------
(* The fan-in.                                                             *)

LEMMA InitFanInInv == Init => FanInInv
<1>1. Init => ErrorIsKept
  BY DEF Init, ErrorIsKept
<1> QED BY <1>1, InitTypeInv DEF FanInInv

LEMMA NextErrorIsKept ==
  ASSUME FanInInv, Next
  PROVE  ErrorIsKept'
<1>1. TypeInv /\ ErrorIsKept
  BY DEF FanInInv
<1>2. ASSUME NEW w \in Listers, ListerStep(w) PROVE ErrorIsKept'
  <2>1. UNCHANGED exec
    BY <1>2 DEF ListerStep, Get, Change, Finish
  <2> QED BY <1>1, <1>2, <2>1, ListerMoves, Kinds DEF ErrorIsKept, exec
<1>3. CASE NodeStep
  <2>1. wpc["nodes"] # "gone" /\ wpc'["nodes"] # "gone" /\ "nodes" \in Workers
    BY <1>1, <1>3, NodeMoves DEF Workers
  <2> QED BY <1>1, <1>3, <2>1, NodeMoves DEF ErrorIsKept, exec
<1>4. CASE Close
  BY <1>1, <1>4 DEF Close, ErrorIsKept, workers
<1>5. ASSUME NEW w \in Workers, Send(w) PROVE ErrorIsKept'
  <2>1. \A x \in Workers : x # w => wpc'[x] = wpc[x]
    BY <1>1, <1>5 DEF Send, TypeInv, TypeOK
  <2>2. main' = "collect" /\ result' = result /\ (result[w] = "error" => err' = "error")
        /\ (err = "error" => err' = "error")
    BY <1>1, <1>5 DEF Send
  <2> QED BY <1>1, <2>1, <2>2 DEF ErrorIsKept
<1>6. CASE ExecStep
  <2>1. err = "error" => err' = "error"
    BY <1>1, <1>6, ExecMoves DEF TypeInv, TypeOK
  <2>2. main # "collect" /\ (main' \in {"next", "poll"} => main \in {"closed", "next", "poll"})
    BY <1>6 DEF ExecStep, Judge, Patch, Poll, PollTimesOut, Return
  <2>3. wpc' = wpc /\ result' = result
    BY <1>1, <1>6, ExecMoves DEF workers
  <2>4. main' \in {"next", "poll"} => err' = "nil"
    BY <1>1, <1>6, <2>2, ExecMoves DEF ErrorIsKept
  <2> QED BY <1>1, <2>1, <2>2, <2>3, <2>4 DEF ErrorIsKept
<1>7. CASE EnvStep
  BY <1>1, <1>7, EnvMoves DEF ErrorIsKept, workers, exec
<1>8. CASE FanIn
  BY <1>4, <1>5, <1>8 DEF FanIn
<1>9. (\E w \in Listers : ListerStep(w)) \/ NodeStep \/ FanIn \/ ExecStep \/ EnvStep
  BY DEF Next, EnvStep
<1> QED BY <1>2, <1>3, <1>6, <1>7, <1>8, <1>9

LEMMA NextFanInInv == FanInInv /\ [Next]_vars => FanInInv'
<1> SUFFICES ASSUME FanInInv, [Next]_vars PROVE FanInInv'
  OBVIOUS
<1>1. TypeInv'
  BY NextTypeInv DEF FanInInv
<1>2. CASE UNCHANGED vars
  BY <1>1, <1>2 DEF vars, workers, exec, FanInInv, ErrorIsKept
<1>3. CASE Next
  BY <1>1, <1>3, NextErrorIsKept DEF FanInInv
<1> QED BY <1>2, <1>3

(* Exec leaves the collecting loop when all four goroutines handed over,   *)
(* and returns nil only if all four results were nil, whatever their order *)
(* (configure_task.go:187-222).                                            *)
THEOREM NilMeansAllAlways == Spec => []NilMeansAll
<1>1. FanInInv => NilMeansAll
  <2> SUFFICES ASSUME FanInInv PROVE NilMeansAll
    OBVIOUS
  <2>1. main = "done" /\ err = "nil" => \A w \in Workers : result[w] = "nil"
    BY DEF FanInInv, ErrorIsKept, TypeInv, TypeOK
  <2> QED BY <2>1 DEF FanInInv, ErrorIsKept, NilMeansAll
<1> QED BY <1>1, InitFanInInv, NextFanInInv, PTL DEF Spec

-----------------------------------------------------------------------------
(* The configuration is in place before a restart.                         *)

LEMMA InitPlaceInv == Init => PlaceInv
<1> SUFFICES ASSUME Init PROVE PlaceInv
  OBVIOUS
<1>1. TypeInv /\ FanInInv
  BY InitTypeInv, InitFanInInv
<1>2. DoneIsSettled
  <2> SUFFICES ASSUME NEW w \in Listers, NEW i \in LastOps(w), i < idx[w] PROVE FALSE
    BY DEF DoneIsSettled
  <2>1. i \in 1 .. Len(program[w]) /\ Len(program[w]) \in Nat
    BY <1>1, AtOpInRange DEF LastOps
  <2>2. idx[w] = 1
    BY Kinds DEF Init
  <2> QED BY <2>1, <2>2
<1>3. NilMeansEnd
  BY Kinds DEF Init, NilMeansEnd, Workers
<1>4. SpacesTyped
  BY ObjectsAssumption
     DEF Init, SpacesTyped, Objects, Absent, Active, Terminating
<1>5. RestartMeansNil
  BY DEF Init, RestartMeansNil
<1> QED BY <1>1, <1>2, <1>3, <1>4, <1>5 DEF PlaceInv

(* A step of a lister writes the object it is at and no other.             *)
LEMMA ListerWrites ==
  ASSUME TypeInv, NEW w \in Listers, ListerStep(w)
  PROVE  \/ stored' = stored
         \/ /\ AtOp(w)
            /\ \A o \in Objects : o # Op(w).obj => stored'[o] = stored[o]
            /\ \/ stored'[Op(w).obj] = Wanted(w) /\ (w = "namespaces" => Wanted(w) = Active)
               \/ /\ w = "namespaces" /\ Op(w).op = "delete"
                  /\ stored'[Op(w).obj] = Terminating
<1>1. stored' = stored \/ (AtOp(w) /\ stored' = Written(Op(w).obj, Wanted(w)))
  BY DEF ListerStep, Get, Change, Finish, Wanted, cluster, TypeInv
<1> SUFFICES ASSUME AtOp(w), stored' = Written(Op(w).obj, Wanted(w))
             PROVE  /\ \A o \in Objects : o # Op(w).obj => stored'[o] = stored[o]
                    /\ \/ stored'[Op(w).obj] = Wanted(w) /\ (w = "namespaces" => Wanted(w) = Active)
                       \/ /\ w = "namespaces" /\ Op(w).op = "delete"
                          /\ stored'[Op(w).obj] = Terminating
  BY <1>1
<1>2. Op(w).obj \in KindOf(w) /\ Op(w).obj \in Objects
  BY WantedTyped
<1>3. /\ Op(w).op \in {"create", "delete"}
      /\ Op(w).op = "create" => Op(w).val \in IF w = "namespaces" THEN {Active} ELSE Data
  BY AtOpInRange, OpTyped
<1>4. Op(w).obj \in Namespaces <=> w = "namespaces"
  BY <1>2, Kinds
<1>5. Wanted(w) = Absent <=> Op(w).op = "delete"
  BY <1>3, ObjectsAssumption DEF Wanted, Absent, Active
<1>6. \A o \in Objects : o # Op(w).obj => stored'[o] = stored[o]
  BY <1>2 DEF Written, TypeInv, TypeOK
<1>7. stored'[Op(w).obj] = IF Wanted(w) = Absent /\ Op(w).obj \in Namespaces
                           THEN Terminating ELSE Wanted(w)
  BY <1>2 DEF Written, TypeInv, TypeOK
<1>8. w = "namespaces" /\ Op(w).op = "create" => Wanted(w) = Active
  BY <1>3 DEF Wanted
<1> QED BY <1>3, <1>4, <1>5, <1>6, <1>7, <1>8

(* The operation a lister goes past is settled.                            *)
LEMMA ListerSettles ==
  ASSUME PlaceInv, NEW w \in Listers, ListerStep(w), idx'[w] # idx[w],
         NEW i, i = idx[w]
  PROVE  Settled(w, i)'
<1>1. TypeInv /\ SpacesTyped /\ w \in Workers
  BY Kinds DEF PlaceInv, FanInInv
<1>2. UNCHANGED program
  BY DEF ListerStep, Get, Change, Finish
<1>3. AtOp(w) /\ idx[w] \in DOMAIN program[w] /\ Op(w) = program[w][idx[w]]
  BY <1>1, AtOpInRange, ListerMoves
<1>4. /\ Op(w).obj \in KindOf(w) /\ Op(w).obj \in Objects
      /\ Op(w).op \in {"create", "delete"}
      /\ Op(w).op = "create" => Op(w).val \in IF w = "namespaces" THEN {Active} ELSE Data
  BY <1>1, <1>3, WantedTyped, OpTyped
<1>5. \/ Op(w).obj \in Namespaces /\ stored'[Op(w).obj] = Terminating
      \/ stored'[Op(w).obj] = Wanted(w)
  <2>1. CASE Get(w)
    <3>1. /\ stored' = stored /\ GetsFirst(w) /\ NothingToDo(w, stored[Op(w).obj])
      BY <1>1, <2>1 DEF Get, cluster, TypeInv
    <3>2. CASE w = "namespaces"
      <4>1. Op(w).op = "create" /\ stored[Op(w).obj] # Absent /\ Op(w).obj \in Namespaces
        BY <1>4, <3>1, <3>2, Kinds DEF GetsFirst, NothingToDo
      <4>2. stored[Op(w).obj] \in {Active, Terminating}
        BY <1>1, <4>1 DEF SpacesTyped
      <4> QED BY <1>4, <3>1, <3>2, <4>1, <4>2 DEF Wanted
    <3>3. CASE w = "classes"
      BY <3>1, <3>3 DEF GetsFirst, NothingToDo, Wanted
    <3>4. CASE w = "maps"
      BY <1>4, <3>1, <3>4 DEF GetsFirst, NothingToDo, Wanted
    <3> QED BY <3>2, <3>3, <3>4 DEF Listers
  <2>2. CASE Change(w)
    <3>1. stored' = Written(Op(w).obj, Wanted(w))
      BY <2>2 DEF Change, Refused, Fails, Wanted
    <3> QED BY <1>1, <1>4, <3>1 DEF Written, TypeInv, TypeOK
  <2>3. CASE Finish(w)
    BY <2>3 DEF Finish
  <2> QED BY <2>1, <2>2, <2>3 DEF ListerStep
<1>6. Op(w) = program'[w][i]
  BY <1>2, <1>3
<1>7. CASE Op(w).obj \in Namespaces /\ stored'[Op(w).obj] = Terminating
  BY <1>6, <1>7 DEF Settled, Doomed
<1>8. CASE stored'[Op(w).obj] = Wanted(w)
  BY <1>6, <1>8 DEF Settled, Holds, Wanted
<1> QED BY <1>5, <1>7, <1>8

(* An operation stays settled while its object is left alone, or is        *)
(* changed by somebody else.                                               *)
LEMMA SettledKept ==
  ASSUME NEW w \in Listers, NEW i \in DOMAIN program[w], Settled(w, i), program' = program,
         NEW o, o = program[w][i].obj, o \in touched => o \in touched',
         stored'[o] = stored[o] \/ o \in touched'
  PROVE  Settled(w, i)'
<1>1. CASE o \in touched'
  BY <1>1 DEF Settled
<1>2. CASE o \notin touched'
  BY <1>2 DEF Settled, Doomed, Holds
<1> QED BY <1>1, <1>2

LEMMA ListerDone ==
  ASSUME PlaceInv, NEW w \in Listers, ListerStep(w)
  PROVE  DoneIsSettled'
<1>1. TypeInv /\ DoneIsSettled
  BY DEF PlaceInv, FanInInv
<1>2. UNCHANGED program
  BY DEF ListerStep, Get, Change, Finish
<1> SUFFICES ASSUME NEW x \in Listers, NEW i \in LastOps(x), i < idx'[x]
             PROVE  Settled(x, i)'
  BY <1>2 DEF DoneIsSettled, LastOps
<1>3. i \in DOMAIN program[x] /\ i \in Nat /\ idx[x] \in Nat
  BY <1>1, AtOpInRange, Kinds DEF LastOps, TypeInv
<1>4. CASE i < idx[x]
  <2>1. Settled(x, i)
    BY <1>1, <1>4 DEF DoneIsSettled
  <2>2. program[x][i].obj \in KindOf(x) /\ program[x][i].obj \in Objects
    BY <1>1, <1>3, OpTyped, Kinds
  <2>3. ASSUME AtOp(w) PROVE program[x][i].obj # Op(w).obj
    <3>1. Op(w).obj \in KindOf(w) /\ idx[w] \in DOMAIN program[w] /\ Op(w) = program[w][idx[w]]
      BY <1>1, <2>3, WantedTyped, AtOpInRange
    <3>2. CASE x # w
      BY <2>2, <3>1, <3>2, Kinds
    <3>3. CASE x = w
      BY <1>3, <1>4, <3>1, <3>3 DEF LastOps
    <3> QED BY <3>2, <3>3
  <2>4. stored'[program[x][i].obj] = stored[program[x][i].obj]
    BY <1>1, <2>2, <2>3, ListerWrites
  <2>5. program[x][i].obj \in touched => program[x][i].obj \in touched'
    BY <1>1, <2>3, ListerMoves
  <2> QED BY <1>2, <1>3, <2>1, <2>4, <2>5, SettledKept
<1>5. CASE ~(i < idx[x])
  <2>1. x = w /\ idx'[w] = idx[w] + 1 /\ i = idx[w]
    BY <1>1, <1>3, <1>5, ListerMoves, Kinds
  <2>2. idx'[w] # idx[w]
    BY <1>3, <2>1
  <2>3. Settled(w, i)'
    BY <2>1, <2>2, ListerSettles
  <2> QED BY <2>1, <2>3
<1> QED BY <1>4, <1>5

LEMMA ListerRest ==
  ASSUME PlaceInv, NEW w \in Listers, ListerStep(w)
  PROVE  NilMeansEnd' /\ SpacesTyped' /\ RestartMeansNil'
<1>1. TypeInv /\ NilMeansEnd /\ SpacesTyped /\ RestartMeansNil /\ w \in Workers /\ w # "nodes"
  BY Kinds DEF PlaceInv, FanInInv
<1>2. UNCHANGED <<program, rollout, exec>>
  BY DEF ListerStep, Get, Change, Finish, cluster
<1>4. stored'[VirtualNodes] = stored[VirtualNodes]
  <2>1. VirtualNodes \in Objects /\ (AtOp(w) => Op(w).obj # VirtualNodes)
    BY <1>1, WantedTyped, Kinds DEF Objects
  <2> QED BY <1>1, <2>1, ListerWrites
<1>5. wpc'[w] \in {"send", "gone"} /\ result'[w] = "nil" => ~AtOp(w)'
  <2>1. CASE Get(w) \/ Change(w)
    <3>1. wpc'[w] \in {"run", "change"} \/ result'[w] = "error"
      BY <1>1, <2>1 DEF Get, Change, Passes, Refused, Fails, TypeInv, TypeOK
    <3> QED BY <3>1
  <2>2. CASE Finish(w)
    BY <2>2 DEF Finish, AtOp
  <2> QED BY <2>1, <2>2 DEF ListerStep
<1>6. NilMeansEnd'
  <2>1. \A x \in Listers : wpc'[x] \in {"send", "gone"} /\ result'[x] = "nil" => ~AtOp(x)'
    BY <1>1, <1>2, <1>5, ListerMoves, Kinds DEF NilMeansEnd, AtOp
  <2>2. wpc'["nodes"] = wpc["nodes"] /\ result'["nodes"] = result["nodes"]
    BY <1>1, ListerMoves DEF Workers
  <2> QED BY <1>1, <1>2, <1>4, <2>1, <2>2 DEF NilMeansEnd
<1>7. SpacesTyped'
  <2>1. CASE stored' = stored
    BY <1>1, <2>1 DEF SpacesTyped
  <2>2. CASE stored' # stored
    <3>1. AtOp(w) /\ Op(w).obj \in KindOf(w) /\ \A o \in Objects : o # Op(w).obj => stored'[o] = stored[o]
      BY <1>1, <2>2, ListerWrites, WantedTyped
    <3>2. Op(w).obj \in Namespaces => stored'[Op(w).obj] \in {Active, Terminating}
      BY <1>1, <2>2, <3>1, ListerWrites, Kinds
    <3>3. Namespaces \subseteq Objects
      BY DEF Objects
    <3> QED BY <1>1, <3>1, <3>2, <3>3 DEF SpacesTyped
  <2> QED BY <2>1, <2>2
<1>8. RestartMeansNil'
  <2>1. ~AllNil
    BY <1>1, ListerMoves DEF AllNil
  <2> QED BY <1>1, <1>2, <2>1 DEF RestartMeansNil, exec
<1> QED BY <1>6, <1>7, <1>8

LEMMA NodePlace ==
  ASSUME PlaceInv, NodeStep
  PROVE  DoneIsSettled' /\ NilMeansEnd' /\ SpacesTyped' /\ RestartMeansNil'
<1>1. /\ TypeInv /\ DoneIsSettled /\ NilMeansEnd /\ SpacesTyped /\ RestartMeansNil
  BY DEF PlaceInv, FanInInv
<1>2. UNCHANGED <<program, touched, rollout, exec, idx>> /\ "nodes" \in Workers
  BY <1>1, NodeMoves DEF Workers
<1>4. \A o \in Objects : o # VirtualNodes => stored'[o] = stored[o]
  BY <1>1, NodeMoves DEF TypeInv, TypeOK
<1>5. DoneIsSettled'
  <2> SUFFICES ASSUME NEW x \in Listers, NEW i \in LastOps(x), i < idx[x]
               PROVE  Settled(x, i)'
    BY <1>2 DEF DoneIsSettled, LastOps
  <2>1. i \in DOMAIN program[x] /\ Settled(x, i)
    BY <1>1 DEF LastOps, DoneIsSettled
  <2>2. program[x][i].obj \in Objects /\ program[x][i].obj # VirtualNodes
    BY <1>1, <2>1, OpTyped, Kinds
  <2> QED BY <1>2, <1>4, <2>1, <2>2, SettledKept
<1>6. NilMeansEnd'
  <2>1. \A x \in Listers : wpc'[x] = wpc[x] /\ result'[x] = result[x] /\ (AtOp(x)' <=> AtOp(x))
    BY <1>1, <1>2, NodeMoves, Kinds DEF AtOp
  <2>2. wpc'["nodes"] \in {"send", "gone"} /\ result'["nodes"] = "nil" /\ program.nodes =>
          stored'[VirtualNodes] = Active
    <3>1. VirtualNodes \in Objects
      BY DEF Objects
    <3> QED BY <1>1, <3>1, NodeMoves DEF TypeInv, TypeOK
  <2> QED BY <1>1, <1>2, <2>1, <2>2 DEF NilMeansEnd
<1>7. SpacesTyped'
  <2>1. VirtualNodes \notin Namespaces /\ Namespaces \subseteq Objects
    BY ObjectsAssumption DEF Objects
  <2> QED BY <1>1, <1>4, <2>1 DEF SpacesTyped
<1>8. RestartMeansNil'
  <2>1. ~AllNil
    BY <1>1, <1>2, NodeMoves DEF AllNil
  <2> QED BY <1>1, <1>2, <2>1 DEF RestartMeansNil, exec
<1> QED BY <1>5, <1>6, <1>7, <1>8

LEMMA FanInPlace ==
  ASSUME PlaceInv, FanIn
  PROVE  DoneIsSettled' /\ NilMeansEnd' /\ SpacesTyped' /\ RestartMeansNil'
<1>1. /\ TypeInv /\ DoneIsSettled /\ NilMeansEnd /\ SpacesTyped /\ RestartMeansNil
  BY DEF PlaceInv, FanInInv
<1>2. /\ UNCHANGED <<program, stored, rollout, idx, result, touched>>
      /\ \A x \in Workers : wpc'[x] = wpc[x] \/ (wpc[x] = "send" /\ wpc'[x] = "gone")
      /\ main' \in {"collect", "closed"}
  BY <1>1, FanInMoves DEF cluster
<1>4. DoneIsSettled'
  BY <1>1, <1>2 DEF DoneIsSettled, LastOps, Settled, Doomed, Holds
<1>5. NilMeansEnd'
  <2>1. \A x \in Listers : AtOp(x)' <=> AtOp(x)
    BY <1>2 DEF AtOp
  <2>2. "nodes" \in Workers /\ Listers \subseteq Workers
    BY DEF Workers
  <2> QED BY <1>1, <1>2, <2>1, <2>2 DEF NilMeansEnd
<1>6. SpacesTyped'
  BY <1>1, <1>2 DEF SpacesTyped
<1>7. RestartMeansNil'
  BY <1>1, <1>2 DEF RestartMeansNil, AllNil
<1> QED BY <1>4, <1>5, <1>6, <1>7

LEMMA ExecPlace ==
  ASSUME PlaceInv, ExecStep
  PROVE  DoneIsSettled' /\ NilMeansEnd' /\ SpacesTyped' /\ RestartMeansNil'
<1>1. /\ TypeInv /\ DoneIsSettled /\ NilMeansEnd /\ SpacesTyped /\ RestartMeansNil /\ ErrorIsKept
  BY DEF PlaceInv, FanInInv
<1>2. UNCHANGED <<program, stored, workers, touched>>
  BY <1>1, ExecMoves
<1>4. DoneIsSettled'
  BY <1>1, <1>2 DEF DoneIsSettled, LastOps, Settled, Doomed, Holds, workers
<1>5. NilMeansEnd' /\ SpacesTyped'
  BY <1>1, <1>2 DEF NilMeansEnd, SpacesTyped, AtOp, workers
<1>6. main = "closed" /\ main' \in {"next", "poll"} => AllNil
  BY <1>1, ExecMoves DEF ErrorIsKept, AllNil, TypeInv, TypeOK
<1>7. main' \in {"next", "poll"} => main \in {"closed", "next", "poll"}
  BY <1>1 DEF ExecStep, Judge, Patch, Poll, PollTimesOut, Return
<1>8. rollout' # rollout => main = "next"
  BY <1>1, ExecMoves
<1>9. RestartMeansNil'
  <2>1. AllNil' <=> AllNil
    BY <1>2 DEF AllNil, workers
  <2> QED BY <1>1, <1>6, <1>7, <1>8, <2>1 DEF RestartMeansNil
<1> QED BY <1>4, <1>5, <1>9

LEMMA EnvPlace ==
  ASSUME PlaceInv, EnvStep
  PROVE  DoneIsSettled' /\ NilMeansEnd' /\ SpacesTyped' /\ RestartMeansNil'
<1>1. /\ TypeInv /\ DoneIsSettled /\ NilMeansEnd /\ SpacesTyped /\ RestartMeansNil
  BY DEF PlaceInv, FanInInv
<1>2. UNCHANGED <<program, workers, exec>> /\ touched \subseteq touched'
  BY <1>1, EnvMoves
<1>4. \A o \in Objects : stored'[o] = stored[o] \/ o \in touched'
  BY <1>1, EnvMoves
<1>5. DoneIsSettled'
  <2> SUFFICES ASSUME NEW x \in Listers, NEW i \in LastOps(x), i < idx[x]
               PROVE  Settled(x, i)'
    BY <1>2 DEF DoneIsSettled, LastOps, workers
  <2>1. i \in DOMAIN program[x] /\ Settled(x, i)
    BY <1>1 DEF LastOps, DoneIsSettled
  <2>2. program[x][i].obj \in Objects
    BY <1>1, <2>1, OpTyped, Kinds
  <2> QED BY <1>2, <1>4, <2>1, <2>2, SettledKept
<1>6. NilMeansEnd'
  <2>1. stored'[VirtualNodes] = stored[VirtualNodes]
    BY <1>1, EnvMoves
  <2> QED BY <1>1, <1>2, <2>1 DEF NilMeansEnd, AtOp, workers
<1>7. SpacesTyped'
  BY <1>1, EnvMoves DEF SpacesTyped
<1>8. RestartMeansNil'
  BY <1>1, <1>2, EnvMoves DEF RestartMeansNil, AllNil, workers, exec
<1> QED BY <1>5, <1>6, <1>7, <1>8

LEMMA NextPlaceInv == PlaceInv /\ [Next]_vars => PlaceInv'
<1> SUFFICES ASSUME PlaceInv, [Next]_vars PROVE PlaceInv'
  OBVIOUS
<1>1. FanInInv'
  BY NextFanInInv DEF PlaceInv
<1>2. CASE UNCHANGED vars
  <2>2. DoneIsSettled'
    BY <1>2 DEF vars, workers, cluster, PlaceInv, DoneIsSettled, LastOps, Settled, Doomed, Holds
  <2>3. NilMeansEnd' /\ SpacesTyped' /\ RestartMeansNil'
    BY <1>2 DEF vars, workers, cluster, exec, PlaceInv, NilMeansEnd, SpacesTyped,
                      RestartMeansNil, AllNil, AtOp
  <2> QED BY <1>1, <2>2, <2>3 DEF PlaceInv
<1>3. CASE Next
  <2>1. DoneIsSettled' /\ NilMeansEnd' /\ SpacesTyped' /\ RestartMeansNil'
    BY <1>3, ListerDone, ListerRest, NodePlace, FanInPlace, ExecPlace, EnvPlace DEF Next, EnvStep
  <2> QED BY <1>1, <2>1 DEF PlaceInv
<1> QED BY <1>2, <1>3

(* A deployment is only restarted when all four goroutines went through    *)
(* their lists without an error, and from then on the cluster holds what   *)
(* the program asks of an object, unless something else changed the object *)
(* after the task was done with it, or it is a namespace that was found on *)
(* its way out: what others change before that never leaves the cluster    *)
(* different behind a nil (configure_task.go:192-229).                     *)
THEOREM RestartSeesConfigAlways == Spec => []RestartSeesConfig
<1>1. PlaceInv => RestartSeesConfig
  <2> SUFFICES ASSUME PlaceInv, \E d \in Deployments : rollout[d] # "none"
               PROVE  InPlace
    BY DEF RestartSeesConfig
  <2>1. TypeInv /\ DoneIsSettled /\ NilMeansEnd /\ AllNil
    BY DEF PlaceInv, FanInInv, RestartMeansNil
  <2>2. program.nodes => stored[VirtualNodes] = Active
    BY <2>1 DEF NilMeansEnd, AllNil, Workers
  <2>3. \A w \in Listers : \A i \in LastOps(w) : Settled(w, i)
    <3> SUFFICES ASSUME NEW w \in Listers, NEW i \in LastOps(w) PROVE Settled(w, i)
      OBVIOUS
    <3>1. ~AtOp(w) /\ idx[w] \in Nat
      BY <2>1, Kinds DEF NilMeansEnd, AllNil, TypeInv
    <3>2. i \in 1 .. Len(program[w]) /\ Len(program[w]) \in Nat
      BY <2>1, AtOpInRange DEF LastOps
    <3>3. i < idx[w]
      BY <3>1, <3>2 DEF AtOp
    <3> QED BY <2>1, <3>3 DEF DoneIsSettled
  <2> QED BY <2>2, <2>3 DEF InPlace, Settled
<1> QED BY <1>1, InitPlaceInv, NextPlaceInv, PTL DEF Spec
=============================================================================
