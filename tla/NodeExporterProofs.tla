------------------------- MODULE NodeExporterProofs -------------------------
(***************************************************************************)
(* That the node exporter publishes what the scheduler has left on a node, *)
(* and leaves no series of a node that is gone, for any nodes, labels,     *)
(* pods and quantities.                                                    *)
(***************************************************************************)
EXTENDS NodeExporter, SumTheorems, SequenceTheorems

-----------------------------------------------------------------------------
(* Quantities and requests are naturals.                                   *)

IsQuantity(q) == q.num \in Nat /\ q.unit \in Units
SpecFits(s) ==
  /\ s.containers \in Seq(Range(s.containers)) /\ s.inits \in Seq(Range(s.inits))
  /\ \A c \in Containers(s) : IsResourceList(c)

LEMMA SpecsFit == \A s \in AllSpecs : SpecFits(s)
BY NodeAssumption DEF AllSpecs, SpecFits, Containers

LEMMA ZeroIsQuantity == IsQuantity(Zero)
BY DEF IsQuantity, Zero, Units

LEMMA GetTyped ==
  ASSUME NEW f, IsResourceList(f), NEW k
  PROVE  IsQuantity(Get(f, k))
BY ZeroIsQuantity DEF IsResourceList, Get, IsQuantity

LEMMA GpuKeysAre ==
  /\ DOMAIN GpuKeys = 1 .. 3 /\ Range(GpuKeys) = {"nvidia", "amd", "intel"}
  /\ GpuKeys[1] = "nvidia" /\ GpuKeys[2] = "amd" /\ GpuKeys[3] = "intel"
<1>1. /\ DOMAIN GpuKeys = 1 .. 3
      /\ GpuKeys[1] = "nvidia" /\ GpuKeys[2] = "amd" /\ GpuKeys[3] = "intel"
  BY DEF GpuKeys
<1>2. \A i \in 1 .. 3 : i = 1 \/ i = 2 \/ i = 3
  OBVIOUS
<1>3. Range(GpuKeys) = {"nvidia", "amd", "intel"}
  <2> HIDE DEF GpuKeys
  <2> QED BY <1>1, <1>2 DEF Range
<1> QED BY <1>1, <1>3

(* The first GPU quantity that is not passed over, if there is one.        *)
LEMMA FirstGpuIs ==
  ASSUME NEW f, NEW passed
  PROVE  \/ /\ FirstGpu(f, passed) = Zero
            /\ \A k \in Range(GpuKeys) : k \in DOMAIN f => f[k] \in passed
         \/ \E k \in Range(GpuKeys) : /\ k \in DOMAIN f /\ f[k] \notin passed
                                      /\ FirstGpu(f, passed) = f[k]
<1> DEFINE found == {i \in DOMAIN GpuKeys : GpuKeys[i] \in DOMAIN f /\ f[GpuKeys[i]] \notin passed}
<1>1. FirstGpu(f, passed) = IF found = {} THEN Zero ELSE f[GpuKeys[Min(found)]]
  BY DEF FirstGpu
<1>2. CASE found = {}
  <2>1. \A k \in Range(GpuKeys) : k \in DOMAIN f => f[k] \in passed
    BY <1>2 DEF Range
  <2> QED BY <1>1, <1>2, <2>1
<1>3. CASE found # {}
  <2>1. found \subseteq Nat
    BY GpuKeysAre
  <2>2. Min(found) \in found
    <3> HIDE DEF found
    <3>1. \E i \in found : \A j \in found : i <= j
      BY <1>3, <2>1, LeastNat
    <3> QED BY <3>1 DEF Min
  <2>3. GpuKeys[Min(found)] \in Range(GpuKeys)
    BY <2>2 DEF Range
  <2> QED BY <1>1, <1>3, <2>2, <2>3
<1> QED BY <1>2, <1>3

LEMMA ParseTyped ==
  ASSUME NEW q, IsQuantity(q)
  PROVE  ParseQuantity(q) \in Nat /\ Meaning(q) \in Nat
<1> DEFINE num == q.num
           unit == q.unit
<1>1. num \in Nat /\ unit \in {"one", "m", "k", "e", "Ki", "Mi", "K", "M"}
  BY DEF IsQuantity, Units
<1>2. /\ Multipliers["Ki"] = 1024 /\ Multipliers["Mi"] = 1048576
      /\ Multipliers["K"] = 1000 /\ Multipliers["M"] = 1000000
      /\ DOMAIN Multipliers = {"Ki", "Mi", "K", "M"}
  BY DEF Multipliers
<1>3. unit \in DOMAIN Multipliers => num * Multipliers[unit] \in Nat
  BY <1>1, <1>2
<1>4. \A x \in Nat : x \div 1000 \in Nat /\ 1000 * (x \div 1000) \in Nat
  OBVIOUS
<1>5. ParseQuantity(q) \in Nat
  <2> HIDE DEF num, unit
  <2>1. /\ unit \in DOMAIN Multipliers => 1000 * ((num * Multipliers[unit]) \div 1000) \in Nat
        /\ num \div 1000 \in Nat
    BY <1>1, <1>3, <1>4
  <2> QED BY <1>1, <1>2, <2>1 DEF ParseQuantity, num, unit
<1>6. Meaning(q) \in Nat
  <2>1. num \div 1000 \in Nat /\ num * 1000 \in Nat
    BY <1>1, <1>4
  <2> QED BY <1>1, <1>2, <1>3, <2>1 DEF Meaning
<1> QED BY <1>5, <1>6

LEMMA RequestTyped ==
  ASSUME NEW c, IsResourceList(c), NEW r
  PROVE  Request(c, r) \in Nat
<1>1. IsQuantity(FirstGpu(c, {Zero}))
  BY FirstGpuIs, ZeroIsQuantity DEF IsResourceList, IsQuantity
<1>2. CASE r = "cpu"
  <2>1. Request(c, r) = ParseQuantity(Get(c, r)) /\ IsQuantity(Get(c, r))
    BY <1>2, GetTyped DEF Request
  <2> QED BY <2>1, ParseTyped
<1>3. CASE r # "cpu"
  <2>1. Request(c, r) = ParseQuantity(FirstGpu(c, {Zero}))
    BY <1>3 DEF Request
  <2> QED BY <1>1, <2>1, ParseTyped
<1> QED BY <1>2, <1>3

LEMMA OfferTyped == \A n \in Nodes : OfferOf[n] \in [Resources -> Nat]
<1> SUFFICES ASSUME NEW n \in Nodes, NEW r \in Resources PROVE Offer(Alloc[n])[r] \in Nat
  BY DEF OfferOf, Offer
<1>1. IsResourceList(Alloc[n])
  BY NodeAssumption
<1>2. IsQuantity(FirstGpu(Alloc[n], {}))
  BY <1>1, FirstGpuIs, ZeroIsQuantity DEF IsResourceList, IsQuantity
<1>3. CASE r = "cpu"
  <2>1. Offer(Alloc[n])[r] = ParseQuantity(Get(Alloc[n], r)) /\ IsQuantity(Get(Alloc[n], r))
    BY <1>1, <1>3, GetTyped DEF Offer
  <2> QED BY <2>1, ParseTyped
<1>4. CASE r # "cpu"
  <2>1. Offer(Alloc[n])[r] = ParseQuantity(FirstGpu(Alloc[n], {}))
    BY <1>4 DEF Offer
  <2> QED BY <1>2, <2>1, ParseTyped
<1> QED BY <1>3, <1>4

\* What the containers of a pod ask for.
LEMMA ContainersFinite ==
  ASSUME NEW s, SpecFits(s)
  PROVE  /\ IsFiniteSet(DOMAIN s.containers) /\ IsFiniteSet(Range(s.inits))
         /\ \A i \in DOMAIN s.containers : s.containers[i] \in Containers(s)
<1>1. /\ Len(s.containers) \in Nat /\ DOMAIN s.containers = 1 .. Len(s.containers)
      /\ Len(s.inits) \in Nat /\ DOMAIN s.inits = 1 .. Len(s.inits)
  BY DEF SpecFits
<1>2. IsFiniteSet(DOMAIN s.containers) /\ IsFiniteSet(DOMAIN s.inits)
  <2>1. \A m \in Nat : IsFiniteSet(1 .. m)
    BY FS_Interval
  <2> QED BY <1>1, <2>1, Zenon
<1>3. [i \in DOMAIN s.inits |-> s.inits[i]] \in Surjection(DOMAIN s.inits, Range(s.inits))
  <2>1. [i \in DOMAIN s.inits |-> s.inits[i]] \in [DOMAIN s.inits -> Range(s.inits)]
    BY DEF Range
  <2>2. \A c \in Range(s.inits) : \E i \in DOMAIN s.inits : s.inits[i] = c
    BY DEF Range
  <2> QED BY <2>1, <2>2 DEF Surjection
<1>4. IsFiniteSet(Range(s.inits))
  BY <1>2, <1>3, FS_Surjection
<1>5. \A i \in DOMAIN s.containers : s.containers[i] \in Containers(s)
  BY DEF Containers, Range
<1> QED BY <1>2, <1>4, <1>5

(* The larger of a natural and of those that g gives a finite set.         *)
LEMMA MaxTyped ==
  ASSUME NEW a \in Nat, NEW S, IsFiniteSet(S), NEW g \in [S -> Nat]
  PROVE  Max({a} \union {g[c] : c \in S}) \in Nat
<1> DEFINE V == {g[c] : c \in S}
<1>1. g \in Surjection(S, V)
  <2>1. g \in [S -> V] /\ \A v \in V : \E c \in S : g[c] = v
    OBVIOUS
  <2> HIDE DEF V
  <2> QED BY <2>1 DEF Surjection
<1>2. IsFiniteSet(V)
  BY <1>1, FS_Surjection
<1>3. IsFiniteSet({a} \union V) /\ {a} \union V # {} /\ {a} \union V \subseteq Nat
  <2>1. V \subseteq Nat
    OBVIOUS
  <2> HIDE DEF V
  <2>2. IsFiniteSet({a})
    BY FS_Singleton, Zenon
  <2>3. IsFiniteSet({a} \union V)
    BY <1>2, <2>2, FS_Union, Zenon
  <2> QED BY <2>1, <2>3
<1> HIDE DEF V
<1>4. Max({a} \union V) \in {a} \union V
  BY <1>3, MaxNat
<1>5. Max({a} \union V) \in Nat
  BY <1>3, <1>4
<1> QED BY <1>5 DEF V

LEMMA EffectiveTyped == \A s \in AllSpecs : EffectiveOf[s] \in [Resources -> Nat]
<1> SUFFICES ASSUME NEW s \in AllSpecs, NEW r \in Resources PROVE Effective(s)[r] \in Nat
  BY DEF EffectiveOf, Effective
<1>1. SpecFits(s)
  BY SpecsFit
<1> DEFINE f == RequestsOf(s.containers, r)
           g == [c \in Range(s.inits) |-> Request(c, r)]
<1>2. /\ DOMAIN f = DOMAIN s.containers
      /\ \A i \in DOMAIN s.containers : f[i] \in Nat
  BY <1>1, ContainersFinite, RequestTyped DEF RequestsOf, SpecFits
<1>3. SumFunction(f) \in Nat
  <2> HIDE DEF f
  <2> QED BY <1>1, <1>2, ContainersFinite, SumNat DEF SumFunction
<1>4. g \in [Range(s.inits) -> Nat]
  BY <1>1, RequestTyped DEF SpecFits, Containers
<1>5. Max({SumFunction(f)} \union {g[c] : c \in Range(s.inits)}) \in Nat
  <2> HIDE DEF f, g
  <2> QED BY <1>1, <1>3, <1>4, ContainersFinite, MaxTyped
<1>6. {g[c] : c \in Range(s.inits)} = {Request(c, r) : c \in Range(s.inits)}
  OBVIOUS
<1> QED BY <1>5, <1>6 DEF Effective

LEMMA KindnetTyped == \A s \in AllSpecs : KindnetOf[s] \in Nat
<1> SUFFICES ASSUME NEW s \in AllSpecs PROVE KindnetRequest(s) \in Nat
  BY DEF KindnetOf
<1>1. SpecFits(s)
  BY SpecsFit
<1> DEFINE all == s.containers \o s.inits
           f == RequestsOf(all, "cpu")
<1>2. Len(all) \in Nat /\ DOMAIN all = 1 .. Len(all) /\ \A i \in DOMAIN all : all[i] \in Containers(s)
  <2>1. s.containers \in Seq(Containers(s)) /\ s.inits \in Seq(Containers(s))
    BY <1>1, SeqMonotonic DEF SpecFits, Containers
  <2>2. all \in Seq(Containers(s))
    BY <2>1, ConcatProperties
  <2> HIDE DEF all
  <2> QED BY <2>2, LenProperties, ElementOfSeq
<1>3. IsFiniteSet(DOMAIN all)
  <2> HIDE DEF all
  <2> QED BY <1>2, FS_Interval
<1>4. \A i \in DOMAIN all : IsResourceList(all[i])
  BY <1>1, <1>2 DEF SpecFits
<1>5. DOMAIN f = DOMAIN all /\ \A i \in DOMAIN all : f[i] \in Nat
  <2> HIDE DEF all
  <2> QED BY <1>4, RequestTyped DEF RequestsOf
<1>6. SumFunction(f) \in Nat
  <2> HIDE DEF f, all
  <2> QED BY <1>3, <1>5, SumNat DEF SumFunction
<1> QED BY <1>6 DEF KindnetRequest

LEMMA ReservedTyped == \A s \in AllSpecs : \A k \in Keys : ReservedOf[s][k] \in Nat
<1> SUFFICES ASSUME NEW s \in AllSpecs, NEW k \in Keys PROVE Reserved(s, k) \in Nat
  BY DEF ReservedOf
<1>1. SpecFits(s)
  BY SpecsFit
<1> DEFINE f == [i \in DOMAIN s.containers |-> Meaning(Get(s.containers[i], k))]
           g == [c \in Range(s.inits) |-> Meaning(Get(c, k))]
<1>2. DOMAIN f = DOMAIN s.containers /\ \A i \in DOMAIN s.containers : f[i] \in Nat
  <2>1. \A i \in DOMAIN s.containers : Meaning(Get(s.containers[i], k)) \in Nat
    BY <1>1, ContainersFinite, GetTyped, ParseTyped DEF SpecFits
  <2> QED BY <2>1
<1>3. SumFunction(f) \in Nat
  <2> HIDE DEF f
  <2> QED BY <1>1, <1>2, ContainersFinite, SumNat DEF SumFunction
<1>4. g \in [Range(s.inits) -> Nat]
  <2>1. \A c \in Range(s.inits) : Meaning(Get(c, k)) \in Nat
    BY <1>1, GetTyped, ParseTyped DEF SpecFits, Containers
  <2> QED BY <2>1
<1>5. Max({SumFunction(f)} \union {g[c] : c \in Range(s.inits)}) \in Nat
  <2> HIDE DEF f, g
  <2> QED BY <1>1, <1>3, <1>4, ContainersFinite, MaxTyped
<1>6. {g[c] : c \in Range(s.inits)} = {Meaning(Get(c, k)) : c \in Range(s.inits)}
  OBVIOUS
<1> QED BY <1>5, <1>6 DEF Reserved

-----------------------------------------------------------------------------
(* Type correctness.                                                       *)

(* What a series of a listed node shows.                                   *)
LEMMA ReadingTyped ==
  ASSUME TypeOK, NEW n \in Nodes
  PROVE  Reading(n) \in Readings
<1>1. Load(n) \subseteq Pods /\ Kindnet(n) \subseteq Pods
  BY DEF TypeOK, Load, Kindnet, On
<1>2. /\ IsFiniteSet(Load(n)) /\ IsFiniteSet(Kindnet(n))
      /\ Cardinality(Load(n)) \in 0 .. Cardinality(Pods)
  BY <1>1, NodeAssumption, FS_Subset, FS_CardinalityType
<1>3. \A p \in Pods : spec[p] \in AllSpecs
  BY DEF TypeOK, AllSpecs
<1>4. ASSUME NEW r \in Resources
      PROVE  SumFunctionOnSet([p \in Pods |-> EffectiveOf[spec[p]][r]], Load(n)) \in Nat
  <2> DEFINE f == [p \in Pods |-> EffectiveOf[spec[p]][r]]
  <2>1. \A p \in Load(n) : f[p] \in Nat
    BY <1>1, <1>3, EffectiveTyped
  <2> HIDE DEF f
  <2>2. SumFunctionOnSet(f, Load(n)) \in Nat
    BY <1>2, <2>1, SumNat
  <2> QED BY <2>2 DEF f
<1>5. SumFunctionOnSet([p \in Pods |-> KindnetOf[spec[p]]], Kindnet(n)) \in Nat
  <2> DEFINE f == [p \in Pods |-> KindnetOf[spec[p]]]
  <2>1. \A p \in Kindnet(n) : f[p] \in Nat
    BY <1>1, <1>3, KindnetTyped
  <2> HIDE DEF f
  <2>2. SumFunctionOnSet(f, Kindnet(n)) \in Nat
    BY <1>2, <2>1, SumNat
  <2> QED BY <2>2 DEF f
<1>6. Remaining(n) \in [Resources -> Nat]
  <2> DEFINE taken == SumFunctionOnSet([p \in Pods |-> KindnetOf[spec[p]]], Kindnet(n))
  <2>1. OfferOf[n] \in [Resources -> Nat] /\ "cpu" \in Resources
    BY OfferTyped DEF Resources
  <2>2. taken \in Nat
    BY <1>5
  <2> HIDE DEF taken
  <2>3. (IF OfferOf[n]["cpu"] - taken > 0 THEN OfferOf[n]["cpu"] - taken ELSE 0) \in Nat
    BY <2>1, <2>2
  <2>4. [OfferOf[n] EXCEPT !["cpu"] =
           IF OfferOf[n]["cpu"] - taken > 0 THEN OfferOf[n]["cpu"] - taken ELSE 0] \in [Resources -> Nat]
    BY <2>1, <2>3
  <2> QED BY <2>4 DEF Remaining, taken
<1>7. [r \in Resources |->
         SumFunctionOnSet([p \in Pods |-> EffectiveOf[spec[p]][r]], Load(n))] \in [Resources -> Nat]
  BY <1>4
<1> QED BY <1>2, <1>6, <1>7 DEF Reading, Readings

LEMMA InitTypeOK == Init => TypeOK
<1> SUFFICES ASSUME Init PROVE TypeOK
  OBVIOUS
<1>1. DOMAIN nodeSnap = {} /\ DOMAIN podSnap = {} /\ DOMAIN prevLabels = {} /\ DOMAIN gauges = {}
  BY DEF Init
<1>2. /\ there \subseteq Nodes /\ label \in [Nodes -> Labels] /\ relabelled \subseteq Nodes
      /\ at \in [Pods -> Places] /\ \A p \in Pods : spec[p] \in SpecsOf[p]
      /\ pc = "sleep"
  BY DEF Init, Places
<1>3. unscheduled \in 0 .. Cardinality(Pods) /\ disturbed \in 0 .. Disturbances
  BY NodeAssumption, BoundAssumption, FS_CardinalityType DEF Init
<1> QED BY <1>1, <1>2, <1>3 DEF TypeOK

LEMMA DisturbTyped == ASSUME TypeOK, Disturb PROVE disturbed' \in 0 .. Disturbances
BY BoundAssumption DEF TypeOK, Disturb

LEMMA NextTypeOK == TypeOK /\ [Next]_vars => TypeOK'
<1> SUFFICES ASSUME TypeOK, [Next]_vars PROVE TypeOK'
  OBVIOUS
<1>1. CASE ListNodes
  <2>1. /\ UNCHANGED <<there, label, at, spec, relabelled, podSnap, prevLabels, gauges, unscheduled>>
        /\ \/ nodeSnap' = [n \in there |-> label[n]] /\ pc' = "pods"
           \/ UNCHANGED <<pc, nodeSnap>>
        /\ disturbed' = disturbed \/ Disturb
    BY <1>1 DEF ListNodes, cluster
  <2>2. /\ DOMAIN nodeSnap' \subseteq Nodes /\ \A n \in DOMAIN nodeSnap' : nodeSnap'[n] \in Labels
        /\ pc' \in {"sleep", "pods", "publish"}
    BY <2>1 DEF TypeOK
  <2>3. disturbed' \in 0 .. Disturbances
    BY <2>1, DisturbTyped DEF TypeOK
  <2> QED BY <2>1, <2>2, <2>3 DEF TypeOK
<1>2. CASE ListPods
  <2>1. /\ UNCHANGED <<there, label, at, spec, relabelled, nodeSnap, prevLabels, gauges, unscheduled>>
        /\ pc' = "publish"
        /\ podSnap' = [p \in Unended |-> at[p]] \/ podSnap' = << >>
        /\ disturbed' = disturbed \/ Disturb
    BY <1>2 DEF ListPods, cluster
  <2>2. DOMAIN podSnap' \subseteq Pods /\ \A p \in DOMAIN podSnap' : podSnap'[p] \in Places \ {"gone"}
    <3>1. CASE podSnap' = [p \in Unended |-> at[p]]
      BY <3>1 DEF TypeOK, Unended
    <3>2. CASE podSnap' = << >>
      <4>1. DOMAIN podSnap' = {}
        BY <3>2
      <4> QED BY <4>1
    <3> QED BY <2>1, <3>1, <3>2
  <2>3. disturbed' \in 0 .. Disturbances
    BY <2>1, DisturbTyped DEF TypeOK
  <2> QED BY <2>1, <2>2, <2>3 DEF TypeOK
<1>3. CASE Publish
  <2>1. /\ UNCHANGED <<there, label, at, spec, relabelled, nodeSnap, podSnap, disturbed>>
        /\ pc' = "sleep" /\ prevLabels' = nodeSnap
        /\ gauges' = [s \in (DOMAIN gauges \union Published) \ Removed |->
                        IF s \in Published THEN Reading(s[1]) ELSE gauges[s]]
        /\ unscheduled' = Cardinality(On("queued"))
    BY <1>3 DEF Publish, cluster
  <2>2. Published \subseteq Nodes \X {Shown(l) : l \in Labels}
    <3>1. \A n \in DOMAIN nodeSnap : n \in Nodes /\ nodeSnap[n] \in Labels
      BY DEF TypeOK
    <3> QED BY <3>1 DEF Published
  <2>3. \A s \in Published : Reading(s[1]) \in Readings
    BY <2>2, ReadingTyped
  <2>4. /\ DOMAIN gauges' \subseteq Nodes \X {Shown(l) : l \in Labels}
        /\ \A s \in DOMAIN gauges' : gauges'[s] \in Readings
    BY <2>1, <2>2, <2>3 DEF TypeOK
  <2>5. On("queued") \in SUBSET Pods
    BY DEF TypeOK, On
  <2>6. unscheduled' \in 0 .. Cardinality(Pods)
    BY <2>1, <2>5, NodeAssumption, FS_Subset, FS_CardinalityType
  <2> QED BY <2>1, <2>4, <2>6 DEF TypeOK
<1>4. ASSUME NEW p \in Pods, NEW n \in Nodes, Bind(p, n) PROVE TypeOK'
  BY <1>4 DEF Bind, exporter, TypeOK, Places
<1>5. ASSUME NEW p \in Pods, PodEnds(p) PROVE TypeOK'
  BY <1>5 DEF PodEnds, exporter, TypeOK, Places
<1>6. ASSUME NEW n \in Nodes, NodeChanges(n) PROVE TypeOK'
  BY <1>6 DEF NodeChanges, exporter, TypeOK
<1>7. ASSUME NEW n \in Nodes, Relabel(n) PROVE TypeOK'
  <2>1. /\ UNCHANGED <<there, at, spec, pc, nodeSnap, podSnap, prevLabels, gauges, unscheduled>>
        /\ relabelled' = relabelled \union {n}
        /\ \E l \in Labels : label' = [label EXCEPT ![n] = l]
    BY <1>7 DEF Relabel, exporter
  <2>2. disturbed' \in 0 .. Disturbances
    BY <1>7, DisturbTyped DEF Relabel
  <2> QED BY <2>1, <2>2 DEF TypeOK
<1>8. CASE UNCHANGED vars
  BY <1>8 DEF vars, cluster, TypeOK
<1> QED BY <1>1, <1>2, <1>3, <1>4, <1>5, <1>6, <1>7, <1>8 DEF Next, Cycle

(* The state of the node exporter keeps its type: a reading never falls    *)
(* below zero, and it never counts more pods than there are                *)
(* (node-resource-exporter/exporter.py, collect_node_metrics).             *)
THEOREM TypeCorrect == Spec => []TypeOK
BY InitTypeOK, NextTypeOK, PTL DEF Spec

-----------------------------------------------------------------------------
(* No series of a node that is gone.                                       *)

\* Labels that never changed are remembered as they are.
LabelsInv ==
  /\ \A n \in DOMAIN nodeSnap \ relabelled : nodeSnap[n] = label[n]
  /\ \A n \in DOMAIN prevLabels \ relabelled : prevLabels[n] = label[n]

\* The series of a node whose labels never changed are known to the next
\* removal: their node was listed by the cycle before, under these labels.
KnownInv ==
  \A s \in DOMAIN gauges :
    s[1] \notin relabelled =>
      s[1] \in DOMAIN prevLabels /\ s[2] = Shown(prevLabels[s[1]])

\* Between two cycles the remembered nodes are the listed ones.
RememberedInv == pc = "sleep" => prevLabels = nodeSnap

SeriesInv == TypeOK /\ LabelsInv /\ KnownInv /\ RememberedInv

LEMMA InitSeriesInv == Init => SeriesInv
<1> SUFFICES ASSUME Init PROVE SeriesInv
  OBVIOUS
<1>1. /\ DOMAIN nodeSnap = {} /\ DOMAIN prevLabels = {} /\ DOMAIN gauges = {}
      /\ prevLabels = nodeSnap
  BY DEF Init
<1> QED BY <1>1, InitTypeOK DEF SeriesInv, LabelsInv, KnownInv, RememberedInv

(* The nodes are listed with the labels they have.                         *)
LEMMA ListNodesSeriesInv == ASSUME SeriesInv, ListNodes PROVE LabelsInv' /\ KnownInv' /\ RememberedInv'
<1> USE DEF SeriesInv, LabelsInv, KnownInv, RememberedInv
<1>1. /\ UNCHANGED <<label, relabelled, prevLabels, gauges>>
      /\ \/ nodeSnap' = [n \in there |-> label[n]] /\ pc' = "pods"
         \/ UNCHANGED <<pc, nodeSnap>>
  BY DEF ListNodes, cluster
<1>2. CASE nodeSnap' = [n \in there |-> label[n]] /\ pc' = "pods"
  BY <1>1, <1>2
<1>3. CASE UNCHANGED <<pc, nodeSnap>>
  BY <1>1, <1>3
<1> QED BY <1>1, <1>2, <1>3

(* Publishing sets the series of the listed nodes and removes those that   *)
(* only the cycle before listed.                                           *)
LEMMA PublishSeriesInv == ASSUME SeriesInv, Publish PROVE LabelsInv' /\ KnownInv' /\ RememberedInv'
<1>1. /\ UNCHANGED <<label, relabelled, nodeSnap>>
      /\ pc' = "sleep" /\ prevLabels' = nodeSnap
      /\ DOMAIN gauges' = (DOMAIN gauges \union Published) \ Removed
  BY DEF Publish, cluster
<1>2. ASSUME NEW s \in DOMAIN gauges', s[1] \notin relabelled
      PROVE  s[1] \in DOMAIN nodeSnap /\ s[2] = Shown(nodeSnap[s[1]])
  <2>1. CASE s \in Published
    BY <2>1 DEF Published
  <2>2. CASE s \notin Published
    <3>1. s \in DOMAIN gauges /\ s \notin Removed
      BY <1>1, <1>2, <2>2
    <3>2. s[1] \in DOMAIN prevLabels /\ s[2] = Shown(prevLabels[s[1]])
      BY <1>2, <3>1 DEF SeriesInv, KnownInv
    <3>3. s = <<s[1], Shown(prevLabels[s[1]])>>
      BY <3>1, <3>2 DEF SeriesInv, TypeOK
    <3>4. s[1] \in DOMAIN nodeSnap
      BY <3>1, <3>2, <3>3 DEF Removed
    <3>5. nodeSnap[s[1]] = prevLabels[s[1]]
      BY <1>2, <3>2, <3>4 DEF SeriesInv, LabelsInv
    <3> QED BY <3>2, <3>4, <3>5
  <2> QED BY <2>1, <2>2
<1>3. LabelsInv'
  BY <1>1 DEF SeriesInv, LabelsInv
<1>4. KnownInv'
  BY <1>1, <1>2 DEF KnownInv
<1> QED BY <1>1, <1>3, <1>4 DEF RememberedInv

(* A node whose labels change leaves the nodes that are spoken of.         *)
LEMMA RelabelSeriesInv ==
  ASSUME SeriesInv, NEW n \in Nodes, Relabel(n)
  PROVE  LabelsInv' /\ KnownInv' /\ RememberedInv'
<1>1. PICK l \in Labels : label' = [label EXCEPT ![n] = l]
  BY DEF Relabel
<1>2. UNCHANGED <<pc, nodeSnap, prevLabels, gauges>> /\ relabelled' = relabelled \union {n}
  BY DEF Relabel, exporter
<1>3. \A m \in Nodes \ relabelled' : m \notin relabelled /\ label'[m] = label[m]
  BY <1>1, <1>2 DEF SeriesInv, TypeOK
<1>4. LabelsInv'
  BY <1>2, <1>3 DEF SeriesInv, LabelsInv, TypeOK
<1>5. KnownInv'
  BY <1>2 DEF SeriesInv, KnownInv
<1> QED BY <1>2, <1>4, <1>5 DEF SeriesInv, RememberedInv

(* No other step changes what the exporter remembers of the nodes.         *)
LEMMA OtherSeriesInv ==
  ASSUME SeriesInv, pc' \in {pc, "publish"},
         UNCHANGED <<label, relabelled, nodeSnap, prevLabels, gauges>>
  PROVE  LabelsInv' /\ KnownInv' /\ RememberedInv'
BY DEF SeriesInv, LabelsInv, KnownInv, RememberedInv

LEMMA NextSeriesInv == SeriesInv /\ [Next]_vars => SeriesInv'
<1> SUFFICES ASSUME SeriesInv, [Next]_vars PROVE LabelsInv' /\ KnownInv' /\ RememberedInv'
  BY NextTypeOK DEF SeriesInv
<1>1. CASE ListNodes
  BY <1>1, ListNodesSeriesInv
<1>2. CASE ListPods
  BY <1>2, OtherSeriesInv DEF ListPods, cluster
<1>3. CASE Publish
  BY <1>3, PublishSeriesInv
<1>4. ASSUME NEW p \in Pods, PodEnds(p) \/ \E n \in Nodes : Bind(p, n)
      PROVE LabelsInv' /\ KnownInv' /\ RememberedInv'
  BY <1>4, OtherSeriesInv DEF PodEnds, Bind, exporter
<1>5. ASSUME NEW n \in Nodes, NodeChanges(n)
      PROVE LabelsInv' /\ KnownInv' /\ RememberedInv'
  BY <1>5, OtherSeriesInv DEF NodeChanges, exporter
<1>6. ASSUME NEW n \in Nodes, Relabel(n)
      PROVE LabelsInv' /\ KnownInv' /\ RememberedInv'
  BY <1>6, RelabelSeriesInv
<1>7. CASE UNCHANGED vars
  BY <1>7, OtherSeriesInv DEF vars, cluster
<1> QED BY <1>1, <1>2, <1>3, <1>4, <1>5, <1>6, <1>7 DEF Next, Cycle

(* After a cycle every series is of a node that the cycle listed, or of    *)
(* one whose labels changed (node-resource-exporter/exporter.py, the       *)
(* removal at the end of collect_node_metrics): a node that went while its *)
(* labels stayed leaves nothing behind, however many cycles could not list *)
(* the nodes in between.                                                   *)
THEOREM NoStaleNodesAlways == Spec => []NoStaleNodes
<1>1. SeriesInv => NoStaleNodes
  <2> SUFFICES ASSUME SeriesInv, pc = "sleep", NEW s \in DOMAIN gauges, s[1] \notin relabelled
               PROVE  s[1] \in DOMAIN nodeSnap
    BY DEF NoStaleNodes, Sleeping
  <2>1. s[1] \in DOMAIN prevLabels
    BY DEF SeriesInv, KnownInv
  <2>2. prevLabels = nodeSnap
    BY DEF SeriesInv, RememberedInv
  <2> QED BY <2>1, <2>2
<1> QED BY <1>1, InitSeriesInv, NextSeriesInv, PTL DEF Spec

-----------------------------------------------------------------------------
(* What the exporter and the scheduler make of the same quantities.        *)

LEMMA PlainParsed ==
  ASSUME NEW q, IsQuantity(q), Plain(q)
  PROVE  ParseQuantity(q) = Meaning(q)
<1> DEFINE num == q.num
           unit == q.unit
<1>1. num \in Nat /\ unit \in {"one", "m", "Ki", "Mi", "K", "M"}
  BY DEF IsQuantity, Units, Plain
<1>2. /\ Multipliers["Ki"] = 1024 /\ Multipliers["Mi"] = 1048576
      /\ Multipliers["K"] = 1000 /\ Multipliers["M"] = 1000000
      /\ DOMAIN Multipliers = {"Ki", "Mi", "K", "M"}
  BY DEF Multipliers
<1>3. CASE unit = "one"
  BY <1>2, <1>3 DEF ParseQuantity, Meaning
<1>4. CASE unit = "m"
  BY <1>2, <1>4 DEF ParseQuantity, Meaning, Plain
<1>5. CASE unit \in DOMAIN Multipliers
  <2>1. num % 1000 = 0
    BY <1>2, <1>5 DEF Plain
  <2>2. PICK j \in Nat : num = 1000 * j
    BY <1>1, <2>1
  <2>3. \A x \in Nat : (1000 * x) \div 1000 = x
    OBVIOUS
  <2>4. \A m \in {1024, 1048576, 1000, 1000000} : 1000 * ((num * m) \div 1000) = num * m
    <3> SUFFICES ASSUME NEW m \in {1024, 1048576, 1000, 1000000}
                 PROVE  1000 * ((num * m) \div 1000) = num * m
      OBVIOUS
    <3>1. j * m \in Nat /\ num * m = 1000 * (j * m)
      BY <2>2
    <3>2. (num * m) \div 1000 = j * m
      BY <2>3, <3>1
    <3> QED BY <3>1, <3>2
  <2>5. 1000 * ((num * Multipliers[unit]) \div 1000) = num * Multipliers[unit]
    BY <1>2, <1>5, <2>4
  <2> QED BY <1>2, <1>5, <2>5 DEF ParseQuantity, Meaning
<1> QED BY <1>1, <1>2, <1>3, <1>4, <1>5

LEMMA ZeroMeans == ParseQuantity(Zero) = 0 /\ Meaning(Zero) = 0 /\ Plain(Zero)
<1>1. Zero.num = 0 /\ Zero.unit = "one" /\ Plain(Zero)
  BY DEF Zero, Plain
<1>2. Meaning(Zero) = 0
  BY <1>1 DEF Meaning, Multipliers
<1> QED BY <1>1, <1>2, ZeroIsQuantity, PlainParsed

LEMMA GetPlain ==
  ASSUME NEW f, \A k \in DOMAIN f : Plain(f[k]), NEW k
  PROVE  Plain(Get(f, k))
BY ZeroMeans DEF Get

(* What one container asks for.                                            *)
LEMMA RequestAgrees ==
  ASSUME NEW c, IsResourceList(c), \A k \in DOMAIN c : Plain(c[k])
  PROVE  /\ Request(c, "cpu") = Meaning(Get(c, "cpu"))
         /\ \A v \in Range(GpuKeys) :
              (\A k \in Range(GpuKeys) \ {v} : Get(c, k) = Zero) =>
                Request(c, "gpu") = Meaning(Get(c, v))
<1>1. Request(c, "cpu") = Meaning(Get(c, "cpu"))
  BY GetTyped, GetPlain, PlainParsed DEF Request
<1>2. ASSUME NEW v \in Range(GpuKeys), \A k \in Range(GpuKeys) \ {v} : Get(c, k) = Zero
      PROVE  Request(c, "gpu") = Meaning(Get(c, v))
  <2>1. FirstGpu(c, {Zero}) = Get(c, v)
    BY <1>2, FirstGpuIs DEF Get
  <2>2. ParseQuantity(Get(c, v)) = Meaning(Get(c, v))
    BY GetTyped, GetPlain, PlainParsed
  <2> QED BY <2>1, <2>2 DEF Request
<1> QED BY <1>1, <1>2

(* What a pod asks for, where its containers agree with the scheduler.     *)
LEMMA PodAgrees ==
  ASSUME NEW s \in AllSpecs, NEW r \in Resources, NEW k \in Keys,
         \A c \in Containers(s) : Request(c, r) = Meaning(Get(c, k))
  PROVE  EffectiveOf[s][r] = ReservedOf[s][k]
<1>1. SpecFits(s)
  BY SpecsFit
<1>2. RequestsOf(s.containers, r) = [i \in DOMAIN s.containers |-> Meaning(Get(s.containers[i], k))]
  BY <1>1, ContainersFinite DEF RequestsOf
<1>3. {Request(c, r) : c \in Range(s.inits)} = {Meaning(Get(c, k)) : c \in Range(s.inits)}
  BY DEF Containers
<1>4. Effective(s)[r] = Reserved(s, k)
  BY <1>2, <1>3 DEF Effective, Reserved
<1> QED BY <1>4 DEF EffectiveOf, ReservedOf

(* A pod that asks for nothing under a key gets nothing reserved.          *)
LEMMA NothingReserved ==
  ASSUME NEW s \in AllSpecs, NEW k \in Keys, \A c \in Containers(s) : Get(c, k) = Zero
  PROVE  ReservedOf[s][k] = 0
<1>1. SpecFits(s)
  BY SpecsFit
<1> DEFINE f == [i \in DOMAIN s.containers |-> Meaning(Get(s.containers[i], k))]
           V == {Meaning(Get(c, k)) : c \in Range(s.inits)}
<1>2. \A i \in DOMAIN s.containers : f[i] = 0
  BY <1>1, ContainersFinite, ZeroMeans
<1>3. SumFunction(f) = 0
  <2>1. DOMAIN f = DOMAIN s.containers
    OBVIOUS
  <2> HIDE DEF f
  <2> QED BY <1>1, <1>2, <2>1, ContainersFinite, SumZero DEF SumFunction
<1>4. V \subseteq {0}
  BY ZeroMeans DEF Containers
<1>5. {SumFunction(f)} \union V = {0}
  BY <1>3, <1>4
<1>6. Max({0}) = 0
  BY DEF Max
<1>7. Reserved(s, k) = 0
  BY <1>5, <1>6 DEF Reserved
<1> QED BY <1>7 DEF ReservedOf

LEMMA SpecCpuAgrees ==
  ASSUME Regular, NEW s \in AllSpecs
  PROVE  EffectiveOf[s]["cpu"] = ReservedOf[s]["cpu"]
<1>1. \A c \in Containers(s) : Request(c, "cpu") = Meaning(Get(c, "cpu"))
  BY SpecsFit, RequestAgrees DEF Regular, SpecFits
<1> QED BY <1>1, PodAgrees DEF Resources, Keys

LEMMA SpecGpuAgrees ==
  ASSUME Regular, NEW s \in AllSpecs
  PROVE  EffectiveOf[s]["gpu"] =
           ReservedOf[s]["nvidia"] + ReservedOf[s]["amd"] + ReservedOf[s]["intel"]
<1>1. PICK v \in Range(GpuKeys) : AsksNoGpuBut(s, v)
  BY DEF Regular
<1>2. \A c \in Containers(s) : Request(c, "gpu") = Meaning(Get(c, v))
  BY <1>1, SpecsFit, RequestAgrees DEF Regular, SpecFits, AsksNoGpuBut
<1>3. v \in Keys /\ "gpu" \in Resources
  BY DEF Keys, Resources
<1>4. EffectiveOf[s]["gpu"] = ReservedOf[s][v]
  BY <1>2, <1>3, PodAgrees
<1>5. \A k \in Range(GpuKeys) \ {v} : ReservedOf[s][k] = 0
  BY <1>1, NothingReserved DEF AsksNoGpuBut, Keys
<1>6. ReservedOf[s][v] \in Nat
  BY <1>3, ReservedTyped
<1>7. v = "nvidia" \/ v = "amd" \/ v = "intel"
  BY GpuKeysAre
<1> QED BY <1>4, <1>5, <1>6, <1>7, GpuKeysAre

(* Kindnet's pods ask for cpu only, and have no init containers.           *)
LEMMA KindnetAgrees ==
  ASSUME Regular, NEW p \in Pods, PodKind[p] = "kindnet", NEW s \in SpecsOf[p]
  PROVE  KindnetOf[s] = ReservedOf[s]["cpu"] /\ EffectiveOf[s]["gpu"] = 0
<1>1. s \in AllSpecs /\ SpecFits(s)
  BY SpecsFit DEF AllSpecs
<1>2. s.inits = << >> /\ AsksNoGpuBut(s, "none")
  BY DEF Regular
<1>3. s.containers \o s.inits = s.containers
  BY <1>1, <1>2, ConcatEmptySeq DEF SpecFits
<1>4. RequestsOf(s.containers, "cpu") = [i \in DOMAIN s.containers |-> Meaning(Get(s.containers[i], "cpu"))]
  <2>1. \A c \in Containers(s) : Request(c, "cpu") = Meaning(Get(c, "cpu"))
    BY <1>1, RequestAgrees DEF Regular, SpecFits
  <2> QED BY <1>1, <2>1, ContainersFinite DEF RequestsOf
<1> DEFINE total == SumFunction([i \in DOMAIN s.containers |-> Meaning(Get(s.containers[i], "cpu"))])
<1>5. KindnetOf[s] = total
  BY <1>1, <1>3, <1>4 DEF KindnetOf, KindnetRequest
<1>6. total \in Nat
  BY <1>1, <1>5, KindnetTyped
<1>7. Range(s.inits) = {}
  BY <1>2 DEF Range
<1>8. Reserved(s, "cpu") = Max({total})
  BY <1>7 DEF Reserved
<1>9. Max({total}) = total
  <2> HIDE DEF total
  <2> QED BY <1>6 DEF Max
<1>10. KindnetOf[s] = ReservedOf[s]["cpu"]
  BY <1>1, <1>5, <1>8, <1>9 DEF ReservedOf, Keys
<1>11. \A k \in Range(GpuKeys) : ReservedOf[s][k] = 0
  BY <1>1, <1>2, NothingReserved, GpuKeysAre DEF AsksNoGpuBut, Keys
<1>12. EffectiveOf[s]["gpu"] = 0
  BY <1>1, <1>11, SpecGpuAgrees, GpuKeysAre
<1> QED BY <1>10, <1>12

LEMMA OfferAgrees ==
  ASSUME Regular, NEW n \in Nodes
  PROVE  /\ OfferOf[n]["cpu"] = Meaning(Get(Alloc[n], "cpu"))
         /\ OfferOf[n]["gpu"] = Meaning(Get(Alloc[n], "nvidia")) + Meaning(Get(Alloc[n], "amd"))
                                + Meaning(Get(Alloc[n], "intel"))
<1> DEFINE f == Alloc[n]
<1>1. IsResourceList(f) /\ \A k \in DOMAIN f : Plain(f[k])
  BY NodeAssumption DEF Regular
<1>2. \A k : ParseQuantity(Get(f, k)) = Meaning(Get(f, k)) /\ Meaning(Get(f, k)) \in Nat
  BY <1>1, GetTyped, GetPlain, PlainParsed, ParseTyped
<1>3. OfferOf[n]["cpu"] = Meaning(Get(f, "cpu"))
  BY <1>2 DEF OfferOf, Offer, Resources
<1>4. OfferOf[n]["gpu"] = ParseQuantity(FirstGpu(f, {}))
  BY DEF OfferOf, Offer, Resources
<1>5. \E v \in Range(GpuKeys) : /\ FirstGpu(f, {}) = Get(f, v)
                                /\ \A k \in Range(GpuKeys) \ {v} : Get(f, k) = Zero
  <2>1. CASE \A k \in Range(GpuKeys) : k \notin DOMAIN f
    <3>1. FirstGpu(f, {}) = Zero
      BY <2>1, FirstGpuIs
    <3> QED BY <2>1, <3>1, GpuKeysAre DEF Get
  <2>2. CASE \E k \in Range(GpuKeys) : k \in DOMAIN f
    <3>1. PICK v \in Range(GpuKeys) : v \in DOMAIN f /\ FirstGpu(f, {}) = f[v]
      BY <2>2, FirstGpuIs
    <3>2. \A k \in Range(GpuKeys) \ {v} : k \notin DOMAIN f
      BY <3>1 DEF Regular
    <3> QED BY <3>1, <3>2 DEF Get
  <2> QED BY <2>1, <2>2
<1>6. PICK v \in Range(GpuKeys) : /\ FirstGpu(f, {}) = Get(f, v)
                                  /\ \A k \in Range(GpuKeys) \ {v} : Get(f, k) = Zero
  BY <1>5
<1> HIDE DEF f
<1>7. OfferOf[n]["gpu"] = Meaning(Get(f, v))
  BY <1>2, <1>4, <1>6
<1>8. \A k \in Range(GpuKeys) \ {v} : Meaning(Get(f, k)) = 0
  BY <1>6, ZeroMeans
<1>9. v = "nvidia" \/ v = "amd" \/ v = "intel"
  BY GpuKeysAre
<1>10. OfferOf[n]["gpu"] = Meaning(Get(f, "nvidia")) + Meaning(Get(f, "amd")) + Meaning(Get(f, "intel"))
  BY <1>2, <1>7, <1>8, <1>9, GpuKeysAre
<1> QED BY <1>3, <1>10 DEF f

-----------------------------------------------------------------------------
(* What is bound to a node, and what a cycle lists there, fits on it.      *)

Bound(n) == {p \in Pods : at[p] = n}

\* The scheduler's promise, and what the exporter saw of it.
CapacityInv ==
  /\ TypeOK
  /\ \A n \in Nodes : \A k \in Keys :
       SumFunctionOnSet(ReservedBy(k), Bound(n)) <= Meaning(Get(Alloc[n], k))
ListedInv ==
  /\ CapacityInv
  /\ \A n \in Nodes : \A k \in Keys :
       SumFunctionOnSet(ReservedBy(k), On(n)) <= Meaning(Get(Alloc[n], k))

LEMMA ReservedByTyped ==
  ASSUME TypeOK, NEW k \in Keys
  PROVE  DOMAIN ReservedBy(k) = Pods /\ \A p \in Pods : ReservedBy(k)[p] \in Nat
<1>1. \A p \in Pods : spec[p] \in AllSpecs
  BY DEF TypeOK, AllSpecs
<1> QED BY <1>1, ReservedTyped DEF ReservedBy

(* Fewer pods fit where more did.                                          *)
LEMMA FewerFit ==
  ASSUME TypeOK, NEW k \in Keys, NEW A, NEW B, A \subseteq B, B \subseteq Pods, NEW max \in Nat,
         SumFunctionOnSet(ReservedBy(k), B) <= max
  PROVE  SumFunctionOnSet(ReservedBy(k), A) <= max
<1>1. IsFiniteSet(A) /\ IsFiniteSet(B)
  BY NodeAssumption, FS_Subset
<1>2. \A p \in B : ReservedBy(k)[p] \in Nat
  BY ReservedByTyped
<1>3. SumFunctionOnSet(ReservedBy(k), A) <= SumFunctionOnSet(ReservedBy(k), B)
  BY <1>1, <1>2, SumSubset
<1>4. SumFunctionOnSet(ReservedBy(k), A) \in Nat /\ SumFunctionOnSet(ReservedBy(k), B) \in Nat
  BY <1>1, <1>2, SumNat
<1> QED BY <1>3, <1>4

LEMMA AllocTyped == \A n \in Nodes : \A k : Meaning(Get(Alloc[n], k)) \in Nat
BY NodeAssumption, GetTyped, ParseTyped

LEMMA InitListedInv == Init => ListedInv
<1> SUFFICES ASSUME Init PROVE ListedInv
  OBVIOUS
<1>1. TypeOK
  BY InitTypeOK
<1>2. \A n \in Nodes : Bound(n) = {} /\ On(n) = {}
  <2>1. DOMAIN podSnap = {}
    BY DEF Init
  <2> QED BY <2>1, NodeAssumption DEF Init, Bound, On
<1>3. \A n \in Nodes : \A k \in Keys :
        SumFunctionOnSet(ReservedBy(k), {}) <= Meaning(Get(Alloc[n], k))
  BY AllocTyped, SumEmpty
<1> QED BY <1>1, <1>2, <1>3 DEF ListedInv, CapacityInv

LEMMA NextListedInv == ListedInv /\ [Next]_vars => ListedInv'
<1> SUFFICES ASSUME ListedInv, [Next]_vars
             PROVE  /\ \A n \in Nodes : \A k \in Keys :
                         SumFunctionOnSet(ReservedBy(k)', Bound(n)') <= Meaning(Get(Alloc[n], k))
                    /\ \A n \in Nodes : \A k \in Keys :
                         SumFunctionOnSet(ReservedBy(k)', On(n)') <= Meaning(Get(Alloc[n], k))
  BY NextTypeOK DEF ListedInv, CapacityInv
<1>1. TypeOK
  BY DEF ListedInv, CapacityInv
<1>2. \A k \in Keys : ReservedBy(k)' = ReservedBy(k)
  <2>1. spec' = spec
    BY DEF Next, Cycle, ListNodes, ListPods, Publish, PodEnds, Bind, NodeChanges, Relabel,
           cluster, vars
  <2> QED BY <2>1 DEF ReservedBy
<1>3. \A n \in Nodes : \A k \in Keys :
        SumFunctionOnSet(ReservedBy(k), Bound(n)') <= Meaning(Get(Alloc[n], k))
  <2> SUFFICES ASSUME NEW n \in Nodes, NEW k \in Keys
               PROVE  SumFunctionOnSet(ReservedBy(k), Bound(n)') <= Meaning(Get(Alloc[n], k))
    OBVIOUS
  <2>1. SumFunctionOnSet(ReservedBy(k), Bound(n)) <= Meaning(Get(Alloc[n], k))
    BY DEF ListedInv, CapacityInv
  <2>2. Meaning(Get(Alloc[n], k)) \in Nat /\ Bound(n) \subseteq Pods
    BY AllocTyped DEF Bound
  <2>3. CASE Bound(n)' \subseteq Bound(n)
    BY <1>1, <2>1, <2>2, <2>3, FewerFit
  <2>4. CASE \E p \in Pods : Bind(p, n)
    <3>1. PICK p \in Pods : Bind(p, n)
      BY <2>4
    <3>2. SumFunctionOnSet(ReservedBy(k), {p} \union {q \in Pods : at[q] = n})
            <= Meaning(Get(Alloc[n], k))
      BY <3>1 DEF Bind
    <3>3. Bound(n)' \subseteq {p} \union {q \in Pods : at[q] = n}
      BY <1>1, <3>1 DEF Bind, Bound, TypeOK
    <3> QED BY <1>1, <2>2, <3>2, <3>3, FewerFit
  <2>5. Bound(n)' \subseteq Bound(n) \/ \E p \in Pods : Bind(p, n)
    <3>1. ASSUME NEW p \in Pods, NEW m \in Nodes, Bind(p, m), m # n
          PROVE  Bound(n)' \subseteq Bound(n)
      BY <1>1, <3>1 DEF Bind, Bound, TypeOK
    <3>2. ASSUME NEW p \in Pods, PodEnds(p) PROVE Bound(n)' \subseteq Bound(n)
      BY <1>1, <3>2, NodeAssumption DEF PodEnds, Bound, TypeOK
    <3>3. CASE at' = at
      BY <3>3 DEF Bound
    <3>4. \/ at' = at \/ \E p \in Pods : PodEnds(p)
          \/ \E p \in Pods : \E m \in Nodes : Bind(p, m)
      BY DEF Next, Cycle, ListNodes, ListPods, Publish, NodeChanges, Relabel, cluster, vars
    <3> QED BY <3>1, <3>2, <3>3, <3>4
  <2> QED BY <2>3, <2>4, <2>5
<1>4. \A n \in Nodes : \A k \in Keys :
        SumFunctionOnSet(ReservedBy(k), On(n)') <= Meaning(Get(Alloc[n], k))
  <2> SUFFICES ASSUME NEW n \in Nodes, NEW k \in Keys
               PROVE  SumFunctionOnSet(ReservedBy(k), On(n)') <= Meaning(Get(Alloc[n], k))
    OBVIOUS
  <2>1. /\ SumFunctionOnSet(ReservedBy(k), Bound(n)) <= Meaning(Get(Alloc[n], k))
        /\ SumFunctionOnSet(ReservedBy(k), On(n)) <= Meaning(Get(Alloc[n], k))
    BY DEF ListedInv, CapacityInv
  <2>2. /\ Meaning(Get(Alloc[n], k)) \in Nat
        /\ Bound(n) \subseteq Pods /\ On(n) \subseteq Pods
    BY <1>1, AllocTyped DEF Bound, On, TypeOK
  <2>3. On(n)' \subseteq On(n) \/ On(n)' \subseteq Bound(n)
    <3>1. CASE ListPods
      <4>1. podSnap' = [p \in Unended |-> at[p]] \/ podSnap' = << >>
        BY <3>1 DEF ListPods
      <4>2. CASE podSnap' = [p \in Unended |-> at[p]]
        BY <4>2 DEF On, Bound, Unended
      <4>3. CASE podSnap' = << >>
        <5>1. DOMAIN podSnap' = {}
          BY <4>3
        <5> QED BY <5>1 DEF On
      <4> QED BY <4>1, <4>2, <4>3
    <3>2. CASE podSnap' = podSnap
      BY <3>2 DEF On
    <3>3. ListPods \/ podSnap' = podSnap
      BY DEF Next, Cycle, ListNodes, Publish, PodEnds, Bind, NodeChanges, Relabel, exporter, vars
    <3> QED BY <3>1, <3>2, <3>3
  <2> QED BY <1>1, <2>1, <2>2, <2>3, FewerFit
<1> QED BY <1>2, <1>3, <1>4

-----------------------------------------------------------------------------
(* What a series leaves free.                                              *)

\* The pods that the series of a node accounts for, as load or as kindnet.
Kept(n) == {p \in On(n) : ~(IsKwok(n) /\ PodKind[p] = "kube-proxy")}
\* What the scheduler has left under a key.
Left(n, k) == Meaning(Get(Alloc[n], k)) - SumFunctionOnSet(ReservedBy(k), Kept(n))

LEMMA KeptSplits ==
  ASSUME TypeOK, NEW n \in DOMAIN nodeSnap
  PROVE  /\ Kept(n) = Load(n) \union Kindnet(n) /\ Load(n) \intersect Kindnet(n) = {}
         /\ IsFiniteSet(Kept(n)) /\ IsFiniteSet(Load(n)) /\ IsFiniteSet(Kindnet(n))
         /\ Kept(n) \subseteq Pods /\ Kept(n) \subseteq On(n) /\ On(n) \subseteq Pods
         /\ \A p \in Kindnet(n) : PodKind[p] = "kindnet"
<1>1. On(n) \subseteq Pods
  BY DEF On, TypeOK
<1>2. Kept(n) = Load(n) \union Kindnet(n) /\ Load(n) \intersect Kindnet(n) = {}
  BY DEF Kept, Load, Kindnet, IsInfra
<1>3. Kept(n) \subseteq On(n) /\ \A p \in Kindnet(n) : PodKind[p] = "kindnet"
  BY DEF Kept, Kindnet
<1> QED BY <1>1, <1>2, <1>3, NodeAssumption, FS_Subset

LEMMA LeftIsNat ==
  ASSUME ListedInv, NEW n \in DOMAIN nodeSnap, NEW k \in Keys
  PROVE  /\ Left(n, k) \in Nat
         /\ SumFunctionOnSet(ReservedBy(k), Kept(n)) \in Nat
         /\ Meaning(Get(Alloc[n], k)) \in Nat
<1>1. TypeOK /\ n \in Nodes
  BY DEF ListedInv, CapacityInv, TypeOK
<1>2. SumFunctionOnSet(ReservedBy(k), On(n)) <= Meaning(Get(Alloc[n], k))
  BY <1>1 DEF ListedInv
<1>3. Meaning(Get(Alloc[n], k)) \in Nat
  BY <1>1, AllocTyped
<1>4. SumFunctionOnSet(ReservedBy(k), Kept(n)) <= Meaning(Get(Alloc[n], k))
  BY <1>1, <1>2, <1>3, KeptSplits, FewerFit
<1>5. \A p \in Kept(n) : ReservedBy(k)[p] \in Nat
  BY <1>1, KeptSplits, ReservedByTyped
<1>6. SumFunctionOnSet(ReservedBy(k), Kept(n)) \in Nat
  BY <1>1, <1>5, KeptSplits, SumNat
<1> QED BY <1>3, <1>4, <1>6 DEF Left

LEMMA CpuIsExact ==
  ASSUME Regular, ListedInv, NEW n \in DOMAIN nodeSnap
  PROVE  Reading(n).alloc["cpu"] - Reading(n).usage["cpu"] = Left(n, "cpu")
<1> DEFINE E == [p \in Pods |-> EffectiveOf[spec[p]]["cpu"]]
           K == [p \in Pods |-> KindnetOf[spec[p]]]
           R == ReservedBy("cpu")
<1>1. TypeOK /\ n \in Nodes /\ "cpu" \in Keys /\ "cpu" \in Resources
  BY DEF ListedInv, CapacityInv, TypeOK, Keys, Resources
<1>2. \A p \in Pods : spec[p] \in AllSpecs /\ spec[p] \in SpecsOf[p]
  BY <1>1 DEF TypeOK, AllSpecs
<1>3. \A p \in Kept(n) : R[p] \in Nat /\ E[p] = R[p]
  BY <1>1, <1>2, KeptSplits, ReservedByTyped, SpecCpuAgrees DEF ReservedBy
<1>4. \A p \in Kindnet(n) : K[p] = R[p]
  BY <1>1, <1>2, KeptSplits, KindnetAgrees DEF ReservedBy
<1>5. OfferOf[n] \in [Resources -> Nat] /\ OfferOf[n]["cpu"] = Meaning(Get(Alloc[n], "cpu"))
  BY <1>1, OfferTyped, OfferAgrees
<1>6. Reading(n).usage["cpu"] = SumFunctionOnSet(E, Load(n))
  BY <1>1 DEF Reading
<1>7. Reading(n).alloc["cpu"] =
        LET left == OfferOf[n]["cpu"] - SumFunctionOnSet(K, Kindnet(n))
        IN  IF left > 0 THEN left ELSE 0
  BY <1>1, <1>5 DEF Reading, Remaining
<1> HIDE DEF E, K, R
<1>8. SumFunctionOnSet(E, Load(n)) = SumFunctionOnSet(R, Load(n))
  BY <1>1, <1>3, KeptSplits, SumSame
<1>9. SumFunctionOnSet(K, Kindnet(n)) = SumFunctionOnSet(R, Kindnet(n))
  BY <1>1, <1>3, <1>4, KeptSplits, SumSame
<1>10. SumFunctionOnSet(R, Kept(n))
         = SumFunctionOnSet(R, Load(n)) + SumFunctionOnSet(R, Kindnet(n))
  <2>1. \A p \in Load(n) \union Kindnet(n) : R[p] \in Int
    BY <1>1, <1>3, KeptSplits
  <2>2. SumFunctionOnSet(R, Load(n) \union Kindnet(n))
          = SumFunctionOnSet(R, Load(n)) + SumFunctionOnSet(R, Kindnet(n))
    BY <1>1, <2>1, KeptSplits, SumUnion
  <2>3. Kept(n) = Load(n) \union Kindnet(n)
    BY <1>1, KeptSplits
  <2> QED BY <2>2, <2>3, Zenon
<1>11. SumFunctionOnSet(R, Load(n)) \in Nat /\ SumFunctionOnSet(R, Kindnet(n)) \in Nat
  BY <1>1, <1>3, KeptSplits, SumNat
<1>12. /\ Left(n, "cpu") = Meaning(Get(Alloc[n], "cpu")) - SumFunctionOnSet(R, Kept(n))
       /\ Left(n, "cpu") \in Nat /\ Meaning(Get(Alloc[n], "cpu")) \in Nat
  BY <1>1, LeftIsNat DEF Left, R
<1> QED BY <1>5, <1>6, <1>7, <1>8, <1>9, <1>10, <1>11, <1>12

LEMMA GpuIsExact ==
  ASSUME Regular, ListedInv, NEW n \in DOMAIN nodeSnap
  PROVE  Reading(n).alloc["gpu"] - Reading(n).usage["gpu"]
           = Left(n, "nvidia") + Left(n, "amd") + Left(n, "intel")
<1> DEFINE E == [p \in Pods |-> EffectiveOf[spec[p]]["gpu"]]
           N == ReservedBy("nvidia")
           A == ReservedBy("amd")
           I == ReservedBy("intel")
           NA == [p \in Pods |-> N[p] + A[p]]
<1>1. /\ TypeOK /\ n \in Nodes /\ "cpu" \in Resources /\ "gpu" \in Resources
      /\ "nvidia" \in Keys /\ "amd" \in Keys /\ "intel" \in Keys
  BY GpuKeysAre DEF ListedInv, CapacityInv, TypeOK, Keys, Resources
<1>2. \A p \in Pods : spec[p] \in AllSpecs /\ spec[p] \in SpecsOf[p]
  BY <1>1 DEF TypeOK, AllSpecs
<1>3. \A p \in Pods : N[p] \in Nat /\ A[p] \in Nat /\ I[p] \in Nat
  BY <1>1, ReservedByTyped
<1>4. \A p \in Pods : E[p] = N[p] + A[p] + I[p]
  BY <1>2, SpecGpuAgrees DEF ReservedBy
<1>5. \A p \in Pods : NA[p] = N[p] + A[p] /\ E[p] = NA[p] + I[p] /\ NA[p] \in Int /\ E[p] \in Int
  BY <1>3, <1>4
<1>6. \A p \in Kindnet(n) : E[p] = 0
  BY <1>1, <1>2, KeptSplits, KindnetAgrees
<1>7. Reading(n).usage["gpu"] = SumFunctionOnSet(E, Load(n))
  BY <1>1 DEF Reading
<1>8. Reading(n).alloc["gpu"] = OfferOf[n]["gpu"]
  BY <1>1, OfferTyped DEF Reading, Remaining
<1>9. OfferOf[n]["gpu"] = Meaning(Get(Alloc[n], "nvidia")) + Meaning(Get(Alloc[n], "amd"))
                          + Meaning(Get(Alloc[n], "intel"))
  BY <1>1, OfferAgrees
<1>10. /\ Left(n, "nvidia") = Meaning(Get(Alloc[n], "nvidia")) - SumFunctionOnSet(N, Kept(n))
       /\ Left(n, "amd") = Meaning(Get(Alloc[n], "amd")) - SumFunctionOnSet(A, Kept(n))
       /\ Left(n, "intel") = Meaning(Get(Alloc[n], "intel")) - SumFunctionOnSet(I, Kept(n))
  BY DEF Left
<1>11. /\ SumFunctionOnSet(N, Kept(n)) \in Nat /\ Meaning(Get(Alloc[n], "nvidia")) \in Nat
       /\ SumFunctionOnSet(A, Kept(n)) \in Nat /\ Meaning(Get(Alloc[n], "amd")) \in Nat
       /\ SumFunctionOnSet(I, Kept(n)) \in Nat /\ Meaning(Get(Alloc[n], "intel")) \in Nat
  BY <1>1, LeftIsNat
<1> HIDE DEF E, N, A, I, NA
<1>12. SumFunctionOnSet(NA, Kept(n)) = SumFunctionOnSet(N, Kept(n)) + SumFunctionOnSet(A, Kept(n))
  BY <1>1, <1>3, <1>5, KeptSplits, SumPlus
<1>13. SumFunctionOnSet(E, Kept(n)) = SumFunctionOnSet(NA, Kept(n)) + SumFunctionOnSet(I, Kept(n))
  BY <1>1, <1>3, <1>5, KeptSplits, SumPlus
<1>14. SumFunctionOnSet(E, Kept(n)) = SumFunctionOnSet(E, Load(n))
  <2>1. \A p \in Load(n) \union Kindnet(n) : E[p] \in Int
    BY <1>1, <1>5, KeptSplits
  <2>2. SumFunctionOnSet(E, Load(n) \union Kindnet(n))
          = SumFunctionOnSet(E, Load(n)) + SumFunctionOnSet(E, Kindnet(n))
    BY <1>1, <2>1, KeptSplits, SumUnion
  <2>3. Kept(n) = Load(n) \union Kindnet(n)
    BY <1>1, KeptSplits
  <2>4. SumFunctionOnSet(E, Kindnet(n)) = 0
    BY <1>1, <1>6, KeptSplits, SumZero
  <2>5. SumFunctionOnSet(E, Load(n)) \in Int
    BY <1>1, <2>1, KeptSplits, SumInt
  <2>6. SumFunctionOnSet(E, Kept(n)) = SumFunctionOnSet(E, Load(n)) + SumFunctionOnSet(E, Kindnet(n))
    BY <2>2, <2>3, Zenon
  <2> QED BY <2>4, <2>5, <2>6
<1> QED BY <1>7, <1>8, <1>9, <1>10, <1>11, <1>12, <1>13, <1>14

(* The sum on the right of FreeIsExact.                                    *)
LEMMA LeftSum ==
  ASSUME ListedInv, NEW n \in DOMAIN nodeSnap, NEW r \in Resources
  PROVE  SumFunctionOnSet([k \in Keys |-> Left(n, k)], IF r = "cpu" THEN {r} ELSE Range(GpuKeys))
           = IF r = "cpu" THEN Left(n, "cpu") ELSE Left(n, "nvidia") + Left(n, "amd") + Left(n, "intel")
<1> DEFINE F == [k \in Keys |-> Left(n, k)]
<1>1. /\ "cpu" \in Keys /\ "nvidia" \in Keys /\ "amd" \in Keys /\ "intel" \in Keys
      /\ Range(GpuKeys) = {"nvidia", "amd", "intel"}
  BY GpuKeysAre DEF Keys
<1>2. \A k \in Keys : F[k] = Left(n, k) /\ F[k] \in Nat
  BY LeftIsNat
<1> HIDE DEF F
<1>3. \A k \in Keys : SumFunctionOnSet(F, {k}) = F[k]
  <2> SUFFICES ASSUME NEW k \in Keys PROVE SumFunctionOnSet(F, {k}) = F[k]
    OBVIOUS
  <2>1. IsFiniteSet({k})
    BY FS_Singleton
  <2>2. \A x \in {k} : F[x] \in Int
    BY <1>2
  <2>3. SumFunctionOnSet(F, {k}) = F[k] + SumFunctionOnSet(F, {k} \ {k})
    BY <2>1, <2>2, SumRemove
  <2>4. {k} \ {k} = {}
    OBVIOUS
  <2>5. SumFunctionOnSet(F, {k} \ {k}) = 0
    BY <2>4, SumEmpty, Zenon
  <2> QED BY <1>2, <2>3, <2>5
<1>4. SumFunctionOnSet(F, {"nvidia", "amd", "intel"}) = F["nvidia"] + F["amd"] + F["intel"]
  <2>1. /\ IsFiniteSet({"nvidia"}) /\ IsFiniteSet({"amd"}) /\ IsFiniteSet({"intel"})
        /\ IsFiniteSet({"nvidia"} \cup {"amd"})
    BY FS_Singleton, FS_Union
  <2>2. SumFunctionOnSet(F, {"nvidia"} \cup {"amd"})
          = SumFunctionOnSet(F, {"nvidia"}) + SumFunctionOnSet(F, {"amd"})
    BY <1>1, <1>2, <2>1, SumUnion
  <2>3. SumFunctionOnSet(F, ({"nvidia"} \cup {"amd"}) \cup {"intel"})
          = SumFunctionOnSet(F, {"nvidia"} \cup {"amd"}) + SumFunctionOnSet(F, {"intel"})
    BY <1>1, <1>2, <2>1, SumUnion
  <2>4. ({"nvidia"} \cup {"amd"}) \cup {"intel"} = {"nvidia", "amd", "intel"}
    OBVIOUS
  <2>5. SumFunctionOnSet(F, {"nvidia", "amd", "intel"})
          = SumFunctionOnSet(F, {"nvidia"} \cup {"amd"}) + SumFunctionOnSet(F, {"intel"})
    BY <2>3, <2>4, Zenon
  <2> QED BY <1>1, <1>3, <2>2, <2>5
<1>5. CASE r = "cpu"
  BY <1>1, <1>2, <1>3, <1>5 DEF F
<1>6. CASE r # "cpu"
  BY <1>1, <1>2, <1>4, <1>6 DEF F
<1> QED BY <1>5, <1>6

(* What a reading leaves free of a resource.                               *)
LEMMA ReadingIsExact ==
  ASSUME Regular, ListedInv, NEW n \in DOMAIN nodeSnap, NEW r \in Resources
  PROVE  /\ Reading(n).alloc[r] - Reading(n).usage[r]
              = SumFunctionOnSet([k \in Keys |-> Left(n, k)], IF r = "cpu" THEN {r} ELSE Range(GpuKeys))
         /\ Reading(n).usage[r] <= Reading(n).alloc[r]
<1> DEFINE free == IF r = "cpu" THEN Left(n, "cpu")
                   ELSE Left(n, "nvidia") + Left(n, "amd") + Left(n, "intel")
<1>1. r = "cpu" \/ r = "gpu"
  BY DEF Resources
<1>2. Reading(n).alloc[r] - Reading(n).usage[r] = free
  BY <1>1, CpuIsExact, GpuIsExact
<1>3. free \in Nat
  BY LeftIsNat, GpuKeysAre DEF Keys
<1>4. Reading(n).alloc[r] \in Nat /\ Reading(n).usage[r] \in Nat
  <2>1. TypeOK /\ n \in Nodes
    BY DEF ListedInv, CapacityInv, TypeOK
  <2>2. Reading(n) \in Readings
    BY <2>1, ReadingTyped
  <2> QED BY <2>2 DEF Readings
<1> HIDE DEF free
<1>5. Reading(n).usage[r] <= Reading(n).alloc[r]
  BY <1>2, <1>3, <1>4
<1>6. SumFunctionOnSet([k \in Keys |-> Left(n, k)], IF r = "cpu" THEN {r} ELSE Range(GpuKeys)) = free
  BY LeftSum DEF free
<1> QED BY <1>2, <1>5, <1>6

-----------------------------------------------------------------------------
(* The series stay as exact as they were published.                        *)

AmountsInv == ListedInv /\ FreeIsExact /\ UsageFits

LEMMA PublishAmounts ==
  ASSUME Regular, AmountsInv, Publish
  PROVE  FreeIsExact' /\ UsageFits'
<1>1. /\ UNCHANGED <<nodeSnap, podSnap, spec>>
      /\ DOMAIN gauges' = (DOMAIN gauges \union Published) \ Removed
      /\ \A s \in DOMAIN gauges' : gauges'[s] = IF s \in Published THEN Reading(s[1]) ELSE gauges[s]
  BY DEF Publish, cluster
<1>2. \A s \in Published : s[1] \in DOMAIN nodeSnap
  BY DEF Published
<1>3. ASSUME NEW s \in Published', s \in DOMAIN gauges', NEW r \in Resources
      PROVE  gauges'[s].alloc[r] - gauges'[s].usage[r] =
               SumFunctionOnSet([k \in Keys |-> Left(s[1], k)], IF r = "cpu" THEN {r} ELSE Range(GpuKeys))
  <2>1. s \in Published /\ s[1] \in DOMAIN nodeSnap
    BY <1>1, <1>2, <1>3 DEF Published
  <2>2. gauges'[s] = Reading(s[1])
    BY <1>1, <1>3, <2>1
  <2> QED BY <2>1, <2>2, ReadingIsExact DEF AmountsInv
<1>4. \A n : On(n)' = On(n)
  BY <1>1 DEF On
<1>5. \A k \in Keys : ReservedBy(k)' = ReservedBy(k)
  BY <1>1 DEF ReservedBy
<1>6. FreeIsExact'
  <2> SUFFICES ASSUME NEW s \in Published', s \in DOMAIN gauges', NEW r \in Resources
               PROVE  gauges'[s].alloc[r] - gauges'[s].usage[r] =
                        SumFunctionOnSet(
                          [k \in Keys |-> Meaning(Get(Alloc[s[1]], k))
                             - SumFunctionOnSet(ReservedBy(k)',
                                 {p \in On(s[1])' : ~(IsKwok(s[1]) /\ PodKind[p] = "kube-proxy")})],
                          IF r = "cpu" THEN {r} ELSE Range(GpuKeys))
    BY DEF FreeIsExact
  <2>1. {p \in On(s[1])' : ~(IsKwok(s[1]) /\ PodKind[p] = "kube-proxy")} = Kept(s[1])
    BY <1>4 DEF Kept
  <2>2. [k \in Keys |-> Meaning(Get(Alloc[s[1]], k)) - SumFunctionOnSet(ReservedBy(k)', Kept(s[1]))]
          = [k \in Keys |-> Left(s[1], k)]
    BY <1>5 DEF Left
  <2> QED BY <1>3, <2>1, <2>2
<1>7. UsageFits'
  <2> SUFFICES ASSUME NEW s \in DOMAIN gauges', NEW r \in Resources
               PROVE  gauges'[s].usage[r] <= gauges'[s].alloc[r]
    BY DEF UsageFits
  <2>1. CASE s \in Published
    BY <1>1, <1>2, <2>1, ReadingIsExact DEF AmountsInv
  <2>2. CASE s \notin Published
    BY <1>1, <2>2 DEF AmountsInv, UsageFits
  <2> QED BY <2>1, <2>2
<1> QED BY <1>6, <1>7

LEMMA InitAmounts == Init => AmountsInv
<1> SUFFICES ASSUME Init PROVE FreeIsExact /\ UsageFits
  BY InitListedInv DEF AmountsInv
<1>1. DOMAIN gauges = {}
  BY DEF Init
<1> QED BY <1>1 DEF FreeIsExact, UsageFits

LEMMA NextAmounts == Regular /\ AmountsInv /\ [Next]_vars => AmountsInv'
<1> SUFFICES ASSUME Regular, AmountsInv, [Next]_vars PROVE FreeIsExact' /\ UsageFits'
  BY NextListedInv DEF AmountsInv
<1>1. CASE Publish
  BY <1>1, PublishAmounts
<1>2. CASE gauges' = gauges /\ pc' # "sleep"
  BY <1>2 DEF AmountsInv, FreeIsExact, Sleeping, UsageFits
<1>3. CASE UNCHANGED <<gauges, pc, nodeSnap, podSnap, spec>>
  <2>1. UsageFits'
    BY <1>3 DEF AmountsInv, UsageFits
  <2>2. FreeIsExact'
    <3>1. /\ Published' = Published /\ \A n : On(n)' = On(n)
          /\ \A k : ReservedBy(k)' = ReservedBy(k)
      BY <1>3 DEF Published, On, ReservedBy
    <3> QED BY <1>3, <3>1 DEF AmountsInv, FreeIsExact, Sleeping
  <2> QED BY <2>1, <2>2
<1>4. \/ Publish
      \/ gauges' = gauges /\ pc' # "sleep"
      \/ UNCHANGED <<gauges, pc, nodeSnap, podSnap, spec>>
  BY DEF Next, Cycle, ListNodes, ListPods, PodEnds, Bind, NodeChanges, Relabel,
         exporter, cluster, vars
<1> QED BY <1>1, <1>2, <1>3, <1>4

(* Where the exporter reads quantities as the scheduler does (Regular),    *)
(* what the series of a node leave free after a cycle is what the          *)
(* scheduler has left there for the pods that the cycle listed, although   *)
(* kube-proxy is ignored and kindnet is taken off the capacity instead of  *)
(* being load (node-resource-exporter/exporter.py, collect_node_metrics).  *)
THEOREM FreeIsExactAlways ==
  ASSUME Regular
  PROVE  Spec => []FreeIsExact
<1>1. AmountsInv => FreeIsExact
  BY DEF AmountsInv
<1> QED BY <1>1, InitAmounts, NextAmounts, PTL DEF Spec

(* Under the same condition no series ever shows more used than there is,  *)
(* whatever pods came and went between the two lists of a cycle.           *)
THEOREM UsageFitsAlways ==
  ASSUME Regular
  PROVE  Spec => []UsageFits
<1>1. AmountsInv => UsageFits
  BY DEF AmountsInv
<1> QED BY <1>1, InitAmounts, NextAmounts, PTL DEF Spec
=============================================================================
