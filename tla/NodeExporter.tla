---------------------------- MODULE NodeExporter ----------------------------
(***************************************************************************)
(* The node exporter (node-resource-exporter/exporter.py): each cycle      *)
(* lists the nodes, then lists the pods, adds up what the pods on each     *)
(* node request and publishes, per node and under the node's labels, what  *)
(* the node has and what is used.  On simulated (KWOK) nodes the pods of   *)
(* the infrastructure are not load: kube-proxy is ignored, and what        *)
(* kindnet requests is taken off the node's capacity instead.              *)
(*                                                                         *)
(* The resource "cpu" stands for cpu and memory, which are handled alike;  *)
(* GPUs have a key per vendor.  A quantity is a number, in thousandths,    *)
(* and a unit, "one" where there is no suffix; amounts are in thousandths. *)
(***************************************************************************)
EXTENDS Integers, Sequences, FiniteSetsExt

CONSTANTS
  Nodes, Mark,        \* nodes; "type" or "providerID" marks a simulated one
  Alloc,              \* what each node has: quantities by key
  Condition,          \* the Ready condition of each node: a status or "none"
  Labels,             \* topology labels a node can have; "" is none
  Pods, PodKind,      \* "user", "kube-proxy" or "kindnet"
  SpecsOf,            \* what each pod may request: per container and init
                      \* container, quantities by key
  Node,               \* the node a pod of a daemon set is for; any other: none
  Disturbances        \* bound: failed calls and changes of a node's labels

VARIABLES
  there,       \* cluster: the nodes there are
  label,       \* cluster: the labels of each node
  at,          \* cluster: the node of each pod, "queued" or "gone"
  spec,        \* cluster: what each pod requests
  pc,          \* where the cycle is
  nodeSnap,    \* nodes_list: the listed nodes' labels
  podSnap,     \* pods_list: the listed pods' nodes
  prevLabels,  \* previous_node_labels
  gauges,      \* the series: <<node, labels>> -> what they say
  unscheduled, \* cluster_unscheduled_pods_count
  disturbed,   \* how many disturbances there were
  relabelled   \* nodes whose labels changed

cluster == <<there, label, at, spec, relabelled>>
vars == <<cluster, pc, nodeSnap, podSnap, prevLabels, gauges, unscheduled, disturbed>>

GpuKeys == <<"nvidia", "amd", "intel">>   \* KNOWN_GPU_KEYS
Keys == {"cpu"} \union Range(GpuKeys)
Resources == {"cpu", "gpu"}
Units == {"one", "m", "k", "e"} \union {"Ki", "Mi", "K", "M"}
IsResourceList(f) ==
  DOMAIN f \subseteq Keys /\ \A k \in DOMAIN f : f[k].num \in Nat /\ f[k].unit \in Units

ASSUME NodeAssumption ==
  /\ Mark \in [Nodes -> {"type", "providerID", "none"}]
  /\ \A n \in Nodes : IsResourceList(Alloc[n])
  /\ Nodes \intersect {"queued", "gone"} = {} /\ IsFiniteSet(Pods)
  /\ \A p \in Pods : \A s \in SpecsOf[p] :
       /\ s.containers \in Seq(Range(s.containers)) /\ s.inits \in Seq(Range(s.inits))
       /\ \A c \in Range(s.containers) \union Range(s.inits) : IsResourceList(c)
ASSUME BoundAssumption == Disturbances \in Nat

Places == Nodes \union {"queued", "gone"}
Shown(l) == IF l = "" THEN "unknown" ELSE l   \* get_node_labels
Readings == [alloc : [Resources -> Nat], usage : [Resources -> Nat],
             count : 0 .. Cardinality(Pods), ready : 0 .. 1]

TypeOK ==
  /\ there \subseteq Nodes /\ label \in [Nodes -> Labels]
  /\ at \in [Pods -> Places] /\ \A p \in Pods : spec[p] \in SpecsOf[p]
  /\ pc \in {"sleep", "pods", "publish"}
  /\ DOMAIN nodeSnap \subseteq Nodes /\ DOMAIN podSnap \subseteq Pods
  /\ \A n \in DOMAIN nodeSnap : nodeSnap[n] \in Labels
  /\ \A p \in DOMAIN podSnap : podSnap[p] \in Places \ {"gone"}
  /\ DOMAIN prevLabels \subseteq Nodes
  /\ DOMAIN gauges \subseteq Nodes \X {Shown(l) : l \in Labels}
  /\ \A s \in DOMAIN gauges : gauges[s] \in Readings
  /\ unscheduled \in 0 .. Cardinality(Pods)
  /\ disturbed \in 0 .. Disturbances /\ relabelled \subseteq Nodes

Init ==
  /\ there \in SUBSET Nodes /\ label \in [Nodes -> Labels]
  /\ at = [p \in Pods |-> "queued"]
  /\ spec \in [Pods -> UNION {SpecsOf[p] : p \in Pods}]
  /\ \A p \in Pods : spec[p] \in SpecsOf[p]
  /\ pc = "sleep" /\ nodeSnap = << >> /\ podSnap = << >>
  /\ prevLabels = << >> /\ gauges = << >> /\ unscheduled = 0
  /\ disturbed = 0 /\ relabelled = {}

-----------------------------------------------------------------------------
(* Quantities, and what a pod requests.                                    *)

Multipliers == [Ki |-> 1024, Mi |-> 1048576, K |-> 1000, M |-> 1000000]

\* Mutant: the suffix of thousandths is looked up with the others.
MutNoMilli(q) ==
  IF q.unit \in DOMAIN Multipliers THEN q.num * Multipliers[q.unit] ELSE q.num

\* parse_resource_quantity: thousandths are whole numbers, "1e3" is not a
\* number, a suffix that is not known (such as "k") is left out.
ParseQuantity(q) ==
  CASE q.unit = "m" /\ q.num % 1000 = 0 -> q.num \div 1000
    [] q.unit = "e" -> 0
    [] q.unit \in DOMAIN Multipliers -> 1000 * ((q.num * Multipliers[q.unit]) \div 1000)
    [] OTHER -> q.num

\* What a quantity means to the Kubernetes API.
Meaning(q) ==
  CASE q.unit = "m" -> q.num \div 1000
    [] q.unit \in {"k", "e"} -> q.num * 1000
    [] q.unit \in DOMAIN Multipliers -> q.num * Multipliers[q.unit]
    [] OTHER -> q.num

Zero == [num |-> 0, unit |-> "one"]
Get(f, k) == IF k \in DOMAIN f THEN f[k] ELSE Zero

\* The first key in the order of the list whose quantity is not passed over.
FirstGpu(f, passed) ==
  LET found == {i \in DOMAIN GpuKeys : GpuKeys[i] \in DOMAIN f /\ f[GpuKeys[i]] \notin passed} IN
  IF found = {} THEN Zero ELSE f[GpuKeys[Min(found)]]

\* What is requested is the first GPU request that is not "0" ...
Request(c, r) == ParseQuantity(IF r = "cpu" THEN Get(c, r) ELSE FirstGpu(c, {Zero}))
\* ... but what a node has is under the first key that it has at all.
Offer(f) ==
  [r \in Resources |-> ParseQuantity(IF r = "cpu" THEN Get(f, r) ELSE FirstGpu(f, {}))]

RequestsOf(containers, r) == [i \in DOMAIN containers |-> Request(containers[i], r)]

\* Mutant: the init containers' requests are added, as those of kindnet are.
MutInitsAdded(s) ==
  [r \in Resources |-> SumFunction(RequestsOf(s.containers \o s.inits, r))]

\* The containers run together, the init containers one at a time before.
Effective(s) ==
  [r \in Resources |-> Max({SumFunction(RequestsOf(s.containers, r))}
                             \union {Request(c, r) : c \in Range(s.inits)})]

\* What kindnet's pods request is added over all their containers.
KindnetRequest(s) == SumFunction(RequestsOf(s.containers \o s.inits, "cpu"))

\* What the scheduler reserves for a pod under a key, as the API defines it.
Reserved(s, k) ==
  LET Asked(c) == Meaning(Get(c, k)) IN
  Max({SumFunction([i \in DOMAIN s.containers |-> Asked(s.containers[i])])}
      \union {Asked(c) : c \in Range(s.inits)})

AllSpecs == UNION {SpecsOf[p] : p \in Pods}
EffectiveOf == [s \in AllSpecs |-> Effective(s)]
KindnetOf == [s \in AllSpecs |-> KindnetRequest(s)]
ReservedOf == [s \in AllSpecs |-> [k \in Keys |-> Reserved(s, k)]]

-----------------------------------------------------------------------------
(* The cluster.                                                            *)

exporter == <<pc, nodeSnap, podSnap, prevLabels, gauges, unscheduled>>
Disturb == disturbed < Disturbances /\ disturbed' = disturbed + 1

ReservedBy(k) == [p \in Pods |-> ReservedOf[spec[p]][k]]

\* The scheduler binds a pod to a node with room for it.
Bind(p, n) ==
  /\ at[p] = "queued" /\ n \in there
  /\ PodKind[p] # "user" => Node[p] = n
  /\ \A k \in Keys :
       SumFunctionOnSet(ReservedBy(k), {p} \union {q \in Pods : at[q] = n})
         <= Meaning(Get(Alloc[n], k))
  /\ at' = [at EXCEPT ![p] = n]
  /\ UNCHANGED <<there, label, spec, relabelled, exporter, disturbed>>

PodEnds(p) ==
  /\ at[p] \in Nodes
  /\ at' = [at EXCEPT ![p] = "gone"]
  /\ UNCHANGED <<there, label, spec, relabelled, exporter, disturbed>>

\* A node comes or goes; the pods of one that went are collected later.
NodeChanges(n) ==
  /\ there' = IF n \in there THEN there \ {n} ELSE there \union {n}
  /\ UNCHANGED <<label, at, spec, relabelled, exporter, disturbed>>

\* A node's labels change, or it comes back with others.
Relabel(n) ==
  /\ Disturb
  /\ \E l \in Labels \ {label[n]} : label' = [label EXCEPT ![n] = l]
  /\ relabelled' = relabelled \union {n}
  /\ UNCHANGED <<there, at, spec, exporter>>

-----------------------------------------------------------------------------
(* collect_node_metrics.                                                   *)

\* The cycle is given up when the nodes cannot be listed.
ListNodes ==
  /\ pc = "sleep"
  /\ \/ /\ nodeSnap' = [n \in there |-> label[n]]
        /\ pc' = "pods"
        /\ UNCHANGED disturbed
     \/ /\ Disturb
        /\ UNCHANGED <<pc, nodeSnap>>
  /\ UNCHANGED <<cluster, podSnap, prevLabels, gauges, unscheduled>>

\* Mutant: the list has no field selector.
MutListsEnded == Pods

\* The field selector leaves out the pods that have ended.
Unended == {p \in Pods : at[p] # "gone"}

\* It goes on without pods when those cannot be listed.
ListPods ==
  /\ pc = "pods" /\ pc' = "publish"
  /\ \/ /\ podSnap' = [p \in Unended |-> at[p]]
        /\ UNCHANGED disturbed
     \/ /\ Disturb
        /\ podSnap' = << >>
  /\ UNCHANGED <<cluster, nodeSnap, prevLabels, gauges, unscheduled>>

IsKwok(n) == Mark[n] # "none"

On(n) == {p \in DOMAIN podSnap : podSnap[p] = n}

\* Only the listed nodes are known to be simulated.
IsInfra(p, n) ==
  IsKwok(n) /\ n \in DOMAIN nodeSnap /\ PodKind[p] \in {"kube-proxy", "kindnet"}

Load(n) == {p \in On(n) : ~IsInfra(p, n)}

Kindnet(n) == {p \in On(n) : IsInfra(p, n) /\ PodKind[p] = "kindnet"}

OfferOf == [n \in Nodes |-> Offer(Alloc[n])]

Remaining(n) ==
  LET left == OfferOf[n]["cpu"]
                - SumFunctionOnSet([p \in Pods |-> KindnetOf[spec[p]]], Kindnet(n)) IN
  [OfferOf[n] EXCEPT !["cpu"] = IF left > 0 THEN left ELSE 0]

Reading(n) ==
  [alloc |-> Remaining(n),
   usage |-> [r \in Resources |->
                SumFunctionOnSet([p \in Pods |-> EffectiveOf[spec[p]][r]], Load(n))],
   count |-> Cardinality(Load(n)),
   ready |-> IF Condition[n] = "True" THEN 1 ELSE 0]

Published == {<<n, Shown(nodeSnap[n])>> : n \in DOMAIN nodeSnap}

\* Mutant: compared with the nodes that have pods, not with the listed ones.
MutRemovesIdle == {<<n, Shown(prevLabels[n])>> : n \in {m \in DOMAIN prevLabels : On(m) = {}} \ DOMAIN nodeSnap}

\* The series of the nodes that are gone, under the labels they had in the
\* cycle before.
Removed == {<<n, Shown(prevLabels[n])>> : n \in DOMAIN prevLabels \ DOMAIN nodeSnap}

\* No call to the API server: one step.
Publish ==
  /\ pc = "publish" /\ pc' = "sleep"
  /\ gauges' = [s \in (DOMAIN gauges \union Published) \ Removed |->
                  IF s \in Published THEN Reading(s[1]) ELSE gauges[s]]
  /\ unscheduled' = Cardinality(On("queued"))
  /\ prevLabels' = nodeSnap
  /\ UNCHANGED <<cluster, nodeSnap, podSnap, disturbed>>

-----------------------------------------------------------------------------
Cycle == ListNodes \/ ListPods \/ Publish

Next ==
  \/ Cycle
  \/ \E p \in Pods : PodEnds(p) \/ \E n \in Nodes : Bind(p, n)
  \/ \E n \in Nodes : NodeChanges(n) \/ Relabel(n)

Spec == Init /\ [][Next]_vars

-----------------------------------------------------------------------------
(* Properties.                                                             *)

Sleeping == pc = "sleep"

\* Where the exporter reads quantities as the scheduler does: a suffix is one
\* that both know, after a whole number; a node offers, and a pod asks for, the
\* GPUs of one vendor; kindnet has no init container and asks for no GPU.
Plain(q) == q.unit \notin {"k", "e"} /\ (q.unit # "one" => q.num % 1000 = 0)
Containers(s) == Range(s.containers) \union Range(s.inits)
AsksNoGpuBut(s, v) == \A c \in Containers(s) : \A k \in Range(GpuKeys) \ {v} : Get(c, k) = Zero
Regular ==
  /\ \A n \in Nodes : \A k \in DOMAIN Alloc[n] : Plain(Alloc[n][k])
  /\ \A n \in Nodes : \A j, k \in Range(GpuKeys) \intersect DOMAIN Alloc[n] : j = k
  /\ \A s \in AllSpecs : \A c \in Containers(s) : \A k \in DOMAIN c : Plain(c[k])
  /\ \A s \in AllSpecs : \E v \in Range(GpuKeys) : AsksNoGpuBut(s, v)
  /\ \A p \in Pods : PodKind[p] = "kindnet" =>
       \A s \in SpecsOf[p] : s.inits = << >> /\ AsksNoGpuBut(s, "none")

\* After a cycle, what a node's series leave free of a resource is what the
\* scheduler has left on it, in whatever units it was asked for; kube-proxy on
\* a simulated node does not count.
FreeIsExact ==
  Sleeping => \A s \in Published \intersect DOMAIN gauges : \A r \in Resources :
    LET n == s[1]
        kept == {p \in On(n) : ~(IsKwok(n) /\ PodKind[p] = "kube-proxy")} IN
    gauges[s].alloc[r] - gauges[s].usage[r] =
      SumFunctionOnSet([k \in Keys |-> Meaning(Get(Alloc[n], k)) - SumFunctionOnSet(ReservedBy(k), kept)],
                       IF r = "cpu" THEN {r} ELSE Range(GpuKeys))

\* What is used never exceeds what there is: the two lists of a cycle are
\* taken at different times, but the pods are all from the second.
UsageFits ==
  \A s \in DOMAIN gauges : \A r \in Resources : gauges[s].usage[r] <= gauges[s].alloc[r]

\* After a cycle no series is left of a node that the cycle did not list,
\* unless the node's labels changed.
NoStaleNodes ==
  Sleeping => \A s \in DOMAIN gauges : s[1] \in DOMAIN nodeSnap \union relabelled
=============================================================================
