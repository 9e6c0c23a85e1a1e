-------------------------- MODULE MCNodeExporter ---------------------------
(* Instances of NodeExporter for TLC. *)
EXTENDS NodeExporter

MCMark == [n \in Nodes |-> IF n = "n1" THEN "type" ELSE "none"]
MCCondition == [n \in Nodes |-> IF n = "n1" THEN "True" ELSE "Unknown"]
MCPodKind == [p \in Pods |-> CASE p = "proxy" -> "kube-proxy"
                               [] p = "net" -> "kindnet" [] OTHER -> "user"]
MCNode == [p \in Pods |-> "n1"]

Q(num, unit) == [num |-> num, unit |-> unit]
MCAlloc == [n \in Nodes |->
  IF n = "n1" THEN [cpu |-> Q(2100000, "m"), nvidia |-> Q(2000, "one")]
  ELSE [cpu |-> Q(3000, "one"), amd |-> Q(1000, "one")]]
MCSpecsOf == [p \in Pods |->
  CASE p = "proxy" -> {[containers |-> << << >> >>, inits |-> << >>]}
    [] p = "net" -> {[containers |-> <<[cpu |-> Q(100000, "m")]>>, inits |-> << >>]}
    [] OTHER ->
      { [containers |-> <<[cpu |-> Q(500, "one"), nvidia |-> Zero, amd |-> Q(1000, "one")]>>, inits |-> << >>],
        [containers |-> <<[cpu |-> Q(500, "one")], [cpu |-> Q(500000, "m"), nvidia |-> Q(1000, "one")]>>,
         inits |-> <<[cpu |-> Q(2000, "one")], [cpu |-> Q(1000, "one")]>>] }]

ASSUME MCRegular == Regular
=============================================================================
