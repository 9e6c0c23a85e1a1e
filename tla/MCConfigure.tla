---------------------------- MODULE MCConfigure ----------------------------
(* Instances of Configure for TLC. *)
EXTENDS Configure

MCHome == [m \in Maps |-> CHOOSE n \in Namespaces : TRUE]

Make(o, v) == [op |-> "create", obj |-> o, val |-> v]
Drop(o) == [op |-> "delete", obj |-> o]
ByName(d) == [byLabels |-> FALSE, match |-> {d}]
ByLabels(s) == [byLabels |-> TRUE, match |-> s]

Task(ns, cl, cm, nodes, chart, restarts) ==
  [namespaces |-> ns, classes |-> cl, maps |-> cm, nodes |-> nodes,
   chart |-> chart, restarts |-> restarts]

\* A scheduler's configmap in a namespace made by the same task, then the
\* scheduler's restart; a clean-up of both; a class made anew beside virtual
\* nodes whose chart is not there, and one that may have the value; label
\* selectors that match none, one and more than one deployment.
MCPrograms ==
  { Task(<<Make("ns", Active)>>, << >>, <<Make("cm", "new")>>,
         FALSE, TRUE, <<ByName("d1")>>),
    Task(<<Drop("ns")>>, << >>, <<Drop("cm")>>, FALSE, TRUE, <<ByLabels({"d1"})>>),
    Task(<< >>, <<Drop("pc"), Make("pc", "old")>>, << >>,
         TRUE, FALSE, <<ByLabels({}), ByLabels({"d1", "d2"})>>),
    Task(<< >>, <<Make("pc", "new")>>, << >>, TRUE, TRUE, <<ByName("d1")>>) }
=============================================================================
