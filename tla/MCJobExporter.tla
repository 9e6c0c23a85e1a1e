--------------------------- MODULE MCJobExporter ---------------------------
(* Instances of JobExporter for TLC. *)
EXTENDS JobExporter

\* The batch Job has two pods that must be in one block, the Volcano job one
\* pod that should be on one node; the nodes are in two blocks of one spine.
MCPodsOf == [u \in Uids |-> IF u \in K8sJobs THEN {"p1", "p2"} ELSE {"p1"}]
MCWish == [u \in Uids |-> IF u \in K8sJobs THEN [required |-> "block", preferred |-> ""]
                           ELSE [mode |-> "soft", tier |-> 1]]
MCDomainAt == [n \in Nodes |-> [level \in Levels |->
  IF level \in {"hostname", "block"} THEN n ELSE "s"]]
MCLivelySets == {{u} : u \in Uids}
=============================================================================
