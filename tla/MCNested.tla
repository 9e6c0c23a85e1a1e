------------------------------ MODULE MCNested -------------------------------
(* Two sub-tasks that submit a batch and a Volcano job, and a batch job of  *)
(* others; every combination of parameters that validate accepts.           *)
EXTENDS Nested

MCDurations == {"", "0s", "1m"}
MCKindOf == [j \in Jobs |-> IF j = "v" THEN "volcano" ELSE "batch"]
MCJobOf == [k \in 0..(Width - 1) |-> IF k = 0 THEN "b" ELSE "v"]
=============================================================================
