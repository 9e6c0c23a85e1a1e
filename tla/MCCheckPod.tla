---------------------------- MODULE MCCheckPod ------------------------------
(* Model checking of CheckPod: pods whose names match one pattern each.     *)
EXTENDS CheckPod

CONSTANTS a, b

TwoPods == {a, b}
OneMisplaced == {b}
OneHit == [p \in TwoPods |-> 1]
=============================================================================
