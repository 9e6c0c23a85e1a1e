---------------------------- MODULE MCCheckObj ------------------------------
(* Model checking of CheckObj: two names and one unrelated object.         *)
EXTENDS CheckObj

CONSTANTS a, b, x

TwoNames == {a, b}
NoObjs == {}
OneOther == {x}
=============================================================================
