------------------------------ MODULE MCUpdate -------------------------------
(* States with each kind of value, in one part and in two; selectors that   *)
(* overlap, and one whose label the state itself changes.                   *)
EXTENDS Update, TLC

CONSTANTS one, list

MCValues == {one, list}
MCLists == {list}

States ==
    {"spec" :> ("k" :> one), "spec" :> ("k" :> Nil), "metadata" :> ("k" :> list),
     "status" :> ("k" :> one),
     ("metadata" :> ("k" :> Nil)) @@ ("status" :> ("k" :> one)),
     ("spec" :> ("k" :> one)) @@ ("status" :> ("k" :> Nil))}

Selectors == {<<("k" :> one)>>, <<("k" :> one), << >> >>}

MCTasks == [type : {"UpdateObj"}, state : States, selectors : {<< >>}]
           \cup [type : {"UpdateNodes"}, state : States, selectors : Selectors]
=============================================================================
