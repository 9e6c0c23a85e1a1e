------------------------------ MODULE MCEngine ------------------------------
(* Small instances of Engine: task lists that exercise every handler, share  *)
(* task ids between flows, and meet objects that exist already.             *)
EXTENDS Engine

Job(space) == [gvr |-> "job", ns |-> space]
Svc(space) == [gvr |-> "svc", ns |-> space]

Numbered == [named |-> "enum", tpls |-> <<Job("a")>>]
Pair == [named |-> "fixed", tpls |-> <<Job("a"), Svc("a")>>]
Nameless == [named |-> "none", tpls |-> <<Svc("a")>>]
MCShapes == {Numbered, Pair, Nameless}

T(kind, id, ref) == [kind |-> kind, id |-> id, ref |-> ref, shape |-> Numbered,
                     count |-> 1, canExist |-> FALSE]
Register(id, s) == [T("Register", id, id) EXCEPT !.shape = s]
Submit(id, ref, n, can) == [T("Submit", id, ref) EXCEPT !.count = n, !.canExist = can]

(* Submit two numbered objects and delete them.                             *)
SubmitDelete == <<Register("r", Numbered), Submit("s", "r", 2, FALSE), T("Delete", "d", "s")>>
(* The same ids, two templates under a constant name, which may exist.      *)
SubmitShared == <<Register("r", Pair), Submit("s", "r", 1, TRUE), T("Update", "u", "s")>>
(* Uses the registration of another flow.                                   *)
SubmitCross == <<Submit("x", "r", 1, FALSE), T("Delete", "d", "s")>>
(* No name format; a local task; a task that is not valid.                  *)
SubmitPlain == <<Register("q", Nameless), Submit("p", "q", 1, FALSE),
                 T("Local", "l", "l"), T("Update", "u", "p")>>
SubmitMany == <<Register("q", Nameless), Submit("p", "q", 2, FALSE)>>
Invalid == <<T("Bad", "b", "b")>>

ServerPrograms == {SubmitDelete, SubmitShared, SubmitCross}
MCTaskIds == {"r", "s", "d", "u", "x", "c", "q", "p", "l", "b"}
MCForeign == {[gvr |-> "job", ns |-> "a", name |-> 0]}

(* Workflows of one command line, each with ids of its own or shared ones.  *)
CliPrograms == {SubmitDelete, SubmitPlain, SubmitMany, Invalid,
                <<Register("r2", Numbered), Submit("s2", "r2", 1, FALSE)>>}
CliTaskIds == MCTaskIds \cup {"r2", "s2"}

(* Two workflows with the same ids, as the shipped ones have.               *)
TwicePrograms == {<<Register("r", Numbered), Submit("s", "r", 1, FALSE)>>}
=============================================================================
