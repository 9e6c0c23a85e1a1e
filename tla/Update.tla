------------------------------- MODULE Update --------------------------------
(***************************************************************************)
(* UpdateObjTask.Exec (update_object_task.go) and UpdateNodesTask.Exec     *)
(* (update_nodes_task.go): the parts of the state are split into patches   *)
(* by NewPatchData and sent to one object after the other; what CheckObj   *)
(* would say of the result is IsSubset (utils/object_handler.go).          *)
(***************************************************************************)
EXTENDS Integers, Functions

CONSTANTS
    Objects,    \* objects of the type that the task refers to, or nodes
    Keys,       \* fields of each part of an object; for metadata, its labels
    Values,     \* values of fields, the lists included
    Lists,      \* the values that are lists
    Nil,        \* null as the value of a field of a state
    Absent,     \* what a part of an object has in a field that is not there
    Tasks,      \* [type, state, selectors]: state maps parts to maps of fields,
                \* selectors (of UpdateNodes) is a sequence of maps of labels
    MaxFaults   \* bound on the requests that fail

Parts == {"metadata", "spec", "status"}
Objs == [Parts -> [Keys -> Values \cup {Absent}]]

-----------------------------------------------------------------------------
(* NewPatchData: the status goes to a subresource of its own.  An empty    *)
(* patch stands for nil.                                                   *)
NewPatchData(state) ==
    [root |-> Restrict(state, DOMAIN state \cap {"metadata", "spec"}),
     status |-> Restrict(state, DOMAIN state \cap {"status"})]

NilPatch == << >>

(* IsSubset, for objects whose parts are maps of fields.  A list in the    *)
(* state asks for a list, then for nothing of its content.                 *)
FieldIsIn(have, want) ==
    IF want = Nil THEN have = Absent
    ELSE IF want \in Lists THEN have \in Lists
    ELSE have = want

IsSubset(obj, state) ==
    \A part \in DOMAIN state : \A k \in DOMAIN state[part] :
        FieldIsIn(obj[part][k], state[part][k])

(* isMapSubset on the labels of a listed node.                             *)
isMapSubset(labels, selector) ==
    \A k \in DOMAIN selector : labels[k] = selector[k]

-----------------------------------------------------------------------------
(* The API server: a merge patch, where null removes a field, to the       *)
(* object without its status, or to its subresource status.                *)
Merge(have, want) ==
    [k \in Keys |-> IF k \notin DOMAIN want THEN have[k]
                    ELSE IF want[k] = Nil THEN Absent ELSE want[k]]

Merged(obj, patch, parts) ==
    [part \in Parts |-> IF part \in DOMAIN patch \cap parts
                        THEN Merge(obj[part], patch[part]) ELSE obj[part]]

VARIABLES
    task,       \* the task
    object,     \* the objects, or nodes, in the API server
    targets,    \* pairs of an object and the number of the selector it matches
    todo,       \* those that have not been patched
    cur,        \* the object being patched
    pc,         \* "start", "next", "root", "status", "returned"
    verdict,    \* what Exec returns: "none" until it is decided, "ok" or "error"
    faults      \* failed requests so far

vars == <<task, object, targets, todo, cur, pc, verdict, faults>>

Init ==
    /\ task \in Tasks
    /\ object \in [Objects -> Objs]
    /\ targets = {} /\ todo = {}
    /\ cur \in Objects
    /\ pc = "start" /\ verdict = "none"
    /\ faults = 0

patch == NewPatchData(task.state)

Return(v) == pc' = "returned" /\ verdict' = v

-----------------------------------------------------------------------------
(* info.Names, or the nodes of the list with the selectors that match the  *)
(* labels they had in it: a node is patched once for each of them.         *)
Listed ==
    IF task.type = "UpdateObj"
    THEN Objects \X {1}
    ELSE {<<n, i>> \in Objects \X DOMAIN task.selectors :
            isMapSubset(object[n]["metadata"], task.selectors[i])}

GetTargets ==
    /\ pc = "start"
    /\ targets' = Listed /\ todo' = Listed
    /\ pc' = "next"
    /\ UNCHANGED <<task, object, cur, verdict, faults>>

NextTarget ==
    /\ pc = "next"
    /\ IF todo = {}
       THEN Return("ok") /\ UNCHANGED <<todo, cur>>
       ELSE \E t \in todo :
            /\ cur' = t[1] /\ todo' = todo \ {t}
            /\ pc' = "root"
            /\ UNCHANGED verdict
    /\ UNCHANGED <<task, object, targets, faults>>

PatchRoot ==
    /\ pc = "root"
    /\ object' = [object EXCEPT ![cur] = Merged(@, patch.root, {"metadata", "spec"})]
    /\ pc' = "status"
    /\ UNCHANGED <<task, targets, todo, cur, verdict, faults>>

(* UpdateObj sends patch.Root to the subresource, UpdateNodes the status.  *)
StatusPatch == IF task.type = "UpdateObj" THEN patch.root ELSE patch.status

(* A body that is nil is no patch: the request is refused.                 *)
PatchStatus ==
    /\ pc = "status"
    /\ IF patch.status = NilPatch
       THEN pc' = "next" /\ UNCHANGED <<object, verdict>>
       ELSE IF StatusPatch = NilPatch
       THEN Return("error") /\ UNCHANGED object
       ELSE /\ object' = [object EXCEPT ![cur] = Merged(@, StatusPatch, {"status"})]
            /\ pc' = "next"
            /\ UNCHANGED verdict
    /\ UNCHANGED <<task, targets, todo, cur, faults>>

(* The list, or a patch that is sent, fails.                               *)
RequestFails ==
    /\ faults < MaxFaults
    /\ \/ pc = "start"
       \/ pc = "root" /\ patch.root # NilPatch
       \/ pc = "status" /\ patch.status # NilPatch
    /\ faults' = faults + 1
    /\ Return("error")
    /\ UNCHANGED <<task, object, targets, todo, cur>>

Next == GetTargets \/ NextTarget \/ PatchRoot \/ PatchStatus \/ RequestFails

Spec == Init /\ [][Next]_vars

-----------------------------------------------------------------------------
(* "UpdateObjTask represents task that updates object state and status"    *)
(* (update_object_task.go:31): once the task has returned nil, each object *)
(* it was to update is in the state, as CheckObj would find.  For UpdateObj*)
(* with a status it is not; for UpdateNodes it is.                         *)
UpdatedIsInState ==
    verdict = "ok" => \A t \in targets : IsSubset(object[t[1]], task.state)

(* The same of UpdateNodes alone, for which it holds.                      *)
NodesAreInState == task.type = "UpdateNodes" => UpdatedIsInState
=============================================================================
