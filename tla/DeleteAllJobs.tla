---------------------------- MODULE DeleteAllJobs ----------------------------
(***************************************************************************)
(* DeleteAllJobsTask.Exec (delete_all_jobs.go): for the batch Jobs and     *)
(* then for the Volcano jobs, list all of the kind, delete each and poll   *)
(* until none is left.  Deletion is in the background: a deleted job is    *)
(* listed until its controller has collected it, which may never happen.   *)
(***************************************************************************)
EXTENDS Integers, Sequences, FiniteSetsExt

CONSTANTS
    Jobs,
    KindOf,     \* the kind of each job
    Troubles    \* bound: requests that fail, jobs that others delete and the
                \* removal of the Volcano resource, together

gvrs == <<"batch", "volcano">>
Kinds == {"batch", "volcano"}

JobsAssumption == KindOf \in [Jobs -> Kinds] /\ Troubles \in Nat

VARIABLES
    job,        \* cluster: each job "none", "there" or "deleting"
    served,     \* cluster: the kinds that the API server knows
    ctxDone,    \* the context of the workflow is done
    phase,      \* "list", "delete", "poll" or "returned"
    gvr,        \* the kind that is being processed, as an index of gvrs
    list,       \* the listed jobs that are still to be deleted
    left,       \* history: the jobs there were at the start, until they go
    outcome,    \* what Exec returned: "none", "ok" or "failed"
    troubles    \* how many troubles there were

cluster == <<job, served, left, troubles>>
execVars == <<phase, gvr, list, outcome>>
vars == <<cluster, ctxDone, execVars>>

Init ==
    /\ job \in [Jobs -> {"none", "there"}] /\ served = Kinds
    /\ ctxDone = FALSE /\ troubles = 0
    /\ phase = "returned" /\ gvr = 1 /\ list = {}
    /\ left = {} /\ outcome = "none"

-----------------------------------------------------------------------------
(* The cluster.                                                            *)

Trouble == troubles < Troubles /\ troubles' = troubles + 1

Become(js, state) ==
    /\ job' = [j \in Jobs |-> IF j \in js THEN state ELSE job[j]]
    /\ left' = IF state = "none" THEN left \ js ELSE left

Create(j) ==
    /\ job[j] = "none" /\ KindOf[j] \in served
    /\ Become({j}, "there")
    /\ UNCHANGED <<served, troubles, ctxDone, execVars>>

Collect(j) ==
    /\ job[j] = "deleting"
    /\ Become({j}, "none")
    /\ UNCHANGED <<served, troubles, ctxDone, execVars>>

\* Somebody else deletes a job, or its time to live is over.
Vanish(j) ==
    /\ job[j] = "there" /\ Trouble
    /\ Become({j}, "none")
    /\ UNCHANGED <<served, ctxDone, execVars>>

\* The custom resource is removed, and all its objects with it.
Uninstall ==
    /\ "volcano" \in served /\ Trouble
    /\ served' = served \ {"volcano"}
    /\ Become({j \in Jobs : KindOf[j] = "volcano"}, "none")
    /\ UNCHANGED <<ctxDone, execVars>>

\* A request fails when the context is done, or by a trouble.
Fault == IF ctxDone THEN UNCHANGED troubles ELSE Trouble

-----------------------------------------------------------------------------
(* Exec.                                                                   *)

Kind == gvrs[gvr]
Listed == {j \in Jobs : KindOf[j] = Kind /\ job[j] # "none"}

Begin ==
    /\ phase' = "list" /\ gvr' = 1 /\ list' = {} /\ outcome' = "none"
    /\ left' = {j \in Jobs : job[j] # "none"}
    /\ UNCHANGED <<job, served, ctxDone, troubles>>

Return(v) == phase' = "returned" /\ outcome' = v /\ UNCHANGED gvr

NextKind ==
    IF gvr < Len(gvrs) THEN phase' = "list" /\ gvr' = gvr + 1 /\ UNCHANGED outcome
    ELSE Return("ok")

\* An error other than "not found" ends Exec.
RequestFails ==
    /\ phase \in {"list", "delete", "poll"} /\ (phase = "delete" => list # {})
    /\ Fault
    /\ Return("failed")
    /\ UNCHANGED <<job, served, left, ctxDone, list>>

List ==
    /\ phase = "list"
    /\ IF Kind \in served
       THEN phase' = "delete" /\ list' = Listed /\ UNCHANGED <<gvr, outcome>>
       ELSE NextKind /\ UNCHANGED list
    /\ UNCHANGED <<cluster, ctxDone>>

\* A job that is gone already is skipped.
Delete(j) ==
    /\ phase = "delete" /\ j \in list
    /\ list' = list \ {j}
    /\ IF job[j] # "none" THEN Become({j}, "deleting") ELSE UNCHANGED <<job, left>>
    /\ UNCHANGED <<served, troubles, ctxDone, phase, gvr, outcome>>

\* Mutant: the wait for the jobs to go is left out.
MutNoPoll ==
    /\ phase = "delete" /\ list = {}
    /\ NextKind
    /\ UNCHANGED <<cluster, ctxDone, list>>

Deleted ==
    /\ phase = "delete" /\ list = {}
    /\ phase' = "poll"
    /\ UNCHANGED <<cluster, ctxDone, gvr, list, outcome>>

\* Mutant: a job that is being deleted counts as gone.
MutAcceptsDeleting ==
    /\ phase = "poll"
    /\ \A j \in Listed : job[j] = "deleting"
    /\ NextKind
    /\ UNCHANGED <<cluster, ctxDone, list>>

\* The poll that finds none, or finds that the kind is not served; one that
\* finds a job changes nothing.
Poll ==
    /\ phase = "poll"
    /\ Listed = {}
    /\ NextKind
    /\ UNCHANGED <<cluster, ctxDone, list>>

\* After two minutes with a job in each poll, or with the context done.
PollTimesOut ==
    /\ phase = "poll" /\ (Listed # {} \/ ctxDone)
    /\ Return("failed")
    /\ UNCHANGED <<cluster, ctxDone, list>>

ExecStep ==
    \/ RequestFails \/ List \/ Deleted \/ Poll \/ PollTimesOut
    \/ \E j \in Jobs : Delete(j)

ClusterStep ==
    \/ Uninstall
    \/ \E j \in Jobs : Create(j) \/ Collect(j) \/ Vanish(j)

Start == phase = "returned" /\ outcome = "none" /\ Begin
Cancel == ~ctxDone /\ ctxDone' = TRUE /\ UNCHANGED <<cluster, execVars>>

Next == Start \/ ExecStep \/ ClusterStep \/ Cancel
Spec == Init /\ [][Next]_vars

-----------------------------------------------------------------------------
TypeOK ==
    /\ job \in [Jobs -> {"none", "there", "deleting"}]
    /\ served \subseteq Kinds /\ ctxDone \in BOOLEAN /\ troubles \in 0..Troubles
    /\ phase \in {"list", "delete", "poll", "returned"}
    /\ gvr \in 1..Len(gvrs) /\ list \subseteq Jobs /\ left \subseteq Jobs
    /\ outcome \in {"none", "ok", "failed"}

(* nil means that every job that was there when the task began, of either  *)
(* kind, has really gone at some time, and not only been asked to go.      *)
AllGone == outcome = "ok" => left = {}

(* delete_all_jobs.go:40, "czeka, az w klastrze nie zostanie zaden z tych  *)
(* zasobow": when it returns nil there is no job in the cluster.  It does  *)
(* not hold of jobs that others create meanwhile.                          *)
NoneLeft == [][outcome' = "ok" /\ outcome # "ok" => \A j \in Jobs : job'[j] = "none"]_vars
=============================================================================
