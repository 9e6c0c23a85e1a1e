---------------------------- MODULE JobExporter ----------------------------
(***************************************************************************)
(* The unified job exporter (unified-job-exporter/exporter.py): a loop of  *)
(* cycles.  A cycle lists the batch Jobs and the Volcano jobs, processes   *)
(* each listed job, works out whether topology constraints are met, then   *)
(* sets the per-queue counts and removes the series and the memory of the  *)
(* jobs that this cycle did not process.  What it must remember between    *)
(* cycles (which uid was counted, which labels a series has, what verdict  *)
(* was reached) lives in module globals that have to be kept in step.      *)
(*                                                                         *)
(* The cluster runs on between any two calls to the API server, and calls  *)
(* fail; most failures are logged and read as "nothing there".  All jobs   *)
(* are in one namespace.  Times are abstracted to known or not known.      *)
(***************************************************************************)
EXTENDS Integers, Sequences, FiniteSetsExt

CONSTANTS
  K8sJobs, VolcanoJobs,   \* uids, by kind
  PodsOf,                 \* the pods of each job
  Wish,                   \* the topology a job asks for: the annotations
                          \* [required, preferred] of a batch Job, [mode, tier]
                          \* of a Volcano job; "" and 0 if not given
  Queues, Nodes,
  DomainAt,               \* the topology labels of each node by level; "": none
  LivelySets,             \* bound: the jobs followed through their life; the
                          \* others are there from the start and only deleted
  Disturbances,           \* bound: failed calls, moves to another queue, pods
                          \* that end before their job and resumptions, together
  RemoveRaises            \* whether Gauge.remove of an absent series raises

Uids == K8sJobs \union VolcanoJobs
Pods == UNION {PodsOf[u] : u \in Uids}
Levels == {"hostname", "block", "spine", "datacenter"}
VolcanoTierMap == <<"hostname", "block", "spine", "datacenter">>

ASSUME UidAssumption ==
  /\ K8sJobs \intersect VolcanoJobs = {} /\ IsFiniteSet(Uids)
  /\ \A u \in Uids : IsFiniteSet(PodsOf[u])

\* The lowest level is the node itself: no two nodes have the same hostname.
ASSUME TopologyAssumption ==
  /\ Nodes \intersect {"none", "pending"} = {}
  /\ \A n \in Nodes : DOMAIN DomainAt[n] = Levels
  /\ \A m, n \in Nodes : DomainAt[m]["hostname"] = DomainAt[n]["hostname"] =>
       m = n \/ DomainAt[n]["hostname"] = ""
  /\ \A u \in K8sJobs : {Wish[u].required, Wish[u].preferred} \subseteq Levels \union {""}
  /\ \A u \in VolcanoJobs : Wish[u].tier \in Nat
ASSUME BoundAssumption == Disturbances \in Nat

VARIABLES
  lively,     \* the jobs followed through their life
  job,        \* cluster: life, queue, mark and final status of each job
  pods,       \* cluster: where each pod is
  ran,        \* cluster: some pod is Running or Succeeded
  pc,         \* where the cycle is
  snap,       \* the listed jobs, as listed: uid -> what the object says
  todo,       \* listed jobs that are still to be handled by the current loop
  startCache, \* job_start_times_cache
  obsWait,    \* observed_wait_times_uids
  obsDone,    \* observed_executiontotal_durations_uids
  labels,     \* current_job_labels_for_uid, as <<uid, queue, status>>
  prevLabels, \* previous_job_labels_for_uid
  prevQueues, \* previous_active_queue_namespaces
  tas,        \* job_tas_preference_status, job_tas_requirement_status
  series,     \* the gauges' series: <<metric, uid, queue, status>>
  dist,       \* what the series of the greatest topology distance say
  conc,       \* unified_job_concurrency_count: [queue, phase, count]
  hist,       \* the histograms: how often each uid was observed in each
  disturbed,  \* how many disturbances there were
  relabelled, \* jobs whose queue label changed
  resumed,    \* Volcano jobs that were resumed after they had been aborted
  missed,     \* jobs that a failed list hid in a cycle
  whole       \* the verdict was on all the pods that the job still has

cluster == <<lively, job, pods, ran, relabelled, resumed>>
memory == <<startCache, obsWait, obsDone>>
previous == <<prevLabels, prevQueues>>
metrics == <<series, dist, conc, hist>>
vars == <<cluster, pc, snap, todo, memory, labels, previous, tas, metrics,
          disturbed, missed, whole>>

Cap == 2   \* bound: an observation count is not followed beyond this
\* The keys of JOB_STATUS_MAP.  Restarting is the phase of a Volcano job that is
\* not among them; it also stands for Completing, which the code treats alike.
StatusMap == {"Pending", "Running", "Succeeded", "Failed", "Completed", "Terminating",
              "Terminated", "Aborting", "Aborted", "Unknown"}
Phases == StatusMap \union {"Restarting"}
Terminal == {"Succeeded", "Failed", "Completed", "Aborted", "Terminated"}
BaseMetrics == {"created", "start", "phase", "tas", "topo"}
CompletionMetrics == {"completion", "execution", "total"}
Histograms == {"wait", "execution", "total"}
NotCalculated == 2
Unsettled == -1

\* final_status, the status label; the series of BaseMetrics have none.
Statuses == {"none", "Succeeded", "Failed"}
Snapshots == [queue : Queues, phase : Phases, final : Statuses]
Dying == {"aborting", "terminating"}

TypeOK ==
  /\ lively \in LivelySets
  /\ job \in [Uids -> [life : {"unborn", "present", "deleted"}, queue : Queues,
                       mark : {"none", "succeeded", "failed", "restarting"} \union Dying,
                       final : {"none", "Succeeded", "Failed", "Aborted", "Terminated"}]]
  /\ pods \in [Uids -> [Pods -> {"none", "pending"} \union Nodes]]
  /\ ran \in [Uids -> BOOLEAN]
  /\ pc \in {"sleep", "volcano", "process", "tas"}
  /\ DOMAIN snap \subseteq Uids /\ \A u \in DOMAIN snap : snap[u] \in Snapshots
  /\ todo \subseteq DOMAIN snap
  /\ startCache \subseteq Uids /\ obsWait \subseteq Uids /\ obsDone \subseteq Uids
  /\ labels \subseteq Uids \X Queues \X Statuses
  /\ prevLabels \subseteq Uids \X Queues \X Statuses
  /\ prevQueues \subseteq Queues
  /\ tas \in [Uids -> {Unsettled, 0, 1, NotCalculated}]
  /\ series \subseteq (BaseMetrics \union CompletionMetrics) \X Uids \X Queues \X Statuses
  /\ \A r \in conc : r.queue \in Queues /\ r.phase \in StatusMap /\ r.count \in 0 .. Cardinality(Uids)
  /\ hist \in [Histograms -> [Uids -> 0 .. Cap]]
  /\ disturbed \in 0 .. Disturbances
  /\ relabelled \subseteq Uids /\ resumed \subseteq VolcanoJobs /\ missed \subseteq Uids
  /\ dist \in [Uids -> {0, 2, 4, 6}] /\ whole \in [Uids -> BOOLEAN]

Init ==
  /\ lively \in LivelySets
  /\ \E q \in [Uids -> Queues] :
       job = [u \in Uids |-> [life |-> IF u \in lively THEN "unborn" ELSE "present", queue |-> q[u],
                              mark |-> "none", final |-> "none"]]
  /\ pods = [u \in Uids |-> [p \in Pods |-> "none"]]
  /\ ran = [u \in Uids |-> FALSE]
  /\ pc = "sleep" /\ snap = << >> /\ todo = {}
  /\ startCache = {} /\ obsWait = {} /\ obsDone = {}
  /\ labels = {} /\ prevLabels = {} /\ prevQueues = {}
  /\ tas = [u \in Uids |-> NotCalculated]
  /\ series = {} /\ conc = {}
  /\ hist = [h \in Histograms |-> [u \in Uids |-> 0]]
  /\ disturbed = 0 /\ relabelled = {} /\ resumed = {} /\ missed = {}
  /\ dist = [u \in Uids |-> 0] /\ whole = [u \in Uids |-> FALSE]

-----------------------------------------------------------------------------
(* The cluster.                                                            *)

exporter == <<pc, snap, todo, memory, labels, previous, tas, metrics, missed>>
Disturb == disturbed < Disturbances /\ disturbed' = disturbed + 1
Alive(u) == /\ u \in lively /\ job[u].life = "present" /\ job[u].final = "none"
            /\ job[u].mark \notin Dying
Placed(u) == {p \in PodsOf[u] : pods[u][p] \in Nodes}
NoPods == [p \in Pods |-> "none"]

Submit(u) ==
  /\ job[u].life = "unborn"
  /\ job' = [job EXCEPT ![u].life = "present"]
  /\ UNCHANGED <<lively, pods, ran, relabelled, resumed, exporter, disturbed, whole>>

\* A pod is created, and later bound to a node, where it runs at once.
PodStep(u, p) ==
  /\ Alive(u) /\ p \in PodsOf[u]
  /\ \E to \in {"pending"} \union Nodes :
       /\ (to = "pending") <=> (pods[u][p] = "none")
       /\ pods[u][p] \notin Nodes
       /\ pods' = [pods EXCEPT ![u][p] = to]
       /\ ran' = [ran EXCEPT ![u] = @ \/ to \in Nodes]
  /\ UNCHANGED <<lively, job, relabelled, resumed, exporter, disturbed, whole>>

\* One pod of a batch Job ends, the Job does not; a Volcano job restarts.
PodEnds(u) ==
  /\ Alive(u) /\ ran[u] /\ job[u].mark = "none" /\ Disturb
  /\ \/ /\ u \in K8sJobs
        /\ \E m \in {"succeeded", "failed"} : job' = [job EXCEPT ![u].mark = m]
        /\ UNCHANGED <<pods, ran>>
     \/ /\ u \in VolcanoJobs
        /\ job' = [job EXCEPT ![u].mark = "restarting"]
        /\ pods' = [pods EXCEPT ![u] = NoPods]
        /\ ran' = [ran EXCEPT ![u] = FALSE]
  /\ whole' = [whole EXCEPT ![u] = @ /\ u \in K8sJobs]
  /\ UNCHANGED <<lively, relabelled, resumed, exporter>>

Finish(u) ==
  /\ Alive(u) /\ Placed(u) # {}
  /\ \E f \in {"Succeeded", "Failed"} :
       /\ f = "Succeeded" => ran[u]
       /\ job' = [job EXCEPT ![u].final = f,
            ![u].mark = IF @ # "none" THEN @ ELSE IF f = "Failed" THEN "failed" ELSE "succeeded"]
       /\ \E r \in {ran[u]} \union {x \in {FALSE} : f = "Failed"} : ran' = [ran EXCEPT ![u] = r]
  /\ UNCHANGED <<lively, pods, relabelled, resumed, exporter, disturbed, whole>>

\* A Volcano job is aborted or terminated; the phase says so at once, and is
\* final when the pods are gone.
Kill(u) ==
  /\ u \in VolcanoJobs /\ Alive(u)
  /\ \E m \in Dying : job' = [job EXCEPT ![u].mark = m]
  /\ UNCHANGED <<lively, pods, ran, relabelled, resumed, exporter, disturbed, whole>>

Killed(u) ==
  /\ job[u].life = "present" /\ job[u].mark \in Dying /\ job[u].final = "none"
  /\ job' = [job EXCEPT ![u].final = IF job[u].mark = "aborting" THEN "Aborted" ELSE "Terminated"]
  /\ pods' = [pods EXCEPT ![u] = NoPods]
  /\ ran' = [ran EXCEPT ![u] = FALSE]
  /\ UNCHANGED <<lively, relabelled, resumed, exporter, disturbed, whole>>

\* Volcano's ResumeJob: the one end that is not final.
Resume(u) ==
  /\ job[u].life = "present" /\ job[u].final = "Aborted" /\ Disturb
  /\ job' = [job EXCEPT ![u].final = "none", ![u].mark = "restarting"]
  /\ resumed' = resumed \union {u}
  /\ UNCHANGED <<lively, pods, ran, relabelled, exporter, whole>>

PodsGone(u) ==
  /\ job[u].life = "present" /\ job[u].final # "none" /\ pods[u] # NoPods
  /\ pods' = [pods EXCEPT ![u] = NoPods]
  /\ ran' = [ran EXCEPT ![u] = FALSE]
  /\ UNCHANGED <<lively, job, relabelled, resumed, exporter, disturbed, whole>>

Relabel(u) ==
  /\ Alive(u) /\ pods[u] = NoPods /\ Disturb
  /\ \E q \in Queues \ {job[u].queue} : job' = [job EXCEPT ![u].queue = q]
  /\ relabelled' = relabelled \union {u}
  /\ UNCHANGED <<lively, pods, ran, resumed, exporter, whole>>

Delete(u) ==
  /\ job[u].life = "present"
  /\ job' = [job EXCEPT ![u].life = "deleted"]
  /\ pods' = [pods EXCEPT ![u] = NoPods]
  /\ ran' = [ran EXCEPT ![u] = FALSE]
  /\ UNCHANGED <<lively, relabelled, resumed, exporter, disturbed, whole>>

\* What a job's object says when it is listed.  The phase of a batch Job is
\* judged from its pod counts; only its final status is from its conditions.
\* A Volcano job has no phase until its controller has seen it: no pod yet.
PhaseOf(u) ==
  LET m == job[u].mark
      active == \E p \in PodsOf[u] : pods[u][p] # "none" IN
  IF u \in K8sJobs
  THEN IF m = "succeeded" THEN "Succeeded"
       ELSE IF m = "failed" THEN "Failed"
       ELSE IF active THEN "Running" ELSE "Pending"
  ELSE CASE job[u].final = "Succeeded" -> "Completed"
         [] job[u].final \in {"Failed", "Aborted", "Terminated"} -> job[u].final
         [] job[u].final = "none" /\ m = "aborting" -> "Aborting"
         [] job[u].final = "none" /\ m = "terminating" -> "Terminating"
         [] job[u].final = "none" /\ m \notin Dying ->
              IF ran[u] THEN "Running" ELSE IF m = "restarting" THEN "Restarting"
              ELSE IF active THEN "Pending" ELSE "Unknown"

Listed(kind) == {u \in kind : job[u].life = "present"}

\* The conditions of a batch Job's object.
Conditions(u) ==
  IF job[u].final = "none" THEN {}
  ELSE { [type |-> IF job[u].final = "Failed" THEN "FailureTarget" ELSE "SuccessCriteriaMet",
          status |-> "True", time |-> 1],
         [type |-> IF job[u].final = "Failed" THEN "Failed" ELSE "Complete",
          status |-> "True", time |-> 2] }

\* get_k8s_job_final_status: the newest condition that is true and final.
FinalStatus(conditions) ==
  LET ends == {c \in conditions : c.status = "True" /\ c.type \in {"Complete", "Failed"}} IN
  IF ends = {} THEN "none"
  ELSE IF (CHOOSE c \in ends : \A d \in ends : d.time <= c.time).type = "Complete"
       THEN "Succeeded" ELSE "Failed"

\* process_job: the phase decides on the final status of a Volcano job.
Object(u) ==
  [queue |-> job[u].queue, phase |-> PhaseOf(u),
   final |-> IF u \in K8sJobs THEN FinalStatus(Conditions(u))
             ELSE CASE PhaseOf(u) = "Completed" -> "Succeeded"
                    [] PhaseOf(u) \in {"Failed", "Aborted", "Terminated"} -> "Failed"
                    [] OTHER -> "none"]

-----------------------------------------------------------------------------
(* collect_metrics: the two lists.  An error is logged; the cycle goes on  *)
(* with what it has, as if the other jobs did not exist.                   *)

List(kind, from, to) ==
  /\ pc = from /\ pc' = to
  /\ LET old == IF from = "sleep" THEN << >> ELSE snap IN
     \/ /\ snap' = [u \in DOMAIN old \union Listed(kind) |->
                      IF u \in Listed(kind) THEN Object(u) ELSE old[u]]
        /\ UNCHANGED <<disturbed, missed>>
     \/ /\ Disturb
        /\ snap' = old
        /\ missed' = missed \union Listed(kind)
  /\ todo' = DOMAIN snap'
  /\ labels' = IF from = "sleep" THEN {} ELSE labels
  /\ UNCHANGED <<cluster, memory, previous, tas, metrics, whole>>

\* The loops over the jobs take the batch Jobs first.
Turn(u) == u \in todo /\ (u \in VolcanoJobs => todo \subseteq VolcanoJobs)

ListJobs == List(K8sJobs, "sleep", "volcano")
ListVolcano == List(VolcanoJobs, "volcano", "process")

-----------------------------------------------------------------------------
(* process_job.                                                            *)

Observe(h, u, names) ==
  [n \in Histograms |-> IF n \in names /\ h[n][u] < Cap
                        THEN [h[n] EXCEPT ![u] = @ + 1] ELSE h[n]]

\* The start of a job is taken from the cache, or from the job's pods.
StartOf(u, podsCall) == u \in startCache \/ (podsCall /\ ran[u])

If(condition, set) == IF condition THEN set ELSE {}

\* The hops between two nodes: up to the lowest level they share, and down.
Hops(a, b) ==
  LET Share(level) == DomainAt[a][level] # "" /\ DomainAt[a][level] = DomainAt[b][level] IN
  6 - 2 * (IF Share("block") THEN 2 ELSE IF Share("spine") THEN 1 ELSE 0)

\* The nodes of a job's pods; none while a pod is not bound.
NodesOf(u) ==
  IF \E p \in PodsOf[u] : pods[u][p] = "pending" THEN {} ELSE {pods[u][p] : p \in Placed(u)}

Distance(nodes) ==
  IF Cardinality(nodes) < 2 THEN 0
  ELSE Max(UNION {{Hops(a, b) : b \in nodes \ {a}} : a \in nodes})

\* What one call of process_job does to the metrics and to the memory, when
\* the start is known or not, and the topology distance is set from the given
\* nodes or, with an error, not at all.
Export(u, known, nodes, topo) ==
  LET q == snap[u].queue
      status == snap[u].final
      final == status # "none" IN
  /\ startCache' = startCache \union If(known, {u})
  /\ series' = series \union {<<"created", u, q, "none">>, <<"phase", u, q, "none">>}
       \union If(known, {<<"start", u, q, "none">>})
       \union If(final, {<<"completion", u, q, status>>, <<"total", u, q, status>>})
       \union If(final /\ known, {<<"execution", u, q, status>>})
       \union If(final /\ topo, {<<"topo", u, q, "none">>})
  /\ dist' = IF final /\ topo THEN [dist EXCEPT ![u] = Distance(nodes)] ELSE dist
  /\ hist' = Observe(hist, u,
       If(known /\ u \notin obsWait, {"wait"})
       \union If(final /\ u \notin obsDone, {"total"})
       \union If(final /\ u \notin obsDone /\ known, {"execution"}))
  /\ obsWait' = obsWait \union If(known, {u})
  /\ obsDone' = obsDone \union If(final, {u})
  /\ labels' = labels \union {<<u, q, "none">>, <<u, q, status>>}

\* Three calls may fail: for the pods, when the start is not cached; for the
\* pods again, when the job has ended, which gives a distance of zero; for the
\* nodes, when there are several, which leaves the distance as it was.
Process(u) ==
  /\ pc = "process" /\ Turn(u)
  /\ \E fails \in {"nothing", "start", "pods", "nodes"} :
       LET nodes == IF fails = "pods" THEN {} ELSE NodesOf(u) IN
       /\ disturbed' = disturbed + Cardinality(If(fails # "nothing", {fails}))
       /\ disturbed' <= Disturbances
       /\ fails = "nodes" => Cardinality(nodes) >= 2
       /\ Export(u, StartOf(u, fails # "start"), nodes, fails # "nodes")
  /\ todo' = todo \ {u}
  /\ UNCHANGED <<cluster, pc, snap, previous, tas, conc, missed, whole>>

EndProcess ==
  /\ pc = "process" /\ todo = {}
  /\ pc' = "tas"
  /\ todo' = DOMAIN snap
  /\ UNCHANGED <<cluster, snap, memory, labels, previous, tas, metrics,
                 disturbed, missed, whole>>

-----------------------------------------------------------------------------
(* The topology constraints.                                               *)

\* A Volcano job names a mode and a tier, a batch Job a level.
ConstraintType(u) ==
  IF u \in K8sJobs
  THEN IF Wish[u].required # "" THEN "required"
       ELSE IF Wish[u].preferred # "" THEN "preferred" ELSE "none"
  ELSE CASE Wish[u].mode = "hard" -> "required"
         [] Wish[u].mode = "soft" -> "preferred"
         [] Wish[u].mode = "" /\ Wish[u].tier = 0 -> "none"
         [] OTHER -> "unknown_mode"

ConstraintLevel(u) ==
  IF u \in K8sJobs
  THEN IF Wish[u].required # "" THEN Wish[u].required ELSE Wish[u].preferred
  ELSE IF Wish[u].tier \in DOMAIN VolcanoTierMap THEN VolcanoTierMap[Wish[u].tier] ELSE "unmapped"

HasConstraint(u) == ConstraintType(u) \in {"required", "preferred"}

\* The label of a node at the level of a job's constraint.
DomainFor(u, n) ==
  IF ConstraintLevel(u) \in Levels THEN DomainAt[n][ConstraintLevel(u)] ELSE ""

\* Mutant: one domain that has a pod is enough.
MutAnyDomain(u) == IF NodesOf(u) = {} THEN {Unsettled} ELSE {1}

\* get_pod_placement_info, then check_preference_met: no verdict while a pod
\* is not bound or none exists; a node without the label counts as a
\* constraint that is not met, and so does one whose label cannot be read.
Verdicts(u) ==
  LET domains == {DomainFor(u, n) : n \in NodesOf(u)} IN
  IF domains = {} THEN {Unsettled}
  ELSE {IF "" \notin domains /\ Cardinality(domains) = 1 THEN 1 ELSE 0}
Misread(u) == IF Verdicts(u) = {Unsettled} THEN {Unsettled} ELSE {Unsettled, 0}

\* Mutant: recalculated in every cycle, whatever was found before.
MutAlwaysRecalculates(u) == snap[u].phase \notin Terminal

ShouldRecalculate(u) ==
  snap[u].phase \notin Terminal /\ tas[u] \in {NotCalculated, Unsettled}

Tas(u) ==
  /\ pc = "tas" /\ Turn(u)
  /\ IF HasConstraint(u) /\ ShouldRecalculate(u)
     THEN \/ \E v \in Verdicts(u) : tas' = [tas EXCEPT ![u] = v] /\ UNCHANGED disturbed
          \/ /\ Disturb
             /\ \E v \in Misread(u) : tas' = [tas EXCEPT ![u] = v]
     ELSE UNCHANGED <<tas, disturbed>>
  /\ series' = IF HasConstraint(u) /\ tas'[u] # NotCalculated
               THEN series \union {<<"tas", u, snap[u].queue, "none">>} ELSE series
  /\ whole' = IF tas' = tas THEN whole
              ELSE [whole EXCEPT ![u] = Placed(u) = PodsOf[u]]
  /\ todo' = todo \ {u}
  /\ UNCHANGED <<cluster, pc, snap, memory, labels, previous, dist, conc, hist, missed>>

-----------------------------------------------------------------------------
(* The end of the cycle: no call to the API server, one step.              *)

ActiveQueues == {snap[u].queue : u \in DOMAIN snap}
NumberIn(q, ph) == Cardinality({u \in DOMAIN snap : snap[u].queue = q /\ snap[u].phase = ph})

\* Mutant: a queue that has lost its last job keeps its counts.
MutKeepsIdleQueues ==
  {r \in conc : r.queue \notin ActiveQueues}
  \union {[queue |-> q, phase |-> ph, count |-> NumberIn(q, ph)] : q \in ActiveQueues, ph \in StatusMap}

\* Mutant: the phases are those of the jobs, not those of the map.
MutPhasesSeen ==
  {r \in conc : r.queue \notin ActiveQueues \union prevQueues}
  \union {[queue |-> snap[u].queue, phase |-> snap[u].phase,
           count |-> NumberIn(snap[u].queue, snap[u].phase)] : u \in DOMAIN snap}

\* Every phase of the map for every queue with jobs; the queues that had
\* jobs in the cycle before and have none now are removed.
Concurrency ==
  {r \in conc : r.queue \notin ActiveQueues \union prevQueues}
  \union {[queue |-> q, phase |-> ph, count |-> NumberIn(q, ph)] : q \in ActiveQueues, ph \in StatusMap}

\* Mutant: the topology distances are not among the removed series.
MutForgetsTopo(u, q) == {<<m, u, q, "none">> : m \in BaseMetrics \ {"topo"}}

\* The series are removed one after the other; if an absent one raises, those
\* behind it stay.  The TAS series have a handler of their own.
BaseRemoved(u, q) ==
  IF RemoveRaises /\ <<"start", u, q, "none">> \notin series
  THEN {<<"created", u, q, "none">>}
  ELSE {<<m, u, q, "none">> : m \in BaseMetrics}
CompletionRemoved(u, q, status) ==
  IF RemoveRaises /\ <<"execution", u, q, status>> \notin series
  THEN {<<"completion", u, q, status>>}
  ELSE {<<m, u, q, status>> : m \in CompletionMetrics}

\* The series of the jobs that this cycle did not process, under the labels
\* they had in the cycle before.
Removed ==
  UNION {IF l[3] = "none" THEN BaseRemoved(l[1], l[2]) ELSE CompletionRemoved(l[1], l[2], l[3])
         : l \in {k \in prevLabels : k[1] \notin DOMAIN snap}}

Forgotten == {u \in Uids : u \notin DOMAIN snap /\ \E l \in prevLabels : l[1] = u}

\* Mutant: the memory is cleared at the end of each cycle.
MutKeepsNothing(s) == {}

\* Mutant: the difference is taken the wrong way round.
MutKeepsTheGone(s) == s \ DOMAIN snap

\* What of the memory is kept: the uids that this cycle processed.
Kept(s) == s \intersect DOMAIN snap

Sweep ==
  /\ pc = "tas" /\ todo = {} /\ pc' = "sleep"
  /\ conc' = Concurrency
  /\ series' = series \ Removed
  /\ tas' = [u \in Uids |-> IF u \in Forgotten THEN NotCalculated ELSE tas[u]]
  /\ dist' = [u \in Uids |-> IF u \in Forgotten THEN 0 ELSE dist[u]]
  /\ hist' = IF DOMAIN snap = {} /\ prevLabels # {}
             THEN [h \in Histograms |-> [u \in Uids |-> 0]] ELSE hist
  /\ prevLabels' = labels
  /\ prevQueues' = ActiveQueues
  /\ startCache' = Kept(startCache)
  /\ obsWait' = Kept(obsWait)
  /\ obsDone' = Kept(obsDone)
  /\ UNCHANGED <<cluster, snap, todo, labels, disturbed, missed, whole>>

-----------------------------------------------------------------------------
ClusterStep(u) ==
  \/ Submit(u) \/ PodEnds(u) \/ Finish(u)
  \/ PodsGone(u) \/ Relabel(u) \/ Delete(u)
  \/ Kill(u) \/ Killed(u) \/ Resume(u)
  \/ \E p \in Pods : PodStep(u, p)

Cycle == ListJobs \/ ListVolcano \/ EndProcess \/ Sweep
         \/ \E u \in Uids : Process(u) \/ Tas(u)

Next == Cycle \/ \E u \in Uids : ClusterStep(u)

\* The main loop never ends; nothing obliges the cluster to do anything.
Spec == Init /\ [][Next]_vars

-----------------------------------------------------------------------------
(* Properties.                                                             *)

Sleeping == pc = "sleep"
Processed == DOMAIN snap

\* "tylko raz": a histogram gets at most one observation for a job.
ObservedOnce == \A h \in Histograms, u \in Uids : hist[h][u] <= 1

\* ObservedOnce for the jobs that no failed list ever hid; and after a cycle
\* the sets of observed uids say exactly what the histograms hold.
CountedOnce ==
  \A u \in Uids \ missed :
    /\ \A h \in Histograms : hist[h][u] <= 1
    /\ Sleeping /\ u \in Processed =>
         /\ u \in obsWait <=> hist["wait"][u] = 1
         /\ u \in obsDone <=> hist["total"][u] = 1
         /\ hist["execution"][u] <= hist["total"][u]

\* The series that no removal reaches, because only the labels of the cycle
\* before are removed and the removal may stop at an absent series: those of
\* a job whose queue label changed, of the end of a job that was resumed, and
\* those that come after one that not every job has.
OutOfReach(s) ==
  \/ s[2] \in relabelled
  \/ s[2] \in resumed /\ s[4] = "Failed"
  \/ RemoveRaises /\ s[1] \in {"phase", "tas", "topo", "total"}

\* After a cycle every series is of a job that the cycle processed, or out of
\* the removal's reach.
NoStaleSeries ==
  Sleeping => \A s \in series : s[2] \in Processed \/ OutOfReach(s)

\* The same without the exceptions, which does not hold: the completion series
\* of an aborted job outlive the job when it is resumed before it is deleted.
NoSeriesOfTheGone ==
  Sleeping => \A s \in series : s[2] \in Processed

\* After a cycle the queues with jobs, and only they, have counts, and each
\* count is the number of listed jobs of that queue in that phase.
ConcurrencyExact ==
  Sleeping =>
    /\ {r.queue : r \in conc} = ActiveQueues
    /\ \A r \in conc : r.count = NumberIn(r.queue, r.phase)

\* What a reader of the counts expects, which does not hold: a job in a phase
\* that the map does not have is in no count.
EveryJobCounted ==
  Sleeping => \A u \in Processed : \E r \in conc : r.queue = snap[u].queue /\ r.phase = snap[u].phase

\* A start that was exported is not lost when the pods are gone: the job's
\* execution time can be told when it completes.
StartRemembered ==
  Sleeping => \A u \in Processed \ missed :
    (\E s \in series : s[1] = "start" /\ s[2] = u) => u \in startCache

\* "stan definitywny": a verdict on a topology constraint is not revised as
\* long as the job is processed.
VerdictStays ==
  [][\A u \in Uids : tas[u] \in {0, 1} => tas'[u] = tas[u] \/ u \notin Processed]_vars

\* Two computations of different cycles, from different calls, agree: where a
\* constraint was found to be met on all of a job's pods, the distance that is
\* published for them when the job has ended is within the level asked for.
\* A job that was resumed keeps the verdict on the pods it had before.
MetMeansClose ==
  LET within == [hostname |-> 0, block |-> 2, spine |-> 4, datacenter |-> 6] IN
  Sleeping => \A u \in Processed \ resumed :
    tas[u] = 1 /\ whole[u] => dist[u] <= within[ConstraintLevel(u)]
=============================================================================
