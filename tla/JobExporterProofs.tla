------------------------- MODULE JobExporterProofs -------------------------
(***************************************************************************)
(* Theorems about JobExporter for every set of jobs, pods, nodes and every *)
(* bound: what the exporter remembers between its cycles agrees with the   *)
(* series it has set, whatever the cluster does between two calls and      *)
(* whatever calls fail.                                                    *)
(***************************************************************************)
EXTENDS JobExporter, FiniteSetTheorems, TLAPS

(* What the status label says of a job's end.                              *)
StatusOf(u) ==
  IF job[u].final \in {"none", "Succeeded"} THEN job[u].final ELSE "Failed"

(* What a listed object says of a job's end stays true, unless the job is  *)
(* resumed, and a job that has ended is listed in a terminal phase.        *)
LifeInv ==
  /\ \A u \in DOMAIN snap : job[u].life # "unborn"
  /\ \A u \in K8sJobs : /\ job[u].mark \in {"none", "succeeded", "failed"}
                        /\ job[u].final \in {"none", "Succeeded", "Failed"}
                        /\ job[u].final # "none" => job[u].mark # "none"
  /\ \A u \in DOMAIN snap : snap[u].final # "none" =>
       /\ snap[u].phase \in Terminal
       /\ snap[u].final = StatusOf(u) \/ (snap[u].final = "Failed" /\ u \in resumed)

BaseInv == TypeOK /\ LifeInv

(* The kinds of job that the current cycle has listed.                     *)
Scanned(u) == pc \in {"process", "tas"} \/ (pc = "volcano" /\ u \in K8sJobs)

(* A deleted job that is in no list: no later cycle processes it.          *)
Over(u) == job[u].life = "deleted" /\ u \notin DOMAIN snap

HasStart(u) == \E s \in series : s[1] = "start" /\ s[2] = u

(* A histogram has one observation of the uids in its set, and of others   *)
(* only when they are over.                                                *)
Once(h, seen, u) ==
  /\ hist[h][u] <= 1
  /\ u \in seen => hist[h][u] = 1
  /\ hist[h][u] = 1 => u \in seen \/ Over(u)

Remembered == startCache \union obsWait \union obsDone

MemoryOf(u) ==
  /\ Once("wait", obsWait, u) /\ Once("total", obsDone, u)
  /\ hist["execution"][u] <= hist["total"][u]
  /\ HasStart(u) => u \in startCache \/ Over(u)
  /\ u \in Remembered => job[u].life # "unborn" /\ (Scanned(u) => u \in DOMAIN snap \/ Over(u))

MemoryInv == BaseInv /\ \A u \in Uids \ missed : MemoryOf(u)

(* The labels under which a series is removed.                             *)
LabelOf(s) == <<s[2], s[3], s[4]>>

(* The jobs that the loop of process_job has dealt with in this cycle.     *)
IsProcessed(u) == pc = "tas" \/ (pc = "process" /\ u \notin todo)

LabelsInv ==
  /\ \A l \in labels : l[1] \in DOMAIN snap
  /\ pc = "sleep" => prevLabels = labels
  /\ \A u \in DOMAIN snap : IsProcessed(u) =>
       {<<u, snap[u].queue, "none">>, <<u, snap[u].queue, snap[u].final>>} \subseteq labels
  /\ \A u \in DOMAIN snap : u \notin relabelled => snap[u].queue = job[u].queue

(* A series that tells an end: the end that the job has, if it was never   *)
(* resumed, and that it is listed with.                                    *)
TellsEnd(s) ==
  s[4] # "none" /\ ~(s[2] \in resumed /\ s[4] = "Failed") =>
    s[4] = StatusOf(s[2]) /\ (s[2] \in DOMAIN snap => snap[s[2]].final = s[4])

(* A series in the removal's reach belongs to a job that this cycle has    *)
(* listed, or it is known under its labels since the cycle before.         *)
SeriesInv ==
  \A s \in series :
    /\ s[4] = "none" <=> s[1] \in BaseMetrics
    /\ TellsEnd(s)
    /\ ~OutOfReach(s) =>
         /\ s[3] = job[s[2]].queue
         /\ LabelOf(s) \in prevLabels \/ (pc \in {"process", "tas"} /\ s[2] \in DOMAIN snap)

SweepInv == BaseInv /\ LabelsInv /\ SeriesInv

QueueInv ==
  /\ BaseInv
  /\ \A r \in conc : r.queue \in prevQueues
  /\ ConcurrencyExact

(* The bound that the level of a constraint puts on the distance.          *)
Within(u) == [hostname |-> 0, block |-> 2, spine |-> 4, datacenter |-> 6][ConstraintLevel(u)]

SameDomain(u) ==
  \A p, r \in Placed(u) : /\ DomainFor(u, pods[u][p]) = DomainFor(u, pods[u][r])
                          /\ DomainFor(u, pods[u][p]) # ""

(* Once all its pods were found in one domain, no pod of the job is placed *)
(* any more, and its distance is not above what the domain allows.         *)
MetOn(u) ==
  /\ ConstraintLevel(u) \in Levels
  /\ SameDomain(u)
  /\ Placed(u) = PodsOf[u] \/ job[u].life = "deleted" \/ job[u].final # "none"
  /\ dist[u] <= Within(u)

MetVerdicts == \A u \in Uids \ resumed : tas[u] = 1 /\ whole[u] => MetOn(u)

(* A distance is published when the job has ended.                         *)
EndedDistances ==
  \A u \in Uids \ resumed : dist[u] # 0 =>
    job[u].final # "none" /\ (u \in DOMAIN snap => snap[u].phase \in Terminal)

VerdictInv == BaseInv /\ MetVerdicts /\ EndedDistances

-----------------------------------------------------------------------------
(* The operators of the model.                                             *)

LEMMA Strings ==
  /\ Levels = {"hostname", "block", "spine", "datacenter"}
  /\ \A u \in Uids : u \in K8sJobs \/ u \in VolcanoJobs
  /\ \A u \in K8sJobs : u \in Uids /\ u \notin VolcanoJobs
  /\ \A u \in VolcanoJobs : u \in Uids /\ u \notin K8sJobs
BY UidAssumption DEF Levels, Uids

LEMMA PhaseTyped ==
  ASSUME BaseInv, NEW u \in Uids
  PROVE  /\ PhaseOf(u) \in Phases
         /\ u \in K8sJobs /\ job[u].final # "none" => PhaseOf(u) \in Terminal
<1>1. job[u].final \in {"none", "Succeeded", "Failed", "Aborted", "Terminated"}
      /\ job[u].mark \in {"none", "succeeded", "failed", "restarting", "aborting", "terminating"}
  BY DEF BaseInv, TypeOK, Dying
<1>2. CASE u \in K8sJobs
  BY <1>2 DEF BaseInv, LifeInv, PhaseOf, Phases, StatusMap, Terminal
<1>3. CASE u \notin K8sJobs
  BY <1>1, <1>3 DEF PhaseOf, Phases, StatusMap, Dying
<1> QED BY <1>2, <1>3

LEMMA FinalStatusTyped ==
  ASSUME BaseInv, NEW u \in K8sJobs
  PROVE  FinalStatus(Conditions(u)) = StatusOf(u)
<1>1. job[u].final \in {"none", "Succeeded", "Failed"}
  BY DEF BaseInv, LifeInv
<1>2. CASE job[u].final = "none"
  <2>1. Conditions(u) = {}
    BY <1>2 DEF Conditions
  <2> QED BY <1>2, <2>1 DEF FinalStatus, StatusOf
<1>3. CASE job[u].final # "none"
  <2> DEFINE end == IF job[u].final = "Failed" THEN "Failed" ELSE "Complete"
             c == [type |-> end, status |-> "True", time |-> 2]
             ends == {d \in Conditions(u) : d.status = "True" /\ d.type \in {"Complete", "Failed"}}
  <2>1. ends = {c}
    <3>1. \A d \in Conditions(u) : d = c \/ d.type \in {"FailureTarget", "SuccessCriteriaMet"}
      BY <1>3 DEF Conditions
    <3>2. c \in Conditions(u) /\ c.status = "True" /\ c.type \in {"Complete", "Failed"}
      BY <1>3 DEF Conditions
    <3> QED BY <3>1, <3>2
  <2>2. (CHOOSE d \in ends : \A e \in ends : e.time <= d.time) = c
    <3>1. c.time <= c.time
      OBVIOUS
    <3> HIDE DEF c, ends
    <3> QED BY <2>1, <3>1
  <2>3. c.type = end
    OBVIOUS
  <2>4. ends # {}
    BY <2>1
  <2>5. FinalStatus(Conditions(u)) = IF end = "Complete" THEN "Succeeded" ELSE "Failed"
    BY <2>2, <2>3, <2>4 DEF FinalStatus
  <2> QED BY <1>1, <1>3, <2>5 DEF StatusOf
<1> QED BY <1>2, <1>3

(* An object that is listed tells the end of its job.                      *)
LEMMA ObjectTyped ==
  ASSUME BaseInv, NEW u \in Uids
  PROVE  /\ Object(u) \in Snapshots
         /\ Object(u).queue = job[u].queue
         /\ Object(u).final = StatusOf(u)
         /\ StatusOf(u) # "none" <=> job[u].final # "none"
         /\ Object(u).final # "none" => Object(u).phase \in Terminal
<1>1. /\ job[u].queue \in Queues
      /\ job[u].final \in {"none", "Succeeded", "Failed", "Aborted", "Terminated"}
      /\ job[u].mark \in {"none", "succeeded", "failed", "restarting", "aborting", "terminating"}
  BY DEF BaseInv, TypeOK, Dying
<1>2. /\ Object(u).queue = job[u].queue /\ Object(u).phase = PhaseOf(u)
      /\ Object(u) = [queue |-> job[u].queue, phase |-> PhaseOf(u), final |-> Object(u).final]
  BY DEF Object
<1>3. StatusOf(u) \in Statuses /\ (StatusOf(u) # "none" <=> job[u].final # "none")
  BY <1>1 DEF StatusOf, Statuses
<1>4. Object(u).final = StatusOf(u) /\ (StatusOf(u) # "none" => PhaseOf(u) \in Terminal)
  <2>1. CASE u \in K8sJobs
    <3>1. Object(u).final = FinalStatus(Conditions(u))
      BY <2>1 DEF Object
    <3> QED BY <1>3, <2>1, <3>1, FinalStatusTyped, PhaseTyped
  <2>2. CASE u \notin K8sJobs
    <3>1. /\ job[u].final = "Succeeded" => PhaseOf(u) = "Completed"
          /\ job[u].final \in {"Failed", "Aborted", "Terminated"} => PhaseOf(u) = job[u].final
          /\ job[u].final = "none" => PhaseOf(u) \notin {"Completed", "Failed", "Aborted", "Terminated"}
      BY <1>1, <2>2 DEF PhaseOf, Dying
    <3>2. Object(u).final = CASE PhaseOf(u) = "Completed" -> "Succeeded"
                              [] PhaseOf(u) \in {"Failed", "Aborted", "Terminated"} -> "Failed"
                              [] OTHER -> "none"
      BY <2>2 DEF Object
    <3>3. Object(u).final = StatusOf(u)
      BY <1>1, <3>1, <3>2 DEF StatusOf
    <3>4. StatusOf(u) # "none" => PhaseOf(u) \in Terminal
      BY <1>1, <1>3, <3>1 DEF Terminal
    <3> QED BY <3>3, <3>4
  <2> QED BY <2>1, <2>2
<1>5. Object(u) \in Snapshots
  BY <1>1, <1>2, <1>3, <1>4, PhaseTyped DEF Snapshots
<1> QED BY <1>2, <1>3, <1>4, <1>5

-----------------------------------------------------------------------------
(* The steps of the cluster.                                               *)

JobStates == [life : {"unborn", "present", "deleted"}, queue : Queues,
              mark : {"none", "succeeded", "failed", "restarting"} \union Dying,
              final : {"none", "Succeeded", "Failed", "Aborted", "Terminated"}]
PodStates == [Pods -> {"none", "pending"} \union Nodes]

LEMMA DisturbCounted ==
  ASSUME BaseInv, Disturb
  PROVE  disturbed' \in 0 .. Disturbances
<1>1. disturbed \in 0 .. Disturbances
  BY DEF BaseInv, TypeOK
<1> QED BY <1>1, BoundAssumption DEF Disturb

(* The final status of a batch Job comes with the end of one of its pods.  *)
BatchJob(r) ==
  /\ r.mark \in {"none", "succeeded", "failed"} /\ r.final \in {"none", "Succeeded", "Failed"}
  /\ r.final # "none" => r.mark # "none"

(* A life goes one way, an end is final unless the job is resumed, and a   *)
(* queue label only changes with the job being counted as relabelled.      *)
JobMoves(u) ==
  /\ job[u].life # "unborn" => job'[u].life # "unborn"
  /\ job[u].life = "deleted" => job'[u].life = "deleted"
  /\ job[u].final # "none" =>
       job'[u].final = job[u].final \/ (job[u].final = "Aborted" /\ u \in resumed')
  /\ job'[u].queue = job[u].queue \/ u \in relabelled'
  /\ u \in K8sJobs => BatchJob(job'[u])

LEMMA StatusMoves ==
  ASSUME NEW u, JobMoves(u)
  PROVE  \/ StatusOf(u)' = StatusOf(u) \/ StatusOf(u) = "none"
         \/ StatusOf(u) = "Failed" /\ u \in resumed'
BY DEF JobMoves, StatusOf

LEMMA ClusterJobs ==
  ASSUME BaseInv, NEW v \in Uids, ClusterStep(v)
  PROVE  job' \in [Uids -> JobStates] /\ \A u \in Uids : JobMoves(u)
<1>1. job \in [Uids -> JobStates] /\ v \in Uids
  BY DEF BaseInv, TypeOK, JobStates
<1>2. \A u \in K8sJobs : BatchJob(job[u])
  BY DEF BaseInv, LifeInv, BatchJob
<1>3. ASSUME job' = job
      PROVE  job' \in [Uids -> JobStates] /\ \A u \in Uids : JobMoves(u)
  BY <1>1, <1>2, <1>3 DEF JobMoves, JobStates
<1>4. ASSUME NEW r \in JobStates, job' = [job EXCEPT ![v] = r],
             job[v].life # "unborn" => r.life # "unborn",
             job[v].life = "deleted" => r.life = "deleted",
             job[v].final # "none" =>
               r.final = job[v].final \/ (job[v].final = "Aborted" /\ v \in resumed'),
             r.queue = job[v].queue \/ v \in relabelled',
             v \in K8sJobs => BatchJob(r)
      PROVE  job' \in [Uids -> JobStates] /\ \A u \in Uids : JobMoves(u)
  <2>1. job'[v] = r /\ \A u \in Uids : u # v => job'[u] = job[u]
    BY <1>1, <1>4
  <2>2. JobMoves(v)
    BY <1>4, <2>1 DEF JobMoves
  <2>3. \A u \in Uids : u # v => JobMoves(u)
    BY <1>2, <2>1 DEF JobMoves
  <2> QED BY <1>1, <1>4, <2>2, <2>3
<1>5. CASE Submit(v)
  <2>1. [job[v] EXCEPT !.life = "present"] \in JobStates
    BY <1>1 DEF JobStates
  <2> QED BY <1>1, <1>2, <1>4, <1>5, <2>1 DEF Submit, JobStates, BatchJob
<1>6. CASE PodEnds(v)
  <2>1. \A m \in {"succeeded", "failed", "restarting"} : [job[v] EXCEPT !.mark = m] \in JobStates
    BY <1>1 DEF JobStates
  <2>2. PICK m \in {"succeeded", "failed", "restarting"} :
          job' = [job EXCEPT ![v].mark = m] /\ (m = "restarting" => v \in VolcanoJobs)
    BY <1>6 DEF PodEnds
  <2> QED BY <1>1, <1>2, <1>4, <2>1, <2>2, Strings DEF JobStates, BatchJob
<1>7. CASE Finish(v)
  <2>1. PICK f \in {"Succeeded", "Failed"} :
          job' = [job EXCEPT ![v].final = f,
            ![v].mark = IF @ # "none" THEN @ ELSE IF f = "Failed" THEN "failed" ELSE "succeeded"]
    BY <1>7 DEF Finish
  <2> DEFINE m == IF job[v].mark # "none" THEN job[v].mark
                  ELSE IF f = "Failed" THEN "failed" ELSE "succeeded"
             r == [job[v] EXCEPT !.final = f, !.mark = m]
  <2>2. r \in JobStates /\ r.life = job[v].life /\ r.queue = job[v].queue /\ r.mark = m
    BY <1>1 DEF JobStates
  <2>3. job' = [job EXCEPT ![v] = r]
    BY <1>1, <2>1 DEF JobStates
  <2>4. job[v].final = "none" /\ (v \in K8sJobs => m \in {"succeeded", "failed"})
    BY <1>2, <1>7 DEF Finish, Alive, BatchJob
  <2>5. r.final = f
    BY <1>1 DEF JobStates
  <2>6. v \in K8sJobs => BatchJob(r)
    <3> HIDE DEF r, m
    <3> QED BY <2>1, <2>2, <2>4, <2>5 DEF BatchJob
  <2> HIDE DEF r, m
  <2> QED BY <1>4, <2>2, <2>3, <2>4, <2>6
<1>8. CASE Relabel(v)
  <2>1. PICK q \in Queues : job' = [job EXCEPT ![v].queue = q] /\ v \in relabelled'
    BY <1>8 DEF Relabel
  <2>2. [job[v] EXCEPT !.queue = q] \in JobStates
    BY <1>1 DEF JobStates
  <2> QED BY <1>1, <1>2, <1>4, <2>1, <2>2 DEF JobStates, BatchJob
<1>9. CASE Delete(v)
  <2>1. [job[v] EXCEPT !.life = "deleted"] \in JobStates
    BY <1>1 DEF JobStates
  <2> QED BY <1>1, <1>2, <1>4, <1>9, <2>1 DEF Delete, JobStates, BatchJob
<1>10. CASE PodsGone(v) \/ \E p \in Pods : PodStep(v, p)
  BY <1>3, <1>10 DEF PodsGone, PodStep
<1>11. CASE Kill(v)
  <2>1. PICK m \in Dying : job' = [job EXCEPT ![v].mark = m]
    BY <1>11 DEF Kill
  <2>2. [job[v] EXCEPT !.mark = m] \in JobStates /\ v \notin K8sJobs
    BY <1>1, <1>11, Strings DEF Kill, JobStates
  <2> QED BY <1>1, <1>4, <2>1, <2>2 DEF JobStates
<1>12. CASE Killed(v)
  <2>1. PICK f \in {"Aborted", "Terminated"} : job' = [job EXCEPT ![v].final = f]
    BY <1>12 DEF Killed
  <2>2. [job[v] EXCEPT !.final = f] \in JobStates
    BY <1>1 DEF JobStates
  <2>3. v \notin K8sJobs /\ job[v].final = "none"
    BY <1>2, <1>12 DEF Killed, Dying, BatchJob
  <2> QED BY <1>1, <1>4, <2>1, <2>2, <2>3 DEF JobStates
<1>13. CASE Resume(v)
  <2> DEFINE r == [job[v] EXCEPT !.final = "none", !.mark = "restarting"]
  <2>1. r \in JobStates /\ r.life = job[v].life /\ r.queue = job[v].queue
    BY <1>1 DEF JobStates
  <2>2. job' = [job EXCEPT ![v] = r]
    BY <1>1, <1>13 DEF Resume, JobStates
  <2>3. job[v].final = "Aborted" /\ v \in resumed' /\ v \notin K8sJobs
    BY <1>2, <1>13 DEF Resume, BatchJob
  <2> HIDE DEF r
  <2> QED BY <1>4, <2>1, <2>2, <2>3
<1> QED BY <1>5, <1>6, <1>7, <1>8, <1>9, <1>10, <1>11, <1>12, <1>13 DEF ClusterStep

LEMMA ClusterRest ==
  ASSUME BaseInv, NEW v \in Uids, ClusterStep(v)
  PROVE  /\ UNCHANGED <<exporter, lively>>
         /\ pods' \in [Uids -> PodStates] /\ ran' \in [Uids -> BOOLEAN]
         /\ whole' \in [Uids -> BOOLEAN] /\ \A u \in Uids : whole'[u] => whole[u]
         /\ relabelled \subseteq relabelled' /\ relabelled' \subseteq Uids
         /\ resumed \subseteq resumed' /\ resumed' \subseteq VolcanoJobs
         /\ disturbed' \in 0 .. Disturbances
<1>1. /\ pods \in [Uids -> PodStates] /\ ran \in [Uids -> BOOLEAN]
      /\ whole \in [Uids -> BOOLEAN] /\ relabelled \subseteq Uids
      /\ disturbed \in 0 .. Disturbances
      /\ NoPods \in PodStates
  BY DEF BaseInv, TypeOK, PodStates, NoPods
<1>2. UNCHANGED <<exporter, lively>>
  BY DEF ClusterStep, Submit, PodStep, PodEnds, Finish, PodsGone, Relabel, Delete, Kill, Killed, Resume
<1>3. disturbed' \in 0 .. Disturbances
  <2>1. disturbed' = disturbed \/ Disturb
    BY DEF ClusterStep, Submit, PodStep, PodEnds, Finish, PodsGone, Relabel, Delete, Kill, Killed, Resume
  <2> QED BY <1>1, <2>1, DisturbCounted
<1>4. relabelled \subseteq relabelled' /\ relabelled' \subseteq Uids
  BY <1>1 DEF ClusterStep, Submit, PodStep, PodEnds, Finish, PodsGone, Relabel, Delete, Kill, Killed, Resume
<1>8. resumed \subseteq resumed' /\ resumed' \subseteq VolcanoJobs
  <2>1. resumed \subseteq VolcanoJobs
    BY DEF BaseInv, TypeOK
  <2>2. CASE Resume(v)
    <3>1. v \in VolcanoJobs
      BY <2>2, Strings DEF Resume, BaseInv, LifeInv
    <3> QED BY <2>1, <2>2, <3>1 DEF Resume
  <2> QED BY <2>1, <2>2 DEF ClusterStep, Submit, PodStep, PodEnds, Finish, PodsGone, Relabel,
                             Delete, Kill, Killed
<1>5. whole' \in [Uids -> BOOLEAN] /\ \A u \in Uids : whole'[u] => whole[u]
  <2>1. CASE whole' = whole
    BY <1>1, <2>1
  <2>2. CASE PodEnds(v)
    <3>1. whole' = [whole EXCEPT ![v] = @ /\ v \in K8sJobs]
      BY <2>2 DEF PodEnds
    <3> QED BY <1>1, <3>1
  <2> QED BY <2>1, <2>2 DEF ClusterStep, Submit, PodStep, Finish, PodsGone, Relabel, Delete, Kill, Killed, Resume
<1>6. pods' \in [Uids -> PodStates]
  <2>1. CASE pods' = pods \/ pods' = [pods EXCEPT ![v] = NoPods]
    BY <1>1, <2>1
  <2>2. ASSUME NEW p \in Pods, PodStep(v, p) PROVE pods' \in [Uids -> PodStates]
    <3>1. PICK to \in {"none", "pending"} \union Nodes : pods' = [pods EXCEPT ![v][p] = to]
      BY <2>2 DEF PodStep
    <3>2. [pods[v] EXCEPT ![p] = to] \in PodStates
      BY <1>1 DEF PodStates
    <3>3. pods' = [pods EXCEPT ![v] = [pods[v] EXCEPT ![p] = to]]
      BY <1>1, <3>1
    <3> QED BY <1>1, <3>2, <3>3
  <2> QED BY <2>1, <2>2 DEF ClusterStep, Submit, PodEnds, Finish, PodsGone, Relabel, Delete, Kill, Killed, Resume
<1>7. ran' \in [Uids -> BOOLEAN]
  <2>1. CASE ran' = ran \/ \E r \in BOOLEAN : ran' = [ran EXCEPT ![v] = r]
    BY <1>1, <2>1
  <2>2. ASSUME NEW p \in Pods, PodStep(v, p) PROVE \E r \in BOOLEAN : ran' = [ran EXCEPT ![v] = r]
    BY <1>1, <2>2 DEF PodStep
  <2>3. ASSUME Finish(v) PROVE \E r \in BOOLEAN : ran' = [ran EXCEPT ![v] = r]
    BY <1>1, <2>3 DEF Finish
  <2> QED BY <2>1, <2>2, <2>3 DEF ClusterStep, Submit, PodEnds, PodsGone, Relabel, Delete, Kill, Killed, Resume
<1> QED BY <1>2, <1>3, <1>4, <1>5, <1>6, <1>7, <1>8

-----------------------------------------------------------------------------
(* The steps of a cycle.                                                   *)

LEMMA ListMoves ==
  ASSUME BaseInv, NEW kind \in SUBSET Uids, NEW from, NEW to, List(kind, from, to)
  PROVE  /\ UNCHANGED <<cluster, memory, previous, tas, metrics, whole>>
         /\ pc = from /\ pc' = to /\ todo' = DOMAIN snap'
         /\ labels' = IF from = "sleep" THEN {} ELSE labels
         /\ disturbed' \in 0 .. Disturbances
         /\ missed \subseteq missed' /\ missed' \subseteq Uids
         /\ DOMAIN snap' \subseteq Uids
         /\ \A u \in DOMAIN snap' :
              \/ job[u].life = "present" /\ snap'[u] = Object(u)
              \/ from # "sleep" /\ u \in DOMAIN snap /\ snap'[u] = snap[u]
         /\ \A u \in kind \ missed' : job[u].life = "present" => u \in DOMAIN snap'
         /\ \A u \in DOMAIN snap : from = "sleep" \/ u \in DOMAIN snap'
<1> DEFINE old == IF from = "sleep" THEN << >> ELSE snap
<1>1. /\ UNCHANGED <<cluster, memory, previous, tas, metrics, whole>>
      /\ pc = from /\ pc' = to /\ todo' = DOMAIN snap'
      /\ labels' = IF from = "sleep" THEN {} ELSE labels
  BY DEF List
<1>2. /\ \A u \in Listed(kind) : u \in Uids /\ u \in kind /\ job[u].life = "present"
      /\ \A u \in kind : job[u].life = "present" => u \in Listed(kind)
  BY DEF Listed
<1>3. /\ DOMAIN old \subseteq Uids
      /\ \A u \in DOMAIN old : from # "sleep" /\ u \in DOMAIN snap /\ old[u] = snap[u]
      /\ from # "sleep" => DOMAIN old = DOMAIN snap
  BY DEF BaseInv, TypeOK
<1>4. disturbed \in 0 .. Disturbances /\ missed \subseteq Uids
  BY DEF BaseInv, TypeOK
<1>5. CASE /\ snap' = [u \in DOMAIN old \union Listed(kind) |->
                         IF u \in Listed(kind) THEN Object(u) ELSE old[u]]
           /\ UNCHANGED <<disturbed, missed>>
  <2> HIDE DEF old
  <2>1. /\ DOMAIN snap' = DOMAIN old \union Listed(kind)
        /\ \A u \in DOMAIN snap' : snap'[u] = IF u \in Listed(kind) THEN Object(u) ELSE old[u]
    BY <1>5
  <2> QED BY <1>1, <1>2, <1>3, <1>4, <1>5, <2>1
<1>6. CASE Disturb /\ snap' = old /\ missed' = missed \union Listed(kind)
  <2> HIDE DEF old
  <2>1. disturbed' \in 0 .. Disturbances
    BY <1>6, DisturbCounted
  <2> QED BY <1>1, <1>2, <1>3, <1>4, <1>6, <2>1
<1> QED BY <1>5, <1>6 DEF List

LEMMA HopsTyped ==
  ASSUME NEW a, NEW b
  PROVE  /\ Hops(a, b) \in {2, 4, 6}
         /\ DomainAt[a]["block"] # "" /\ DomainAt[a]["block"] = DomainAt[b]["block"] =>
              Hops(a, b) = 2
         /\ DomainAt[a]["spine"] # "" /\ DomainAt[a]["spine"] = DomainAt[b]["spine"] =>
              Hops(a, b) \in {2, 4}
<1> DEFINE Share(level) == DomainAt[a][level] # "" /\ DomainAt[a][level] = DomainAt[b][level]
           n == IF Share("block") THEN 2 ELSE IF Share("spine") THEN 1 ELSE 0
<1>1. Hops(a, b) = 6 - 2 * n
  BY DEF Hops
<1>2. /\ n \in {0, 1, 2}
      /\ Share("block") => n = 2
      /\ Share("spine") => n \in {1, 2}
  OBVIOUS
<1> HIDE DEF n
<1>3. /\ n = 0 => 6 - 2 * n = 6
      /\ n = 1 => 6 - 2 * n = 4
      /\ n = 2 => 6 - 2 * n = 2
  OBVIOUS
<1> QED BY <1>1, <1>2, <1>3

LEMMA MaxOfFew ==
  ASSUME NEW S \in SUBSET {2, 4, 6}, S # {}
  PROVE  Max(S) \in S
<1>1. \E m \in S : \A n \in S : m >= n
  <2>1. \A n \in S : n \in {2, 4, 6}
    OBVIOUS
  <2>2. CASE 6 \in S
    <3>1. \A n \in S : 6 >= n
      BY <2>1
    <3> QED BY <2>2, <3>1
  <2>3. CASE 6 \notin S /\ 4 \in S
    <3>1. \A n \in S : 4 >= n
      BY <2>1, <2>3
    <3> QED BY <2>3, <3>1
  <2>4. CASE 6 \notin S /\ 4 \notin S
    <3>1. \A n \in S : n = 2
      BY <2>1, <2>4
    <3>2. PICK n \in S : TRUE
      OBVIOUS
    <3> QED BY <3>1, <3>2
  <2> QED BY <2>2, <2>3, <2>4
<1> QED BY <1>1 DEF Max

LEMMA SeveralNodes ==
  ASSUME NEW nodes, IsFiniteSet(nodes), ~(Cardinality(nodes) < 2)
  PROVE  \E a, b \in nodes : a # b
<1> SUFFICES ASSUME \A a, b \in nodes : a = b PROVE FALSE
  OBVIOUS
<1>1. CASE nodes = {}
  BY <1>1, FS_EmptySet
<1>2. CASE nodes # {}
  <2>1. PICK a \in nodes : TRUE
    BY <1>2
  <2>2. nodes = {a}
    BY <2>1
  <2> QED BY <2>2, FS_Singleton
<1> QED BY <1>1, <1>2

(* The published distance is one of the hops between two different nodes.  *)
LEMMA DistanceBound ==
  ASSUME NEW nodes, IsFiniteSet(nodes), NEW bound \in Nat,
         \A a, b \in nodes : a # b => Hops(a, b) <= bound
  PROVE  Distance(nodes) \in {0, 2, 4, 6} /\ Distance(nodes) <= bound
<1>1. CASE Cardinality(nodes) < 2
  BY <1>1 DEF Distance
<1>2. CASE ~(Cardinality(nodes) < 2)
  <2> DEFINE S == UNION {{Hops(a, b) : b \in nodes \ {a}} : a \in nodes}
  <2>1. \A x \in S : \E a, b \in nodes : a # b /\ x = Hops(a, b)
    OBVIOUS
  <2>2. S \in SUBSET {2, 4, 6} /\ \A x \in S : x <= bound
    <3> SUFFICES ASSUME NEW x \in S PROVE x \in {2, 4, 6} /\ x <= bound
      OBVIOUS
    <3>1. PICK a, b \in nodes : a # b /\ x = Hops(a, b)
      BY <2>1
    <3> QED BY <3>1, HopsTyped
  <2>3. S # {}
    <3>1. PICK a, b \in nodes : a # b
      BY <1>2, SeveralNodes
    <3>2. Hops(a, b) \in S
      BY <3>1
    <3> QED BY <3>2
  <2>4. Distance(nodes) = Max(S)
    BY <1>2 DEF Distance
  <2> HIDE DEF S
  <2>5. Max(S) \in S
    BY <2>2, <2>3, MaxOfFew
  <2> QED BY <2>2, <2>4, <2>5
<1> QED BY <1>1, <1>2

LEMMA NodesTyped ==
  ASSUME BaseInv, NEW u \in Uids
  PROVE  /\ IsFiniteSet(NodesOf(u)) /\ IsFiniteSet(Placed(u))
         /\ \A n \in NodesOf(u) : n \in Nodes /\ \E p \in Placed(u) : n = pods[u][p]
<1>1. IsFiniteSet(Placed(u)) /\ \A p \in Placed(u) : pods[u][p] \in Nodes
  BY UidAssumption, FS_Subset DEF Placed
<1>2. IsFiniteSet({pods[u][p] : p \in Placed(u)})
  <2> DEFINE T == {pods[u][p] : p \in Placed(u)}
             f == [p \in Placed(u) |-> pods[u][p]]
  <2>1. f \in Surjection(Placed(u), T)
    BY DEF Surjection
  <2> QED BY <1>1, <2>1, FS_Surjection
<1>3. NodesOf(u) \in {{}, {pods[u][p] : p \in Placed(u)}}
  BY DEF NodesOf
<1> QED BY <1>1, <1>2, <1>3, FS_EmptySet

Counts == [Histograms -> [Uids -> 0 .. Cap]]

LEMMA ObserveTyped ==
  ASSUME hist \in Counts, NEW v \in Uids, NEW names
  PROVE  /\ Observe(hist, v, names) \in Counts
         /\ \A n \in Histograms : \A u \in Uids : Observe(hist, v, names)[n][u] =
              IF u = v /\ n \in names /\ hist[n][u] < Cap THEN hist[n][u] + 1 ELSE hist[n][u]
<1>1. ASSUME NEW n \in Histograms
      PROVE  /\ Observe(hist, v, names)[n] \in [Uids -> 0 .. Cap]
             /\ \A u \in Uids : Observe(hist, v, names)[n][u] =
                  IF u = v /\ n \in names /\ hist[n][u] < Cap THEN hist[n][u] + 1 ELSE hist[n][u]
  <2>1. hist[n] \in [Uids -> 0 .. Cap] /\ \A u \in Uids : hist[n][u] \in 0 .. Cap
    BY DEF Counts
  <2>2. Observe(hist, v, names)[n] = IF n \in names /\ hist[n][v] < Cap
                                     THEN [hist[n] EXCEPT ![v] = @ + 1] ELSE hist[n]
    BY DEF Observe
  <2>3. hist[n][v] < Cap => hist[n][v] + 1 \in 0 .. Cap
    BY <2>1 DEF Cap
  <2>4. CASE n \in names /\ hist[n][v] < Cap
    <3>1. Observe(hist, v, names)[n] = [hist[n] EXCEPT ![v] = hist[n][v] + 1]
      BY <2>1, <2>2, <2>4
    <3> QED BY <2>1, <2>3, <2>4, <3>1
  <2>5. CASE ~(n \in names /\ hist[n][v] < Cap)
    <3>1. Observe(hist, v, names)[n] = hist[n]
      BY <2>2, <2>5
    <3> QED BY <2>1, <2>5, <3>1
  <2> QED BY <2>4, <2>5
<1>2. Observe(hist, v, names) \in Counts
  <2>1. Observe(hist, v, names) = [n \in Histograms |-> Observe(hist, v, names)[n]]
    BY DEF Observe
  <2> QED BY <1>1, <2>1 DEF Counts
<1> QED BY <1>1, <1>2

(* One call of process_job: whether it knew the start, the nodes it found  *)
(* for the distance, and whether it set one.                               *)
ExportOf(v, known, nodes, topo) ==
  /\ known \in BOOLEAN /\ topo \in BOOLEAN
  /\ nodes \in {{}, NodesOf(v)}
  /\ Export(v, known, nodes, topo)

LEMMA ProcessMoves ==
  ASSUME BaseInv, NEW v \in Uids, Process(v)
  PROVE  /\ UNCHANGED <<cluster, pc, snap, previous, tas, conc, missed, whole>>
         /\ pc = "process" /\ v \in DOMAIN snap /\ todo' = todo \ {v}
         /\ disturbed' \in 0 .. Disturbances
         /\ \E known, topo \in BOOLEAN, nodes \in {{}, NodesOf(v)} : ExportOf(v, known, nodes, topo)
<1>1. PICK fails \in {"nothing", "start", "pods", "nodes"} :
        /\ disturbed' = disturbed + Cardinality(If(fails # "nothing", {fails}))
        /\ disturbed' <= Disturbances
        /\ Export(v, StartOf(v, fails # "start"), IF fails = "pods" THEN {} ELSE NodesOf(v),
                  fails # "nodes")
  BY DEF Process
<1>2. disturbed' \in 0 .. Disturbances
  <2>1. disturbed \in 0 .. Disturbances
    BY DEF BaseInv, TypeOK
  <2>2. Cardinality(If(fails # "nothing", {fails})) \in {0, 1}
    BY FS_EmptySet, FS_Singleton DEF If
  <2> QED BY <1>1, <2>1, <2>2, BoundAssumption
<1>3. StartOf(v, fails # "start") \in BOOLEAN
  BY DEF StartOf
<1>4. ExportOf(v, StartOf(v, fails # "start"), IF fails = "pods" THEN {} ELSE NodesOf(v),
               fails # "nodes")
  BY <1>1, <1>3 DEF ExportOf
<1>5. v \in DOMAIN snap
  BY DEF Process, Turn, BaseInv, TypeOK
<1>6. \E known, topo \in BOOLEAN, nodes \in {{}, NodesOf(v)} : ExportOf(v, known, nodes, topo)
  BY <1>3, <1>4
<1> QED BY <1>2, <1>5, <1>6 DEF Process

LEMMA ExportTyped ==
  ASSUME BaseInv, NEW v \in Uids, v \in DOMAIN snap, NEW known, NEW nodes, NEW topo,
         ExportOf(v, known, nodes, topo)
  PROVE  /\ startCache' \subseteq Uids /\ obsWait' \subseteq Uids /\ obsDone' \subseteq Uids
         /\ labels' \subseteq Uids \X Queues \X Statuses
         /\ series' \subseteq (BaseMetrics \union CompletionMetrics) \X Uids \X Queues \X Statuses
         /\ dist' \in [Uids -> {0, 2, 4, 6}]
         /\ hist' \in Counts
<1>1. snap[v].queue \in Queues /\ snap[v].final \in Statuses /\ "none" \in Statuses
  BY DEF BaseInv, TypeOK, Snapshots, Statuses
<1>2. startCache' \subseteq Uids /\ obsWait' \subseteq Uids /\ obsDone' \subseteq Uids
  BY DEF BaseInv, TypeOK, ExportOf, Export, If
<1>3. labels' \subseteq Uids \X Queues \X Statuses
  <2>1. labels' = labels \union {<<v, snap[v].queue, "none">>, <<v, snap[v].queue, snap[v].final>>}
    BY DEF ExportOf, Export
  <2>2. {<<v, snap[v].queue, "none">>, <<v, snap[v].queue, snap[v].final>>}
           \subseteq Uids \X Queues \X Statuses
    BY <1>1
  <2>3. labels \subseteq Uids \X Queues \X Statuses
    BY DEF BaseInv, TypeOK
  <2> QED BY <2>1, <2>2, <2>3
<1>4. series' \subseteq (BaseMetrics \union CompletionMetrics) \X Uids \X Queues \X Statuses
  BY <1>1 DEF BaseInv, TypeOK, ExportOf, Export, If, BaseMetrics, CompletionMetrics
<1>5. dist' \in [Uids -> {0, 2, 4, 6}]
  <2>1. IsFiniteSet(nodes)
    BY NodesTyped, FS_EmptySet DEF ExportOf
  <2>2. ASSUME NEW a \in nodes, NEW b \in nodes PROVE Hops(a, b) <= 6
    <3>1. Hops(a, b) \in {2, 4, 6}
      BY HopsTyped
    <3> QED BY <3>1
  <2>3. Distance(nodes) \in {0, 2, 4, 6}
    BY <2>1, <2>2, DistanceBound
  <2> QED BY <2>3 DEF BaseInv, TypeOK, ExportOf, Export
<1>6. hist' \in Counts
  BY ObserveTyped DEF BaseInv, TypeOK, Counts, ExportOf, Export
<1> QED BY <1>2, <1>3, <1>4, <1>5, <1>6

LEMMA TasMoves ==
  ASSUME BaseInv, NEW v \in Uids, Tas(v)
  PROVE  /\ UNCHANGED <<cluster, pc, snap, memory, labels, previous, dist, conc, hist, missed>>
         /\ pc = "tas" /\ v \in DOMAIN snap /\ todo' = todo \ {v}
         /\ disturbed' \in 0 .. Disturbances
         /\ series' \in {series, series \union {<<"tas", v, snap[v].queue, "none">>}}
         /\ whole' = IF tas' = tas THEN whole
                     ELSE [whole EXCEPT ![v] = Placed(v) = PodsOf[v]]
         /\ \/ tas' = tas
            \/ /\ ShouldRecalculate(v)
               /\ \E d \in {Unsettled, 0, 1} : /\ tas' = [tas EXCEPT ![v] = d]
                                               /\ d = 1 => Verdicts(v) = {1}
<1>1. \A d \in Verdicts(v) : d \in {Unsettled, 0, 1} /\ (d = 1 => Verdicts(v) = {1})
  BY DEF Verdicts, Unsettled
<1>2. \A d \in Misread(v) : d \in {Unsettled, 0}
  BY DEF Misread
<1>3. disturbed' = disturbed \/ Disturb
  BY DEF Tas
<1>4. disturbed' \in 0 .. Disturbances
  BY <1>3, DisturbCounted DEF BaseInv, TypeOK
<1>5. v \in DOMAIN snap
  BY DEF Tas, Turn, BaseInv, TypeOK
<1>6. \/ tas' = tas
      \/ /\ ShouldRecalculate(v)
         /\ \E d \in {Unsettled, 0, 1} : /\ tas' = [tas EXCEPT ![v] = d]
                                         /\ d = 1 => Verdicts(v) = {1}
  BY <1>1, <1>2 DEF Tas, Unsettled
<1> QED BY <1>4, <1>5, <1>6 DEF Tas

LEMMA SweepMoves ==
  ASSUME BaseInv, Sweep
  PROVE  /\ UNCHANGED <<cluster, snap, todo, labels, disturbed, missed, whole>>
         /\ pc = "tas" /\ pc' = "sleep"
         /\ tas' \in [Uids -> {Unsettled, 0, 1, NotCalculated}]
         /\ \A u \in Uids : tas'[u] = tas[u] \/ (tas'[u] = NotCalculated /\ u \notin DOMAIN snap)
         /\ dist' \in [Uids -> {0, 2, 4, 6}]
         /\ \A u \in Uids : dist'[u] \in {dist[u], 0}
         /\ series' \subseteq series
         /\ hist' \in Counts
         /\ hist' = hist \/ (DOMAIN snap = {} /\ \A h \in Histograms, u \in Uids : hist'[h][u] = 0)
         /\ prevLabels' = labels /\ prevQueues' = ActiveQueues
         /\ startCache' = startCache \intersect DOMAIN snap
         /\ obsWait' = obsWait \intersect DOMAIN snap
         /\ obsDone' = obsDone \intersect DOMAIN snap
<1>1. /\ tas' = [u \in Uids |-> IF u \in Forgotten THEN NotCalculated ELSE tas[u]]
      /\ dist' = [u \in Uids |-> IF u \in Forgotten THEN 0 ELSE dist[u]]
      /\ hist' = hist \/ (DOMAIN snap = {} /\ hist' = [h \in Histograms |-> [u \in Uids |-> 0]])
  BY DEF Sweep
<1>2. tas \in [Uids -> {Unsettled, 0, 1, NotCalculated}] /\ dist \in [Uids -> {0, 2, 4, 6}]
      /\ hist \in Counts
  BY DEF BaseInv, TypeOK, Counts
<1>3. \A u \in Forgotten : u \notin DOMAIN snap
  BY DEF Forgotten
<1>4. [h \in Histograms |-> [u \in Uids |-> 0]] \in Counts
  BY DEF Counts, Cap
<1>5. /\ tas' \in [Uids -> {Unsettled, 0, 1, NotCalculated}]
      /\ \A u \in Uids : tas'[u] = tas[u] \/ (tas'[u] = NotCalculated /\ u \notin DOMAIN snap)
  BY <1>1, <1>2, <1>3
<1>6. /\ dist' \in [Uids -> {0, 2, 4, 6}]
      /\ \A u \in Uids : dist'[u] \in {dist[u], 0}
  BY <1>1, <1>2
<1>7. /\ hist' \in Counts
      /\ hist' = hist \/ (DOMAIN snap = {} /\ \A h \in Histograms, u \in Uids : hist'[h][u] = 0)
  BY <1>1, <1>2, <1>4
<1> QED BY <1>5, <1>6, <1>7 DEF Sweep, Kept

LEMMA CountedQueues ==
  ASSUME BaseInv
  PROVE  /\ ActiveQueues \subseteq Queues
         /\ \A q, ph : NumberIn(q, ph) \in 0 .. Cardinality(Uids)
<1>1. ActiveQueues \subseteq Queues
  BY DEF BaseInv, TypeOK, ActiveQueues, Snapshots
<1>2. ASSUME NEW q, NEW ph PROVE NumberIn(q, ph) \in 0 .. Cardinality(Uids)
  <2> DEFINE S == {u \in DOMAIN snap : snap[u].queue = q /\ snap[u].phase = ph}
  <2>1. S \in SUBSET Uids
    BY DEF BaseInv, TypeOK
  <2>2. IsFiniteSet(S) /\ Cardinality(S) <= Cardinality(Uids)
    BY <2>1, UidAssumption, FS_Subset
  <2>3. Cardinality(S) \in Nat /\ Cardinality(Uids) \in Nat
    BY <2>2, UidAssumption, FS_CardinalityType
  <2>4. NumberIn(q, ph) = Cardinality(S)
    BY DEF NumberIn
  <2> HIDE DEF S
  <2> QED BY <2>2, <2>3, <2>4
<1> QED BY <1>1, <1>2

-----------------------------------------------------------------------------
(* Type correctness.                                                       *)

LEMMA InitBaseInv == Init => BaseInv
<1> SUFFICES ASSUME Init PROVE BaseInv
  OBVIOUS
<1>1. job \in [Uids -> JobStates]
  <2>1. PICK q \in [Uids -> Queues] :
          job = [u \in Uids |-> [life |-> IF u \in lively THEN "unborn" ELSE "present",
                                queue |-> q[u], mark |-> "none", final |-> "none"]]
    BY DEF Init
  <2> QED BY <2>1 DEF JobStates
<1>2. pods \in [Uids -> PodStates] /\ ran \in [Uids -> BOOLEAN]
  BY DEF Init, PodStates
<1>3. DOMAIN snap = {}
  BY DEF Init
<1>4. /\ tas \in [Uids -> {Unsettled, 0, 1, NotCalculated}] /\ hist \in Counts
      /\ dist \in [Uids -> {0, 2, 4, 6}] /\ whole \in [Uids -> BOOLEAN]
  BY DEF Init, NotCalculated, Counts, Cap
<1>5. disturbed \in 0 .. Disturbances /\ resumed \subseteq VolcanoJobs
  BY BoundAssumption DEF Init
<1>6. TypeOK
  BY <1>1, <1>2, <1>3, <1>4, <1>5 DEF Init, TypeOK, JobStates, PodStates, Counts
<1>7. \A u \in K8sJobs : job[u].mark = "none" /\ job[u].final = "none"
  BY Strings DEF Init
<1>8. LifeInv
  BY <1>3, <1>7 DEF LifeInv
<1> QED BY <1>6, <1>8 DEF BaseInv

LEMMA ClusterBaseInv ==
  ASSUME BaseInv, NEW v \in Uids, ClusterStep(v)
  PROVE  BaseInv'
<1>1. /\ job' \in [Uids -> JobStates] /\ \A u \in Uids : JobMoves(u)
  BY ClusterJobs
<1>2. /\ UNCHANGED <<exporter, lively>>
      /\ pods' \in [Uids -> PodStates] /\ ran' \in [Uids -> BOOLEAN]
      /\ whole' \in [Uids -> BOOLEAN] /\ relabelled' \subseteq Uids
      /\ resumed \subseteq resumed' /\ resumed' \subseteq VolcanoJobs
      /\ disturbed' \in 0 .. Disturbances
  BY ClusterRest
<1>3. TypeOK'
  BY <1>1, <1>2 DEF BaseInv, TypeOK, JobStates, PodStates, exporter, memory, previous, metrics,
                    Snapshots
<1>4. LifeInv'
  <2>1. snap' = snap /\ DOMAIN snap \subseteq Uids
    BY <1>2 DEF exporter, BaseInv, TypeOK
  <2>2. \A u \in DOMAIN snap : job'[u].life # "unborn"
    BY <1>1, <2>1 DEF BaseInv, LifeInv, JobMoves
  <2>3. \A u \in K8sJobs : BatchJob(job'[u])
    BY <1>1, Strings DEF JobMoves
  <2>4. ASSUME NEW u \in DOMAIN snap, snap[u].final # "none"
        PROVE  /\ snap[u].phase \in Terminal
               /\ snap[u].final = StatusOf(u)' \/ (snap[u].final = "Failed" /\ u \in resumed')
    <3>1. /\ snap[u].phase \in Terminal
          /\ snap[u].final = StatusOf(u) \/ (snap[u].final = "Failed" /\ u \in resumed)
      BY <2>4 DEF BaseInv, LifeInv
    <3>2. \/ StatusOf(u)' = StatusOf(u) \/ StatusOf(u) = "none"
          \/ StatusOf(u) = "Failed" /\ u \in resumed'
      BY <1>1, <2>1, StatusMoves
    <3> QED BY <1>2, <2>4, <3>1, <3>2
  <2> QED BY <2>1, <2>2, <2>3, <2>4 DEF LifeInv, BatchJob
<1> QED BY <1>3, <1>4 DEF BaseInv

LEMMA ListBaseInv ==
  ASSUME BaseInv, NEW kind \in SUBSET Uids, NEW from,
         NEW to \in {"volcano", "process"}, List(kind, from, to)
  PROVE  BaseInv'
<1>1. \A u \in DOMAIN snap' :
        /\ u \in Uids /\ snap'[u] \in Snapshots /\ job[u].life # "unborn"
        /\ snap'[u].final # "none" =>
             /\ snap'[u].phase \in Terminal
             /\ snap'[u].final = StatusOf(u) \/ (snap'[u].final = "Failed" /\ u \in resumed)
  <2> SUFFICES ASSUME NEW u \in DOMAIN snap'
               PROVE  /\ u \in Uids /\ snap'[u] \in Snapshots /\ job[u].life # "unborn"
                      /\ snap'[u].final # "none" =>
                           /\ snap'[u].phase \in Terminal
                           /\ \/ snap'[u].final = StatusOf(u)
                              \/ snap'[u].final = "Failed" /\ u \in resumed
    OBVIOUS
  <2>1. u \in Uids
    BY ListMoves
  <2>2. CASE job[u].life = "present" /\ snap'[u] = Object(u)
    BY <2>1, <2>2, ObjectTyped
  <2>3. CASE u \in DOMAIN snap /\ snap'[u] = snap[u]
    BY <2>1, <2>3 DEF BaseInv, TypeOK, LifeInv
  <2> QED BY <2>2, <2>3, ListMoves
<1>2. labels' \subseteq Uids \X Queues \X Statuses
  BY ListMoves DEF BaseInv, TypeOK
<1>3. UNCHANGED <<cluster, memory, previous, tas, metrics, whole>>
  BY ListMoves
<1>4. /\ pc' \in {"sleep", "volcano", "process", "tas"} /\ todo' = DOMAIN snap'
      /\ disturbed' \in 0 .. Disturbances /\ missed' \subseteq Uids
  BY ListMoves
<1>5. TypeOK'
  BY <1>1, <1>2, <1>3, <1>4 DEF BaseInv, TypeOK, cluster, memory, previous, metrics
<1>6. LifeInv'
  BY <1>1, <1>3 DEF BaseInv, LifeInv, StatusOf, cluster
<1> QED BY <1>5, <1>6 DEF BaseInv

LEMMA CycleBaseInv ==
  ASSUME BaseInv, Cycle
  PROVE  BaseInv'
<1>1. CASE ListJobs \/ ListVolcano
  BY <1>1, ListBaseInv DEF ListJobs, ListVolcano, Uids
<1> SUFFICES ASSUME ~(ListJobs \/ ListVolcano) PROVE BaseInv'
  BY <1>1
<1>2. UNCHANGED <<cluster, snap>> /\ LifeInv'
  <2>1. UNCHANGED <<cluster, snap>>
    BY DEF Cycle, EndProcess, Sweep, Process, Tas
  <2> QED BY <2>1 DEF cluster, BaseInv, LifeInv, StatusOf
<1>3. CASE EndProcess
  BY <1>2, <1>3 DEF EndProcess, BaseInv, TypeOK, cluster, memory, previous, metrics
<1>4. CASE Sweep
  <2>1. /\ startCache' \subseteq Uids /\ obsWait' \subseteq Uids /\ obsDone' \subseteq Uids
        /\ prevLabels' \subseteq Uids \X Queues \X Statuses
        /\ prevQueues' \subseteq Queues
        /\ series' \subseteq (BaseMetrics \union CompletionMetrics) \X Uids \X Queues \X Statuses
    BY <1>4, SweepMoves, CountedQueues DEF BaseInv, TypeOK
  <2>2. \A r \in conc' : r.queue \in Queues /\ r.phase \in StatusMap
                        /\ r.count \in 0 .. Cardinality(Uids)
    BY <1>4, CountedQueues DEF Sweep, Concurrency, BaseInv, TypeOK
  <2>3. TypeOK'
    BY <1>4, <2>1, <2>2, SweepMoves DEF BaseInv, TypeOK, Counts, cluster
  <2> QED BY <1>2, <2>3 DEF BaseInv
<1>5. ASSUME NEW v \in Uids, Process(v) PROVE BaseInv'
  <2>1. PICK known, topo \in BOOLEAN, nodes \in {{}, NodesOf(v)} : ExportOf(v, known, nodes, topo)
    BY <1>5, ProcessMoves
  <2>2. TypeOK'
    BY <1>5, <2>1, ProcessMoves, ExportTyped DEF BaseInv, TypeOK, Counts, cluster, previous
  <2> QED BY <1>2, <2>2 DEF BaseInv
<1>6. ASSUME NEW v \in Uids, Tas(v) PROVE BaseInv'
  <2>1. tas' \in [Uids -> {Unsettled, 0, 1, NotCalculated}] /\ whole' \in [Uids -> BOOLEAN]
    <3>1. whole \in [Uids -> BOOLEAN] /\ tas \in [Uids -> {Unsettled, 0, 1, NotCalculated}]
      BY DEF BaseInv, TypeOK
    <3>2. \A b \in BOOLEAN : [whole EXCEPT ![v] = b] \in [Uids -> BOOLEAN]
      BY <3>1
    <3>3. (Placed(v) = PodsOf[v]) \in BOOLEAN
      OBVIOUS
    <3>4. whole' = whole \/ whole' = [whole EXCEPT ![v] = Placed(v) = PodsOf[v]]
      BY <1>6, TasMoves
    <3>5. whole' \in [Uids -> BOOLEAN]
      BY <3>1, <3>2, <3>3, <3>4
    <3> QED BY <1>6, <3>1, <3>5, TasMoves
  <2>2. series' \subseteq (BaseMetrics \union CompletionMetrics) \X Uids \X Queues \X Statuses
    <3>1. snap[v].queue \in Queues
      BY <1>6, TasMoves DEF BaseInv, TypeOK, Snapshots
    <3>2. <<"tas", v, snap[v].queue, "none">> \in (BaseMetrics \union CompletionMetrics) \X Uids \X Queues \X Statuses
      BY <3>1 DEF BaseMetrics, Statuses
    <3>3. series \subseteq (BaseMetrics \union CompletionMetrics) \X Uids \X Queues \X Statuses
      BY DEF BaseInv, TypeOK
    <3>4. series' = series \/ series' = series \union {<<"tas", v, snap[v].queue, "none">>}
      BY <1>6, TasMoves
    <3> QED BY <3>2, <3>3, <3>4
  <2>3. TypeOK'
    BY <1>6, <2>1, <2>2, TasMoves DEF BaseInv, TypeOK, cluster, memory, previous
  <2> QED BY <1>2, <2>3 DEF BaseInv
<1> QED BY <1>3, <1>4, <1>5, <1>6 DEF Cycle

LEMMA NextBaseInv == BaseInv /\ [Next]_vars => BaseInv'
<1> SUFFICES ASSUME BaseInv, [Next]_vars PROVE BaseInv'
  OBVIOUS
<1>1. CASE UNCHANGED vars
  BY <1>1 DEF vars, cluster, memory, previous, metrics, BaseInv, TypeOK, LifeInv, StatusOf
<1>2. CASE Next
  BY <1>2, ClusterBaseInv, CycleBaseInv DEF Next
<1> QED BY <1>1, <1>2

(* The exporter's globals keep their types for every set of jobs.          *)
THEOREM TypeCorrect == Spec => []TypeOK
<1>1. BaseInv => TypeOK
  BY DEF BaseInv
<1> QED BY <1>1, InitBaseInv, NextBaseInv, PTL DEF Spec

(* A verdict on a constraint, met or not met, is final as long as the job  *)
(* is processed (exporter.py: should_recalculate).                         *)
THEOREM VerdictStaysAlways == Spec => VerdictStays
<1>1. ASSUME BaseInv, [Next]_vars
      PROVE  [\A u \in Uids : tas[u] \in {0, 1} => tas'[u] = tas[u] \/ u \notin Processed]_vars
  <2>1. CASE tas' = tas
    BY <2>1
  <2>2. CASE Sweep
    BY <1>1, <2>2, SweepMoves DEF Processed
  <2>3. ASSUME NEW v \in Uids, Tas(v)
        PROVE  \A u \in Uids : tas[u] \in {0, 1} => tas'[u] = tas[u]
    <3>1. ShouldRecalculate(v) => tas[v] \notin {0, 1}
      BY DEF ShouldRecalculate, NotCalculated, Unsettled
    <3> QED BY <1>1, <2>3, <3>1, TasMoves DEF BaseInv, TypeOK
  <2>4. tas' = tas \/ Sweep \/ \E v \in Uids : Tas(v)
    <3>1. CASE UNCHANGED vars
      BY <3>1 DEF vars
    <3>2. CASE Next
      <4>1. ASSUME NEW v \in Uids, ClusterStep(v) PROVE tas' = tas
        BY <1>1, <4>1, ClusterRest DEF exporter
      <4>2. Cycle => tas' = tas \/ Sweep \/ \E v \in Uids : Tas(v)
        BY DEF Cycle, ListJobs, ListVolcano, List, EndProcess, Process
      <4> QED BY <3>2, <4>1, <4>2 DEF Next
    <3> QED BY <1>1, <3>1, <3>2
  <2> QED BY <2>1, <2>2, <2>3, <2>4
<1> QED BY <1>1, InitBaseInv, NextBaseInv, PTL DEF Spec, VerdictStays

-----------------------------------------------------------------------------
(* What a step that is not the end of a cycle leaves alone.                *)

LEMMA OtherSteps ==
  ASSUME BaseInv, [Next]_vars
  PROVE  \/ Sweep
         \/ ListJobs \/ ListVolcano
         \/ EndProcess \/ \E v \in Uids : Process(v) \/ Tas(v)
         \/ UNCHANGED <<exporter, cluster, whole>>
         \/ UNCHANGED exporter /\ \E v \in Uids : ClusterStep(v)
<1>1. UNCHANGED vars => UNCHANGED <<exporter, cluster, whole>>
  BY DEF vars, exporter
<1>2. ASSUME NEW v \in Uids, ClusterStep(v) PROVE UNCHANGED exporter
  BY <1>2, ClusterRest
<1>3. Cycle => Sweep \/ ListJobs \/ ListVolcano \/ EndProcess \/ \E v \in Uids : Process(v) \/ Tas(v)
  BY DEF Cycle
<1> QED BY <1>1, <1>2, <1>3 DEF Next

LEMMA InitQueueInv == Init => QueueInv
<1> SUFFICES ASSUME Init PROVE QueueInv
  OBVIOUS
<1>1. DOMAIN snap = {} /\ conc = {}
  BY DEF Init
<1>2. ActiveQueues = {}
  BY <1>1 DEF ActiveQueues
<1> QED BY <1>1, <1>2, InitBaseInv DEF QueueInv, ConcurrencyExact

LEMMA SweepQueueInv ==
  ASSUME QueueInv, Sweep
  PROVE  (\A r \in conc : r.queue \in prevQueues)' /\ ConcurrencyExact'
<1>1. snap' = snap /\ prevQueues' = ActiveQueues /\ conc' = Concurrency
  BY DEF Sweep
<1>2. ActiveQueues' = ActiveQueues /\ \A q, ph : NumberIn(q, ph)' = NumberIn(q, ph)
  BY <1>1 DEF ActiveQueues, NumberIn
<1>3. \A r \in Concurrency : \E q \in ActiveQueues, ph \in StatusMap :
        r = [queue |-> q, phase |-> ph, count |-> NumberIn(q, ph)]
  BY DEF QueueInv, Concurrency
<1>4. \A q \in ActiveQueues :
        [queue |-> q, phase |-> "Pending", count |-> NumberIn(q, "Pending")] \in Concurrency
  BY DEF Concurrency, StatusMap
<1>5. \A r \in conc' : r.queue \in ActiveQueues /\ r.count = NumberIn(r.queue, r.phase)
  BY <1>1, <1>3
<1>6. \A q \in ActiveQueues : \E r \in conc' : r.queue = q
  BY <1>1, <1>4
<1>7. {r.queue : r \in conc'} = ActiveQueues
  BY <1>5, <1>6
<1> QED BY <1>1, <1>2, <1>5, <1>7 DEF ConcurrencyExact

LEMMA NextQueueInv == QueueInv /\ [Next]_vars => QueueInv'
<1> SUFFICES ASSUME QueueInv, [Next]_vars PROVE QueueInv'
  OBVIOUS
<1>1. BaseInv /\ BaseInv'
  BY NextBaseInv DEF QueueInv
<1>2. CASE Sweep
  BY <1>1, <1>2, SweepQueueInv DEF QueueInv
<1>3. CASE UNCHANGED <<conc, prevQueues>> /\ pc' # "sleep"
  BY <1>1, <1>3 DEF QueueInv, ConcurrencyExact, Sleeping
<1>4. CASE UNCHANGED exporter
  <2>1. ActiveQueues' = ActiveQueues /\ \A q, ph : NumberIn(q, ph)' = NumberIn(q, ph)
    BY <1>4 DEF exporter, ActiveQueues, NumberIn
  <2>2. UNCHANGED <<conc, prevQueues, pc>>
    BY <1>4 DEF exporter, metrics, previous
  <2> QED BY <1>1, <2>1, <2>2 DEF QueueInv, ConcurrencyExact, Sleeping
<1>5. CASE \/ ListJobs \/ ListVolcano \/ EndProcess
           \/ \E v \in Uids : Process(v) \/ Tas(v)
  BY <1>3, <1>5 DEF ListJobs, ListVolcano, List, EndProcess, Process, Tas, previous, metrics
<1> QED BY <1>1, <1>2, <1>4, <1>5, OtherSteps

(* After each cycle the queues with listed jobs, and only they, have       *)
(* counts, and the counts are right: no queue that lost its last job keeps *)
(* one (exporter.py: previous_active_queue_namespaces).                    *)
THEOREM ConcurrencyExactAlways == Spec => []ConcurrencyExact
<1>1. QueueInv => ConcurrencyExact
  BY DEF QueueInv
<1> QED BY <1>1, InitQueueInv, NextQueueInv, PTL DEF Spec

-----------------------------------------------------------------------------
(* What the exporter remembers of a job.                                   *)

LEMMA InitMemoryInv == Init => MemoryInv
<1> SUFFICES ASSUME Init PROVE MemoryInv
  OBVIOUS
<1>1. /\ startCache = {} /\ obsWait = {} /\ obsDone = {} /\ series = {}
      /\ \A u \in Uids : hist["wait"][u] = 0 /\ hist["total"][u] = 0 /\ hist["execution"][u] = 0
  BY DEF Init, Histograms
<1>2. \A u \in Uids : MemoryOf(u)
  BY <1>1 DEF MemoryOf, Once, HasStart, Remembered
<1> QED BY <1>2, InitBaseInv DEF MemoryInv

(* The memory of a job is right as long as the metrics, the memory and the *)
(* lists stay as they are and the job's life goes on.                      *)
LEMMA ClusterMemory ==
  ASSUME BaseInv, NEW u \in Uids, MemoryOf(u), UNCHANGED exporter,
         job[u].life # "unborn" => job'[u].life # "unborn",
         job[u].life = "deleted" => job'[u].life = "deleted"
  PROVE  MemoryOf(u)'
<1>1. UNCHANGED <<pc, snap, startCache, obsWait, obsDone, series, hist>>
  BY DEF exporter, memory, metrics
<1>2. Over(u) => Over(u)'
  BY <1>1 DEF Over
<1>3. Once("wait", obsWait, u)' /\ Once("total", obsDone, u)'
  BY <1>1, <1>2 DEF MemoryOf, Once
<1>4. (HasStart(u) => u \in startCache \/ Over(u))'
  BY <1>1, <1>2 DEF MemoryOf, HasStart
<1>5. (u \in Remembered => job[u].life # "unborn" /\ (Scanned(u) => u \in DOMAIN snap \/ Over(u)))'
  BY <1>1, <1>2 DEF MemoryOf, Remembered, Scanned
<1> QED BY <1>1, <1>3, <1>4, <1>5 DEF MemoryOf

LEMMA ListMemory ==
  ASSUME BaseInv, ListJobs \/ ListVolcano, NEW u \in Uids, u \notin missed', MemoryOf(u)
  PROVE  MemoryOf(u)'
<1>1. /\ UNCHANGED <<job, startCache, obsWait, obsDone, series, hist>>
      /\ \A x \in DOMAIN snap' : job[x].life = "present" \/ (pc = "volcano" /\ x \in DOMAIN snap)
      /\ \/ /\ pc = "sleep" /\ pc' = "volcano"
            /\ \A x \in K8sJobs \ missed' : job[x].life = "present" => x \in DOMAIN snap'
         \/ /\ pc = "volcano" /\ pc' = "process" /\ DOMAIN snap \subseteq DOMAIN snap'
            /\ \A x \in VolcanoJobs \ missed' : job[x].life = "present" => x \in DOMAIN snap'
  <2>1. K8sJobs \in SUBSET Uids /\ VolcanoJobs \in SUBSET Uids
    BY DEF Uids
  <2>2. CASE ListJobs
    <3>1. List(K8sJobs, "sleep", "volcano")
      BY <2>2 DEF ListJobs
    <3>2. UNCHANGED <<cluster, memory, metrics>> /\ pc = "sleep" /\ pc' = "volcano"
      BY <2>1, <3>1, ListMoves
    <3>3. \A x \in DOMAIN snap' : job[x].life = "present"
      BY <2>1, <3>1, <3>2, ListMoves
    <3>4. \A x \in K8sJobs \ missed' : job[x].life = "present" => x \in DOMAIN snap'
      BY <2>1, <3>1, ListMoves
    <3> QED BY <3>2, <3>3, <3>4 DEF cluster, memory, metrics
  <2>3. CASE ListVolcano
    <3>1. List(VolcanoJobs, "volcano", "process")
      BY <2>3 DEF ListVolcano
    <3>2. UNCHANGED <<cluster, memory, metrics>> /\ pc = "volcano" /\ pc' = "process"
      BY <2>1, <3>1, ListMoves
    <3>3. \A x \in DOMAIN snap' : job[x].life = "present" \/ (pc = "volcano" /\ x \in DOMAIN snap)
      BY <2>1, <3>1, <3>2, ListMoves
    <3>4. \A x \in VolcanoJobs \ missed' : job[x].life = "present" => x \in DOMAIN snap'
      BY <2>1, <3>1, ListMoves
    <3>5. \A x \in DOMAIN snap : x \in DOMAIN snap'
      BY <3>1 DEF List
    <3> QED BY <3>2, <3>3, <3>4, <3>5 DEF cluster, memory, metrics
  <2> QED BY <2>2, <2>3
<1>2. job[u].life \in {"unborn", "present", "deleted"}
  BY DEF BaseInv, TypeOK
<1>3. Over(u) => Over(u)'
  BY <1>1 DEF Over
<1>4. Once("wait", obsWait, u)' /\ Once("total", obsDone, u)'
  BY <1>1, <1>3 DEF MemoryOf, Once
<1>5. (HasStart(u) => u \in startCache \/ Over(u))'
  BY <1>1, <1>3 DEF MemoryOf, HasStart
<1>6. ASSUME u \in Remembered, Scanned(u)' PROVE u \in DOMAIN snap' \/ Over(u)'
  <2>1. job[u].life # "unborn" /\ (pc = "volcano" /\ u \in K8sJobs => u \in DOMAIN snap \/ Over(u))
    BY <1>6 DEF MemoryOf, Scanned
  <2>2. CASE pc = "sleep"
    <3>1. u \in K8sJobs
      BY <1>1, <1>6, <2>2 DEF Scanned
    <3> QED BY <1>1, <1>2, <2>1, <2>2, <3>1 DEF Over
  <2>3. CASE pc = "volcano"
    <3>1. CASE u \in K8sJobs
      BY <1>1, <1>3, <2>1, <2>3, <3>1
    <3>2. CASE u \in VolcanoJobs
      BY <1>1, <1>2, <2>1, <2>3, <3>2 DEF Over
    <3> QED BY <3>1, <3>2, Strings
  <2> QED BY <1>1, <2>2, <2>3
<1>7. (u \in Remembered => job[u].life # "unborn" /\ (Scanned(u) => u \in DOMAIN snap \/ Over(u)))'
  BY <1>1, <1>6 DEF MemoryOf, Remembered
<1> QED BY <1>1, <1>4, <1>5, <1>7 DEF MemoryOf

LEMMA ProcessMemory ==
  ASSUME BaseInv, NEW v \in Uids, Process(v), NEW u \in Uids, MemoryOf(u)
  PROVE  MemoryOf(u)'
<1>1. /\ UNCHANGED <<job, pc, snap>> /\ v \in DOMAIN snap
  BY ProcessMoves DEF cluster
<1>2. PICK known, topo \in BOOLEAN, nodes \in {{}, NodesOf(v)} : ExportOf(v, known, nodes, topo)
  BY ProcessMoves
<1> DEFINE final == snap[v].final # "none"
           names == If(known /\ v \notin obsWait, {"wait"})
                      \union If(final /\ v \notin obsDone, {"total"})
                      \union If(final /\ v \notin obsDone /\ known, {"execution"})
<1>3. /\ startCache' = startCache \union If(known, {v})
      /\ obsWait' = obsWait \union If(known, {v})
      /\ obsDone' = obsDone \union If(final, {v})
      /\ hist' = Observe(hist, v, names)
  BY <1>2 DEF ExportOf, Export
<1>4. HasStart(u)' => HasStart(u) \/ (u = v /\ known)
  BY <1>2 DEF ExportOf, Export, If, HasStart
<1>5. /\ "wait" \in names <=> known /\ v \notin obsWait
      /\ "total" \in names <=> final /\ v \notin obsDone
      /\ "execution" \in names => final /\ v \notin obsDone
  BY DEF If
<1> HIDE DEF names
<1>6. hist \in Counts /\ \A n \in Histograms : hist[n][u] \in 0 .. Cap
  BY DEF BaseInv, TypeOK, Counts
<1>7. \A n \in Histograms : hist'[n][u] =
        IF u = v /\ n \in names /\ hist[n][u] < Cap THEN hist[n][u] + 1 ELSE hist[n][u]
  BY <1>3, <1>6, ObserveTyped
<1>8. Over(u)' <=> Over(u)
  BY <1>1 DEF Over
<1>9. "wait" \in Histograms /\ "total" \in Histograms /\ "execution" \in Histograms
  BY DEF Histograms
<1>10. CASE u # v
  <2>1. \A n \in Histograms : hist'[n][u] = hist[n][u]
    BY <1>7, <1>10
  <2>2. /\ u \in startCache' <=> u \in startCache
        /\ u \in obsWait' <=> u \in obsWait
        /\ u \in obsDone' <=> u \in obsDone
    BY <1>3, <1>10 DEF If
  <2>3. Once("wait", obsWait, u)' /\ Once("total", obsDone, u)'
    BY <1>8, <1>9, <2>1, <2>2 DEF MemoryOf, Once
  <2>4. (hist["execution"][u] <= hist["total"][u])'
    BY <1>9, <2>1 DEF MemoryOf
  <2>5. (u \in Remembered => job[u].life # "unborn" /\ (Scanned(u) => u \in DOMAIN snap \/ Over(u)))'
    BY <1>1, <1>8, <2>2 DEF MemoryOf, Remembered, Scanned
  <2> QED BY <1>4, <1>8, <1>10, <2>2, <2>3, <2>4, <2>5 DEF MemoryOf
<1>11. CASE u = v
  <2>1. ~Over(u) /\ job[u].life # "unborn" /\ u \in DOMAIN snap
    BY <1>1, <1>11 DEF Over, BaseInv, LifeInv
  <2>2. /\ hist["wait"][u] = IF u \in obsWait THEN 1 ELSE 0
        /\ hist["total"][u] = IF u \in obsDone THEN 1 ELSE 0
        /\ hist["execution"][u] <= hist["total"][u]
    BY <1>6, <1>9, <2>1 DEF MemoryOf, Once, Cap
  <2>3. /\ u \in obsWait' <=> u \in obsWait \/ known
        /\ u \in obsDone' <=> u \in obsDone \/ final
        /\ u \in startCache' <=> u \in startCache \/ known
    BY <1>3, <1>11 DEF If
  <2> HIDE DEF final
  <2>4. hist'["wait"][u] = IF u \in obsWait' THEN 1 ELSE 0
    <3>1. CASE "wait" \in names
      <4>1. hist["wait"][u] = 0 /\ u \in obsWait'
        BY <1>5, <1>11, <2>2, <2>3, <3>1
      <4> QED BY <1>7, <1>9, <1>11, <3>1, <4>1 DEF Cap
    <3>2. CASE "wait" \notin names
      <4>1. u \in obsWait' <=> u \in obsWait
        BY <1>5, <1>11, <2>3, <3>2
      <4> QED BY <1>7, <1>9, <2>2, <3>2, <4>1
    <3> QED BY <3>1, <3>2
  <2>5. /\ hist'["total"][u] = IF u \in obsDone' THEN 1 ELSE 0
        /\ hist'["execution"][u] <= hist'["total"][u]
    <3>1. hist["execution"][u] \in 0 .. Cap /\ hist["total"][u] \in 0 .. Cap
      BY <1>6, <1>9
    <3>2. CASE "total" \in names
      <4>1. hist["total"][u] = 0 /\ hist["execution"][u] = 0 /\ u \in obsDone'
        BY <1>5, <1>11, <2>2, <2>3, <3>1, <3>2 DEF Cap
      <4>2. hist'["total"][u] = 1
        BY <1>7, <1>9, <1>11, <3>2, <4>1 DEF Cap
      <4>3. hist'["execution"][u] \in {0, 1}
        BY <1>7, <1>9, <4>1 DEF Cap
      <4> QED BY <4>1, <4>2, <4>3
    <3>3. CASE "total" \notin names
      <4>1. "execution" \notin names /\ (u \in obsDone' <=> u \in obsDone)
        BY <1>5, <1>11, <2>3, <3>3
      <4>2. hist'["total"][u] = hist["total"][u] /\ hist'["execution"][u] = hist["execution"][u]
        BY <1>7, <1>9, <3>3, <4>1
      <4> QED BY <2>2, <4>1, <4>2
    <3> QED BY <3>2, <3>3
  <2>6. Once("wait", obsWait, u)' /\ Once("total", obsDone, u)'
    BY <2>4, <2>5 DEF Once
  <2>7. (HasStart(u) => u \in startCache)'
    BY <1>4, <2>1, <2>3 DEF MemoryOf
  <2> QED BY <1>1, <2>1, <2>5, <2>6, <2>7 DEF MemoryOf
<1> QED BY <1>10, <1>11

LEMMA SweepMemory ==
  ASSUME BaseInv, Sweep, NEW u \in Uids, MemoryOf(u)
  PROVE  MemoryOf(u)'
<1>1. /\ UNCHANGED <<job, snap>> /\ pc = "tas" /\ pc' = "sleep" /\ series' \subseteq series
      /\ hist' \in Counts
      /\ hist' = hist \/ (DOMAIN snap = {} /\ \A h \in Histograms, x \in Uids : hist'[h][x] = 0)
      /\ startCache' = startCache \intersect DOMAIN snap
      /\ obsWait' = obsWait \intersect DOMAIN snap
      /\ obsDone' = obsDone \intersect DOMAIN snap
  BY SweepMoves DEF cluster
<1>2. Over(u)' <=> Over(u)
  BY <1>1 DEF Over
<1>3. u \in Remembered => u \in DOMAIN snap \/ Over(u)
  BY <1>1 DEF MemoryOf, Scanned
<1>4. (HasStart(u) => u \in startCache \/ Over(u))'
  <2>1. HasStart(u)' => HasStart(u)
    BY <1>1 DEF HasStart
  <2> QED BY <1>1, <1>2, <1>3, <2>1 DEF MemoryOf, Remembered
<1>5. (u \in Remembered => job[u].life # "unborn" /\ (Scanned(u) => u \in DOMAIN snap \/ Over(u)))'
  BY <1>1 DEF MemoryOf, Remembered, Scanned
<1>6. Once("wait", obsWait, u)' /\ Once("total", obsDone, u)' /\ (hist["execution"][u] <= hist["total"][u])'
  <2>1. CASE hist' = hist
    <3>1. u \in obsWait \/ u \in obsDone => u \in DOMAIN snap \/ Over(u)
      BY <1>3 DEF Remembered
    <3> QED BY <1>1, <1>2, <2>1, <3>1 DEF MemoryOf, Once
  <2>2. CASE DOMAIN snap = {} /\ \A h \in Histograms, x \in Uids : hist'[h][x] = 0
    <3>1. u \notin obsWait' /\ u \notin obsDone'
      BY <1>1, <2>2
    <3>2. hist'["wait"][u] = 0 /\ hist'["total"][u] = 0 /\ hist'["execution"][u] = 0
      BY <2>2 DEF Histograms
    <3> QED BY <3>1, <3>2 DEF Once
  <2> QED BY <1>1, <2>1, <2>2
<1> QED BY <1>4, <1>5, <1>6 DEF MemoryOf

LEMMA NextMemoryInv == MemoryInv /\ [Next]_vars => MemoryInv'
<1> SUFFICES ASSUME MemoryInv, [Next]_vars PROVE MemoryInv'
  OBVIOUS
<1>1. BaseInv /\ BaseInv'
  BY NextBaseInv DEF MemoryInv
<1> SUFFICES ASSUME NEW u \in Uids, u \notin missed' PROVE MemoryOf(u)'
  BY <1>1 DEF MemoryInv
<1>2. missed \subseteq missed'
  <2>1. ListJobs \/ ListVolcano => missed \subseteq missed'
    BY DEF ListJobs, ListVolcano, List
  <2> QED BY <1>1, <2>1, OtherSteps DEF Sweep, EndProcess, Process, Tas, exporter
<1>3. MemoryOf(u)
  BY <1>2 DEF MemoryInv
<1>4. CASE Sweep
  BY <1>1, <1>3, <1>4, SweepMemory
<1>5. CASE ListJobs \/ ListVolcano
  BY <1>1, <1>3, <1>5, ListMemory
<1>6. ASSUME NEW v \in Uids, Process(v) PROVE MemoryOf(u)'
  BY <1>1, <1>3, <1>6, ProcessMemory
<1>7. CASE EndProcess \/ \E v \in Uids : Tas(v)
  <2>1. UNCHANGED <<job, snap, startCache, obsWait, obsDone, hist>>
        /\ pc \in {"process", "tas"} /\ (HasStart(u)' => HasStart(u))
    <3>1. CASE EndProcess
      BY <3>1 DEF EndProcess, cluster, memory, metrics, HasStart
    <3>2. ASSUME NEW v \in Uids, Tas(v)
          PROVE  /\ UNCHANGED <<job, snap, startCache, obsWait, obsDone, hist>>
                 /\ pc \in {"process", "tas"} /\ (HasStart(u)' => HasStart(u))
      BY <1>1, <3>2, TasMoves DEF cluster, memory, HasStart
    <3> QED BY <1>7, <3>1, <3>2
  <2>2. Over(u)' <=> Over(u)
    BY <2>1 DEF Over
  <2>3. Once("wait", obsWait, u)' /\ Once("total", obsDone, u)'
    BY <1>3, <2>1, <2>2 DEF MemoryOf, Once
  <2>4. (u \in Remembered => job[u].life # "unborn" /\ (Scanned(u) => u \in DOMAIN snap \/ Over(u)))'
    BY <1>3, <2>1, <2>2 DEF MemoryOf, Remembered, Scanned
  <2> QED BY <1>3, <2>1, <2>2, <2>3, <2>4 DEF MemoryOf
<1>8. CASE UNCHANGED <<exporter, cluster, whole>>
  BY <1>1, <1>3, <1>8, ClusterMemory DEF cluster
<1>9. CASE UNCHANGED exporter /\ \E v \in Uids : ClusterStep(v)
  BY <1>1, <1>3, <1>9, ClusterMemory, ClusterJobs DEF JobMoves
<1> QED BY <1>1, <1>4, <1>5, <1>6, <1>7, <1>8, <1>9, OtherSteps

(* A job that no failed list hid is observed at most once by each          *)
(* histogram, and the sets of observed uids say what the histograms hold.  *)
THEOREM CountedOnceAlways == Spec => []CountedOnce
<1>1. MemoryInv => CountedOnce
  <2> SUFFICES ASSUME MemoryInv, NEW u \in Uids \ missed
               PROVE  /\ \A h \in Histograms : hist[h][u] <= 1
                      /\ Sleeping /\ u \in Processed =>
                           /\ u \in obsWait <=> hist["wait"][u] = 1
                           /\ u \in obsDone <=> hist["total"][u] = 1
                           /\ hist["execution"][u] <= hist["total"][u]
    BY DEF CountedOnce
  <2>1. MemoryOf(u)
    BY DEF MemoryInv
  <2>2. \A h \in Histograms : hist[h][u] \in 0 .. Cap
    BY DEF MemoryInv, BaseInv, TypeOK
  <2>3. hist["wait"][u] <= 1 /\ hist["total"][u] <= 1
    BY <2>1 DEF MemoryOf, Once
  <2>4. hist["execution"][u] <= hist["total"][u]
    BY <2>1 DEF MemoryOf
  <2>5. hist["execution"][u] <= 1
    BY <2>2, <2>3, <2>4 DEF Histograms, Cap
  <2>6. \A h \in Histograms : hist[h][u] <= 1
    BY <2>3, <2>5 DEF Histograms
  <2>7. u \in Processed =>
          /\ u \in obsWait <=> hist["wait"][u] = 1
          /\ u \in obsDone <=> hist["total"][u] = 1
    BY <2>1 DEF MemoryOf, Once, Over, Processed
  <2> QED BY <2>4, <2>6, <2>7
<1> QED BY <1>1, InitMemoryInv, NextMemoryInv, PTL DEF Spec

(* A start that was exported is in the cache as long as the job is         *)
(* processed and no list failed to show it: the job's pods may go.         *)
THEOREM StartRememberedAlways == Spec => []StartRemembered
<1>1. MemoryInv => StartRemembered
  <2> SUFFICES ASSUME MemoryInv, NEW u \in Processed \ missed,
                      \E s \in series : s[1] = "start" /\ s[2] = u
               PROVE  u \in startCache
    BY DEF StartRemembered
  <2>1. u \in Uids /\ MemoryOf(u) /\ HasStart(u)
    BY DEF MemoryInv, BaseInv, TypeOK, Processed, HasStart
  <2> QED BY <2>1 DEF MemoryOf, Over, Processed
<1> QED BY <1>1, InitMemoryInv, NextMemoryInv, PTL DEF Spec

-----------------------------------------------------------------------------
(* No series outlives its job.                                             *)

LEMMA InitSweepInv == Init => SweepInv
<1> SUFFICES ASSUME Init PROVE SweepInv
  OBVIOUS
<1>1. DOMAIN snap = {} /\ labels = {} /\ prevLabels = {} /\ series = {}
  BY DEF Init
<1> QED BY <1>1, InitBaseInv DEF SweepInv, LabelsInv, SeriesInv

LEMMA SeriesTyped ==
  ASSUME BaseInv
  PROVE  /\ \A s \in series : /\ s[1] \in BaseMetrics \union CompletionMetrics
                              /\ s[2] \in Uids /\ s[4] \in Statuses
                              /\ s = <<s[1], s[2], s[3], s[4]>>
         /\ \A u \in DOMAIN snap : u \in Uids
BY DEF BaseInv, TypeOK

(* What SeriesInv says of one series.                                      *)
Known(s) ==
  /\ s[4] = "none" <=> s[1] \in BaseMetrics
  /\ TellsEnd(s)
  /\ ~OutOfReach(s) =>
       /\ s[3] = job[s[2]].queue
       /\ LabelOf(s) \in prevLabels \/ (pc \in {"process", "tas"} /\ s[2] \in DOMAIN snap)

LEMMA KnownSeries == SeriesInv <=> \A s \in series : Known(s)
BY DEF SeriesInv, Known

LEMMA KnownNext ==
  ASSUME \A s \in series' : Known(s)'
  PROVE  SeriesInv'
BY DEF SeriesInv, Known

LEMMA ClusterSweepInv ==
  ASSUME SweepInv, UNCHANGED exporter, \A u \in Uids : JobMoves(u),
         relabelled \subseteq relabelled', resumed \subseteq resumed'
  PROVE  LabelsInv' /\ SeriesInv'
<1>1. UNCHANGED <<pc, snap, todo, labels, prevLabels, series>>
  BY DEF exporter, metrics, previous
<1>2. BaseInv /\ LabelsInv /\ SeriesInv
  BY DEF SweepInv
<1>3. LabelsInv'
  BY <1>1, <1>2, SeriesTyped DEF LabelsInv, IsProcessed, JobMoves
<1>4. ASSUME NEW s \in series PROVE Known(s)'
  <2>1. Known(s) /\ s[2] \in Uids /\ JobMoves(s[2])
    BY <1>2, SeriesTyped, KnownSeries
  <2>2. TellsEnd(s)'
    <3> SUFFICES ASSUME s[4] # "none", ~(s[2] \in resumed' /\ s[4] = "Failed")
                 PROVE  /\ s[4] = StatusOf(s[2])'
                        /\ s[2] \in DOMAIN snap' => snap'[s[2]].final = s[4]
      BY DEF TellsEnd
    <3>1. s[4] = StatusOf(s[2]) /\ (s[2] \in DOMAIN snap => snap[s[2]].final = s[4])
      BY <2>1 DEF Known, TellsEnd
    <3>2. StatusOf(s[2])' = StatusOf(s[2])
      BY <2>1, <3>1, StatusMoves
    <3> QED BY <1>1, <3>1, <3>2
  <2>3. ASSUME ~OutOfReach(s)' PROVE ~OutOfReach(s) /\ s[2] \notin relabelled'
    BY <2>3 DEF OutOfReach
  <2>4. job'[s[2]].queue = job[s[2]].queue \/ s[2] \in relabelled'
    BY <2>1 DEF JobMoves
  <2>5. LabelOf(s)' = LabelOf(s)
    BY DEF LabelOf
  <2> QED BY <1>1, <2>1, <2>2, <2>3, <2>4, <2>5 DEF Known
<1> QED BY <1>1, <1>3, <1>4, KnownNext

LEMMA ListSweepInv ==
  ASSUME SweepInv, NEW kind \in SUBSET Uids, NEW from \in {"sleep", "volcano"},
         NEW to \in {"volcano", "process"}, List(kind, from, to)
  PROVE  LabelsInv' /\ SeriesInv'
<1>1. BaseInv /\ LabelsInv /\ SeriesInv
  BY DEF SweepInv
<1>2. /\ UNCHANGED <<job, relabelled, resumed, prevLabels, series>>
      /\ pc \in {"sleep", "volcano"} /\ pc' \in {"volcano", "process"} /\ todo' = DOMAIN snap'
  BY <1>1, ListMoves DEF cluster, previous, metrics
<1>3. \A l \in labels' : l[1] \in DOMAIN snap'
  <2>1. CASE from = "sleep"
    BY <1>1, <2>1, ListMoves
  <2>2. CASE from # "sleep"
    <3>1. labels' = labels
      BY <1>1, <2>2, ListMoves
    <3>2. \A u \in DOMAIN snap : u \in DOMAIN snap'
      BY <1>1, <2>2, ListMoves
    <3> QED BY <1>1, <3>1, <3>2 DEF LabelsInv
  <2> QED BY <2>1, <2>2
<1>4. ASSUME NEW u \in DOMAIN snap'
      PROVE  /\ u \notin relabelled => snap'[u].queue = job[u].queue
             /\ snap'[u].final = StatusOf(u) \/ (u \in DOMAIN snap /\ snap'[u] = snap[u])
  <2>1. u \in Uids
    BY <1>1, ListMoves
  <2>2. CASE snap'[u] = Object(u)
    BY <1>1, <2>1, <2>2, ObjectTyped
  <2>3. CASE u \in DOMAIN snap /\ snap'[u] = snap[u]
    BY <1>1, <2>3 DEF LabelsInv
  <2> QED BY <1>1, <2>2, <2>3, ListMoves
<1>5. LabelsInv'
  BY <1>2, <1>3, <1>4 DEF LabelsInv, IsProcessed
<1>6. ASSUME NEW s \in series PROVE Known(s)'
  <2>1. Known(s) /\ StatusOf(s[2])' = StatusOf(s[2]) /\ LabelOf(s)' = LabelOf(s)
    BY <1>1, <1>2, KnownSeries DEF StatusOf, LabelOf
  <2>2. TellsEnd(s)'
    BY <1>2, <1>4, <2>1 DEF Known, TellsEnd
  <2>3. OutOfReach(s)' <=> OutOfReach(s)
    BY <1>2 DEF OutOfReach
  <2>4. ~OutOfReach(s) => s[3] = job[s[2]].queue /\ LabelOf(s) \in prevLabels
    BY <1>2, <2>1 DEF Known
  <2> QED BY <1>2, <2>1, <2>2, <2>3, <2>4 DEF Known
<1> QED BY <1>2, <1>5, <1>6, KnownNext

(* The series and labels that one call of process_job sets.                *)
LEMMA ExportLabels ==
  ASSUME NEW v, NEW known, NEW nodes, NEW topo, ExportOf(v, known, nodes, topo)
  PROVE  LET q == snap[v].queue
             status == snap[v].final IN
         /\ labels' = labels \union {<<v, q, "none">>, <<v, q, status>>}
         /\ \A s \in series' : \/ s \in series
                               \/ /\ s[2] = v /\ s[3] = q
                                  /\ s[4] = "none" <=> s[1] \in BaseMetrics
                                  /\ s[4] # "none" => s[4] = status
<1> DEFINE q == snap[v].queue
           status == snap[v].final
<1>1. labels' = labels \union {<<v, q, "none">>, <<v, q, status>>}
  BY DEF ExportOf, Export
<1>2. \A s \in series' :
        \/ s \in series
        \/ \E m \in {"created", "phase", "start", "topo"} : s = <<m, v, q, "none">>
        \/ \E m \in {"completion", "total", "execution"} : s = <<m, v, q, status>> /\ status # "none"
  BY DEF ExportOf, Export, If
<1>3. \A m \in {"created", "phase", "start", "topo"} : m \in BaseMetrics
  BY DEF BaseMetrics
<1>4. \A m \in {"completion", "total", "execution"} : m \notin BaseMetrics
  BY DEF BaseMetrics
<1> HIDE DEF q, status
<1>5. ASSUME NEW s \in series', s \notin series
      PROVE  /\ s[2] = v /\ s[3] = q
             /\ s[4] = "none" <=> s[1] \in BaseMetrics
             /\ s[4] # "none" => s[4] = status
  BY <1>2, <1>3, <1>4, <1>5
<1> QED BY <1>1, <1>5 DEF q, status

LEMMA ProcessSweepInv ==
  ASSUME SweepInv, NEW v \in Uids, Process(v)
  PROVE  LabelsInv' /\ SeriesInv'
<1>1. BaseInv /\ LabelsInv /\ SeriesInv
  BY DEF SweepInv
<1>2. /\ UNCHANGED <<job, relabelled, resumed, prevLabels, snap, pc>>
      /\ pc = "process" /\ todo' = todo \ {v} /\ v \in DOMAIN snap
  BY <1>1, ProcessMoves DEF cluster, previous
<1>3. PICK known, topo \in BOOLEAN, nodes \in {{}, NodesOf(v)} : ExportOf(v, known, nodes, topo)
  BY <1>1, ProcessMoves
<1> DEFINE q == snap[v].queue
           status == snap[v].final
<1>4. /\ labels' = labels \union {<<v, q, "none">>, <<v, q, status>>}
      /\ \A s \in series' : \/ s \in series
                            \/ /\ s[2] = v /\ s[3] = q
                               /\ s[4] = "none" <=> s[1] \in BaseMetrics
                               /\ s[4] # "none" => s[4] = status
  BY <1>3, ExportLabels
<1>5. LabelsInv'
  <2>1. labels \subseteq labels' /\ \A l \in labels' : l \in labels \/ l[1] = v
    <3>1. \A b : <<v, q, b>>[1] = v
      OBVIOUS
    <3> QED BY <1>4, <3>1
  <2>2. \A l \in labels' : l[1] \in DOMAIN snap
    BY <1>1, <1>2, <2>1 DEF LabelsInv
  <2>3. {<<v, q, "none">>, <<v, q, status>>} \subseteq labels'
    BY <1>4
  <2>4. \A u \in DOMAIN snap : IsProcessed(u)' =>
          {<<u, snap[u].queue, "none">>, <<u, snap[u].queue, snap[u].final>>} \subseteq labels'
    <3> SUFFICES ASSUME NEW u \in DOMAIN snap, IsProcessed(u)'
                 PROVE  {<<u, snap[u].queue, "none">>, <<u, snap[u].queue, snap[u].final>>}
                          \subseteq labels'
      OBVIOUS
    <3>1. CASE u = v
      BY <2>3, <3>1
    <3>2. CASE u # v
      <4>1. IsProcessed(u)
        BY <1>2, <3>2 DEF IsProcessed
      <4> QED BY <1>1, <2>1, <4>1 DEF LabelsInv
    <3> QED BY <3>1, <3>2
  <2> QED BY <1>1, <1>2, <2>2, <2>4 DEF LabelsInv
<1>6. ASSUME NEW s \in series' PROVE Known(s)'
  <2>1. /\ LabelOf(s)' = LabelOf(s)
        /\ StatusOf(s[2])' = StatusOf(s[2])
        /\ OutOfReach(s)' <=> OutOfReach(s)
    BY <1>2 DEF LabelOf, StatusOf, OutOfReach
  <2>2. TellsEnd(s)' <=> TellsEnd(s)
    BY <1>2, <2>1 DEF TellsEnd
  <2>3. CASE s \in series
    <3>1. Known(s)
      BY <1>1, <2>3, KnownSeries
    <3> QED BY <1>2, <2>1, <2>2, <3>1 DEF Known
  <2>4. CASE /\ s[2] = v /\ s[3] = q
             /\ s[4] = "none" <=> s[1] \in BaseMetrics
             /\ s[4] # "none" => s[4] = status
    <3>1. TellsEnd(s)
      BY <1>1, <1>2, <2>4 DEF TellsEnd, BaseInv, LifeInv
    <3>2. ~OutOfReach(s) => s[3] = job[s[2]].queue
      BY <1>1, <1>2, <2>4 DEF OutOfReach, LabelsInv
    <3> QED BY <1>2, <2>1, <2>2, <2>4, <3>1, <3>2 DEF Known
  <2> QED BY <1>4, <2>3, <2>4
<1> QED BY <1>5, <1>6, KnownNext

LEMMA TasSweepInv ==
  ASSUME SweepInv, EndProcess \/ \E v \in Uids : Tas(v)
  PROVE  LabelsInv' /\ SeriesInv'
<1>1. BaseInv /\ LabelsInv /\ SeriesInv
  BY DEF SweepInv
<1>2. UNCHANGED <<job, relabelled, resumed, prevLabels, snap, labels>>
  <2>1. CASE EndProcess
    BY <2>1 DEF EndProcess, cluster, previous
  <2>2. ASSUME NEW v \in Uids, Tas(v)
        PROVE  UNCHANGED <<job, relabelled, resumed, prevLabels, snap, labels>>
    BY <1>1, <2>2, TasMoves DEF cluster, previous
  <2> QED BY <2>1, <2>2
<1>3. \A s : /\ LabelOf(s)' = LabelOf(s)
             /\ TellsEnd(s)' <=> TellsEnd(s)
             /\ OutOfReach(s)' <=> OutOfReach(s)
  BY <1>2 DEF LabelOf, TellsEnd, StatusOf, OutOfReach
<1>4. CASE EndProcess
  <2>1. series' = series /\ pc = "process" /\ pc' = "tas" /\ todo = {}
    BY <1>4 DEF EndProcess, metrics
  <2>2. \A u \in DOMAIN snap : IsProcessed(u)
    BY <2>1 DEF IsProcessed
  <2>3. LabelsInv'
    BY <1>1, <1>2, <2>1, <2>2 DEF LabelsInv
  <2>4. ASSUME NEW s \in series' PROVE Known(s)'
    <3>1. Known(s)
      BY <1>1, <2>1, KnownSeries
    <3> QED BY <1>2, <1>3, <2>1, <3>1 DEF Known
  <2> QED BY <2>3, <2>4, KnownNext
<1>5. ASSUME NEW v \in Uids, Tas(v) PROVE LabelsInv' /\ SeriesInv'
  <2>1. /\ pc = "tas" /\ pc' = "tas" /\ v \in DOMAIN snap
        /\ series' \in {series, series \union {<<"tas", v, snap[v].queue, "none">>}}
    BY <1>1, <1>5, TasMoves
  <2>2. LabelsInv'
    BY <1>1, <1>2, <2>1 DEF LabelsInv, IsProcessed
  <2>3. ASSUME NEW s \in series' PROVE Known(s)'
    <3>1. CASE s \in series
      <4>1. Known(s)
        BY <1>1, <3>1, KnownSeries
      <4> QED BY <1>2, <1>3, <2>1, <4>1 DEF Known
    <3>2. CASE s \notin series
      <4>1. s[1] = "tas" /\ s[2] = v /\ s[3] = snap[v].queue /\ s[4] = "none"
        BY <2>1, <3>2
      <4>2. TellsEnd(s) /\ s[1] \in BaseMetrics
        BY <4>1 DEF TellsEnd, BaseMetrics
      <4>3. ~OutOfReach(s) => s[3] = job[s[2]].queue
        BY <1>1, <2>1, <4>1 DEF OutOfReach, LabelsInv
      <4> QED BY <1>2, <1>3, <2>1, <4>1, <4>2, <4>3 DEF Known
    <3> QED BY <3>1, <3>2
  <2> QED BY <2>2, <2>3, KnownNext
<1> QED BY <1>4, <1>5

(* The series in reach that are known under the labels of the cycle before *)
(* are all removed with their job: where the removal stops at an absent    *)
(* series, it has come as far as them.                                     *)
LEMMA RemovesKnown ==
  ASSUME BaseInv, NEW s \in series, ~OutOfReach(s), s[4] = "none" <=> s[1] \in BaseMetrics,
         s[2] \notin DOMAIN snap, LabelOf(s) \in prevLabels
  PROVE  s \in Removed
<1> DEFINE l == LabelOf(s)
<1>1. l[1] = s[2] /\ l[2] = s[3] /\ l[3] = s[4]
  BY DEF LabelOf
<1>2. s[1] \in BaseMetrics \union CompletionMetrics /\ s = <<s[1], s[2], s[3], s[4]>>
  BY SeriesTyped
<1>3. l \in {k \in prevLabels : k[1] \notin DOMAIN snap}
  BY <1>1
<1>4. RemoveRaises => s[1] \in {"created", "start", "completion", "execution"}
  BY <1>2 DEF OutOfReach, BaseMetrics, CompletionMetrics
<1>5. CASE s[4] = "none"
  <2>1. s \in BaseRemoved(s[2], s[3])
    <3>1. s \in {<<m, s[2], s[3], "none">> : m \in BaseMetrics}
      BY <1>2, <1>5
    <3>2. CASE RemoveRaises /\ <<"start", s[2], s[3], "none">> \notin series
      <4>1. s[1] = "created"
        BY <1>2, <1>4, <1>5, <3>2 DEF BaseMetrics
      <4> QED BY <1>2, <1>5, <3>2, <4>1 DEF BaseRemoved
    <3> QED BY <3>1, <3>2 DEF BaseRemoved
  <2> QED BY <1>1, <1>3, <1>5, <2>1 DEF Removed
<1>6. CASE s[4] # "none"
  <2>1. s \in CompletionRemoved(s[2], s[3], s[4])
    <3>1. s \in {<<m, s[2], s[3], s[4]>> : m \in CompletionMetrics}
      BY <1>2, <1>6
    <3>2. CASE RemoveRaises /\ <<"execution", s[2], s[3], s[4]>> \notin series
      <4>1. s[1] = "completion"
        BY <1>2, <1>4, <1>6, <3>2 DEF BaseMetrics, CompletionMetrics
      <4> QED BY <1>2, <3>2, <4>1 DEF CompletionRemoved
    <3> QED BY <3>1, <3>2 DEF CompletionRemoved
  <2> QED BY <1>1, <1>3, <1>6, <2>1 DEF Removed
<1> QED BY <1>5, <1>6

LEMMA SweepSweepInv ==
  ASSUME SweepInv, Sweep
  PROVE  LabelsInv' /\ SeriesInv'
<1>1. BaseInv /\ LabelsInv /\ SeriesInv
  BY DEF SweepInv
<1>2. /\ UNCHANGED <<job, relabelled, resumed, snap, labels, todo>>
      /\ pc = "tas" /\ pc' = "sleep" /\ prevLabels' = labels /\ series' = series \ Removed
  BY DEF Sweep, cluster
<1>3. LabelsInv'
  BY <1>1, <1>2 DEF LabelsInv, IsProcessed
<1>4. ASSUME NEW s \in series' PROVE Known(s)'
  <2>1. s \in series /\ s \notin Removed /\ Known(s)
    BY <1>1, <1>2, KnownSeries
  <2>2. /\ LabelOf(s)' = LabelOf(s)
        /\ TellsEnd(s)' <=> TellsEnd(s)
        /\ OutOfReach(s)' <=> OutOfReach(s)
    BY <1>2 DEF LabelOf, TellsEnd, StatusOf, OutOfReach
  <2>3. ASSUME ~OutOfReach(s) PROVE s[3] = job[s[2]].queue /\ LabelOf(s) \in labels
    <3>1. s[3] = job[s[2]].queue
      BY <2>1, <2>3 DEF Known
    <3>2. s[2] \in DOMAIN snap
      <4>1. LabelOf(s) \in prevLabels \/ s[2] \in DOMAIN snap
        BY <2>1, <2>3 DEF Known
      <4>2. s[4] = "none" <=> s[1] \in BaseMetrics
        BY <2>1 DEF Known
      <4> QED BY <1>1, <2>1, <2>3, <4>1, <4>2, RemovesKnown
    <3>3. snap[s[2]].queue = s[3] /\ IsProcessed(s[2])
      BY <1>1, <1>2, <2>3, <3>1, <3>2 DEF LabelsInv, IsProcessed, OutOfReach
    <3>4. s[4] # "none" => s[4] = snap[s[2]].final
      BY <2>1, <2>3, <3>2 DEF Known, TellsEnd, OutOfReach
    <3>5. {<<s[2], s[3], "none">>, <<s[2], s[3], snap[s[2]].final>>} \subseteq labels
      BY <1>1, <3>2, <3>3 DEF LabelsInv
    <3>6. LabelOf(s) = <<s[2], s[3], s[4]>>
      BY DEF LabelOf
    <3> QED BY <3>1, <3>4, <3>5, <3>6
  <2> QED BY <1>2, <2>1, <2>2, <2>3 DEF Known
<1> QED BY <1>3, <1>4, KnownNext

LEMMA NextSweepInv == SweepInv /\ [Next]_vars => SweepInv'
<1> SUFFICES ASSUME SweepInv, [Next]_vars PROVE SweepInv'
  OBVIOUS
<1>1. BaseInv /\ BaseInv'
  BY NextBaseInv DEF SweepInv
<1> SUFFICES LabelsInv' /\ SeriesInv'
  BY <1>1 DEF SweepInv
<1>2. CASE Sweep
  BY <1>2, SweepSweepInv
<1>3. CASE ListJobs \/ ListVolcano
  BY <1>3, ListSweepInv DEF ListJobs, ListVolcano, Uids
<1>4. ASSUME NEW v \in Uids, Process(v) PROVE LabelsInv' /\ SeriesInv'
  BY <1>4, ProcessSweepInv
<1>5. CASE EndProcess \/ \E v \in Uids : Tas(v)
  BY <1>5, TasSweepInv
<1>6. CASE UNCHANGED <<exporter, cluster, whole>>
  <2>1. \A u \in Uids : JobMoves(u)
    BY <1>1, <1>6, Strings DEF cluster, JobMoves, BatchJob, BaseInv, LifeInv
  <2> QED BY <1>6, <2>1, ClusterSweepInv DEF cluster
<1>7. CASE UNCHANGED exporter /\ \E v \in Uids : ClusterStep(v)
  BY <1>1, <1>7, ClusterSweepInv, ClusterJobs, ClusterRest
<1> QED BY <1>1, <1>2, <1>3, <1>4, <1>5, <1>6, <1>7, OtherSteps

(* After each cycle a series belongs to a job that the cycle processed,    *)
(* but for those that OutOfReach spells out: the job's queue label         *)
(* changed, the job was aborted and resumed, or the removal stopped at an  *)
(* absent series before it came to this one.  Whether Gauge.remove raises  *)
(* there is left open: the version of the library is not pinned            *)
(* (exporter.py: the removal of the jobs that are gone).                   *)
THEOREM NoStaleSeriesAlways == Spec => []NoStaleSeries
<1>1. SweepInv => NoStaleSeries
  <2> SUFFICES ASSUME SweepInv, pc = "sleep", NEW s \in series, ~OutOfReach(s)
               PROVE  s[2] \in DOMAIN snap
    BY DEF NoStaleSeries, Sleeping, Processed
  <2>1. LabelOf(s) \in labels
    BY DEF SweepInv, SeriesInv, LabelsInv
  <2> QED BY <2>1 DEF SweepInv, LabelsInv, LabelOf
<1> QED BY <1>1, InitSweepInv, NextSweepInv, PTL DEF Spec

-----------------------------------------------------------------------------
(* The verdict on a topology constraint and the published distance.        *)

LEMMA WithinLevels ==
  ASSUME NEW u, ConstraintLevel(u) \in Levels
  PROVE  /\ Within(u) \in Nat
         /\ ConstraintLevel(u) = "block" => Within(u) = 2
         /\ ConstraintLevel(u) = "spine" => Within(u) = 4
         /\ ConstraintLevel(u) = "datacenter" => Within(u) = 6
BY DEF Within, Levels

LEMMA NotMet == {0} # {1}
<1>1. 0 \in {0} /\ 0 \notin {1}
  OBVIOUS
<1> QED BY <1>1, Zenon

(* A verdict that the constraint is met: the nodes of the placed pods have *)
(* one label at its level.                                                 *)
LEMMA MetVerdict ==
  ASSUME BaseInv, NEW u \in Uids, Verdicts(u) = {1}
  PROVE  ConstraintLevel(u) \in Levels /\ SameDomain(u)
<1> DEFINE domains == {DomainFor(u, n) : n \in NodesOf(u)}
           f == [n \in NodesOf(u) |-> DomainFor(u, n)]
<1>1. f \in Surjection(NodesOf(u), domains)
  BY DEF Surjection
<1>2. IsFiniteSet(domains)
  BY <1>1, NodesTyped, FS_Surjection
<1>3. domains # {} /\ "" \notin domains /\ Cardinality(domains) = 1
  <2>1. Verdicts(u) = IF domains = {} THEN {Unsettled}
                      ELSE {IF "" \notin domains /\ Cardinality(domains) = 1 THEN 1 ELSE 0}
    BY DEF Verdicts
  <2> HIDE DEF domains
  <2>2. CASE domains = {}
    <3>1. Unsettled = 1
      BY <2>1, <2>2
    <3>2. FALSE
      BY <3>1 DEF Unsettled
    <3> QED BY <3>2
  <2>3. CASE domains # {}
    <3> SUFFICES ASSUME ~("" \notin domains /\ Cardinality(domains) = 1) PROVE FALSE
      BY <2>3
    <3>1. Verdicts(u) = {0}
      BY <2>1, <2>3
    <3> QED BY <3>1, NotMet
  <2> QED BY <2>2, <2>3
<1>4. PICK d : domains = {d}
  BY <1>2, <1>3, FS_Singleton
<1>5. \A n \in NodesOf(u) : DomainFor(u, n) = d /\ d # ""
  BY <1>3, <1>4
<1>6. PICK n \in NodesOf(u) : TRUE
  BY <1>3
<1>7. ConstraintLevel(u) \in Levels
  BY <1>5, <1>6 DEF DomainFor
<1>8. \A p \in Placed(u) : pods[u][p] \in NodesOf(u)
  BY <1>6 DEF NodesOf
<1>9. SameDomain(u)
  BY <1>5, <1>8 DEF SameDomain
<1> QED BY <1>7, <1>9

(* Pods that share the level's label are within the level's distance.      *)
LEMMA MetBoundsDistance ==
  ASSUME BaseInv, NEW u \in Uids, ConstraintLevel(u) \in Levels, SameDomain(u),
         NEW nodes \in {{}, NodesOf(u)}
  PROVE  Distance(nodes) <= Within(u)
<1>1. IsFiniteSet(nodes)
  BY NodesTyped, FS_EmptySet
<1>2. ASSUME NEW a \in nodes, NEW b \in nodes, a # b
      PROVE  Hops(a, b) <= Within(u)
  <2>1. /\ a \in Nodes /\ b \in Nodes
        /\ DomainFor(u, a) = DomainFor(u, b) /\ DomainFor(u, a) # ""
    <3>1. a \in NodesOf(u) /\ b \in NodesOf(u)
      BY <1>2
    <3>2. PICK p \in Placed(u) : a \in Nodes /\ a = pods[u][p]
      BY <3>1, NodesTyped
    <3>3. PICK r \in Placed(u) : b \in Nodes /\ b = pods[u][r]
      BY <3>1, NodesTyped
    <3> QED BY <3>2, <3>3 DEF SameDomain
  <2> DEFINE level == ConstraintLevel(u)
  <2>2. DomainAt[a][level] = DomainAt[b][level] /\ DomainAt[a][level] # ""
    BY <2>1 DEF DomainFor
  <2>3. Hops(a, b) \in {2, 4, 6}
    BY HopsTyped
  <2>4. CASE level = "hostname"
    <3>1. DomainAt[a]["hostname"] = DomainAt[b]["hostname"] /\ DomainAt[b]["hostname"] # ""
      BY <2>2, <2>4
    <3> QED BY <1>2, <2>1, <3>1, TopologyAssumption
  <2>5. CASE level = "block"
    <3>1. Hops(a, b) = 2
      BY <2>2, <2>5, HopsTyped
    <3> QED BY <2>5, <3>1, WithinLevels
  <2>6. CASE level = "spine"
    <3>1. DomainAt[a]["spine"] # "" /\ DomainAt[a]["spine"] = DomainAt[b]["spine"]
      BY <2>2, <2>6
    <3>2. Hops(a, b) \in {2, 4}
      BY <3>1, HopsTyped
    <3> QED BY <2>6, <3>2, WithinLevels
  <2>7. CASE level = "datacenter"
    BY <2>3, <2>7, WithinLevels
  <2> QED BY <2>4, <2>5, <2>6, <2>7 DEF Levels
<1> QED BY <1>1, <1>2, WithinLevels, DistanceBound

LEMMA InitVerdictInv == Init => VerdictInv
<1> SUFFICES ASSUME Init PROVE VerdictInv
  OBVIOUS
<1>1. \A u \in Uids : dist[u] = 0 /\ whole[u] = FALSE
  BY DEF Init
<1> QED BY <1>1, InitBaseInv DEF VerdictInv, MetVerdicts, EndedDistances

(* Once all pods of a job were placed, they stay where they are or go.     *)
LEMMA PodsStay ==
  ASSUME BaseInv, NEW v \in Uids, ClusterStep(v), NEW u \in Uids \ resumed', MetOn(u), whole'[u]
  PROVE  \/ pods'[u] = pods[u]
         \/ pods'[u] = NoPods /\ (job'[u].life = "deleted" \/ job'[u].final # "none")
<1>1. pods \in [Uids -> PodStates] /\ job \in [Uids -> JobStates] /\ whole \in [Uids -> BOOLEAN]
  BY DEF BaseInv, TypeOK, PodStates, JobStates
<1>2. CASE u # v
  <2>1. pods' = pods \/ \E x : pods' = [pods EXCEPT ![v] = x]
    <3>1. ASSUME NEW p \in Pods, PodStep(v, p)
          PROVE \E x : pods' = [pods EXCEPT ![v] = x]
      <4>1. PICK to : pods' = [pods EXCEPT ![v][p] = to]
        BY <3>1 DEF PodStep
      <4>2. pods' = [pods EXCEPT ![v] = [pods[v] EXCEPT ![p] = to]]
        BY <1>1, <4>1
      <4> QED BY <4>2
    <3> QED BY <3>1 DEF ClusterStep, Submit, PodEnds, Finish, PodsGone, Relabel, Delete,
                        Kill, Killed, Resume
  <2> QED BY <1>1, <1>2, <2>1
<1>3. CASE u = v
  <2>1. ASSUME NEW p \in Pods, PodStep(v, p) PROVE FALSE
    <3>1. p \in PodsOf[u] /\ pods[u][p] \notin Nodes /\ Alive(u)
      BY <1>3, <2>1 DEF PodStep
    <3>2. Placed(u) = PodsOf[u]
      BY <3>1 DEF MetOn, Alive
    <3> QED BY <3>1, <3>2 DEF Placed
  <2>2. CASE PodEnds(v)
    <3>1. whole'[v] => v \in K8sJobs
      <4>1. whole' = [whole EXCEPT ![v] = @ /\ v \in K8sJobs]
        BY <2>2 DEF PodEnds
      <4> QED BY <1>1, <4>1
    <3> QED BY <1>3, <2>2, <3>1, Strings DEF PodEnds
  <2>3. CASE PodsGone(v)
    <3>1. pods'[v] = NoPods /\ job' = job /\ job[v].final # "none"
      BY <1>1, <2>3 DEF PodsGone
    <3> QED BY <1>3, <3>1
  <2>4. CASE Delete(v)
    <3>1. pods'[v] = NoPods /\ job'[v].life = "deleted"
      BY <1>1, <2>4 DEF Delete, JobStates
    <3> QED BY <1>3, <3>1
  <2>5. CASE Killed(v)
    <3>1. pods'[v] = NoPods
      BY <1>1, <2>5 DEF Killed
    <3>2. PICK f \in {"Aborted", "Terminated"} : job' = [job EXCEPT ![v].final = f]
      BY <2>5 DEF Killed
    <3>3. job'[v].final # "none"
      BY <1>1, <3>2 DEF JobStates
    <3> QED BY <1>3, <3>1, <3>3
  <2> QED BY <2>1, <2>2, <2>3, <2>4, <2>5
          DEF ClusterStep, Submit, Finish, Relabel, Kill, Resume
<1> QED BY <1>2, <1>3

LEMMA ClusterVerdictInv ==
  ASSUME VerdictInv, NEW v \in Uids, ClusterStep(v)
  PROVE  MetVerdicts' /\ EndedDistances'
<1>1. BaseInv
  BY DEF VerdictInv
<1>2. /\ UNCHANGED <<tas, snap, dist>> /\ \A u \in Uids : whole'[u] => whole[u]
      /\ resumed \subseteq resumed'
  BY <1>1, ClusterRest DEF exporter, metrics
<1>3. \A u \in Uids : JobMoves(u)
  BY <1>1, ClusterJobs
<1>4. ASSUME NEW u \in Uids \ resumed', tas[u] = 1, whole'[u] PROVE MetOn(u)'
  <2>1. MetOn(u)
    BY <1>2, <1>4 DEF VerdictInv, MetVerdicts
  <2>2. \/ pods'[u] = pods[u]
        \/ pods'[u] = NoPods /\ (job'[u].life = "deleted" \/ job'[u].final # "none")
    BY <1>1, <1>4, <2>1, PodsStay
  <2>3. dist'[u] <= Within(u)
    BY <1>2, <2>1 DEF MetOn
  <2>4. CASE pods'[u] = pods[u]
    <3>1. Placed(u)' = Placed(u)
      BY <2>4 DEF Placed
    <3>2. SameDomain(u)'
      BY <2>1, <2>4, <3>1 DEF MetOn, SameDomain
    <3>3. (Placed(u) = PodsOf[u] \/ job[u].life = "deleted" \/ job[u].final # "none")'
      BY <1>3, <2>1, <3>1 DEF MetOn, JobMoves
    <3> QED BY <2>1, <2>3, <3>2, <3>3 DEF MetOn
  <2>5. CASE pods'[u] = NoPods /\ (job'[u].life = "deleted" \/ job'[u].final # "none")
    <3>1. Placed(u)' = {}
      <4>1. \A p \in PodsOf[u] : NoPods[p] \notin Nodes
        <5>1. PodsOf[u] \subseteq Pods
          BY DEF Pods
        <5> QED BY <5>1, TopologyAssumption DEF NoPods
      <4> QED BY <2>5, <4>1 DEF Placed
    <3>2. SameDomain(u)'
      BY <3>1 DEF SameDomain
    <3> QED BY <2>1, <2>3, <2>5, <3>2 DEF MetOn
  <2> QED BY <2>2, <2>4, <2>5
<1>5. EndedDistances'
  <2> SUFFICES ASSUME NEW u \in Uids \ resumed', dist'[u] # 0
               PROVE  /\ job'[u].final # "none"
                      /\ u \in DOMAIN snap' => snap'[u].phase \in Terminal
    BY DEF EndedDistances
  <2>1. job[u].final # "none" /\ (u \in DOMAIN snap => snap[u].phase \in Terminal)
    BY <1>2 DEF VerdictInv, EndedDistances
  <2>2. JobMoves(u)
    BY <1>3
  <2> QED BY <1>2, <2>1, <2>2 DEF JobMoves
<1> QED BY <1>2, <1>4, <1>5 DEF MetVerdicts

(* MetOn only depends on the cluster and on the published distance.        *)
LEMMA MetKept ==
  ASSUME NEW u \in Uids, MetOn(u), UNCHANGED <<job, pods>>, dist'[u] <= Within(u)
  PROVE  MetOn(u)'
<1>1. Placed(u)' = Placed(u)
  BY DEF Placed
<1>2. SameDomain(u)'
  BY <1>1 DEF MetOn, SameDomain
<1> QED BY <1>1, <1>2 DEF MetOn

LEMMA ListVerdictInv ==
  ASSUME VerdictInv, NEW kind \in SUBSET Uids, NEW from, NEW to, List(kind, from, to)
  PROVE  MetVerdicts' /\ EndedDistances'
<1>1. BaseInv
  BY DEF VerdictInv
<1>2. UNCHANGED <<job, pods, resumed, tas, whole, dist>>
  BY <1>1, ListMoves DEF cluster, metrics
<1>3. MetVerdicts'
  <2> SUFFICES ASSUME NEW u \in Uids \ resumed, tas[u] = 1, whole[u] PROVE MetOn(u)'
    BY <1>2 DEF MetVerdicts
  <2>1. MetOn(u) /\ dist'[u] <= Within(u)
    BY <1>2 DEF VerdictInv, MetVerdicts, MetOn
  <2> QED BY <1>2, <2>1, MetKept
<1>4. ASSUME NEW u \in Uids \ resumed, dist[u] # 0
      PROVE  job[u].final # "none" /\ (u \in DOMAIN snap' => snap'[u].phase \in Terminal)
  <2> SUFFICES ASSUME u \in DOMAIN snap' PROVE snap'[u].phase \in Terminal
    BY <1>4 DEF VerdictInv, EndedDistances
  <2>1. job[u].final # "none" /\ (u \in DOMAIN snap => snap[u].phase \in Terminal)
    BY <1>4 DEF VerdictInv, EndedDistances
  <2>2. snap'[u] = Object(u) \/ (u \in DOMAIN snap /\ snap'[u] = snap[u])
    BY <1>1, <1>4, ListMoves
  <2> QED BY <1>1, <2>1, <2>2, ObjectTyped
<1> QED BY <1>2, <1>3, <1>4 DEF EndedDistances

LEMMA ProcessVerdictInv ==
  ASSUME VerdictInv, NEW v \in Uids, Process(v)
  PROVE  MetVerdicts' /\ EndedDistances'
<1>1. BaseInv /\ dist \in [Uids -> {0, 2, 4, 6}]
  BY DEF VerdictInv, BaseInv, TypeOK
<1>2. UNCHANGED <<job, pods, resumed, tas, whole, snap>> /\ v \in DOMAIN snap
  BY <1>1, ProcessMoves DEF cluster
<1>3. PICK known, topo \in BOOLEAN, nodes \in {{}, NodesOf(v)} : ExportOf(v, known, nodes, topo)
  BY <1>1, ProcessMoves
<1>4. dist' = dist \/ (snap[v].final # "none" /\ dist' = [dist EXCEPT ![v] = Distance(nodes)])
  BY <1>3 DEF ExportOf, Export
<1>5. \A u \in Uids : \/ dist'[u] = dist[u]
                      \/ u = v /\ snap[v].final # "none" /\ dist'[u] = Distance(nodes)
  BY <1>1, <1>4
<1>6. MetVerdicts'
  <2> SUFFICES ASSUME NEW u \in Uids \ resumed, tas[u] = 1, whole[u] PROVE MetOn(u)'
    BY <1>2 DEF MetVerdicts
  <2>1. MetOn(u)
    BY DEF VerdictInv, MetVerdicts
  <2>2. dist'[u] <= Within(u)
    <3>1. u = v => Distance(nodes) <= Within(u)
      BY <1>1, <2>1, MetBoundsDistance DEF MetOn
    <3> QED BY <1>5, <2>1, <3>1 DEF MetOn
  <2> QED BY <1>2, <2>1, <2>2, MetKept
<1>7. snap[v].final # "none" /\ v \notin resumed =>
        job[v].final # "none" /\ snap[v].phase \in Terminal
  BY <1>1, <1>2 DEF BaseInv, LifeInv, StatusOf
<1>8. EndedDistances'
  BY <1>2, <1>5, <1>7 DEF VerdictInv, EndedDistances
<1> QED BY <1>6, <1>8

LEMMA TasVerdictInv ==
  ASSUME VerdictInv, NEW v \in Uids, Tas(v)
  PROVE  MetVerdicts' /\ EndedDistances'
<1>1. BaseInv /\ tas \in [Uids -> {Unsettled, 0, 1, NotCalculated}] /\ whole \in [Uids -> BOOLEAN]
  BY DEF VerdictInv, BaseInv, TypeOK
<1>2. UNCHANGED <<job, pods, resumed, snap, dist>> /\ v \in DOMAIN snap
  BY <1>1, TasMoves DEF cluster
<1>3. CASE tas' = tas
  <2>1. whole' = whole
    BY <1>1, <1>3, TasMoves
  <2>2. MetVerdicts'
    <3> SUFFICES ASSUME NEW u \in Uids \ resumed, tas[u] = 1, whole[u] PROVE MetOn(u)'
      BY <1>2, <1>3, <2>1 DEF MetVerdicts
    <3>1. MetOn(u) /\ dist'[u] <= Within(u)
      BY <1>2 DEF VerdictInv, MetVerdicts, MetOn
    <3> QED BY <1>2, <3>1, MetKept
  <2> QED BY <1>2, <2>2 DEF VerdictInv, EndedDistances
<1>4. CASE tas' # tas
  <2>1. PICK d \in {Unsettled, 0, 1} : /\ tas' = [tas EXCEPT ![v] = d]
                                       /\ d = 1 => Verdicts(v) = {1}
    BY <1>1, <1>4, TasMoves
  <2>2. ShouldRecalculate(v) /\ whole' = [whole EXCEPT ![v] = Placed(v) = PodsOf[v]]
    BY <1>1, <1>4, TasMoves
  <2>3. ASSUME NEW u \in Uids \ resumed, u # v, tas'[u] = 1, whole'[u] PROVE MetOn(u)'
    <3>1. tas[u] = 1 /\ whole[u]
      <4>1. tas'[u] = tas[u]
        BY <1>1, <2>1, <2>3
      <4>2. whole'[u] = whole[u]
        BY <1>1, <2>2, <2>3
      <4> QED BY <2>3, <4>1, <4>2
    <3>2. MetOn(u) /\ dist'[u] <= Within(u)
      BY <1>2, <3>1 DEF VerdictInv, MetVerdicts, MetOn
    <3> QED BY <1>2, <3>2, MetKept
  <2>4. ASSUME v \notin resumed, tas'[v] = 1, whole'[v] PROVE MetOn(v)'
    <3>1. Verdicts(v) = {1}
      <4>1. tas'[v] = d
        BY <1>1, <2>1
      <4> QED BY <2>1, <2>4, <4>1
    <3>2. ConstraintLevel(v) \in Levels /\ SameDomain(v)
      BY <1>1, <3>1, MetVerdict
    <3>3. Placed(v) = PodsOf[v]
      BY <1>1, <2>2, <2>4
    <3>4. dist[v] = 0
      <4>1. snap[v].phase \notin Terminal
        BY <2>2 DEF ShouldRecalculate
      <4> QED BY <1>2, <2>4, <4>1 DEF VerdictInv, EndedDistances
    <3>5. Within(v) \in Nat
      BY <3>2, WithinLevels
    <3>6. dist[v] <= Within(v)
      BY <3>4, <3>5
    <3>7. MetOn(v)
      BY <3>2, <3>3, <3>6 DEF MetOn
    <3> QED BY <1>2, <3>6, <3>7, MetKept
  <2>5. MetVerdicts'
    BY <1>2, <2>3, <2>4 DEF MetVerdicts
  <2> QED BY <1>2, <2>5 DEF VerdictInv, EndedDistances
<1> QED BY <1>3, <1>4

LEMMA SweepVerdictInv ==
  ASSUME VerdictInv, Sweep
  PROVE  MetVerdicts' /\ EndedDistances'
<1>1. BaseInv
  BY DEF VerdictInv
<1>2. /\ UNCHANGED <<job, pods, resumed, snap, whole>>
      /\ \A u \in Uids : tas'[u] = tas[u] \/ tas'[u] = NotCalculated
      /\ \A u \in Uids : dist'[u] \in {dist[u], 0}
  BY <1>1, SweepMoves DEF cluster
<1>3. MetVerdicts'
  <2> SUFFICES ASSUME NEW u \in Uids \ resumed, tas'[u] = 1, whole'[u] PROVE MetOn(u)'
    BY <1>2 DEF MetVerdicts
  <2>1. tas[u] = 1 /\ whole[u]
    BY <1>2 DEF NotCalculated
  <2>2. MetOn(u)
    BY <2>1 DEF VerdictInv, MetVerdicts
  <2>3. Within(u) \in Nat /\ dist[u] <= Within(u)
    BY <2>2, WithinLevels DEF MetOn
  <2>4. dist'[u] <= Within(u)
    BY <1>2, <2>3
  <2> QED BY <1>2, <2>2, <2>4, MetKept
<1>4. EndedDistances'
  BY <1>2 DEF VerdictInv, EndedDistances
<1> QED BY <1>3, <1>4

LEMMA NextVerdictInv == VerdictInv /\ [Next]_vars => VerdictInv'
<1> SUFFICES ASSUME VerdictInv, [Next]_vars PROVE VerdictInv'
  OBVIOUS
<1>1. BaseInv /\ BaseInv'
  BY NextBaseInv DEF VerdictInv
<1>2. CASE Sweep
  BY <1>1, <1>2, SweepVerdictInv DEF VerdictInv
<1>3. CASE ListJobs \/ ListVolcano
  BY <1>1, <1>3, ListVerdictInv DEF VerdictInv, ListJobs, ListVolcano, Uids
<1>4. ASSUME NEW v \in Uids, Process(v) PROVE VerdictInv'
  BY <1>1, <1>4, ProcessVerdictInv DEF VerdictInv
<1>5. ASSUME NEW v \in Uids, Tas(v) PROVE VerdictInv'
  BY <1>1, <1>5, TasVerdictInv DEF VerdictInv
<1>6. CASE EndProcess \/ UNCHANGED <<exporter, cluster, whole>>
  <2>1. UNCHANGED <<job, pods, resumed, snap, tas, whole, dist>>
    BY <1>6 DEF EndProcess, exporter, cluster, metrics
  <2>2. MetVerdicts'
    <3> SUFFICES ASSUME NEW u \in Uids \ resumed, tas[u] = 1, whole[u] PROVE MetOn(u)'
      BY <2>1 DEF MetVerdicts
    <3>1. MetOn(u) /\ dist'[u] <= Within(u)
      BY <2>1 DEF VerdictInv, MetVerdicts, MetOn
    <3> QED BY <2>1, <3>1, MetKept
  <2> QED BY <1>1, <2>1, <2>2 DEF VerdictInv, EndedDistances
<1>7. ASSUME NEW v \in Uids, ClusterStep(v) PROVE VerdictInv'
  BY <1>1, <1>7, ClusterVerdictInv DEF VerdictInv
<1> QED BY <1>1, <1>2, <1>3, <1>4, <1>5, <1>6, <1>7, OtherSteps

(* Where a constraint was found to be met on all pods of a job that was    *)
(* not resumed, the distance that is published when the job has ended is   *)
(* within the level asked for: two computations from different calls in    *)
(* different cycles agree (exporter.py: check_preference_met, the topology *)
(* distance).                                                              *)
THEOREM MetMeansCloseAlways == Spec => []MetMeansClose
<1>1. VerdictInv => MetMeansClose
  <2> SUFFICES ASSUME VerdictInv, NEW u \in Processed \ resumed, tas[u] = 1, whole[u]
               PROVE  dist[u] <= Within(u)
    BY DEF MetMeansClose, Within
  <2>1. u \in Uids
    BY DEF VerdictInv, BaseInv, TypeOK, Processed
  <2> QED BY <2>1 DEF VerdictInv, MetVerdicts, MetOn
<1> QED BY <1>1, InitVerdictInv, NextVerdictInv, PTL DEF Spec
=============================================================================
