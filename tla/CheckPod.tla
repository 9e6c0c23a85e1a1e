------------------------------ MODULE CheckPod ------------------------------
(***************************************************************************)
(* CheckPodTask.Exec (check_pod_task.go).  With a timeout, watchPods runs  *)
(* two goroutines that call verifyPod, the handler of an informer and one  *)
(* that goes through a single list; they share a map of the pods accounted *)
(* for and report on an unbuffered channel.  Without one, checkPods judges *)
(* a single list.                                                          *)
(***************************************************************************)
EXTENDS Integers, Sequences, FiniteSetsExt

CONSTANTS
    Pods,       \* the pods whose names match some pattern of info.PodRegexp
    Hits,       \* Hits[p]: how many of the patterns match the name of p
    PodCount,   \* info.PodCount
    Status,     \* TRUE if the task names a status, FALSE if only node labels
    Labels,     \* TRUE if the task has node labels (and the status is Running)
    Misplaced,  \* pods that may be on a node without those labels
    Timeouts,   \* whether the task has a timeout: TRUE, or FALSE to check once
    MaxChanges, \* bound on the changes of pods
    MaxResyncs, \* bound on the resyncs of the informer (every 30 s)
    MaxFaults   \* bound on requests that fail

ASSUME PodsAssumption ==
    /\ IsFiniteSet(Pods) /\ Misplaced \subseteq Pods
    /\ Hits \in [Pods -> Nat \ {0}] /\ PodCount \in Nat
ASSUME FlagsAssumption == Status \in BOOLEAN /\ Labels \in BOOLEAN /\ Timeouts \subseteq BOOLEAN
ASSUME BoundsAssumption == MaxChanges \in Nat /\ MaxResyncs \in Nat /\ MaxFaults \in Nat

Workers == {"informer", "list"}

VARIABLES
    timeout,    \* the task's parameter: it has a timeout
    misplaced,  \* the pods on a node without the labels
    phase,      \* phase[p]: "absent", "other", or "match" (the phase asked for)
    changes,    \* changes so far
    resyncs,    \* resyncs so far
    faults,     \* failed requests so far
    ctxDone,    \* the context of watchPods is done
    main,       \* "start", "judge", "wait" or "returned"
    verdict,    \* what Exec returned: "none", "ok" or "error"
    podMap,     \* the pods accounted for
    at,         \* at[w]: where worker w is
    queue,      \* queue[w]: snapshots of pods worker w has still to verify
    message,    \* message[w]: the value it is about to send, "ok" or "error"
    observed,   \* history: pods some snapshot showed as they should be
    together    \* history: PodCount pods have been as they should be at once

clusterVars == <<timeout, misplaced, phase, changes, resyncs>>
mainVars == <<ctxDone, main, verdict>>
workerVars == <<at, queue, message>>
vars == <<clusterVars, faults, mainVars, podMap, workerVars, observed, together>>

(* status != task.Status: no phase equals an empty status.                 *)
HasStatus(ph) == Status /\ ph = "match"
Placed(p) == Labels => p \notin misplaced

(* Mutant: a list still contains deleted pods.                             *)
MutListsDeleted(phases) == Pods

Existing(phases) == {p \in Pods : phases[p] # "absent"}
GoodPods(phases) == {p \in Pods : phases[p] = "match" /\ Placed(p)}
Snapshot(phases, p) == [pod |-> p, phase |-> phases[p]]

(* A list of the pods, in some order, as snapshots.                        *)
Lists(phases) == LET E == Existing(phases) IN
    {[i \in 1..Cardinality(E) |-> Snapshot(phases, order[i])] :
        order \in {f \in [1..Cardinality(E) -> E] : \A i, j \in DOMAIN f : i # j => f[i] # f[j]}}

(* What the task has been shown, and whether all were fine at one moment.  *)
Show(S) == observed' = observed \cup S
Watch == together' = (together \/ Cardinality(GoodPods(phase')) >= PodCount)

Init ==
    /\ timeout \in Timeouts /\ misplaced \in SUBSET Misplaced
    /\ phase \in [Pods -> {"absent", "other", "match"}]
    /\ changes = 0 /\ resyncs = 0 /\ faults = 0
    /\ ctxDone = FALSE /\ main = "start" /\ verdict = "none"
    /\ podMap = {}
    /\ at = [w \in Workers |-> "off"]
    /\ queue = [w \in Workers |-> <<>>]
    /\ message = [w \in Workers |-> "ok"]
    /\ observed = {}
    /\ together = (Cardinality(GoodPods(phase)) >= PodCount)

-----------------------------------------------------------------------------
(* The cluster and the informer.  Events of the informer are handled in    *)
(* the order they happened; each carries the pod as it was then.           *)

InformerOn == at["informer"] \notin {"off", "listing"} /\ ~ctxDone
Deliver(items) == queue' = [queue EXCEPT !["informer"] = @ \o items]

Change(p, ph) ==
    /\ changes < MaxChanges
    /\ ph # phase[p]
    /\ changes' = changes + 1
    /\ phase' = [phase EXCEPT ![p] = ph]
    /\ Watch
    /\ IF InformerOn /\ ph # "absent"
       THEN /\ Deliver(<<Snapshot(phase', p)>>)
            /\ Show(GoodPods(phase') \cap {p})
       ELSE UNCHANGED <<queue, observed>>
    /\ UNCHANGED <<timeout, misplaced, resyncs, faults, mainVars, podMap, at, message>>

InformerLists ==
    /\ at["informer"] = "listing" /\ ~ctxDone
    /\ \E items \in Lists(phase) : Deliver(items)
    /\ Show(GoodPods(phase))
    /\ at' = [at EXCEPT !["informer"] = "idle"]
    /\ UNCHANGED <<clusterVars, faults, mainVars, podMap, message, together>>

Resync ==
    /\ InformerOn
    /\ resyncs < MaxResyncs
    /\ resyncs' = resyncs + 1
    /\ \E items \in Lists(phase) : Deliver(items)
    /\ Show(GoodPods(phase))
    /\ UNCHANGED <<timeout, misplaced, phase, changes, faults, mainVars, podMap, at, message, together>>

Expire ==
    /\ ~ctxDone
    /\ ctxDone' = TRUE
    /\ UNCHANGED <<clusterVars, faults, main, verdict, podMap, workerVars, observed, together>>

-----------------------------------------------------------------------------
(* Exec.                                                                   *)

Return(v) == main' = "returned" /\ verdict' = v

(* checkPods: the List ...                                                 *)
CheckPods ==
    /\ main = "start" /\ ~timeout
    /\ \/ /\ ~ctxDone
          /\ \E items \in Lists(phase) : queue' = [queue EXCEPT !["list"] = items]
          /\ Show(GoodPods(phase))
          /\ main' = "judge"
          /\ UNCHANGED <<faults, verdict>>
       \/ /\ ctxDone \/ faults < MaxFaults
          /\ faults' = IF ctxDone THEN faults ELSE faults + 1
          /\ Return("error")
          /\ UNCHANGED <<queue, observed>>
    /\ UNCHANGED <<clusterVars, ctxDone, podMap, at, message, together>>

Listed == {queue["list"][i] : i \in DOMAIN queue["list"]}

(* Mutant: the pods listed are only counted.                               *)
MutCountsOnly ==
    /\ main = "judge"
    /\ Return(IF Cardinality(Listed) = PodCount THEN "ok" ELSE "error")
    /\ UNCHANGED <<clusterVars, faults, ctxDone, podMap, workerVars, observed, together>>

(* ... and the verdict on it.  The count is of matches, not of pods.  A    *)
(* failed Get of a node is an error too.                                   *)
TotalHits(S) == SumFunctionOnSet(Hits, S)

JudgePods ==
    LET fine == /\ \A s \in Listed : HasStatus(s.phase) /\ Placed(s.pod)
                /\ TotalHits({s.pod : s \in Listed}) = PodCount
    IN
    /\ main = "judge"
    /\ \/ /\ Labels => ~ctxDone
          /\ Return(IF fine THEN "ok" ELSE "error")
          /\ UNCHANGED faults
       \/ /\ Labels
          /\ ctxDone \/ faults < MaxFaults
          /\ faults' = IF ctxDone THEN faults ELSE faults + 1
          /\ Return("error")
    /\ UNCHANGED <<clusterVars, ctxDone, podMap, workerVars, observed, together>>

WatchPods ==
    /\ main = "start" /\ timeout
    /\ main' = "wait"
    /\ at' = [w \in Workers |-> "listing"]
    /\ UNCHANGED <<clusterVars, faults, ctxDone, verdict, podMap, queue, message, observed,
                   together>>

(* The select; returning runs the deferred cancel.                         *)
WaitTimesOut ==
    /\ main = "wait" /\ ctxDone
    /\ Return("error")
    /\ UNCHANGED <<clusterVars, faults, ctxDone, podMap, workerVars, observed, together>>

WaitReceives(w) ==
    /\ main = "wait" /\ at[w] = "send"
    /\ Return(message[w])
    /\ ctxDone' = TRUE
    /\ at' = [at EXCEPT ![w] = IF w = "list" THEN "end" ELSE "idle"]
    /\ UNCHANGED <<clusterVars, faults, podMap, queue, message, observed, together>>

-----------------------------------------------------------------------------
(* The goroutine with the list: errs <- err when the List fails.           *)

Send(w, m) == /\ at' = [at EXCEPT ![w] = "send"]
              /\ message' = [message EXCEPT ![w] = m]

ListPods ==
    /\ at["list"] = "listing"
    /\ \/ /\ ~ctxDone
          /\ \E items \in Lists(phase) : queue' = [queue EXCEPT !["list"] = items]
          /\ Show(GoodPods(phase))
          /\ at' = [at EXCEPT !["list"] = "idle"]
          /\ UNCHANGED <<faults, message>>
       \/ /\ ctxDone \/ faults < MaxFaults
          /\ faults' = IF ctxDone THEN faults ELSE faults + 1
          /\ Send("list", "error")
          /\ UNCHANGED <<queue, observed>>
    /\ UNCHANGED <<clusterVars, mainVars, podMap, together>>

(* Its loop ends with the items, or when all pods are accounted for.       *)
ListEnds ==
    /\ at["list"] = "idle"
    /\ queue["list"] = <<>> \/ Cardinality(podMap) = PodCount
    /\ at' = [at EXCEPT !["list"] = "end"]
    /\ UNCHANGED <<clusterVars, faults, mainVars, podMap, queue, message, observed, together>>

-----------------------------------------------------------------------------
(* verifyPod, of the first snapshot in the worker's queue.                 *)

Item(w) == Head(queue[w])
Drop(w) == queue' = [queue EXCEPT ![w] = Tail(@)]
Continue(w) == at' = [at EXCEPT ![w] = "idle"]

(* podMap.Get and the comparison of the status.                            *)
VerifyPod(w) ==
    /\ at[w] = "idle" /\ queue[w] # <<>>
    /\ w = "list" => Cardinality(podMap) # PodCount
    /\ IF Item(w).pod \notin podMap /\ HasStatus(Item(w).phase)
       THEN at' = [at EXCEPT ![w] = "labels"] /\ UNCHANGED queue
       ELSE Drop(w) /\ UNCHANGED at
    /\ UNCHANGED <<clusterVars, faults, mainVars, podMap, message, observed, together>>

(* verifyLabels: a Get of the node, when there are labels to verify.       *)
VerifyLabels(w) ==
    /\ at[w] = "labels"
    /\ \/ /\ Labels => ~ctxDone
          /\ IF Placed(Item(w).pod)
             THEN at' = [at EXCEPT ![w] = "set"] /\ UNCHANGED <<queue, message>>
             ELSE Send(w, "error") /\ Drop(w)
          /\ UNCHANGED faults
       \/ /\ Labels
          /\ ctxDone \/ faults < MaxFaults
          /\ faults' = IF ctxDone THEN faults ELSE faults + 1
          /\ Send(w, "error") /\ Drop(w)
    /\ UNCHANGED <<clusterVars, mainVars, podMap, observed, together>>

(* Mutant: the pod is taken to be a new one.                               *)
MutSizeBeforePlusOne(w) ==
    /\ at[w] = "set"
    /\ podMap' = podMap \cup {Item(w).pod}
    /\ Drop(w)
    /\ IF Cardinality(podMap) + 1 = PodCount
       THEN Send(w, "ok")
       ELSE Continue(w) /\ UNCHANGED message
    /\ UNCHANGED <<clusterVars, faults, mainVars, observed, together>>

(* Mutant: success is announced by the first pod beyond the count.         *)
MutBeyondCount(w) ==
    /\ at[w] = "set"
    /\ podMap' = podMap \cup {Item(w).pod}
    /\ Drop(w)
    /\ IF Cardinality(podMap') > PodCount
       THEN Send(w, "ok")
       ELSE Continue(w) /\ UNCHANGED message
    /\ UNCHANGED <<clusterVars, faults, mainVars, observed, together>>

(* podMap.Set returns the new size; errs <- nil when it is the count.      *)
SetPod(w) ==
    /\ at[w] = "set"
    /\ podMap' = podMap \cup {Item(w).pod}
    /\ Drop(w)
    /\ IF Cardinality(podMap') = PodCount
       THEN Send(w, "ok")
       ELSE Continue(w) /\ UNCHANGED message
    /\ UNCHANGED <<clusterVars, faults, mainVars, observed, together>>

-----------------------------------------------------------------------------
WorkerStep(w) == VerifyPod(w) \/ VerifyLabels(w) \/ SetPod(w)
MainStep == CheckPods \/ JudgePods \/ WatchPods \/ WaitTimesOut \/ \E w \in Workers : WaitReceives(w)

Next ==
    \/ \E p \in Pods, ph \in {"absent", "other", "match"} : Change(p, ph)
    \/ InformerLists \/ Resync \/ Expire
    \/ MainStep
    \/ ListPods \/ ListEnds
    \/ \E w \in Workers : WorkerStep(w)

Spec == Init /\ [][Next]_vars

(* Ready goroutines run and the API server answers; no deadline, resync or *)
(* change has to come.                                                     *)
Fairness == /\ WF_vars(MainStep)
            /\ WF_vars(InformerLists)
            /\ WF_vars(ListPods \/ ListEnds)
            /\ \A w \in Workers : WF_vars(WorkerStep(w))

FairSpec == Spec /\ Fairness

-----------------------------------------------------------------------------
(* No snapshot shows a pod that does not exist.                            *)
Snapshots == [pod : Pods, phase : {"other", "match"}]

TypeOK ==
    /\ timeout \in Timeouts /\ misplaced \in SUBSET Misplaced
    /\ phase \in [Pods -> {"absent", "other", "match"}]
    /\ changes \in 0..MaxChanges /\ resyncs \in 0..MaxResyncs /\ faults \in 0..MaxFaults
    /\ ctxDone \in BOOLEAN /\ main \in {"start", "judge", "wait", "returned"}
    /\ verdict \in {"none", "ok", "error"}
    /\ podMap \subseteq Pods
    /\ at \in [Workers -> {"off", "listing", "idle", "labels", "set", "send", "end"}]
    /\ queue \in [Workers -> Seq(Snapshots)]
    /\ message \in [Workers -> {"ok", "error"}]
    /\ observed \subseteq Pods /\ together \in BOOLEAN

(* "ok" means that PodCount different pods were each seen, in some event   *)
(* or list, in the expected phase on a node with the labels, although two  *)
(* goroutines account for the same pods: Exec implements Verification.     *)
Promise == INSTANCE Verification WITH
    Subjects <- Pods, Count <- PodCount, good <- GoodPods(phase), seen <- observed,
    verdict <- verdict

PromiseSpec == Promise!Spec

(* No wakeup is lost: if no request fails, and from some time on all of    *)
(* exactly PodCount pods are as they should be, the task returns without   *)
(* waiting for its deadline.                                               *)
SettledIsNoticed ==
    ([](faults = 0) /\ <>[](\A p \in Pods : phase[p] = "match" /\ Placed(p)))
        => <>(main = "returned")

-----------------------------------------------------------------------------
(* What comments say, and the code does not do.                            *)

(* check_pod_task.go:155, "runs until all statuses are equal to the        *)
(* expected one, or until the timeout": success means that at some moment  *)
(* all of them were.                                                       *)
OkMeansTogether == verdict = "ok" => together

(* check_pod_task.go:93, "missing parameters 'status' and/or 'nodeLabels'":*)
(* node labels alone are enough, so a check of PodCount pods that are all  *)
(* on nodes with the labels does not fail, unless a request does.          *)
LabelsAlonePass ==
    main = "returned" /\ ~timeout /\ faults = 0 /\ ~ctxDone /\ changes = 0
      /\ GoodPods(phase) = Pods /\ TotalHits(Pods) = PodCount
        => verdict = "ok"
=============================================================================
