--------------------------- MODULE CheckPodProofs ---------------------------
(***************************************************************************)
(* Theorems about CheckPod for any pods, patterns and bounds: types, and   *)
(* that the task implements Verification, with a timeout although two      *)
(* goroutines account for the same pods, without one as long as no pod is  *)
(* counted for several patterns.                                           *)
(***************************************************************************)
EXTENDS CheckPod, SumTheorems, SequenceTheorems

(* A pod that a snapshot of the queue shows as it should be was seen.      *)
Fine(s) == s.phase = "match" /\ Placed(s.pod)
Shown(q) == \A i \in DOMAIN q : Fine(q[i]) => q[i].pod \in observed
QueuesShown == \A w \in Workers : Shown(queue[w])

(* A worker past a test of verifyPod has an item that passed it.           *)
ItemTested ==
    \A w \in Workers :
        /\ at[w] \in {"labels", "set"} => queue[w] # <<>> /\ Item(w).phase = "match"
        /\ at[w] = "set" => Placed(Item(w).pod)

(* Who announces success has counted enough pods, all of them seen.        *)
CountedSeen == podMap \subseteq observed
SendsAreTrue ==
    \A w \in Workers : at[w] = "send" /\ message[w] = "ok" => Cardinality(podMap) >= PodCount
Undecided == main # "returned" <=> verdict = "none"

(* Only a check without a timeout judges; no goroutine runs at the start.  *)
Watching == /\ timeout => main # "judge"
            /\ main = "start" => \A w \in Workers : at[w] = "off"

Inv == TypeOK /\ QueuesShown /\ ItemTested /\ CountedSeen /\ SendsAreTrue /\ Undecided /\ Watching

-----------------------------------------------------------------------------
LEMMA ListsShow ==
    ASSUME NEW ph \in [Pods -> {"absent", "other", "match"}], NEW items \in Lists(ph)
    PROVE  /\ items \in Seq(Snapshots)
           /\ \A i \in DOMAIN items : items[i].pod \in Pods /\ items[i].phase = ph[items[i].pod]
<1> DEFINE E == Existing(ph)
           n == Cardinality(E)
<1>1. PICK order \in [1..n -> E] : items = [i \in 1..n |-> Snapshot(ph, order[i])]
  BY DEF Lists
<1>2. E \subseteq Pods /\ \A p \in E : ph[p] \in {"other", "match"}
  BY DEF Existing
<1>3. n \in Nat
  BY <1>2, PodsAssumption, FS_Subset, FS_CardinalityType
<1> HIDE DEF E, n
<1>4. items \in [1..n -> Snapshots]
  BY <1>1, <1>2 DEF Snapshot, Snapshots
<1>5. items \in Seq(Snapshots)
  BY <1>3, <1>4, SeqDef
<1>6. \A i \in DOMAIN items : items[i].pod \in Pods /\ items[i].phase = ph[items[i].pod]
  BY <1>1, <1>2 DEF Snapshot
<1> QED BY <1>5, <1>6

LEMMA TailOf ==
    ASSUME NEW S, NEW q \in Seq(S), q # <<>>
    PROVE  /\ Tail(q) \in Seq(S) /\ Head(q) \in S
           /\ \A i \in DOMAIN Tail(q) : \E j \in DOMAIN q : Tail(q)[i] = q[j]
           /\ 1 \in DOMAIN q /\ Head(q) = q[1]
<1>1. Tail(q) \in Seq(S) /\ Len(Tail(q)) = Len(q) - 1 /\ \A i \in 1..Len(Tail(q)) : Tail(q)[i] = q[i + 1]
  BY HeadTailProperties
<1>2. DOMAIN q = 1..Len(q) /\ Len(q) \in Nat /\ DOMAIN Tail(q) = 1..Len(Tail(q))
  BY <1>1, LenProperties
<1>3. Head(q) \in S /\ Head(q) = q[1] /\ Len(q) # 0
  BY HeadTailProperties, EmptySeq
<1> QED BY <1>1, <1>2, <1>3

LEMMA ConcatOf ==
    ASSUME NEW S, NEW q \in Seq(S), NEW r \in Seq(S)
    PROVE  /\ q \o r \in Seq(S)
           /\ \A i \in DOMAIN (q \o r) : \/ \E j \in DOMAIN q : (q \o r)[i] = q[j]
                                         \/ \E j \in DOMAIN r : (q \o r)[i] = r[j]
           /\ q # <<>> => q \o r # <<>> /\ Head(q \o r) = Head(q)
<1>1. /\ q \o r \in Seq(S) /\ Len(q \o r) = Len(q) + Len(r)
      /\ \A i \in 1..(Len(q) + Len(r)) : (q \o r)[i] = IF i <= Len(q) THEN q[i] ELSE r[i - Len(q)]
  BY ConcatProperties
<1>2. /\ DOMAIN q = 1..Len(q) /\ Len(q) \in Nat /\ DOMAIN r = 1..Len(r) /\ Len(r) \in Nat
      /\ DOMAIN (q \o r) = 1..Len(q \o r)
  BY <1>1, LenProperties
<1>3. \A i \in DOMAIN (q \o r) : \/ \E j \in DOMAIN q : (q \o r)[i] = q[j]
                                 \/ \E j \in DOMAIN r : (q \o r)[i] = r[j]
  BY <1>1, <1>2
<1>4. ASSUME q # <<>> PROVE q \o r # <<>> /\ Head(q \o r) = Head(q)
  <2>1. Len(q) > 0 /\ Head(q) = q[1]
    BY <1>2, <1>4, TailOf
  <2>2. q \o r # <<>>
    BY <1>1, <1>2, <2>1
  <2>3. Head(q \o r) = (q \o r)[1]
    BY <1>1, <2>2, TailOf
  <2> QED BY <1>1, <1>2, <2>1, <2>2, <2>3
<1> QED BY <1>1, <1>3, <1>4

-----------------------------------------------------------------------------
(* Steps that put items into a queue.                                      *)

LEMMA DeliverKeeps ==
    ASSUME Inv, NEW w \in Workers, NEW items \in Seq(Snapshots), NEW old \in Seq(Snapshots),
           old \in {queue[w], <<>>}, at[w] \in {"labels", "set"} => old = queue[w],
           queue' = [queue EXCEPT ![w] = old \o items],
           observed \subseteq observed', misplaced' = misplaced,
           \A i \in DOMAIN items : Fine(items[i]) => items[i].pod \in observed',
           \A v \in Workers : at'[v] = at[v] \/ at'[v] \notin {"labels", "set"}
    PROVE  queue' \in [Workers -> Seq(Snapshots)] /\ QueuesShown' /\ ItemTested'
<1>0. queue \in [Workers -> Seq(Snapshots)]
  BY DEF Inv, TypeOK
<1>1. /\ old \o items \in Seq(Snapshots)
      /\ \A i \in DOMAIN (old \o items) : \/ \E j \in DOMAIN old : (old \o items)[i] = old[j]
                                          \/ \E j \in DOMAIN items : (old \o items)[i] = items[j]
      /\ old # <<>> => old \o items # <<>> /\ Head(old \o items) = Head(old)
  BY ConcatOf
<1>2. queue' \in [Workers -> Seq(Snapshots)]
  BY <1>0, <1>1
<1>3. queue'[w] = old \o items /\ \A v \in Workers : v # w => queue'[v] = queue[v]
  BY <1>0, <1>1
<1>4. \A s : Fine(s)' <=> Fine(s)
  BY DEF Fine, Placed
<1>5. QueuesShown'
  <2> SUFFICES ASSUME NEW v \in Workers, NEW i \in DOMAIN queue'[v], Fine(queue'[v][i])
               PROVE  queue'[v][i].pod \in observed'
    BY <1>4 DEF QueuesShown, Shown
  <2>1. CASE v # w
    BY <1>3, <2>1 DEF Inv, QueuesShown, Shown
  <2>2. CASE v = w
    <3>1. \A j \in DOMAIN old : Fine(old[j]) => old[j].pod \in observed
      BY DEF Inv, QueuesShown, Shown
    <3> QED BY <1>1, <1>3, <2>2, <3>1
  <2> QED BY <2>1, <2>2
<1>6. ItemTested'
  <2> SUFFICES ASSUME NEW v \in Workers, at'[v] \in {"labels", "set"}
               PROVE  /\ queue'[v] # <<>> /\ Head(queue'[v]).phase = "match"
                      /\ at'[v] = "set" => Placed(Head(queue'[v]).pod)
    BY DEF ItemTested, Item, Placed
  <2>1. at'[v] = at[v]
    OBVIOUS
  <2>2. /\ queue[v] # <<>> /\ Head(queue[v]).phase = "match"
        /\ at[v] = "set" => Placed(Head(queue[v]).pod)
    BY <2>1 DEF Inv, ItemTested, Item
  <2>3. queue'[v] # <<>> /\ Head(queue'[v]) = Head(queue[v])
    BY <1>1, <1>3, <2>1, <2>2
  <2> QED BY <2>1, <2>2, <2>3
<1> QED BY <1>2, <1>5, <1>6

LEMMA InitInv == Init => Inv
<1> SUFFICES ASSUME Init PROVE Inv
  OBVIOUS
<1>1. TypeOK
  <2>1. changes \in 0..MaxChanges /\ resyncs \in 0..MaxResyncs /\ faults \in 0..MaxFaults
    BY BoundsAssumption DEF Init
  <2>2. queue \in [Workers -> Seq(Snapshots)]
    BY DEF Init
  <2>3. together \in BOOLEAN /\ observed \subseteq Pods
    BY DEF Init
  <2>4. /\ timeout \in Timeouts /\ misplaced \in SUBSET Misplaced
        /\ phase \in [Pods -> {"absent", "other", "match"}]
        /\ ctxDone \in BOOLEAN /\ main \in {"start", "judge", "wait", "returned"}
        /\ verdict \in {"none", "ok", "error"} /\ podMap \subseteq Pods
        /\ at \in [Workers -> {"off", "listing", "idle", "labels", "set", "send", "end"}]
        /\ message \in [Workers -> {"ok", "error"}]
    BY DEF Init
  <2> QED BY <2>1, <2>2, <2>3, <2>4 DEF TypeOK
<1>2. QueuesShown /\ ItemTested /\ SendsAreTrue
  BY DEF Init, QueuesShown, ItemTested, SendsAreTrue, Shown, Workers
<1> QED BY <1>1, <1>2 DEF Init, Inv, CountedSeen, Undecided, Watching

(* What a list, or an event, shows of the pods.                            *)
LEMMA ListShown ==
    ASSUME Inv, NEW items \in Lists(phase), Show(GoodPods(phase))
    PROVE  /\ items \in Seq(Snapshots)
           /\ \A i \in DOMAIN items : Fine(items[i]) => items[i].pod \in observed'
           /\ observed \subseteq observed' /\ observed' \subseteq Pods
<1>1. /\ items \in Seq(Snapshots)
      /\ \A i \in DOMAIN items : items[i].pod \in Pods /\ items[i].phase = phase[items[i].pod]
  BY ListsShow DEF Inv, TypeOK
<1> QED BY <1>1 DEF Show, GoodPods, Fine, Inv, TypeOK

LEMMA ChangeKeepsInv ==
    ASSUME Inv, NEW p \in Pods, NEW ph \in {"absent", "other", "match"}, Change(p, ph)
    PROVE  Inv'
<1>1. phase' \in [Pods -> {"absent", "other", "match"}] /\ phase'[p] = ph
  BY DEF Change, Inv, TypeOK
<1>2. changes' \in 0..MaxChanges /\ together' \in BOOLEAN
  BY BoundsAssumption DEF Change, Watch, Inv, TypeOK
<1>3. queue' \in [Workers -> Seq(Snapshots)] /\ QueuesShown' /\ ItemTested'
      /\ observed \subseteq observed' /\ observed' \subseteq Pods
  <2>1. CASE ~(InformerOn /\ ph # "absent")
    BY <2>1 DEF Change, Inv, TypeOK, QueuesShown, Shown, ItemTested, Item, Fine, Placed
  <2>2. CASE InformerOn /\ ph # "absent"
    <3> DEFINE items == <<Snapshot(phase', p)>>
    <3>1. Snapshot(phase', p) \in Snapshots /\ Snapshot(phase', p).pod = p
          /\ Snapshot(phase', p).phase = phase'[p]
      BY <1>1, <2>2 DEF Snapshot, Snapshots
    <3>2. items \in Seq(Snapshots) /\ \A i \in DOMAIN items : items[i] = Snapshot(phase', p)
      BY <3>1
    <3>3. misplaced' = misplaced /\ observed' = observed \cup (GoodPods(phase') \cap {p})
          /\ queue' = [queue EXCEPT !["informer"] = queue["informer"] \o items] /\ at' = at
      BY <2>2 DEF Change, Show, Deliver
    <3>4. Fine(Snapshot(phase', p)) => p \in observed'
      BY <3>1, <3>3 DEF Fine, GoodPods
    <3>5. observed \subseteq observed' /\ observed' \subseteq Pods
      BY <3>3 DEF Inv, TypeOK
    <3>6. \A i \in DOMAIN items : Fine(items[i]) => items[i].pod \in observed'
      BY <3>1, <3>2, <3>4
    <3>7. queue["informer"] \in Seq(Snapshots) /\ "informer" \in Workers
      BY DEF Inv, TypeOK, Workers
    <3> HIDE DEF items
    <3> QED BY <3>2, <3>3, <3>5, <3>6, <3>7, DeliverKeeps
  <2> QED BY <2>1, <2>2
<1>4. TypeOK'
  BY <1>1, <1>2, <1>3 DEF Change, Inv, TypeOK, mainVars
<1>5. (CountedSeen /\ SendsAreTrue /\ Undecided /\ Watching)'
  BY <1>3 DEF Change, Inv, CountedSeen, SendsAreTrue, Undecided, Watching, mainVars
<1> QED BY <1>3, <1>4, <1>5 DEF Inv

LEMMA InformerKeepsInv == ASSUME Inv, InformerLists \/ Resync PROVE Inv'
<1>1. PICK items \in Lists(phase) : Deliver(items)
  BY DEF InformerLists, Resync
<1>2. /\ items \in Seq(Snapshots)
      /\ \A i \in DOMAIN items : Fine(items[i]) => items[i].pod \in observed'
      /\ observed \subseteq observed' /\ observed' \subseteq Pods
  BY ListShown DEF InformerLists, Resync
<1>3. /\ \A v \in Workers : at'[v] = at[v] \/ at'[v] = "idle"
      /\ at' \in [Workers -> {"off", "listing", "idle", "labels", "set", "send", "end"}]
      /\ misplaced' = misplaced /\ resyncs' \in 0..MaxResyncs
      /\ UNCHANGED <<timeout, phase, changes, faults, mainVars, podMap, message, together>>
  <2>1. CASE InformerLists
    BY <2>1 DEF InformerLists, Inv, TypeOK, clusterVars
  <2>2. CASE Resync
    BY <2>2, BoundsAssumption DEF Resync, Inv, TypeOK
  <2> QED BY <2>1, <2>2
<1>0. main = "start" => at' = at
  <2>1. CASE InformerLists
    BY <2>1 DEF InformerLists, Inv, Watching, Workers
  <2>2. CASE Resync
    BY <2>2 DEF Resync
  <2> QED BY <2>1, <2>2
<1>4. queue["informer"] \in Seq(Snapshots) /\ "informer" \in Workers
  BY DEF Inv, TypeOK, Workers
<1>5. queue' \in [Workers -> Seq(Snapshots)] /\ QueuesShown' /\ ItemTested'
  BY <1>1, <1>2, <1>3, <1>4, DeliverKeeps DEF Deliver
<1>6. TypeOK'
  BY <1>2, <1>3, <1>5 DEF Inv, TypeOK, mainVars
<1>7. (CountedSeen /\ SendsAreTrue /\ Undecided /\ Watching)'
  BY <1>0, <1>2, <1>3 DEF Inv, CountedSeen, SendsAreTrue, Undecided, Watching, mainVars
<1> QED BY <1>5, <1>6, <1>7 DEF Inv

(* CheckPods and ListPods, which begin with an empty queue.                *)
LEMMA FreshList ==
    ASSUME Inv, NEW items \in Lists(phase), Show(GoodPods(phase)), misplaced' = misplaced,
           queue' = [queue EXCEPT !["list"] = items], at["list"] \notin {"labels", "set"},
           \A v \in Workers : at'[v] = at[v] \/ at'[v] \notin {"labels", "set"}
    PROVE  queue' \in [Workers -> Seq(Snapshots)] /\ QueuesShown' /\ ItemTested'
<1>1. /\ items \in Seq(Snapshots)
      /\ \A i \in DOMAIN items : Fine(items[i]) => items[i].pod \in observed'
      /\ observed \subseteq observed'
  BY ListShown
<1>2. <<>> \o items = items /\ <<>> \in Seq(Snapshots) /\ "list" \in Workers
  BY <1>1, ConcatEmptySeq DEF Workers
<1> QED BY <1>1, <1>2, DeliverKeeps

-----------------------------------------------------------------------------
(* Exec.                                                                   *)

LEMMA MainKeepsInv == ASSUME Inv, MainStep \/ Expire PROVE Inv'
<1> USE DEF clusterVars, mainVars, workerVars
<1>1. CASE CheckPods
  <2>1. CASE \E items \in Lists(phase) : queue' = [queue EXCEPT !["list"] = items]
                                         /\ Show(GoodPods(phase))
    <3>1. PICK items \in Lists(phase) : queue' = [queue EXCEPT !["list"] = items]
                                       /\ Show(GoodPods(phase))
      BY <2>1
    <3>2. at["list"] = "off" /\ at' = at /\ misplaced' = misplaced
      BY <1>1 DEF CheckPods, Inv, Watching, Workers
    <3>3. queue' \in [Workers -> Seq(Snapshots)] /\ QueuesShown' /\ ItemTested'
          /\ observed \subseteq observed' /\ observed' \subseteq Pods
      BY <3>1, <3>2, FreshList, ListShown
    <3>4. faults' \in 0..MaxFaults /\ main' \in {"judge", "returned"}
          /\ (main' = "judge" => verdict' = "none") /\ (main' = "returned" => verdict' = "error")
      BY <1>1, BoundsAssumption DEF CheckPods, Inv, TypeOK, Undecided, Return
    <3>5. TypeOK'
      BY <1>1, <3>3, <3>4 DEF CheckPods, Inv, TypeOK
    <3>6. (CountedSeen /\ SendsAreTrue /\ Undecided /\ Watching)'
      BY <1>1, <3>3, <3>4 DEF CheckPods, Inv, CountedSeen, SendsAreTrue, Undecided, Watching
    <3> QED BY <3>3, <3>5, <3>6 DEF Inv
  <2>2. CASE Return("error") /\ UNCHANGED <<queue, observed>>
    <3>1. faults' \in 0..MaxFaults
      BY <1>1, BoundsAssumption DEF CheckPods, Inv, TypeOK
    <3> QED BY <1>1, <2>2, <3>1 DEF CheckPods, Return, Inv, TypeOK, QueuesShown, Shown, Fine, Placed,
               ItemTested, Item, CountedSeen, SendsAreTrue, Undecided, Watching
  <2> QED BY <1>1, <2>1, <2>2 DEF CheckPods
<1>2. CASE JudgePods
  <2>1. faults' \in 0..MaxFaults /\ main' = "returned" /\ verdict' \in {"ok", "error"}
    BY <1>2, BoundsAssumption DEF JudgePods, Return, Inv, TypeOK
  <2>2. UNCHANGED <<clusterVars, ctxDone, podMap, workerVars, observed, together>>
    BY <1>2 DEF JudgePods
  <2> QED BY <2>1, <2>2 DEF Inv, TypeOK, QueuesShown, Shown, Fine, Placed, ItemTested, Item,
             CountedSeen, SendsAreTrue, Undecided, Watching
<1>3. CASE WatchPods
  <2>1. TypeOK'
    BY <1>3 DEF WatchPods, Inv, TypeOK
  <2>2. (QueuesShown /\ ItemTested /\ CountedSeen /\ SendsAreTrue /\ Undecided /\ Watching)'
    BY <1>3 DEF WatchPods, Inv, QueuesShown, Shown, Fine, Placed, ItemTested, Item,
             CountedSeen, SendsAreTrue, Undecided, Watching
  <2> QED BY <2>1, <2>2 DEF Inv
<1>4. CASE WaitTimesOut \/ Expire
  <2>1. TypeOK'
    BY <1>4 DEF WaitTimesOut, Expire, Return, Inv, TypeOK
  <2>2. (QueuesShown /\ ItemTested /\ CountedSeen /\ SendsAreTrue /\ Undecided /\ Watching)'
    BY <1>4 DEF WaitTimesOut, Expire, Return, Inv, QueuesShown, Shown, Fine, Placed, ItemTested,
             Item, CountedSeen, SendsAreTrue, Undecided, Watching
  <2> QED BY <2>1, <2>2 DEF Inv
<1>5. ASSUME NEW w \in Workers, WaitReceives(w) PROVE Inv'
  <2>1. TypeOK'
    BY <1>5 DEF WaitReceives, Return, Inv, TypeOK
  <2>2. /\ \A v \in Workers : at'[v] = at[v] \/ at'[v] \in {"idle", "end"}
        /\ main' = "returned" /\ verdict' # "none"
        /\ UNCHANGED <<clusterVars, faults, podMap, queue, message, observed>>
    BY <1>5 DEF WaitReceives, Return, Inv, TypeOK
  <2>3. (QueuesShown /\ ItemTested /\ CountedSeen /\ SendsAreTrue /\ Undecided /\ Watching)'
    BY <2>2 DEF Inv, QueuesShown, Shown, Fine, Placed, ItemTested, Item, CountedSeen,
             SendsAreTrue, Undecided, Watching
  <2> QED BY <2>1, <2>3 DEF Inv
<1> QED BY <1>1, <1>2, <1>3, <1>4, <1>5 DEF MainStep

-----------------------------------------------------------------------------
(* The goroutine with the list, and verifyPod.                             *)

LEMMA ListKeepsInv == ASSUME Inv, ListPods \/ ListEnds PROVE Inv'
<1> USE DEF clusterVars, mainVars, workerVars
<1>0. main # "start"
  BY DEF ListPods, ListEnds, Inv, Watching, Workers
<1>1. CASE ListPods
  <2>0. faults' \in 0..MaxFaults /\ at["list"] = "listing"
    BY <1>1, BoundsAssumption DEF ListPods, Inv, TypeOK
  <2>1. CASE \E items \in Lists(phase) : queue' = [queue EXCEPT !["list"] = items]
                                         /\ Show(GoodPods(phase))
                                         /\ at' = [at EXCEPT !["list"] = "idle"]
                                         /\ UNCHANGED message
    <3>1. PICK items \in Lists(phase) : queue' = [queue EXCEPT !["list"] = items]
                                       /\ Show(GoodPods(phase))
      BY <2>1
    <3>2. /\ at' \in [Workers -> {"off", "listing", "idle", "labels", "set", "send", "end"}]
          /\ \A v \in Workers : at'[v] = at[v] \/ at'[v] = "idle"
          /\ UNCHANGED <<clusterVars, mainVars, podMap, together, message>>
      BY <1>1, <2>1 DEF ListPods, Inv, TypeOK
    <3>3. queue' \in [Workers -> Seq(Snapshots)] /\ QueuesShown' /\ ItemTested'
          /\ observed \subseteq observed' /\ observed' \subseteq Pods
      BY <2>0, <3>1, <3>2, FreshList, ListShown
    <3>4. TypeOK'
      BY <2>0, <3>2, <3>3 DEF Inv, TypeOK
    <3>5. (CountedSeen /\ SendsAreTrue /\ Undecided /\ Watching)'
      BY <1>0, <3>2, <3>3 DEF Inv, CountedSeen, SendsAreTrue, Undecided, Watching
    <3> QED BY <3>3, <3>4, <3>5 DEF Inv
  <2>2. CASE Send("list", "error") /\ UNCHANGED <<queue, observed>>
    <3>1. TypeOK'
      BY <1>1, <2>0, <2>2 DEF ListPods, Send, Inv, TypeOK
    <3>2. (QueuesShown /\ ItemTested /\ CountedSeen /\ SendsAreTrue /\ Undecided /\ Watching)'
      BY <1>0, <1>1, <2>2 DEF ListPods, Send, Inv, TypeOK, QueuesShown, Shown, Fine, Placed,
               ItemTested, Item, CountedSeen, SendsAreTrue, Undecided, Watching
    <3> QED BY <3>1, <3>2 DEF Inv
  <2> QED BY <1>1, <2>1, <2>2 DEF ListPods
<1>2. CASE ListEnds
  <2>1. TypeOK'
    BY <1>2 DEF ListEnds, Inv, TypeOK
  <2>2. (QueuesShown /\ ItemTested /\ CountedSeen /\ SendsAreTrue /\ Undecided /\ Watching)'
    BY <1>0, <1>2 DEF ListEnds, Inv, TypeOK, QueuesShown, Shown, Fine, Placed, ItemTested, Item,
             CountedSeen, SendsAreTrue, Undecided, Watching
  <2> QED BY <2>1, <2>2 DEF Inv
<1> QED BY <1>1, <1>2

LEMMA DropKeeps ==
    ASSUME Inv, NEW w \in Workers, queue[w] # <<>>, Drop(w),
           UNCHANGED <<observed, misplaced>>, at'[w] \notin {"labels", "set"},
           \A v \in Workers : v # w => at'[v] = at[v]
    PROVE  queue' \in [Workers -> Seq(Snapshots)] /\ QueuesShown' /\ ItemTested'
<1>1. queue \in [Workers -> Seq(Snapshots)]
  BY DEF Inv, TypeOK
<1>2. /\ Tail(queue[w]) \in Seq(Snapshots)
      /\ \A i \in DOMAIN Tail(queue[w]) : \E j \in DOMAIN queue[w] : Tail(queue[w])[i] = queue[w][j]
  BY <1>1, TailOf
<1>3. queue'[w] = Tail(queue[w]) /\ \A v \in Workers : v # w => queue'[v] = queue[v]
  BY <1>1 DEF Drop
<1>4. queue' \in [Workers -> Seq(Snapshots)]
  BY <1>1, <1>2 DEF Drop
<1>5. \A s : Fine(s)' <=> Fine(s)
  BY DEF Fine, Placed
<1>6. QueuesShown'
  <2> SUFFICES ASSUME NEW v \in Workers, NEW i \in DOMAIN queue'[v], Fine(queue'[v][i])
               PROVE  queue'[v][i].pod \in observed
    BY <1>5 DEF QueuesShown, Shown
  <2>1. \A u \in Workers : \A j \in DOMAIN queue[u] : Fine(queue[u][j]) => queue[u][j].pod \in observed
    BY DEF Inv, QueuesShown, Shown
  <2>2. CASE v # w
    BY <1>3, <2>1, <2>2
  <2>3. CASE v = w
    <3>1. PICK j \in DOMAIN queue[w] : queue'[v][i] = queue[w][j]
      BY <1>2, <1>3, <2>3
    <3> QED BY <2>1, <3>1
  <2> QED BY <2>2, <2>3
<1>7. ItemTested'
  BY <1>3 DEF Inv, ItemTested, Item, Placed
<1> QED BY <1>4, <1>6, <1>7

(* The pod that a worker is about to account for has been seen.            *)
LEMMA ItemSeen ==
    ASSUME Inv, NEW w \in Workers, at[w] = "set"
    PROVE  queue[w] # <<>> /\ Item(w).pod \in observed
<1>1. queue[w] # <<>> /\ Fine(Item(w))
  BY DEF Inv, ItemTested, Fine
<1>2. 1 \in DOMAIN queue[w] /\ Item(w) = queue[w][1]
  BY <1>1, TailOf DEF Inv, TypeOK, Item
<1> QED BY <1>1, <1>2 DEF Inv, QueuesShown, Shown

LEMMA WorkerKeepsInv == ASSUME Inv, NEW w \in Workers, WorkerStep(w) PROVE Inv'
<1> USE DEF clusterVars, mainVars, workerVars
<1>0. main # "start" /\ queue[w] # <<>>
  BY DEF WorkerStep, VerifyPod, VerifyLabels, SetPod, Inv, Watching, ItemTested
<1>1. CASE VerifyPod(w)
  <2>1. CASE HasStatus(Item(w).phase) /\ at' = [at EXCEPT ![w] = "labels"] /\ UNCHANGED queue
    <3>1. TypeOK'
      BY <1>1, <2>1 DEF VerifyPod, Inv, TypeOK
    <3>2. (QueuesShown /\ ItemTested /\ CountedSeen /\ SendsAreTrue /\ Undecided /\ Watching)'
      BY <1>0, <1>1, <2>1 DEF VerifyPod, HasStatus, Inv, TypeOK, QueuesShown, Shown, Fine, Placed,
               ItemTested, Item, CountedSeen, SendsAreTrue, Undecided, Watching
    <3> QED BY <3>1, <3>2 DEF Inv
  <2>2. CASE Drop(w) /\ UNCHANGED at
    <3>1. queue' \in [Workers -> Seq(Snapshots)] /\ QueuesShown' /\ ItemTested'
      BY <1>0, <1>1, <2>2, DropKeeps DEF VerifyPod
    <3>2. TypeOK'
      BY <1>1, <2>2, <3>1 DEF VerifyPod, Inv, TypeOK
    <3>3. (CountedSeen /\ SendsAreTrue /\ Undecided /\ Watching)'
      BY <1>1, <2>2 DEF VerifyPod, Inv, CountedSeen, SendsAreTrue, Undecided, Watching
    <3> QED BY <3>1, <3>2, <3>3 DEF Inv
  <2> QED BY <1>1, <2>1, <2>2 DEF VerifyPod
<1>2. CASE VerifyLabels(w)
  <2>0. faults' \in 0..MaxFaults
    BY <1>2, BoundsAssumption DEF VerifyLabels, Inv, TypeOK
  <2>1. CASE Placed(Item(w).pod) /\ at' = [at EXCEPT ![w] = "set"] /\ UNCHANGED <<queue, message>>
    <3>1. TypeOK'
      BY <1>2, <2>0, <2>1 DEF VerifyLabels, Inv, TypeOK
    <3>2. (QueuesShown /\ ItemTested /\ CountedSeen /\ SendsAreTrue /\ Undecided /\ Watching)'
      BY <1>0, <1>2, <2>1 DEF VerifyLabels, Inv, TypeOK, QueuesShown, Shown, Fine, Placed,
               ItemTested, Item, CountedSeen, SendsAreTrue, Undecided, Watching
    <3> QED BY <3>1, <3>2 DEF Inv
  <2>2. CASE Send(w, "error") /\ Drop(w)
    <3>0. /\ at' \in [Workers -> {"off", "listing", "idle", "labels", "set", "send", "end"}]
          /\ message' \in [Workers -> {"ok", "error"}]
          /\ at'[w] = "send" /\ message'[w] = "error"
          /\ \A v \in Workers : v # w => at'[v] = at[v] /\ message'[v] = message[v]
          /\ UNCHANGED <<clusterVars, mainVars, podMap, observed, together>>
      BY <1>2, <2>2 DEF VerifyLabels, Send, Inv, TypeOK
    <3>1. queue' \in [Workers -> Seq(Snapshots)] /\ QueuesShown' /\ ItemTested'
      BY <1>0, <2>2, <3>0, DropKeeps
    <3>2. TypeOK'
      BY <2>0, <3>0, <3>1 DEF Inv, TypeOK
    <3>3. (CountedSeen /\ SendsAreTrue /\ Undecided /\ Watching)'
      BY <1>0, <3>0 DEF Inv, CountedSeen, SendsAreTrue, Undecided, Watching
    <3> QED BY <3>1, <3>2, <3>3 DEF Inv
  <2> QED BY <1>2, <2>1, <2>2 DEF VerifyLabels
<1>3. CASE SetPod(w)
  <2>0. /\ at' \in [Workers -> {"off", "listing", "idle", "labels", "set", "send", "end"}]
        /\ message' \in [Workers -> {"ok", "error"}]
        /\ at'[w] \in {"send", "idle"}
        /\ at'[w] = "send" => Cardinality(podMap') = PodCount
        /\ \A v \in Workers : v # w => at'[v] = at[v] /\ message'[v] = message[v]
        /\ podMap' = podMap \cup {Item(w).pod} /\ Drop(w)
        /\ UNCHANGED <<clusterVars, faults, mainVars, observed, together>>
    <3>1. CASE Cardinality(podMap') = PodCount
      BY <1>3, <3>1 DEF SetPod, Send, Inv, TypeOK
    <3>2. CASE Cardinality(podMap') # PodCount
      BY <1>3, <3>2 DEF SetPod, Continue, Inv, TypeOK
    <3> QED BY <3>1, <3>2
  <2>1. queue' \in [Workers -> Seq(Snapshots)] /\ QueuesShown' /\ ItemTested'
    BY <1>0, <2>0, DropKeeps
  <2>2. CountedSeen' /\ podMap' \subseteq Pods
    BY <1>3, <2>0, ItemSeen DEF SetPod, Inv, CountedSeen, TypeOK
  <2>3. /\ Cardinality(podMap) \in Nat /\ Cardinality(podMap') \in Nat
        /\ Cardinality(podMap) <= Cardinality(podMap')
    <3>1. IsFiniteSet(podMap') /\ podMap \subseteq podMap'
      BY <2>0, <2>2, PodsAssumption, FS_Subset
    <3> QED BY <3>1, FS_Subset, FS_CardinalityType
  <2>4. SendsAreTrue'
    BY <2>0, <2>3, PodsAssumption DEF Inv, SendsAreTrue
  <2>5. TypeOK'
    BY <2>0, <2>1, <2>2 DEF Inv, TypeOK
  <2>6. (Undecided /\ Watching)'
    BY <1>0, <2>0 DEF Inv, Undecided, Watching
  <2> QED BY <2>1, <2>2, <2>4, <2>5, <2>6 DEF Inv
<1> QED BY <1>1, <1>2, <1>3 DEF WorkerStep

LEMMA NextInv == Inv /\ [Next]_vars => Inv'
<1> SUFFICES ASSUME Inv, [Next]_vars PROVE Inv'
  OBVIOUS
<1>1. CASE UNCHANGED vars
  BY <1>1 DEF vars, clusterVars, mainVars, workerVars, Inv, TypeOK, QueuesShown, Shown, Fine, Placed,
              ItemTested, Item, CountedSeen, SendsAreTrue, Undecided, Watching
<1>2. CASE Next
  BY <1>2, ChangeKeepsInv, InformerKeepsInv, MainKeepsInv, ListKeepsInv, WorkerKeepsInv DEF Next
<1> QED BY <1>1, <1>2

LEMMA InvAlways == Spec => []Inv
BY InitInv, NextInv, PTL DEF Spec

(* Every variable of the check keeps its type.                             *)
THEOREM TypeCorrect == Spec => []TypeOK
<1>1. Inv => TypeOK
  BY DEF Inv
<1> QED BY <1>1, InvAlways, PTL

-----------------------------------------------------------------------------
(* The refinement.                                                         *)

LEMMA ShowLooks ==
    ASSUME Inv, NEW S \in SUBSET (GoodPods(phase) \cup GoodPods(phase)'),
           observed' = observed \cup S, verdict' = verdict
    PROVE  Promise!Look
<1>1. GoodPods(phase)' \in SUBSET Pods
  BY DEF GoodPods
<1> QED BY <1>1 DEF Promise!Look

LEMMA OthersStutter ==
    ASSUME UNCHANGED <<phase, misplaced, observed, verdict>>
    PROVE  UNCHANGED Promise!vars
BY DEF Promise!vars, GoodPods, Placed

(* Of what the list shows all is as it should be, and the matches add up   *)
(* to the count, so as many pods were seen.                                *)
LEMMA FineListSeen ==
    ASSUME Inv, \A p \in Pods : Hits[p] = 1,
           \A s \in Listed : HasStatus(s.phase) /\ Placed(s.pod),
           TotalHits({s.pod : s \in Listed}) = PodCount
    PROVE  Cardinality(observed) >= PodCount
<1> DEFINE L == {s.pod : s \in Listed}
<1>1. queue["list"] \in Seq(Snapshots)
  BY DEF Inv, TypeOK, Workers
<1>2. Listed \subseteq Snapshots
  BY <1>1, LenProperties DEF Listed
<1>3. L \subseteq observed /\ observed \subseteq Pods
  <2>1. \A s \in Listed : Fine(s)
    BY DEF Fine, HasStatus
  <2>2. \A i \in DOMAIN queue["list"] : Fine(queue["list"][i]) => queue["list"][i].pod \in observed
    BY DEF Inv, QueuesShown, Shown, Workers
  <2>3. observed \subseteq Pods
    BY DEF Inv, TypeOK
  <2> QED BY <2>1, <2>2, <2>3 DEF Listed
<1> HIDE DEF L
<1>4. IsFiniteSet(observed) /\ IsFiniteSet(L)
  BY <1>3, PodsAssumption, FS_Subset
<1>5. TotalHits(L) = Cardinality(L)
  BY <1>3, <1>4, SumOnes DEF TotalHits
<1>6. /\ Cardinality(L) <= Cardinality(observed)
      /\ Cardinality(L) \in Nat /\ Cardinality(observed) \in Nat
  BY <1>3, <1>4, FS_Subset, FS_CardinalityType
<1>7. TotalHits(L) = PodCount
  BY DEF L
<1> QED BY <1>5, <1>6, <1>7, PodsAssumption

LEMMA ReturnImplements ==
    ASSUME Inv, verdict = "none", verdict' \in {"ok", "error"},
           UNCHANGED <<phase, misplaced, observed>>,
           verdict' = "ok" => Cardinality(observed) >= PodCount
    PROVE  Promise!Next
<1>1. GoodPods(phase)' = GoodPods(phase)
  BY DEF GoodPods, Placed
<1>2. CASE verdict' = "error"
  BY <1>1, <1>2 DEF Promise!Next, Promise!GiveUp
<1>3. CASE verdict' = "ok"
  <2>1. Promise!Cardinality(observed) = Cardinality(observed)
    BY DEF Promise!Cardinality, Cardinality
  <2>2. Promise!Succeed
    BY <1>1, <1>3, <2>1 DEF Promise!Succeed
  <2> QED BY <2>2 DEF Promise!Next
<1> QED BY <1>2, <1>3

LEMMA NextImplements ==
    ASSUME Inv, timeout \/ \A p \in Pods : Hits[p] = 1, [Next]_vars
    PROVE  [Promise!Next]_(Promise!vars)
<1> USE DEF clusterVars, mainVars, workerVars
<1>1. CASE UNCHANGED vars
  BY <1>1, OthersStutter DEF vars
<1>2. ASSUME NEW p \in Pods, NEW ph \in {"absent", "other", "match"}, Change(p, ph)
      PROVE  Promise!Look
  <2>1. CASE InformerOn /\ ph # "absent"
    <3>1. observed' = observed \cup (GoodPods(phase') \cap {p}) /\ verdict' = verdict
          /\ misplaced' = misplaced
      BY <1>2, <2>1 DEF Change, Show
    <3>2. GoodPods(phase') = GoodPods(phase)'
      BY <3>1 DEF GoodPods, Placed
    <3> QED BY <3>1, <3>2, ShowLooks
  <2>2. CASE ~(InformerOn /\ ph # "absent")
    <3>1. observed' = observed \cup {} /\ verdict' = verdict
      BY <1>2, <2>2 DEF Change
    <3> QED BY <3>1, ShowLooks
  <2> QED BY <2>1, <2>2
<1>3. CASE Show(GoodPods(phase)) /\ verdict' = verdict
  BY <1>3, ShowLooks DEF Show, Promise!Next
<1>4. CASE InformerLists \/ Resync
  BY <1>3, <1>4 DEF InformerLists, Resync
<1>5. CASE ListPods
  BY <1>3, <1>5, OthersStutter DEF ListPods
<1>6. CASE Expire \/ ListEnds \/ WatchPods \/ \E w \in Workers : WorkerStep(w)
  BY <1>6, OthersStutter
     DEF Expire, ListEnds, WatchPods, WorkerStep, VerifyPod, VerifyLabels, SetPod
<1>7. CASE CheckPods
  <2>1. verdict = "none" /\ UNCHANGED <<phase, misplaced>>
    BY <1>7 DEF CheckPods, Inv, Undecided
  <2>2. CASE Show(GoodPods(phase)) /\ verdict' = verdict
    BY <1>3, <2>2
  <2>3. CASE verdict' = "error" /\ observed' = observed
    BY <2>1, <2>3, ReturnImplements
  <2> QED BY <1>7, <2>2, <2>3 DEF CheckPods, Return
<1>8. CASE JudgePods
  <2>1. verdict = "none" /\ ~timeout /\ UNCHANGED <<phase, misplaced, observed>>
    BY <1>8 DEF JudgePods, Inv, Undecided, Watching
  <2>2. verdict' \in {"ok", "error"}
    BY <1>8 DEF JudgePods, Return
  <2>3. verdict' = "ok" => /\ \A s \in Listed : HasStatus(s.phase) /\ Placed(s.pod)
                           /\ TotalHits({s.pod : s \in Listed}) = PodCount
    BY <1>8 DEF JudgePods, Return
  <2>4. verdict' = "ok" => Cardinality(observed) >= PodCount
    BY <2>1, <2>3, FineListSeen
  <2> QED BY <2>1, <2>2, <2>4, ReturnImplements
<1>9. CASE WaitTimesOut \/ \E w \in Workers : WaitReceives(w)
  <2>1. verdict = "none" /\ UNCHANGED <<phase, misplaced, observed>>
    BY <1>9 DEF WaitTimesOut, WaitReceives, Inv, Undecided
  <2>2. verdict' \in {"ok", "error"}
    BY <1>9 DEF WaitTimesOut, WaitReceives, Return, Inv, TypeOK
  <2>3. verdict' = "ok" => Cardinality(podMap) >= PodCount
    BY <1>9 DEF WaitTimesOut, WaitReceives, Return, Inv, SendsAreTrue
  <2>4. podMap \subseteq observed /\ IsFiniteSet(observed)
    BY PodsAssumption, FS_Subset DEF Inv, CountedSeen, TypeOK
  <2>5. /\ Cardinality(podMap) <= Cardinality(observed)
        /\ Cardinality(podMap) \in Nat /\ Cardinality(observed) \in Nat
    BY <2>4, FS_Subset, FS_CardinalityType
  <2>6. verdict' = "ok" => Cardinality(observed) >= PodCount
    BY <2>3, <2>5, PodsAssumption
  <2> QED BY <2>1, <2>2, <2>6, ReturnImplements
<1> QED BY <1>1, <1>2, <1>4, <1>5, <1>6, <1>7, <1>8, <1>9
       DEF Next, MainStep, Promise!Next

(* Exec implements Verification for any pods and counts: "ok" is only      *)
(* returned when PodCount different pods were each seen as they should be, *)
(* whichever of the two goroutines of watchPods accounted for them, or by  *)
(* the one list of checkPods.  The condition is on the latter: its count   *)
(* is of matches, so that a pod that two patterns match would count twice. *)
THEOREM Implements ==
    ASSUME Timeouts = {TRUE} \/ \A p \in Pods : Hits[p] = 1
    PROVE  Spec => PromiseSpec
<1>1. Init => Promise!Init
  BY DEF Init, Promise!Init, GoodPods
<1>2. Inv => timeout \/ \A p \in Pods : Hits[p] = 1
  <2>1. CASE Timeouts = {TRUE}
    <3>1. Inv => timeout
      BY <2>1 DEF Inv, TypeOK
    <3> QED BY <3>1
  <2> QED BY <2>1
<1> QED BY <1>1, <1>2, InvAlways, NextImplements, PTL DEF Spec, PromiseSpec, Promise!Spec
=============================================================================
