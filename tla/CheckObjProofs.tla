--------------------------- MODULE CheckObjProofs ---------------------------
(***************************************************************************)
(* Theorems about CheckObj for any set of names, of other objects and any  *)
(* bounds: the map is exactly what no Get has seen yet, the answer of a    *)
(* single check is exact, and Exec implements Verification.                *)
(***************************************************************************)
EXTENDS CheckObj, FiniteSetTheorems, TLAPS

Over == {"close", "closeDone", "cancel", "returned"}

(* Who is about to delete a name has seen it; who announces, or answers    *)
(* "ok", has found the map empty, and it stays empty.                      *)
SeenFirst == /\ main = "delete" => name \in observed
             /\ handler = "delete" /\ subject \in Names => subject \in observed
EmptyStays == (handler = "send" \/ verdict = "ok") => nameMap = {}
OverIsDecided == verdict # "none" <=> main \in Over

(* Without a timeout there is no informer, and the one answer depends on   *)
(* the map alone.                                                          *)
OnceAlone ==
    ~timeout => /\ informer = "off" /\ handler = "idle"
                /\ main \notin {"wait", "closeDone", "cancel"}
                /\ main \in Over => (verdict = "ok" <=> nameMap = {})

Inv == TypeOK /\ MapIsUnseen /\ SeenFirst /\ EmptyStays /\ OverIsDecided /\ OnceAlone

-----------------------------------------------------------------------------
LEMMA InitInv == Init => Inv
<1> SUFFICES ASSUME Init PROVE Inv
  OBVIOUS
<1>1. TypeOK
  <2>1. changes \in 0..MaxChanges /\ faults \in 0..MaxFaults
    BY BoundsAssumption DEF Init
  <2>2. state \in [Objs -> {"absent", "other", "match"}] /\ pending \in [Objs -> Nat]
    BY DEF Init
  <2> QED BY <2>1, <2>2 DEF Init, TypeOK, Objs
<1>2. MapIsUnseen /\ SeenFirst /\ EmptyStays /\ OverIsDecided /\ OnceAlone
  BY DEF Init, MapIsUnseen, BeingForgotten, SeenFirst, EmptyStays, OverIsDecided, OnceAlone, Over
<1> QED BY <1>1, <1>2 DEF Inv

(* The steps of the cluster and of the clock.                              *)
LEMMA ClusterKeepsInv ==
    ASSUME Inv, InformerLists \/ Expire
                \/ \E o \in Objs, s \in {"absent", "other", "match"} : Change(o, s)
    PROVE  Inv'
<1>1. TypeOK'
  <2>1. CASE \E o \in Objs, s \in {"absent", "other", "match"} : Change(o, s)
    BY <2>1, BoundsAssumption DEF Inv, TypeOK, Change, execVars, handlerVars
  <2>2. CASE InformerLists
    BY <2>2 DEF Inv, TypeOK, InformerLists, Listed, cluster, handlerVars
  <2>3. CASE Expire
    BY <2>3 DEF Inv, TypeOK, Expire, cluster, execVars, handlerVars
  <2> QED BY <2>1, <2>2, <2>3
<1>2. /\ UNCHANGED <<timeout, nameMap, main, todo, name, verdict, handlerVars, observed>>
      /\ informer' # informer => informer = "starting"
  BY DEF Change, InformerLists, Expire, cluster, execVars, handlerVars
<1>3. (MapIsUnseen /\ SeenFirst /\ EmptyStays /\ OverIsDecided /\ OnceAlone)'
  BY <1>2 DEF Inv, MapIsUnseen, BeingForgotten, SeenFirst, EmptyStays, OverIsDecided, OnceAlone,
              Over, handlerVars
<1> QED BY <1>1, <1>3 DEF Inv

(* What a Get returns, for either goroutine.                               *)
LEMMA GetKeeps ==
    ASSUME TypeOK, NEW o \in Objs, GetMatches(o) \/ GetFails(o)
    PROVE  /\ observed \subseteq observed' /\ observed' \subseteq observed \cup {o}
           /\ observed' \subseteq Names /\ faults' \in 0..MaxFaults
           /\ GetMatches(o) => state[o] = "match" /\ (o \in Names => o \in observed')
           /\ GetFails(o) => observed' = observed
BY BoundsAssumption DEF TypeOK, GetMatches, GetFails

LEMMA ExecKeepsInv == ASSUME Inv, ExecStep PROVE Inv'
<1>1. CASE Exec
  BY <1>1 DEF Exec, Inv, TypeOK, MapIsUnseen, BeingForgotten, SeenFirst, EmptyStays, OverIsDecided,
              OnceAlone, Over, cluster, handlerVars
<1>2. CASE SyncGet
  <2>1. PICK n \in todo :
          /\ name' = n
          /\ \/ GetMatches(n) /\ main' = "delete" /\ UNCHANGED todo
             \/ /\ GetFails(n)
                /\ todo' = todo \ {n}
                /\ main' = IF todo' = {} THEN "keys" ELSE "get"
    BY <1>2 DEF SyncGet
  <2>2. n \in Names /\ n \in Objs
    BY <2>1 DEF Inv, TypeOK, Objs
  <2>3. /\ observed \subseteq observed' /\ observed' \subseteq observed \cup {n}
        /\ observed' \subseteq Names /\ faults' \in 0..MaxFaults
        /\ GetMatches(n) => n \in observed'
        /\ GetFails(n) => observed' = observed
    BY <2>1, <2>2, GetKeeps DEF Inv
  <2>4. TypeOK'
    BY <1>2, <2>1, <2>2, <2>3 DEF SyncGet, Inv, TypeOK, cluster, handlerVars
  <2>5. (MapIsUnseen /\ SeenFirst)'
    BY <1>2, <2>1, <2>2, <2>3
       DEF SyncGet, Inv, MapIsUnseen, BeingForgotten, SeenFirst, handlerVars
  <2>6. (EmptyStays /\ OverIsDecided /\ OnceAlone)'
    BY <1>2, <2>1 DEF SyncGet, Inv, EmptyStays, OverIsDecided, OnceAlone, Over, cluster, handlerVars
  <2> QED BY <2>4, <2>5, <2>6 DEF Inv
<1>3. CASE SyncDelete
  <2>1. TypeOK'
    BY <1>3 DEF SyncDelete, Forget, Inv, TypeOK, cluster, handlerVars
  <2>2. (MapIsUnseen /\ SeenFirst /\ EmptyStays /\ OverIsDecided /\ OnceAlone)'
    BY <1>3 DEF SyncDelete, Forget, Inv, MapIsUnseen, BeingForgotten, SeenFirst, EmptyStays,
                OverIsDecided, OnceAlone, Over, cluster, handlerVars
  <2> QED BY <2>1, <2>2 DEF Inv
<1>4. CASE SyncKeys
  <2>1. TypeOK'
    BY <1>4 DEF SyncKeys, Inv, TypeOK, cluster, handlerVars
  <2>2. (MapIsUnseen /\ SeenFirst /\ EmptyStays /\ OverIsDecided /\ OnceAlone)'
    BY <1>4 DEF SyncKeys, Inv, MapIsUnseen, BeingForgotten, SeenFirst, EmptyStays,
                OverIsDecided, OnceAlone, Over, cluster, handlerVars
  <2> QED BY <2>1, <2>2 DEF Inv
<1>5. CASE WaitTimesOut \/ WaitReceives
  <2>1. TypeOK'
    BY <1>5 DEF WaitTimesOut, WaitReceives, Inv, TypeOK, cluster, handlerVars
  <2>2. (MapIsUnseen /\ SeenFirst /\ EmptyStays /\ OverIsDecided /\ OnceAlone)'
    <3>1. (MapIsUnseen /\ SeenFirst)'
      BY <1>5 DEF WaitTimesOut, WaitReceives, Inv, MapIsUnseen, BeingForgotten, SeenFirst,
                  cluster, handlerVars
    <3>2. (EmptyStays /\ OverIsDecided /\ OnceAlone)'
      BY <1>5 DEF WaitTimesOut, WaitReceives, Inv, EmptyStays, OverIsDecided, OnceAlone, Over,
                  cluster, handlerVars
    <3> QED BY <3>1, <3>2
  <2> QED BY <2>1, <2>2 DEF Inv
<1>6. CASE CloseStopCh \/ CloseDone \/ CancelCtx
  <2>1. TypeOK'
    <3>1. CASE CloseStopCh
      BY <3>1 DEF CloseStopCh, Inv, TypeOK, cluster, handlerVars
    <3>2. CASE CloseDone
      BY <3>2 DEF CloseDone, Inv, TypeOK, cluster, handlerVars
    <3>3. CASE CancelCtx
      BY <3>3 DEF CancelCtx, Inv, TypeOK, cluster, handlerVars
    <3> QED BY <1>6, <3>1, <3>2, <3>3
  <2>2. (MapIsUnseen /\ SeenFirst /\ EmptyStays /\ OverIsDecided /\ OnceAlone)'
    BY <1>6 DEF CloseStopCh, CloseDone, CancelCtx, Inv, MapIsUnseen, BeingForgotten, SeenFirst,
                EmptyStays, OverIsDecided, OnceAlone, Over, cluster, handlerVars
  <2> QED BY <2>1, <2>2 DEF Inv
<1> QED BY <1>1, <1>2, <1>3, <1>4, <1>5, <1>6 DEF ExecStep

LEMMA HandlerKeepsInv == ASSUME Inv, HandlerStep PROVE Inv'
<1> USE DEF execVars, cluster
<1>1. CASE TakeEvent
  <2>1. PICK o \in Objs : pending[o] > 0 /\ subject' = o
                          /\ pending' = [pending EXCEPT ![o] = @ - 1]
    BY <1>1 DEF TakeEvent
  <2>2. TypeOK'
    BY <1>1, <2>1 DEF TakeEvent, Inv, TypeOK
  <2>3. (MapIsUnseen /\ SeenFirst /\ EmptyStays /\ OverIsDecided /\ OnceAlone)'
    BY <1>1 DEF TakeEvent, Inv, MapIsUnseen, BeingForgotten, SeenFirst, EmptyStays,
                OverIsDecided, OnceAlone, Over
  <2> QED BY <2>2, <2>3 DEF Inv
<1>2. CASE HandlerGet
  <2>1. subject \in Objs /\ (GetMatches(subject) \/ GetFails(subject))
    BY <1>2 DEF HandlerGet, Inv, TypeOK
  <2>2. /\ observed \subseteq observed' /\ observed' \subseteq observed \cup {subject}
        /\ observed' \subseteq Names /\ faults' \in 0..MaxFaults
        /\ GetMatches(subject) => (subject \in Names => subject \in observed')
        /\ GetFails(subject) => observed' = observed
    BY <2>1, GetKeeps DEF Inv
  <2>3. TypeOK'
    BY <1>2, <2>2 DEF HandlerGet, Inv, TypeOK
  <2>4. (MapIsUnseen /\ SeenFirst)'
    BY <1>2, <2>2 DEF HandlerGet, Inv, MapIsUnseen, BeingForgotten, SeenFirst
  <2>5. (EmptyStays /\ OverIsDecided /\ OnceAlone)'
    BY <1>2 DEF HandlerGet, Inv, EmptyStays, OverIsDecided, OnceAlone, Over
  <2> QED BY <2>3, <2>4, <2>5 DEF Inv
<1>3. CASE HandlerDelete
  <2>1. TypeOK'
    BY <1>3 DEF HandlerDelete, Forget, Inv, TypeOK
  <2>2. (MapIsUnseen /\ SeenFirst /\ EmptyStays /\ OverIsDecided /\ OnceAlone)'
    <3>1. (MapIsUnseen /\ SeenFirst)'
      BY <1>3 DEF HandlerDelete, Forget, Inv, MapIsUnseen, BeingForgotten, SeenFirst
    <3>2. (EmptyStays /\ OverIsDecided /\ OnceAlone)'
      BY <1>3 DEF HandlerDelete, Forget, Inv, EmptyStays, OverIsDecided, OnceAlone, Over
    <3> QED BY <3>1, <3>2
  <2> QED BY <2>1, <2>2 DEF Inv
<1>4. CASE HandlerSize \/ SendOnClosed
  <2>1. TypeOK'
    <3>1. CASE HandlerSize
      BY <3>1 DEF HandlerSize, Inv, TypeOK, handlerVars
    <3>2. CASE SendOnClosed
      BY <3>2 DEF SendOnClosed, Inv, TypeOK, handlerVars
    <3> QED BY <1>4, <3>1, <3>2
  <2>2. (MapIsUnseen /\ SeenFirst /\ EmptyStays /\ OverIsDecided /\ OnceAlone)'
    BY <1>4 DEF HandlerSize, SendOnClosed, Inv, MapIsUnseen, BeingForgotten, SeenFirst,
                EmptyStays, OverIsDecided, OnceAlone, Over, handlerVars
  <2> QED BY <2>1, <2>2 DEF Inv
<1> QED BY <1>1, <1>2, <1>3, <1>4 DEF HandlerStep

LEMMA NextInv == Inv /\ [Next]_vars => Inv'
<1> SUFFICES ASSUME Inv, [Next]_vars PROVE Inv'
  OBVIOUS
<1>1. CASE UNCHANGED vars
  BY <1>1 DEF vars, cluster, execVars, handlerVars, Inv, TypeOK, MapIsUnseen, BeingForgotten,
              SeenFirst, EmptyStays, OverIsDecided, OnceAlone, Over
<1>2. CASE Next
  BY <1>2, ClusterKeepsInv, ExecKeepsInv, HandlerKeepsInv DEF Next
<1> QED BY <1>1, <1>2

LEMMA InvAlways == Spec => []Inv
BY InitInv, NextInv, PTL DEF Spec

-----------------------------------------------------------------------------
(* Every variable of the check keeps its type.                             *)
THEOREM TypeCorrect == Spec => []TypeOK
<1>1. Inv => TypeOK
  BY DEF Inv
<1> QED BY <1>1, InvAlways, PTL

(* However the two goroutines interleave, the shared map is exactly what   *)
(* has not been seen, but for a name that is just being removed.           *)
THEOREM MapIsUnseenAlways == Spec => []MapIsUnseen
<1>1. Inv => MapIsUnseen
  BY DEF Inv
<1> QED BY <1>1, InvAlways, PTL

(* A task without a timeout returns "ok" if and only if its one round of   *)
(* Gets saw every name in the expected state.                              *)
THEOREM OnceIsExactAlways == Spec => []OnceIsExact
<1>1. Inv => OnceIsExact
  <2> SUFFICES ASSUME Inv, ~timeout, main = "returned"
               PROVE  verdict = "ok" <=> observed = Names
    BY DEF OnceIsExact
  <2>1. verdict = "ok" <=> nameMap = {}
    BY DEF Inv, OnceAlone, Over
  <2>2. BeingForgotten = {}
    BY DEF Inv, OnceAlone, BeingForgotten
  <2>3. observed = Names \ nameMap /\ nameMap \subseteq Names
    BY <2>2 DEF Inv, MapIsUnseen, TypeOK
  <2> QED BY <2>1, <2>3
<1> QED BY <1>1, InvAlways, PTL

-----------------------------------------------------------------------------
Good == {n \in Names : state[n] = "match"}

(* A Get sees a name only while it is in the expected state.               *)
LEMMA GetLooks ==
    ASSUME Inv, NEW o \in Objs, GetMatches(o) \/ GetFails(o), UNCHANGED <<state, verdict>>
    PROVE  Promise!Look
<1>1. observed' = observed \cup (observed' \ observed)
  BY GetKeeps DEF Inv
<1>2. (observed' \ observed) \in SUBSET (Good \cup Good')
  BY GetKeeps DEF Inv, Good
<1> QED BY <1>1, <1>2 DEF Promise!Look, Good

LEMMA OthersStutter ==
    ASSUME Inv, UNCHANGED <<state, observed>>, verdict' = verdict
    PROVE  UNCHANGED Promise!vars
BY DEF Promise!vars

LEMMA NextImplements == Inv /\ [Next]_vars => [Promise!Next]_(Promise!vars)
<1> SUFFICES ASSUME Inv, [Next]_vars PROVE [Promise!Next]_(Promise!vars)
  OBVIOUS
<1>1. CASE UNCHANGED vars
  BY <1>1, OthersStutter DEF vars, cluster, execVars
<1>2. CASE \E o \in Objs, s \in {"absent", "other", "match"} : Change(o, s)
  <2>1. UNCHANGED <<observed, verdict>>
    BY <1>2 DEF Change, execVars
  <2>2. observed' = observed \cup {} /\ {} \in SUBSET (Good \cup Good') /\ Good' \in SUBSET Names
    BY <2>1 DEF Good
  <2>3. Promise!Look
    BY <2>1, <2>2 DEF Promise!Look, Good
  <2> QED BY <2>3 DEF Promise!Next
<1>3. CASE Expire \/ InformerLists
  BY <1>3, OthersStutter DEF Expire, InformerLists, cluster, execVars
<1>4. CASE SyncGet
  <2>1. PICK n \in todo : GetMatches(n) \/ GetFails(n)
    BY <1>4 DEF SyncGet
  <2>2. n \in Objs /\ UNCHANGED <<state, verdict>>
    BY <1>4 DEF SyncGet, Inv, TypeOK, Objs, cluster
  <2> QED BY <2>1, <2>2, GetLooks DEF Promise!Next
<1>5. CASE HandlerGet
  <2>1. subject \in Objs /\ (GetMatches(subject) \/ GetFails(subject))
        /\ UNCHANGED <<state, verdict>>
    BY <1>5 DEF HandlerGet, Inv, TypeOK, cluster, execVars
  <2> QED BY <2>1, GetLooks DEF Promise!Next
<1>6. CASE SyncKeys \/ WaitTimesOut \/ WaitReceives
  <2>1. verdict = "none" /\ UNCHANGED <<state, observed>>
    BY <1>6 DEF SyncKeys, WaitTimesOut, WaitReceives, Inv, OverIsDecided, Over, TypeOK, cluster
  <2>2. CASE verdict' = "ok"
    <3>1. nameMap = {}
      BY <1>6, <2>2, <2>1 DEF SyncKeys, WaitTimesOut, WaitReceives, Inv, EmptyStays
    <3>2. observed = Names
      BY <3>1 DEF Inv, TypeOK, MapIsUnseen
    <3>3. Cardinality(observed) \in Nat /\ Cardinality(observed) >= Cardinality(Names)
      BY <3>2, NamesAssumption, FS_CardinalityType
    <3>4. Promise!Cardinality(Names) = Cardinality(Names)
      BY DEF Promise!Cardinality, Cardinality
    <3>5. Promise!Succeed
      BY <2>1, <2>2, <3>2, <3>3, <3>4 DEF Promise!Succeed
    <3> QED BY <3>5 DEF Promise!Next
  <2>3. CASE verdict' = "error"
    BY <2>1, <2>3 DEF Promise!Next, Promise!GiveUp
  <2>4. CASE verdict' = verdict
    BY <2>1, <2>4, OthersStutter
  <2> QED BY <1>6, <2>2, <2>3, <2>4 DEF SyncKeys, WaitTimesOut, WaitReceives
<1>7. CASE Exec \/ SyncDelete \/ CloseStopCh \/ CloseDone \/ CancelCtx
  BY <1>7, OthersStutter DEF Exec, SyncDelete, CloseStopCh, CloseDone, CancelCtx, cluster
<1>8. CASE TakeEvent \/ HandlerDelete \/ HandlerSize \/ SendOnClosed
  BY <1>8, OthersStutter DEF TakeEvent, HandlerDelete, HandlerSize, SendOnClosed, cluster, execVars
<1> QED BY <1>1, <1>2, <1>3, <1>4, <1>5, <1>6, <1>7, <1>8 DEF Next, ExecStep, HandlerStep

(* Exec implements Verification: "ok" is only returned when each name was  *)
(* seen by some Get at a moment when the object was in the expected state. *)
THEOREM Implements == Spec => PromiseSpec
<1>1. Init => Promise!Init
  BY DEF Init, Promise!Init
<1> QED BY <1>1, InvAlways, NextImplements, PTL DEF Spec, PromiseSpec, Promise!Spec
=============================================================================
