---------------------------- MODULE WatcherProofs ----------------------------
(***************************************************************************)
(* What TLAPS proves of the resource watcher, for any number of watchers,  *)
(* objects, crashes, lost connections and orphaned puts.                   *)
(***************************************************************************)
EXTENDS Watcher, FiniteSetTheorems, TLAPS

(* The events the informer's callbacks put on the queue.                   *)
LEMMA EventTypes ==
    /\ \A u \in Objects : Add(u) \in Event
    /\ Other("update") \in Event
    /\ Other("delete") \in Event
    /\ \A n \in Notification : EventOf(n) \in Event /\ n.obj \in Objects
    /\ \A u \in Objects, k \in Kinds : [kind |-> k, obj |-> u] \in Notification
    /\ \A e \in Event : e.kind = "add" => e.obj \in Objects /\ e = Add(e.obj)
    /\ \A u \in Objects : Add(u).obj = u /\ Add(u).kind = "add"
    /\ None \notin Event
  BY NoneAssumption DEF Add, Other, Kinds, Notification, Event, EventOf

(* Giving up a put leaves the artifacts alone and orphans at most that put. *)
LEMMA AbandonEffect ==
    ASSUME TypeOK, WorkerShape, NEW w \in Watchers, Abandon(w)
    PROVE  /\ copies' = copies
           /\ orphans' \in [Objects -> Nat]
           /\ orphaned' \in [Objects -> Nat]
           /\ \/ orphans' = orphans /\ orphaned' = orphaned
              \/ /\ pc[w] = "put"
                 /\ \E u \in Objects :
                      /\ item[w] = Add(u)
                      /\ orphans' = [orphans EXCEPT ![u] = @ + 1]
                      /\ orphaned' = [orphaned EXCEPT ![u] = @ + 1]
<1> USE DEF TypeOK, storeVars
<1>1. CASE UNCHANGED storeVars
  BY <1>1
<1>2. CASE ~UNCHANGED storeVars
  <2>1. pc[w] = "put"
    BY <1>2 DEF Abandon
  <2>2. PICK u \in Objects : item[w] = Add(u)
    BY <2>1 DEF WorkerShape
  <2>3. item[w].obj = u
    BY <2>2 DEF Add
  <2>4. /\ orphans' = [orphans EXCEPT ![u] = @ + 1]
        /\ orphaned' = [orphaned EXCEPT ![u] = @ + 1]
        /\ copies' = copies
    BY <1>2, <2>3 DEF Abandon
  <2>5. orphans' \in [Objects -> Nat]
    BY <2>4
  <2>6. orphaned' \in [Objects -> Nat]
    BY <2>4
  <2> QED
    BY <2>1, <2>2, <2>4, <2>5, <2>6
<1> QED
  BY <1>1, <1>2

(* A worker is idle exactly when it holds no event, and one that puts an   *)
(* artifact holds the add event of the object: what the types alone do not *)
(* say, and every step of the worker needs.                                *)
Shape == TypeOK /\ WorkerShape

LEMMA ShapeInductive == Spec => []Shape
<1>1. Init => Shape
  BY DEF Init, Shape, TypeOK, WorkerShape
<1>2. Shape /\ [Next]_vars => Shape'
  <2> SUFFICES ASSUME TypeOK, WorkerShape, [Next]_vars
               PROVE  TypeOK' /\ WorkerShape'
    BY DEF Shape
  <2> USE EventTypes DEF TypeOK, WorkerShape
  <2>1. CASE ClusterStep
    <3> USE DEF clusterVars, queueVars, workerVars, storeVars
    <3>1. ASSUME NEW u \in Objects, NEW k \in Kinds, Notify(k, u)
          PROVE  /\ stream' \in [Watchers -> Seq(Notification)]
                 /\ UNCHANGED <<phase, watching, cache, waiting, ready, pc, item, copies,
                                orphans, orphaned, seen, crashes, gaps>>
      BY <3>1 DEF Notify
    <3>2. ASSUME NEW u \in Objects, CreateObject(u)
          PROVE  TypeOK' /\ WorkerShape'
      BY <3>1, <3>2 DEF CreateObject, Kinds
    <3>3. ASSUME NEW u \in Objects, ModifyObject(u)
          PROVE  TypeOK' /\ WorkerShape'
      BY <3>1, <3>3 DEF ModifyObject, Kinds
    <3>4. ASSUME NEW u \in Objects, DeleteObject(u)
          PROVE  TypeOK' /\ WorkerShape'
      BY <3>1, <3>4 DEF DeleteObject, Kinds
    <3> QED
      BY <2>1, <3>2, <3>3, <3>4 DEF ClusterStep
  <2>2. CASE ProcessStep
    <3> USE DEF clusterVars, informerVars, queueVars, workerVars, storeVars
    <3>1. ASSUME NEW w \in Watchers, Start(w) \/ RegisterOk(w) \/ RegisterFails(w)
          PROVE  TypeOK' /\ WorkerShape'
      <4>1. CASE Start(w)
        BY <4>1 DEF Start
      <4>2. CASE RegisterOk(w)
        BY <4>2 DEF RegisterOk
      <4>3. CASE RegisterFails(w)
        BY <4>3 DEF RegisterFails
      <4> QED
        BY <3>1, <4>1, <4>2, <4>3
    <3>2. ASSUME NEW w \in Watchers, Crash(w)
          PROVE  TypeOK' /\ WorkerShape'
      <4>1. copies' = copies /\ orphans' \in [Objects -> Nat] /\ orphaned' \in [Objects -> Nat]
        BY <3>2, AbandonEffect DEF Crash
      <4>2. TypeOK'
        <5>1. /\ stream' \in [Watchers -> Seq(Notification)]
              /\ ready' \in [Watchers -> Seq(Event)]
          BY <3>2 DEF Crash
        <5>2. /\ phase' \in [Watchers -> {"down", "boot", "sync", "run"}]
              /\ watching' \in [Watchers -> BOOLEAN]
              /\ cache' \in [Watchers -> SUBSET Objects]
              /\ seen' \in [Watchers -> SUBSET Objects]
              /\ waiting' \in [Watchers -> SUBSET Event]
          BY <3>2 DEF Crash
        <5>3. /\ pc' \in [Watchers -> {"idle", "handle", "put", "acked"}]
              /\ item' \in [Watchers -> Event \cup {None}]
              /\ crashes' \in Nat
              /\ UNCHANGED <<cluster, created, gaps>>
          BY <3>2 DEF Crash
        <5> QED
          BY <4>1, <5>1, <5>2, <5>3
      <4>3. WorkerShape'
        BY <3>2, <4>1 DEF Crash
      <4> QED
        BY <4>2, <4>3
    <3> QED
      BY <2>2, <3>1, <3>2 DEF ProcessStep
  <2>3. CASE InformerStep
    <3> USE DEF clusterVars, queueVars, workerVars, storeVars
    <3>1. ASSUME NEW w \in Watchers, List(w)
          PROVE  TypeOK' /\ WorkerShape'
      BY <3>1 DEF List
    <3>2. ASSUME NEW w \in Watchers, Deliver(w)
          PROVE  TypeOK' /\ WorkerShape'
      <4>1. Head(stream[w]) \in Notification /\ Tail(stream[w]) \in Seq(Notification)
        BY <3>2 DEF Deliver
      <4> QED
        BY <3>2, <4>1 DEF Deliver
    <3>3. ASSUME NEW w \in Watchers, LoseWatch(w)
          PROVE  TypeOK' /\ WorkerShape'
      BY <3>3 DEF LoseWatch
    <3> QED
      BY <2>3, <3>1, <3>2, <3>3 DEF InformerStep
  <2>4. CASE QueueStep
    BY <2>4 DEF QueueStep, Fire, clusterVars, informerVars, workerVars, storeVars
  <2>5. CASE WorkerStep
    <3> USE DEF clusterVars, informerVars, queueVars, workerVars, storeVars
    <3>1. ASSUME NEW w \in Watchers, GetItem(w)
          PROVE  TypeOK' /\ WorkerShape'
      BY <3>1 DEF GetItem
    <3>2. ASSUME NEW w \in Watchers, Done(w), UNCHANGED storeVars
          PROVE  TypeOK' /\ WorkerShape'
      BY <3>2 DEF Done, Release
    <3>3. ASSUME NEW w \in Watchers, FoundNone(w)
          PROVE  TypeOK' /\ WorkerShape'
      BY <3>3 DEF FoundNone, Checking
    <3>4. ASSUME NEW w \in Watchers, Requeue(w), pc[w] # "idle", copies' = copies
          PROVE  /\ waiting' \in [Watchers -> SUBSET Event]
                 /\ pc' \in [Watchers -> {"idle", "handle", "put", "acked"}]
                 /\ item' \in [Watchers -> Event \cup {None}]
                 /\ UNCHANGED <<clusterVars, phase, informerVars, ready, crashes, gaps>>
                 /\ WorkerShape'
      BY <3>4 DEF Requeue, Release
    <3>5. ASSUME NEW w \in Watchers, IfExistsFails(w)
          PROVE  TypeOK' /\ WorkerShape'
      BY <3>4, <3>5 DEF IfExistsFails, Checking
    <3>6. ASSUME NEW w \in Watchers, PutApplied(w)
          PROVE  TypeOK' /\ WorkerShape'
      BY <3>6 DEF PutApplied
    <3>7. ASSUME NEW w \in Watchers, PutFails(w)
          PROVE  TypeOK' /\ WorkerShape'
      <4>1. copies' = copies /\ orphans' \in [Objects -> Nat] /\ orphaned' \in [Objects -> Nat]
        BY <3>7, AbandonEffect DEF PutFails
      <4> QED
        BY <3>4, <3>7, <4>1 DEF PutFails
    <3> QED
      BY <2>5, <3>1, <3>2, <3>3, <3>5, <3>6, <3>7
         DEF WorkerStep, HandleOther, FoundExisting, PutReturns
  <2>6. CASE OrphanStep
    <3> USE DEF clusterVars, informerVars, queueVars, workerVars
    <3>1. ASSUME NEW u \in Objects, OrphanLands(u)
          PROVE  TypeOK' /\ WorkerShape'
      BY <3>1 DEF OrphanLands
    <3>2. ASSUME NEW u \in Objects, OrphanDropped(u)
          PROVE  TypeOK' /\ WorkerShape'
      BY <3>2 DEF OrphanDropped
    <3> QED
      BY <2>6, <3>1, <3>2 DEF OrphanStep
  <2>7. CASE UNCHANGED vars
    BY <2>7 DEF vars, clusterVars, informerVars, queueVars, workerVars, storeVars
  <2> QED
    BY <2>1, <2>2, <2>3, <2>4, <2>5, <2>6, <2>7 DEF Next
<1> QED
  BY <1>1, <1>2, PTL DEF Spec

(* Every variable of the watcher keeps its type.                           *)
THEOREM TypeCorrect == Spec => []TypeOK
  BY ShapeInductive, PTL DEF Shape

-----------------------------------------------------------------------------
(* What the work queue's two operations do to the set of queued events.    *)

LEMMA ToSetAppend ==
    ASSUME NEW S, NEW s \in Seq(S), NEW e \in S
    PROVE  ToSet(Append(s, e)) = ToSet(s) \cup {e}
<1>1. /\ DOMAIN Append(s, e) = 1 .. Len(s) + 1
      /\ DOMAIN s = 1 .. Len(s)
      /\ Len(s) \in Nat
  OBVIOUS
<1>2. \A i \in 1 .. Len(s) : Append(s, e)[i] = s[i]
  OBVIOUS
<1>3. Append(s, e)[Len(s) + 1] = e
  OBVIOUS
<1> QED
  BY <1>1, <1>2, <1>3 DEF ToSet

LEMMA ToSetHeadTail ==
    ASSUME NEW S, NEW s \in Seq(S), s # <<>>
    PROVE  ToSet(s) \subseteq {Head(s)} \cup ToSet(Tail(s))
<1>1. /\ DOMAIN s = 1 .. Len(s)
      /\ DOMAIN Tail(s) = 1 .. Len(s) - 1
      /\ Len(s) \in Nat
  OBVIOUS
<1>2. SUFFICES ASSUME NEW i \in 1 .. Len(s)
               PROVE  s[i] \in {Head(s)} \cup ToSet(Tail(s))
  BY <1>1 DEF ToSet
<1>3. CASE i = 1
  BY <1>3
<1>4. CASE i > 1
  <2>1. i - 1 \in DOMAIN Tail(s) /\ Tail(s)[i - 1] = s[i]
    BY <1>1, <1>4
  <2> QED
    BY <2>1 DEF ToSet
<1> QED
  BY <1>3, <1>4

(* An event handed over by OnAdd leaves the watcher's hands only when the  *)
(* object is in the store: no error, and no order of deliveries, delays,   *)
(* checks and puts, drops it.                                              *)
THEOREM EventsSurvive == Spec => []NoEventLost
<1>1. Init => NoEventLost
  BY DEF Init, NoEventLost
<1>2. Shape /\ Shape' /\ NoEventLost /\ [Next]_vars => NoEventLost'
  <2> SUFFICES ASSUME Shape, Shape', NoEventLost, [Next]_vars
               PROVE  NoEventLost'
    OBVIOUS
  <2> USE EventTypes DEF Shape, TypeOK, WorkerShape
  <2>1. ASSUME UNCHANGED <<seen, waiting, ready, item, copies>>
        PROVE  NoEventLost'
    BY <2>1 DEF NoEventLost, Pending
  <2>2. CASE ClusterStep
    BY <2>1, <2>2 DEF ClusterStep, CreateObject, ModifyObject, DeleteObject, Notify,
                      queueVars, workerVars, storeVars
  <2>3. CASE ProcessStep
    <3>1. ASSUME NEW w \in Watchers, Start(w) \/ RegisterOk(w) \/ RegisterFails(w)
          PROVE  NoEventLost'
      BY <2>1, <3>1 DEF Start, RegisterOk, RegisterFails,
                        informerVars, queueVars, workerVars, storeVars
    <3>2. ASSUME NEW w \in Watchers, Crash(w)
          PROVE  NoEventLost'
      <4>1. copies' = copies
        BY <3>2, AbandonEffect DEF Crash
      <4>2. /\ seen' = [seen EXCEPT ![w] = {}]
            /\ waiting' = [waiting EXCEPT ![w] = {}]
            /\ ready' = [ready EXCEPT ![w] = <<>>]
            /\ item' = [item EXCEPT ![w] = None]
        BY <3>2 DEF Crash
      <4> QED
        BY <4>1, <4>2 DEF NoEventLost, Pending
    <3> QED
      BY <2>3, <3>1, <3>2 DEF ProcessStep
  <2>4. CASE InformerStep
    <3>1. ASSUME NEW w \in Watchers, List(w)
          PROVE  NoEventLost'
      <4>1. \A u \in seen'[w] : u \in seen[w] \/ Add(u) \in waiting'[w]
        BY <3>1 DEF List
      <4>2. /\ waiting[w] \subseteq waiting'[w]
            /\ \A v \in Watchers \ {w} : waiting'[v] = waiting[v] /\ seen'[v] = seen[v]
            /\ UNCHANGED <<ready, item, copies>>
        BY <3>1 DEF List, workerVars, storeVars
      <4> QED
        BY <4>1, <4>2 DEF NoEventLost, Pending
    <3>2. ASSUME NEW w \in Watchers, Deliver(w)
          PROVE  NoEventLost'
      <4> DEFINE n == Head(stream[w])
      <4>1. n \in Notification
        BY <3>2 DEF Deliver
      <4>2. n.kind = "add" => EventOf(n) = Add(n.obj)
        BY <4>1 DEF EventOf, Add, Notification
      <4>3. /\ seen' = [seen EXCEPT ![w] = IF n.kind = "add" THEN @ \cup {n.obj} ELSE @]
            /\ waiting' = [waiting EXCEPT ![w] = @ \cup {EventOf(n)}]
            /\ UNCHANGED <<ready, item, copies>>
        BY <3>2 DEF Deliver, workerVars, storeVars
      <4>4. \A u \in seen'[w] : u \in seen[w] \/ Add(u) \in waiting'[w]
        BY <4>2, <4>3
      <4>5. /\ waiting[w] \subseteq waiting'[w]
            /\ \A v \in Watchers \ {w} : waiting'[v] = waiting[v] /\ seen'[v] = seen[v]
        BY <4>3
      <4> QED
        BY <4>3, <4>4, <4>5 DEF NoEventLost, Pending
    <3>3. ASSUME NEW w \in Watchers, LoseWatch(w)
          PROVE  NoEventLost'
      BY <2>1, <3>3 DEF LoseWatch, queueVars, workerVars, storeVars
    <3> QED
      BY <2>4, <3>1, <3>2, <3>3 DEF InformerStep
  <2>5. CASE QueueStep
    <3> SUFFICES ASSUME NEW w \in Watchers, NEW e \in Event, Fire(w, e)
                 PROVE  NoEventLost'
      BY <2>5 DEF QueueStep
    <3>1. /\ waiting' = [waiting EXCEPT ![w] = @ \ {e}]
          /\ ready' = [ready EXCEPT ![w] = IF e \in ToSet(@) THEN @ ELSE Append(@, e)]
          /\ UNCHANGED <<seen, item, copies>>
      BY DEF Fire, informerVars, workerVars, storeVars
    <3>2. ToSet(ready'[w]) = ToSet(ready[w]) \cup {e}
      BY <3>1, ToSetAppend
    <3>3. \A v \in Watchers : Pending(v) \subseteq Pending(v)'
      BY <3>1, <3>2 DEF Pending
    <3> QED
      BY <3>1, <3>3 DEF NoEventLost
  <2>6. CASE WorkerStep
    <3>1. ASSUME NEW w \in Watchers, GetItem(w)
          PROVE  NoEventLost'
      <4>1. /\ item' = [item EXCEPT ![w] = Head(ready[w])]
            /\ ready' = [ready EXCEPT ![w] = Tail(@)]
            /\ UNCHANGED <<seen, waiting, copies>>
            /\ ready[w] # <<>>
            /\ item[w] = None
        BY <3>1 DEF GetItem, informerVars, storeVars
      <4>2. ToSet(ready[w]) \subseteq {item'[w]} \cup ToSet(ready'[w])
        BY <4>1, ToSetHeadTail
      <4>3. \A v \in Watchers : Pending(v) \ {None} \subseteq Pending(v)'
        BY <4>1, <4>2 DEF Pending
      <4> QED
        BY <4>1, <4>3 DEF NoEventLost
    <3>2. ASSUME NEW w \in Watchers, Done(w), UNCHANGED storeVars,
                 \A u \in Objects : item[w] = Add(u) => copies[u] > 0
          PROVE  NoEventLost'
      <4>1. /\ item' = [item EXCEPT ![w] = None]
            /\ UNCHANGED <<seen, waiting, ready, copies>>
        BY <3>2 DEF Done, Release, informerVars, storeVars
      <4> QED
        BY <3>2, <4>1 DEF NoEventLost, Pending
    <3>3. ASSUME NEW w \in Watchers, Requeue(w), copies' = copies
          PROVE  NoEventLost'
      <4>1. /\ item' = [item EXCEPT ![w] = None]
            /\ waiting' = [waiting EXCEPT ![w] = @ \cup {item[w]}]
            /\ UNCHANGED <<seen, ready>>
        BY <3>3 DEF Requeue, Release, informerVars
      <4>2. \A v \in Watchers : Pending(v) \subseteq Pending(v)'
        BY <4>1 DEF Pending
      <4> QED
        BY <3>3, <4>1, <4>2 DEF NoEventLost
    <3>4. ASSUME NEW w \in Watchers, HandleOther(w)
          PROVE  NoEventLost'
      BY <3>2, <3>4 DEF HandleOther
    <3>5. ASSUME NEW w \in Watchers, FoundExisting(w)
          PROVE  NoEventLost'
      BY <3>2, <3>5 DEF FoundExisting
    <3>6. ASSUME NEW w \in Watchers, PutReturns(w)
          PROVE  NoEventLost'
      <4>1. Done(w) /\ UNCHANGED storeVars /\ copies[item[w].obj] > 0
        BY <3>6 DEF PutReturns
      <4>2. \A u \in Objects : item[w] = Add(u) => copies[u] > 0
        BY <4>1
      <4> QED
        BY <3>2, <4>1, <4>2
    <3>7. ASSUME NEW w \in Watchers, FoundNone(w)
          PROVE  NoEventLost'
      BY <2>1, <3>7 DEF FoundNone, informerVars, queueVars, storeVars
    <3>8. ASSUME NEW w \in Watchers, IfExistsFails(w)
          PROVE  NoEventLost'
      BY <3>3, <3>8 DEF IfExistsFails, storeVars
    <3>9. ASSUME NEW w \in Watchers, PutFails(w)
          PROVE  NoEventLost'
      BY <3>3, <3>9, AbandonEffect DEF PutFails
    <3>10. ASSUME NEW w \in Watchers, PutApplied(w)
           PROVE  NoEventLost'
      <4>1. \A u \in Objects : copies[u] > 0 => copies'[u] > 0
        BY <3>10 DEF PutApplied
      <4>2. UNCHANGED <<seen, waiting, ready, item>>
        BY <3>10 DEF PutApplied, informerVars, queueVars
      <4> QED
        BY <4>1, <4>2 DEF NoEventLost, Pending
    <3> QED
      BY <2>6, <3>1, <3>4, <3>5, <3>6, <3>7, <3>8, <3>9, <3>10 DEF WorkerStep
  <2>7. CASE OrphanStep
    <3>1. \A u \in Objects : copies[u] > 0 => copies'[u] > 0
      <4>1. ASSUME NEW v \in Objects, OrphanLands(v)
            PROVE  \A u \in Objects : copies[u] > 0 => copies'[u] > 0
        BY <4>1 DEF OrphanLands
      <4>2. ASSUME NEW v \in Objects, OrphanDropped(v)
            PROVE  copies' = copies
        BY <4>2 DEF OrphanDropped
      <4> QED
        BY <2>7, <4>1, <4>2 DEF OrphanStep
    <3>2. UNCHANGED <<seen, waiting, ready, item>>
      BY <2>7 DEF OrphanStep, OrphanLands, OrphanDropped, informerVars, queueVars, workerVars
    <3> QED
      BY <3>1, <3>2 DEF NoEventLost, Pending
  <2>8. CASE UNCHANGED vars
    BY <2>1, <2>8 DEF vars, informerVars, queueVars, workerVars, storeVars
  <2> QED
    BY <2>2, <2>3, <2>4, <2>5, <2>6, <2>7, <2>8 DEF Next
<1> QED
  BY <1>1, <1>2, ShapeInductive, PTL DEF Spec

-----------------------------------------------------------------------------
(* How many attempts there can be, and how one more or one less counts.    *)

LEMMA AttemptsFinite ==
    ASSUME NEW u \in Objects
    PROVE  /\ IsFiniteSet(Attempting(u))
           /\ Cardinality(Attempting(u)) \in Nat
           /\ Cardinality(Watchers) \in Nat
           /\ Cardinality(Attempting(u)) <= Cardinality(Watchers)
  BY WatchersAssumption, FS_CardinalityType, FS_Subset DEF Attempting

LEMMA AttemptEnds ==
    ASSUME TypeOK, NEW w \in Watchers, NEW u \in Objects, pc[w] = "put", item[w] = Add(u),
           pc' = [pc EXCEPT ![w] = pc'[w]], pc'[w] # "put",
           \A v \in Watchers \ {w} : item'[v] = item[v]
    PROVE  /\ Cardinality(Attempting(u)') = Cardinality(Attempting(u)) - 1
           /\ \A t \in Objects \ {u} : Attempting(t)' = Attempting(t)
<1>1. Attempting(u)' = Attempting(u) \ {w} /\ w \in Attempting(u)
  BY DEF Attempting, TypeOK
<1>2. Cardinality(Attempting(u) \ {w}) = Cardinality(Attempting(u)) - 1
  BY <1>1, AttemptsFinite, FS_RemoveElement
<1>3. \A t \in Objects \ {u} : Attempting(t)' = Attempting(t)
  BY DEF Attempting, TypeOK, Add
<1> QED
  BY <1>1, <1>2, <1>3

LEMMA NoAttemptEnds ==
    ASSUME TypeOK, NEW w \in Watchers, pc[w] # "put",
           pc' = [pc EXCEPT ![w] = pc'[w]], pc'[w] # "put",
           \A v \in Watchers \ {w} : item'[v] = item[v]
    PROVE  \A t \in Objects : Attempting(t)' = Attempting(t)
  BY DEF Attempting, TypeOK

LEMMA BoundedElsewhere ==
    ASSUME AttemptsBounded, NEW u \in Objects,
           \A t \in Objects \ {u} : /\ copies'[t] = copies[t]
                                   /\ orphans'[t] = orphans[t]
                                   /\ orphaned'[t] = orphaned[t]
                                   /\ Attempting(t)' = Attempting(t),
           orphans'[u] <= orphaned'[u],
           copies'[u] + orphans'[u] + Cardinality(Attempting(u)')
               <= Cardinality(Watchers) + orphaned'[u]
    PROVE  AttemptsBounded'
<1> SUFFICES ASSUME NEW t \in Objects
             PROVE  /\ orphans'[t] <= orphaned'[t]
                    /\ copies'[t] + orphans'[t] + Cardinality(Attempting(t)')
                           <= Cardinality(Watchers) + orphaned'[t]
  BY DEF AttemptsBounded
<1>1. CASE t = u
  BY <1>1
<1>2. CASE t # u
  BY <1>2 DEF AttemptsBounded
<1> QED
  BY <1>1, <1>2

(* However calls fail, processes crash and puts are delayed, an object has *)
(* at most one artifact per watcher and per orphaned put.                  *)
LEMMA AttemptsStayBounded == Spec => []AttemptsBounded
<1>1. Init => AttemptsBounded
  <2> SUFFICES ASSUME Init, NEW u \in Objects
               PROVE  /\ orphans[u] <= orphaned[u]
                      /\ copies[u] + orphans[u] + Cardinality(Attempting(u))
                             <= Cardinality(Watchers) + orphaned[u]
    BY DEF AttemptsBounded
  <2>1. copies[u] = 0 /\ orphans[u] = 0 /\ orphaned[u] = 0
    BY DEF Init
  <2> QED
    BY <2>1, AttemptsFinite
<1>2. Shape /\ Shape' /\ AttemptsBounded /\ [Next]_vars => AttemptsBounded'
  <2> SUFFICES ASSUME Shape, Shape', AttemptsBounded, [Next]_vars
               PROVE  AttemptsBounded'
    OBVIOUS
  <2> USE DEF Shape
  <2>0. \A u \in Objects :
          /\ copies[u] \in Nat /\ orphans[u] \in Nat /\ orphaned[u] \in Nat
          /\ Cardinality(Attempting(u)) \in Nat /\ Cardinality(Watchers) \in Nat
          /\ orphans[u] <= orphaned[u]
          /\ copies[u] + orphans[u] + Cardinality(Attempting(u))
                 <= Cardinality(Watchers) + orphaned[u]
    BY AttemptsFinite DEF AttemptsBounded, TypeOK
  <2>1. ASSUME UNCHANGED storeVars, \A u \in Objects : Attempting(u)' = Attempting(u)
        PROVE  AttemptsBounded'
    BY <2>1 DEF AttemptsBounded, storeVars
  <2>2. ASSUME UNCHANGED <<pc, item, storeVars>>
        PROVE  AttemptsBounded'
    BY <2>1, <2>2 DEF Attempting
  <2>3. ASSUME NEW w \in Watchers, Abandon(w), pc' = [pc EXCEPT ![w] = "idle"],
               item' = [item EXCEPT ![w] = None]
        PROVE  AttemptsBounded'
    <3>1. \A v \in Watchers \ {w} : item'[v] = item[v]
      BY <2>3 DEF TypeOK
    <3>2. pc' = [pc EXCEPT ![w] = pc'[w]] /\ pc'[w] = "idle"
      BY <2>3 DEF TypeOK
    <3>3. CASE pc[w] # "put"
      <4>1. UNCHANGED storeVars
        BY <2>3, <3>3, AbandonEffect DEF storeVars
      <4> QED
        BY <2>1, <3>1, <3>2, <3>3, <4>1, NoAttemptEnds
    <3>4. CASE pc[w] = "put"
      <4>1. PICK u \in Objects : item[w] = Add(u)
        BY <3>4 DEF WorkerShape
      <4>2. /\ Cardinality(Attempting(u)') = Cardinality(Attempting(u)) - 1
            /\ \A t \in Objects \ {u} : Attempting(t)' = Attempting(t)
        BY <3>1, <3>2, <3>4, <4>1, AttemptEnds
      <4>3. \A t \in Objects : item[w] = Add(t) => t = u
        BY <4>1 DEF Add
      <4>4. /\ copies' = copies
            /\ \A t \in Objects \ {u} : orphans'[t] = orphans[t] /\ orphaned'[t] = orphaned[t]
            /\ \/ orphans'[u] = orphans[u] /\ orphaned'[u] = orphaned[u]
               \/ orphans'[u] = orphans[u] + 1 /\ orphaned'[u] = orphaned[u] + 1
        <5>1. copies' = copies
          BY <2>3, AbandonEffect
        <5>2. CASE orphans' = orphans /\ orphaned' = orphaned
          BY <5>1, <5>2
        <5>3. CASE /\ orphans' = [orphans EXCEPT ![u] = @ + 1]
                   /\ orphaned' = [orphaned EXCEPT ![u] = @ + 1]
          BY <5>1, <5>3 DEF TypeOK
        <5> QED
          BY <2>3, <4>3, <5>2, <5>3, AbandonEffect
      <4>5. /\ orphans'[u] <= orphaned'[u]
            /\ copies'[u] + orphans'[u] + Cardinality(Attempting(u)')
                   <= Cardinality(Watchers) + orphaned'[u]
        BY <2>0, <4>2, <4>4
      <4> QED
        BY <4>2, <4>4, <4>5, BoundedElsewhere
    <3> QED
      BY <3>3, <3>4
  <2>4. CASE ClusterStep
    BY <2>2, <2>4 DEF ClusterStep, CreateObject, ModifyObject, DeleteObject, Notify, workerVars
  <2>5. CASE ProcessStep
    <3>1. ASSUME NEW w \in Watchers, Start(w) \/ RegisterOk(w) \/ RegisterFails(w)
          PROVE  AttemptsBounded'
      BY <2>2, <3>1 DEF Start, RegisterOk, RegisterFails, workerVars
    <3>2. ASSUME NEW w \in Watchers, Crash(w)
          PROVE  AttemptsBounded'
      BY <2>3, <3>2 DEF Crash
    <3> QED
      BY <2>5, <3>1, <3>2 DEF ProcessStep
  <2>6. CASE InformerStep
    BY <2>2, <2>6 DEF InformerStep, List, Deliver, LoseWatch, workerVars
  <2>7. CASE QueueStep
    BY <2>2, <2>7 DEF QueueStep, Fire, workerVars
  <2>8. CASE WorkerStep
    <3>1. ASSUME NEW w \in Watchers, pc[w] # "put", pc' = [pc EXCEPT ![w] = pc'[w]],
                 pc'[w] # "put", \A v \in Watchers \ {w} : item'[v] = item[v],
                 UNCHANGED storeVars
          PROVE  AttemptsBounded'
      BY <2>1, <3>1, NoAttemptEnds
    <3>2. ASSUME NEW w \in Watchers, GetItem(w)
          PROVE  AttemptsBounded'
      BY <3>1, <3>2 DEF GetItem, TypeOK
    <3>3. ASSUME NEW w \in Watchers, Release(w), pc[w] # "put", UNCHANGED storeVars
          PROVE  AttemptsBounded'
      BY <3>1, <3>3 DEF Release, TypeOK
    <3>4. ASSUME NEW w \in Watchers,
                 HandleOther(w) \/ FoundExisting(w) \/ IfExistsFails(w) \/ PutReturns(w)
          PROVE  AttemptsBounded'
      BY <3>3, <3>4 DEF HandleOther, FoundExisting, IfExistsFails, PutReturns,
                        Checking, Done, Requeue
    <3>5. ASSUME NEW w \in Watchers, FoundNone(w)
          PROVE  AttemptsBounded'
      <4>1. item[w] \in Event /\ item[w].kind = "add"
        BY <3>5 DEF FoundNone, Checking, TypeOK, WorkerShape
      <4>2. PICK u \in Objects : item[w] = Add(u) /\ copies[u] = 0
        BY <3>5, <4>1, EventTypes DEF FoundNone
      <4>3. \A t \in Objects \ {u} : Attempting(t)' = Attempting(t)
        BY <3>5, <4>2 DEF FoundNone, Attempting, TypeOK, Add
      <4>4. Cardinality(Attempting(u)') \in Nat /\ Cardinality(Attempting(u)') <= Cardinality(Watchers)
        BY WatchersAssumption, FS_CardinalityType, FS_Subset DEF Attempting
      <4>5. UNCHANGED <<copies, orphans, orphaned>>
        BY <3>5 DEF FoundNone, storeVars
      <4>6. /\ orphans'[u] <= orphaned'[u]
            /\ copies'[u] + orphans'[u] + Cardinality(Attempting(u)')
                   <= Cardinality(Watchers) + orphaned'[u]
        BY <2>0, <4>2, <4>3, <4>4, <4>5
      <4> QED
        BY <4>2, <4>3, <4>4, <4>5, <4>6, BoundedElsewhere
    <3>6. ASSUME NEW w \in Watchers, PutApplied(w)
          PROVE  AttemptsBounded'
      <4>1. PICK u \in Objects : item[w] = Add(u)
        BY <3>6 DEF PutApplied, WorkerShape
      <4>2. item[w].obj = u
        BY <4>1, EventTypes
      <4>3. /\ Cardinality(Attempting(u)') = Cardinality(Attempting(u)) - 1
            /\ \A t \in Objects \ {u} : Attempting(t)' = Attempting(t)
        BY <3>6, <4>1, AttemptEnds DEF PutApplied, TypeOK
      <4>4. /\ copies'[u] = copies[u] + 1
            /\ \A t \in Objects \ {u} : copies'[t] = copies[t]
            /\ UNCHANGED <<orphans, orphaned>>
        BY <3>6, <4>2 DEF PutApplied, TypeOK
      <4>5. /\ orphans'[u] <= orphaned'[u]
            /\ copies'[u] + orphans'[u] + Cardinality(Attempting(u)')
                   <= Cardinality(Watchers) + orphaned'[u]
        BY <2>0, <4>3, <4>4
      <4> QED
        BY <4>3, <4>4, <4>5, BoundedElsewhere
    <3>7. ASSUME NEW w \in Watchers, PutFails(w)
          PROVE  AttemptsBounded'
      BY <2>3, <3>7 DEF PutFails, Requeue, Release
    <3> QED
      BY <2>8, <3>2, <3>4, <3>5, <3>6, <3>7 DEF WorkerStep
  <2>9. CASE OrphanStep
    <3>1. \A t \in Objects : Attempting(t)' = Attempting(t)
      BY <2>9 DEF OrphanStep, OrphanLands, OrphanDropped, workerVars, Attempting
    <3>2. ASSUME NEW u \in Objects, OrphanLands(u)
          PROVE  AttemptsBounded'
      <4>1. /\ orphans[u] > 0
            /\ orphans'[u] = orphans[u] - 1 /\ copies'[u] = copies[u] + 1
            /\ \A t \in Objects \ {u} : orphans'[t] = orphans[t] /\ copies'[t] = copies[t]
            /\ orphaned' = orphaned
        BY <3>2 DEF OrphanLands, TypeOK
      <4>2. /\ orphans'[u] <= orphaned'[u]
            /\ copies'[u] + orphans'[u] + Cardinality(Attempting(u)')
                   <= Cardinality(Watchers) + orphaned'[u]
        BY <2>0, <3>1, <4>1
      <4> QED
        BY <3>1, <4>1, <4>2, BoundedElsewhere
    <3>3. ASSUME NEW u \in Objects, OrphanDropped(u)
          PROVE  AttemptsBounded'
      <4>1. /\ orphans[u] > 0
            /\ orphans'[u] = orphans[u] - 1
            /\ \A t \in Objects \ {u} : orphans'[t] = orphans[t]
            /\ UNCHANGED <<copies, orphaned>>
        BY <3>3 DEF OrphanDropped, TypeOK
      <4>2. /\ orphans'[u] <= orphaned'[u]
            /\ copies'[u] + orphans'[u] + Cardinality(Attempting(u)')
                   <= Cardinality(Watchers) + orphaned'[u]
        BY <2>0, <3>1, <4>1
      <4> QED
        BY <3>1, <4>1, <4>2, BoundedElsewhere
    <3> QED
      BY <2>9, <3>2, <3>3 DEF OrphanStep
  <2>10. CASE UNCHANGED vars
    BY <2>2, <2>10 DEF vars, workerVars
  <2> QED
    BY <2>4, <2>5, <2>6, <2>7, <2>8, <2>9, <2>10 DEF Next
<1> QED
  BY <1>1, <1>2, ShapeInductive, PTL DEF Spec

(* The bound the runs check, for every number of watchers and orphans.     *)
THEOREM DuplicatesBounded == Spec => []DuplicateBound
<1>1. Shape /\ AttemptsBounded => DuplicateBound
  <2> SUFFICES ASSUME Shape, AttemptsBounded, NEW u \in Objects
               PROVE  copies[u] <= Cardinality(Watchers) + orphaned[u]
    BY DEF DuplicateBound
  <2> QED
    BY AttemptsFinite DEF AttemptsBounded, Shape, TypeOK
<1> QED
  BY <1>1, ShapeInductive, AttemptsStayBounded, PTL

(* No put outlives its call when none is given up half way.                *)
NothingOrphaned == \A u \in Objects : orphaned[u] = 0

LEMMA NoOrphans ==
    ASSUME MaxOrphans = 0
    PROVE  Spec => []NothingOrphaned
<1>1. Init => NothingOrphaned
  BY DEF Init, NothingOrphaned
<1>2. Shape /\ NothingOrphaned /\ [Next]_vars => NothingOrphaned'
  <2> SUFFICES ASSUME Shape, NothingOrphaned, [Next]_vars
               PROVE  orphaned' = orphaned
    BY DEF NothingOrphaned
  <2> USE DEF NothingOrphaned
  <2>1. ASSUME NEW w \in Watchers, Abandon(w)
        PROVE  orphaned' = orphaned
    <3>1. CASE UNCHANGED storeVars
      BY <3>1 DEF storeVars
    <3>2. CASE ~UNCHANGED storeVars
      <4>1. pc[w] = "put" /\ orphaned[item[w].obj] < 0
        BY <2>1, <3>2 DEF Abandon
      <4>2. item[w].obj \in Objects
        BY <4>1, EventTypes DEF Shape, WorkerShape
      <4> QED
        BY <4>1, <4>2
    <3> QED
      BY <3>1, <3>2
  <2>2. CASE ClusterStep
    BY <2>2 DEF ClusterStep, CreateObject, ModifyObject, DeleteObject, Notify, storeVars
  <2>3. CASE ProcessStep
    BY <2>1, <2>3 DEF ProcessStep, Start, RegisterOk, RegisterFails, Crash, storeVars
  <2>4. CASE InformerStep
    BY <2>4 DEF InformerStep, List, Deliver, LoseWatch, storeVars
  <2>5. CASE QueueStep
    BY <2>5 DEF QueueStep, Fire, storeVars
  <2>6. CASE WorkerStep
    BY <2>1, <2>6 DEF WorkerStep, GetItem, HandleOther, FoundExisting, FoundNone,
                      IfExistsFails, PutApplied, PutReturns, PutFails, storeVars
  <2>7. CASE OrphanStep
    BY <2>7 DEF OrphanStep, OrphanLands, OrphanDropped
  <2>8. CASE UNCHANGED vars
    BY <2>8 DEF vars, storeVars
  <2> QED
    BY <2>2, <2>3, <2>4, <2>5, <2>6, <2>7, <2>8 DEF Next
<1> QED
  BY <1>1, <1>2, ShapeInductive, PTL DEF Spec

(* The case the deployment is meant for: one watcher, and every put either *)
(* executed or gone when its call ends.  No object is ever logged twice.   *)
THEOREM AtMostOnce ==
    ASSUME Cardinality(Watchers) = 1, MaxOrphans = 0
    PROVE  Spec => [](\A u \in Objects : copies[u] <= 1)
<1>1. Shape /\ DuplicateBound /\ NothingOrphaned => \A u \in Objects : copies[u] <= 1
  BY DEF DuplicateBound, NothingOrphaned, Shape, TypeOK
<1> QED
  BY <1>1, NoOrphans, ShapeInductive, DuplicatesBounded, PTL

-----------------------------------------------------------------------------
(* An add event is in one place.  That takes knowing that the informer     *)
(* hands an object to OnAdd once in the life of a process.                 *)

(* Of an object there is one add on the way, before OnAdd is told of it; a *)
(* deletion on the way is of an object that is gone; of what OnAdd was     *)
(* told, the cache has all that still exists.                              *)
StreamOf(w) ==
    /\ seen[w] \subseteq created
    /\ seen[w] \cap cluster \subseteq cache[w]
    /\ ~watching[w] => stream[w] = <<>>
    /\ \A i \in DOMAIN stream[w] :
          /\ stream[w][i].obj \in created
          /\ stream[w][i].kind = "delete" => stream[w][i].obj \notin cluster
          /\ stream[w][i].kind = "add" =>
                /\ stream[w][i].obj \notin seen[w]
                /\ \A j \in DOMAIN stream[w] : stream[w][j] = stream[w][i] => j = i

ToldOnce == cluster \subseteq created /\ \A w \in Watchers : StreamOf(w)

LEMMA AppendAt ==
    ASSUME NEW S, NEW s \in Seq(S), NEW e
    PROVE  /\ DOMAIN s = 1 .. Len(s) /\ Len(s) \in Nat
           /\ DOMAIN Append(s, e) = 1 .. Len(s) + 1
           /\ \A i \in 1 .. Len(s) : Append(s, e)[i] = s[i]
           /\ Append(s, e)[Len(s) + 1] = e
OBVIOUS

LEMMA TailAt ==
    ASSUME NEW S, NEW s \in Seq(S), s # <<>>
    PROVE  /\ DOMAIN s = 1 .. Len(s) /\ Len(s) \in Nat /\ 1 \in DOMAIN s
           /\ DOMAIN Tail(s) = 1 .. Len(s) - 1
           /\ \A i \in DOMAIN Tail(s) : i + 1 \in DOMAIN s /\ Tail(s)[i] = s[i + 1]
           /\ Head(s) = s[1]
OBVIOUS

(* What a notification of the API server leaves of StreamOf.               *)
LEMMA NotifyStream ==
    ASSUME Shape, ToldOnce, NEW k \in Kinds, NEW u \in Objects, Notify(k, u),
           cluster' \subseteq created', created \subseteq created', u \in created',
           cluster' \subseteq cluster \cup {u},
           k = "delete" => u \notin cluster',
           u \in cluster' => u \in cluster \/ (k = "add" /\ u \notin created),
           k = "add" => u \notin created
    PROVE  ToldOnce'
<1> SUFFICES ASSUME NEW w \in Watchers PROVE StreamOf(w)'
  BY DEF ToldOnce
<1> USE DEF Shape, TypeOK, ToldOnce, StreamOf
<1>1. UNCHANGED <<seen, cache, watching>>
  BY DEF Notify
<1>2. seen'[w] \subseteq created' /\ seen'[w] \cap cluster' \subseteq cache'[w]
  BY <1>1
<1>3. CASE ~watching[w]
  <2>1. stream'[w] = <<>>
    BY <1>3 DEF Notify
  <2> QED
    BY <1>1, <1>2, <2>1
<1>4. CASE watching[w]
  <2> DEFINE n == [kind |-> k, obj |-> u]
             s == stream[w]
  <2>1. stream'[w] = Append(s, n)
    BY <1>4 DEF Notify
  <2>2. /\ DOMAIN s = 1 .. Len(s) /\ Len(s) \in Nat
        /\ DOMAIN Append(s, n) = 1 .. Len(s) + 1
        /\ \A i \in 1 .. Len(s) : Append(s, n)[i] = s[i]
        /\ Append(s, n)[Len(s) + 1] = n
    <3>1. s \in Seq(Notification)
      OBVIOUS
    <3> HIDE DEF s, n
    <3> QED
      BY <3>1, AppendAt
  <2>3. \A i \in DOMAIN s : s[i] \in Notification
    OBVIOUS
  <2>4. ASSUME NEW i \in DOMAIN stream'[w]
        PROVE  /\ stream'[w][i].obj \in created'
               /\ stream'[w][i].kind = "delete" => stream'[w][i].obj \notin cluster'
               /\ stream'[w][i].kind = "add" =>
                     /\ stream'[w][i].obj \notin seen'[w]
                     /\ \A j \in DOMAIN stream'[w] : stream'[w][j] = stream'[w][i] => j = i
    <3>1. CASE i \in 1 .. Len(s)
      <4>1. stream'[w][i] = s[i] /\ i \in DOMAIN s /\ s[i] \in Notification
        BY <2>1, <2>2, <2>3, <3>1
      <4>2. s[i].obj \in created' /\ (s[i].kind = "delete" => s[i].obj \notin cluster')
        BY <4>1
      <4>3. ASSUME s[i].kind = "add", NEW j \in DOMAIN stream'[w], stream'[w][j] = s[i]
            PROVE  j = i
        <5>1. CASE j \in 1 .. Len(s)
          <6>1. j \in DOMAIN s /\ s[j] = s[i]
            BY <2>1, <2>2, <4>3, <5>1
          <6>2. StreamOf(w)
            OBVIOUS
          <6> QED
            BY <4>1, <4>3, <6>1, <6>2
        <5>2. CASE j = Len(s) + 1
          <6>1. s[i] = n
            BY <2>1, <2>2, <4>3, <5>2
          <6>2. k = "add" /\ u \in created
            BY <4>1, <4>3, <6>1
          <6> QED
            BY <6>2
        <5> QED
          BY <2>1, <2>2, <5>1, <5>2
      <4> QED
        BY <1>1, <4>1, <4>2, <4>3
    <3>2. CASE i = Len(s) + 1
      <4>1. stream'[w][i] = n
        BY <2>1, <2>2, <3>2
      <4>2. n.obj = u /\ n.kind = k
        OBVIOUS
      <4>3. ASSUME k = "add", NEW j \in DOMAIN stream'[w], stream'[w][j] = n
            PROVE  j = i
        <5>1. CASE j \in 1 .. Len(s)
          <6>1. s[j] = n /\ j \in DOMAIN s
            BY <2>1, <2>2, <4>3, <5>1
          <6>2. u \in created
            BY <4>2, <6>1
          <6> QED
            BY <4>3, <6>2
        <5> QED
          BY <2>1, <2>2, <3>2, <5>1
      <4>4. k = "add" => u \notin seen'[w]
        BY <1>1
      <4> HIDE DEF n
      <4> QED
        BY <4>1, <4>2, <4>3, <4>4
    <3> QED
      BY <2>1, <2>2, <3>1, <3>2
  <2> QED
    BY <1>1, <1>2, <1>4, <2>4
<1> QED
  BY <1>3, <1>4

(* A step that leaves the API server and every other watcher alone.        *)
LEMMA OneStream ==
    ASSUME ToldOnce, NEW w \in Watchers, UNCHANGED clusterVars, StreamOf(w)',
           \A v \in Watchers \ {w} :
               /\ seen'[v] = seen[v] /\ cache'[v] = cache[v]
               /\ watching'[v] = watching[v] /\ stream'[v] = stream[v]
    PROVE  ToldOnce'
<1>1. ASSUME NEW v \in Watchers, v # w PROVE StreamOf(v)'
  BY <1>1 DEF ToldOnce, StreamOf, clusterVars
<1> QED
  BY <1>1 DEF ToldOnce, clusterVars

LEMMA ToldOnceStep == Shape /\ ToldOnce /\ [Next]_vars => ToldOnce'
<1> SUFFICES ASSUME Shape, ToldOnce, [Next]_vars PROVE ToldOnce'
  OBVIOUS
<1>1. ASSUME UNCHANGED <<clusterVars, informerVars>> PROVE ToldOnce'
  BY <1>1 DEF ToldOnce, StreamOf, clusterVars, informerVars
<1>2. CASE ClusterStep
  <2>1. ASSUME NEW u \in Objects, CreateObject(u) PROVE ToldOnce'
    BY <2>1, NotifyStream DEF CreateObject, Kinds, ToldOnce
  <2>2. ASSUME NEW u \in Objects, ModifyObject(u) PROVE ToldOnce'
    BY <2>2, NotifyStream DEF ModifyObject, Kinds, ToldOnce, clusterVars
  <2>3. ASSUME NEW u \in Objects, DeleteObject(u) PROVE ToldOnce'
    BY <2>3, NotifyStream DEF DeleteObject, Kinds, ToldOnce
  <2> QED
    BY <1>2, <2>1, <2>2, <2>3 DEF ClusterStep
<1>3. CASE ProcessStep
  <2>1. ASSUME NEW w \in Watchers, Start(w) \/ RegisterOk(w) \/ RegisterFails(w) PROVE ToldOnce'
    BY <1>1, <2>1 DEF Start, RegisterOk, RegisterFails
  <2>2. ASSUME NEW w \in Watchers, Crash(w) PROVE ToldOnce'
    <3>1. seen'[w] = {} /\ stream'[w] = <<>> /\ UNCHANGED clusterVars
      BY <2>2 DEF Crash, Shape, TypeOK
    <3>2. StreamOf(w)'
      BY <3>1 DEF StreamOf
    <3>3. \A v \in Watchers \ {w} :
               /\ seen'[v] = seen[v] /\ cache'[v] = cache[v]
               /\ watching'[v] = watching[v] /\ stream'[v] = stream[v]
      BY <2>2 DEF Crash, Shape, TypeOK
    <3> QED
      BY <3>1, <3>2, <3>3, OneStream
  <2> QED
    BY <1>3, <2>1, <2>2 DEF ProcessStep
<1>4. CASE InformerStep
  <2>1. ASSUME NEW w \in Watchers, List(w) PROVE ToldOnce'
    <3>1. /\ seen'[w] = seen[w] \cup {u \in cluster : ~SameName(u, cache[w])}
          /\ cache'[w] = cluster /\ stream'[w] = stream[w] /\ stream[w] = <<>>
          /\ UNCHANGED clusterVars
      BY <2>1 DEF List, Shape, TypeOK, ToldOnce, StreamOf
    <3>2. StreamOf(w)'
      BY <3>1 DEF StreamOf, ToldOnce, clusterVars
    <3>3. \A v \in Watchers \ {w} :
               /\ seen'[v] = seen[v] /\ cache'[v] = cache[v]
               /\ watching'[v] = watching[v] /\ stream'[v] = stream[v]
      BY <2>1 DEF List, Shape, TypeOK
    <3> QED
      BY <3>1, <3>2, <3>3, OneStream
  <2>2. ASSUME NEW w \in Watchers, Deliver(w) PROVE ToldOnce'
    <3> DEFINE s == stream[w]
               n == Head(s)
    <3>1. s \in Seq(Notification) /\ s # <<>>
      BY <2>2 DEF Deliver, Shape, TypeOK
    <3>2. /\ seen'[w] = IF n.kind = "add" THEN seen[w] \cup {n.obj} ELSE seen[w]
          /\ cache'[w] = IF n.kind = "delete" THEN cache[w] \ {n.obj} ELSE cache[w] \cup {n.obj}
          /\ stream'[w] = Tail(s)
          /\ watching'[w] = watching[w]
          /\ UNCHANGED clusterVars
      BY <2>2 DEF Deliver, Shape, TypeOK
    <3>3. \A v \in Watchers \ {w} :
               /\ seen'[v] = seen[v] /\ cache'[v] = cache[v]
               /\ watching'[v] = watching[v] /\ stream'[v] = stream[v]
      BY <2>2 DEF Deliver, Shape, TypeOK
    <3>4. /\ 1 \in DOMAIN s /\ n = s[1]
          /\ DOMAIN s = 1 .. Len(s) /\ Len(s) \in Nat
          /\ DOMAIN Tail(s) = 1 .. Len(s) - 1
          /\ \A i \in DOMAIN Tail(s) : i + 1 \in DOMAIN s /\ Tail(s)[i] = s[i + 1]
      <4> HIDE DEF s
      <4> QED
        BY <3>1, TailAt
    <3>5. n \in Notification /\ \A i \in DOMAIN s : s[i] \in Notification
      BY <3>1, <3>4
    <3>6. StreamOf(w)
      BY DEF ToldOnce
    <3>7. watching[w]
      BY <3>1, <3>6 DEF StreamOf
    <3>8. seen'[w] \subseteq created' /\ seen'[w] \cap cluster' \subseteq cache'[w]
      BY <3>2, <3>4, <3>6 DEF StreamOf, clusterVars
    <3>9. ASSUME NEW i \in DOMAIN Tail(s)
          PROVE  /\ Tail(s)[i].obj \in created
                 /\ Tail(s)[i].kind = "delete" => Tail(s)[i].obj \notin cluster
                 /\ Tail(s)[i].kind = "add" =>
                       /\ Tail(s)[i].obj \notin seen'[w]
                       /\ \A j \in DOMAIN Tail(s) : Tail(s)[j] = Tail(s)[i] => j = i
      <4>1. i + 1 \in DOMAIN s /\ Tail(s)[i] = s[i + 1] /\ i + 1 # 1
        BY <3>4
      <4>2. s[i + 1].obj \in created /\ (s[i + 1].kind = "delete" => s[i + 1].obj \notin cluster)
        BY <3>6, <4>1 DEF StreamOf
      <4>3. ASSUME s[i + 1].kind = "add"
            PROVE  /\ s[i + 1].obj \notin seen'[w]
                   /\ \A j \in DOMAIN Tail(s) : Tail(s)[j] = s[i + 1] => j = i
        <5>1. \A j \in DOMAIN s : s[j] = s[i + 1] => j = i + 1
          BY <3>6, <4>1, <4>3 DEF StreamOf
        <5>2. \A j \in DOMAIN Tail(s) : Tail(s)[j] = s[i + 1] => j = i
          BY <3>4, <4>1, <5>1
        <5>3. s[i + 1].obj \notin seen[w]
          BY <3>6, <4>1, <4>3 DEF StreamOf
        <5>4. n # s[i + 1]
          BY <3>4, <4>1, <5>1
        <5>5. n.kind = "add" => n.obj # s[i + 1].obj
          BY <3>5, <4>1, <4>3, <5>4 DEF Notification
        <5> QED
          BY <3>2, <5>2, <5>3, <5>5
      <4> QED
        BY <4>1, <4>2, <4>3
    <3>10. StreamOf(w)'
      BY <3>2, <3>7, <3>8, <3>9 DEF StreamOf, clusterVars
    <3> QED
      BY <3>2, <3>3, <3>10, OneStream
  <2>3. ASSUME NEW w \in Watchers, LoseWatch(w) PROVE ToldOnce'
    <3>1. /\ seen'[w] = seen[w] /\ cache'[w] = cache[w] /\ stream'[w] = <<>>
          /\ UNCHANGED clusterVars
      BY <2>3 DEF LoseWatch, Shape, TypeOK
    <3>2. StreamOf(w)'
      BY <3>1 DEF StreamOf, ToldOnce, clusterVars
    <3>3. \A v \in Watchers \ {w} :
               /\ seen'[v] = seen[v] /\ cache'[v] = cache[v]
               /\ watching'[v] = watching[v] /\ stream'[v] = stream[v]
      BY <2>3 DEF LoseWatch, Shape, TypeOK
    <3> QED
      BY <3>1, <3>2, <3>3, OneStream
  <2> QED
    BY <1>4, <2>1, <2>2, <2>3 DEF InformerStep
<1>5. CASE QueueStep \/ OrphanStep
  BY <1>1, <1>5 DEF QueueStep, OrphanStep, Fire, OrphanLands, OrphanDropped
<1>6. CASE WorkerStep
  BY <1>1, <1>6 DEF WorkerStep, GetItem, HandleOther, FoundExisting, FoundNone, IfExistsFails,
     PutApplied, PutReturns, PutFails, Done, Requeue, Release
<1>7. CASE UNCHANGED vars
  BY <1>1, <1>7 DEF vars
<1> QED
  BY <1>2, <1>3, <1>4, <1>5, <1>6, <1>7 DEF Next

LEMMA ToldOnceInductive == Spec => []ToldOnce
<1>1. Init => ToldOnce
  BY DEF Init, ToldOnce, StreamOf
<1> QED
  BY <1>1, ToldOnceStep, ShapeInductive, PTL DEF Spec

-----------------------------------------------------------------------------
(* The queue holds an event once; an add event that is delayed is neither  *)
(* queued nor processed, one that is processed is not queued; and OnAdd    *)
(* was told of the object of each.                                         *)
OnePlace(w) ==
    /\ \A i, j \in DOMAIN ready[w] : ready[w][i] = ready[w][j] => i = j
    /\ \A u \in Objects :
         /\ Add(u) \in waiting[w] => Add(u) \notin ToSet(ready[w]) /\ item[w] # Add(u)
         /\ item[w] = Add(u) => Add(u) \notin ToSet(ready[w])
         /\ Add(u) \in Pending(w) => u \in seen[w]

InOnePlace == \A w \in Watchers : OnePlace(w)

LEMMA OneQueue ==
    ASSUME InOnePlace, NEW w \in Watchers, OnePlace(w)',
           \A v \in Watchers \ {w} :
               /\ seen'[v] = seen[v] /\ ready'[v] = ready[v]
               /\ waiting'[v] = waiting[v] /\ item'[v] = item[v]
    PROVE  InOnePlace'
<1>1. ASSUME NEW v \in Watchers, v # w PROVE OnePlace(v)'
  BY <1>1 DEF InOnePlace, OnePlace, Pending
<1> QED
  BY <1>1 DEF InOnePlace

(* Objects OnAdd is told of now for the first time.                        *)
LEMMA NewEvents ==
    ASSUME InOnePlace, NEW w \in Watchers, NEW fresh \in SUBSET (Objects \ seen[w]), NEW others,
           \A e \in others : e.kind # "add",
           seen'[w] = seen[w] \cup fresh,
           waiting'[w] = waiting[w] \cup {Add(u) : u \in fresh} \cup others,
           ready'[w] = ready[w], item'[w] = item[w]
    PROVE  OnePlace(w)'
<1>1. OnePlace(w)
  BY DEF InOnePlace
<1>2. \A u, v \in Objects : Add(u) = Add(v) => u = v
  BY EventTypes
<1>3. \A u \in Objects : Add(u) \notin others
  BY EventTypes
<1>4. \A u \in Objects : Add(u) \in waiting'[w] <=> Add(u) \in waiting[w] \/ u \in fresh
  BY <1>2, <1>3
<1>5. \A u \in fresh : Add(u) \notin Pending(w)
  BY <1>1 DEF OnePlace
<1> QED
  BY <1>1, <1>4, <1>5 DEF OnePlace, Pending

LEMMA InOnePlaceStep == Shape /\ ToldOnce /\ InOnePlace /\ [Next]_vars => InOnePlace'
<1> SUFFICES ASSUME Shape, ToldOnce, InOnePlace, [Next]_vars PROVE InOnePlace'
  OBVIOUS
<1>1. ASSUME UNCHANGED <<seen, waiting, ready, item>> PROVE InOnePlace'
  BY <1>1 DEF InOnePlace, OnePlace, Pending
<1>2. CASE ClusterStep
  BY <1>1, <1>2 DEF ClusterStep, CreateObject, ModifyObject, DeleteObject, Notify, queueVars,
     workerVars
<1>3. CASE ProcessStep
  <2>1. ASSUME NEW w \in Watchers, Start(w) \/ RegisterOk(w) \/ RegisterFails(w)
        PROVE  InOnePlace'
    BY <1>1, <2>1 DEF Start, RegisterOk, RegisterFails, informerVars, queueVars, workerVars
  <2>2. ASSUME NEW w \in Watchers, Crash(w) PROVE InOnePlace'
    <3>1. waiting'[w] = {} /\ ready'[w] = <<>> /\ item'[w] = None
      BY <2>2 DEF Crash, Shape, TypeOK
    <3>2. ToSet(<<>>) = {}
      BY DEF ToSet
    <3>3. \A u \in Objects : Add(u) # None
      BY EventTypes
    <3>4. OnePlace(w)'
      BY <3>1, <3>2, <3>3 DEF OnePlace, Pending
    <3>5. \A v \in Watchers \ {w} :
               /\ seen'[v] = seen[v] /\ ready'[v] = ready[v]
               /\ waiting'[v] = waiting[v] /\ item'[v] = item[v]
      BY <2>2 DEF Crash, Shape, TypeOK
    <3> QED
      BY <3>4, <3>5, OneQueue
  <2> QED
    BY <1>3, <2>1, <2>2 DEF ProcessStep
<1>4. CASE InformerStep
  <2>1. ASSUME NEW w \in Watchers, List(w) PROVE InOnePlace'
    <3> DEFINE added == {u \in cluster : ~SameName(u, cache[w])}
               deleted == {u \in cache[w] : ~SameName(u, cluster)}
               others == {Other("update") : u \in cluster \ added} \cup {Other("delete") : u \in deleted}
    <3>1. /\ seen'[w] = seen[w] \cup added
          /\ waiting'[w] = waiting[w] \cup {Add(u) : u \in added} \cup others
          /\ ready'[w] = ready[w] /\ item'[w] = item[w]
      BY <2>1 DEF List, Shape, TypeOK, workerVars
    <3>2. added \cap seen[w] = {}
      BY DEF ToldOnce, StreamOf, SameName
    <3>3. \A e \in others : e.kind # "add"
      BY DEF Other
    <3>4. added \in SUBSET (Objects \ seen[w])
      BY <3>2 DEF Shape, TypeOK
    <3>5. OnePlace(w)'
      <4> HIDE DEF added, others
      <4> QED
        BY <3>1, <3>3, <3>4, NewEvents
    <3>6. \A v \in Watchers \ {w} :
               /\ seen'[v] = seen[v] /\ ready'[v] = ready[v]
               /\ waiting'[v] = waiting[v] /\ item'[v] = item[v]
      BY <2>1 DEF List, Shape, TypeOK, workerVars
    <3> QED
      BY <3>5, <3>6, OneQueue
  <2>2. ASSUME NEW w \in Watchers, Deliver(w) PROVE InOnePlace'
    <3> DEFINE n == Head(stream[w])
    <3>1. /\ seen'[w] = IF n.kind = "add" THEN seen[w] \cup {n.obj} ELSE seen[w]
          /\ waiting'[w] = waiting[w] \cup {EventOf(n)}
          /\ ready'[w] = ready[w] /\ item'[w] = item[w]
      BY <2>2 DEF Deliver, Shape, TypeOK, workerVars
    <3>2. n \in Notification /\ 1 \in DOMAIN stream[w] /\ n = stream[w][1]
      BY <2>2 DEF Deliver, Shape, TypeOK
    <3>3. n.kind = "add" => n = Add(n.obj) /\ n.obj \in Objects \ seen[w]
      BY <3>2 DEF ToldOnce, StreamOf, Notification, Add
    <3>4. OnePlace(w)'
      <4>1. CASE n.kind = "add"
        <5>1. EventOf(n) = Add(n.obj)
          BY <3>3, <4>1 DEF EventOf
        <5> HIDE DEF n
        <5>2. {n.obj} \in SUBSET (Objects \ seen[w])
          BY <3>3, <4>1
        <5>3. waiting'[w] = waiting[w] \cup {Add(u) : u \in {n.obj}} \cup {}
          BY <3>1, <5>1
        <5>4. seen'[w] = seen[w] \cup {n.obj}
          BY <3>1, <4>1
        <5>5. \A e \in {} : e.kind # "add"
          OBVIOUS
        <5>6. ready'[w] = ready[w] /\ item'[w] = item[w]
          BY <3>1
        <5> DEFINE fresh == {n.obj}
                   others == {}
        <5>7. /\ fresh \in SUBSET (Objects \ seen[w])
              /\ waiting'[w] = waiting[w] \cup {Add(u) : u \in fresh} \cup others
              /\ seen'[w] = seen[w] \cup fresh
              /\ \A e \in others : e.kind # "add"
          BY <5>2, <5>3, <5>4, <5>5
        <5> HIDE DEF fresh, others
        <5> QED
          BY <5>6, <5>7, NewEvents
      <4>2. CASE n.kind # "add"
        <5> HIDE DEF n
        <5>1. EventOf(n).kind # "add"
          BY <4>2 DEF EventOf, Other
        <5>2. waiting'[w] = waiting[w] \cup {Add(u) : u \in {}} \cup {EventOf(n)}
          BY <3>1
        <5>3. seen'[w] = seen[w] \cup {}
          BY <3>1, <4>2
        <5> QED
          BY <3>1, <5>1, <5>2, <5>3, NewEvents
      <4> QED
        BY <4>1, <4>2
    <3>5. \A v \in Watchers \ {w} :
               /\ seen'[v] = seen[v] /\ ready'[v] = ready[v]
               /\ waiting'[v] = waiting[v] /\ item'[v] = item[v]
      BY <2>2 DEF Deliver, Shape, TypeOK, workerVars
    <3> QED
      BY <3>4, <3>5, OneQueue
  <2>3. ASSUME NEW w \in Watchers, LoseWatch(w) PROVE InOnePlace'
    BY <1>1, <2>3 DEF LoseWatch, queueVars, workerVars
  <2> QED
    BY <1>4, <2>1, <2>2, <2>3 DEF InformerStep
<1>5. CASE QueueStep
  <2> SUFFICES ASSUME NEW w \in Watchers, NEW e \in Event, Fire(w, e) PROVE InOnePlace'
    BY <1>5 DEF QueueStep
  <2> DEFINE s == ready[w]
  <2>1. /\ e \in waiting[w] /\ e # item[w]
        /\ waiting'[w] = waiting[w] \ {e}
        /\ ready'[w] = IF e \in ToSet(s) THEN s ELSE Append(s, e)
        /\ item'[w] = item[w] /\ seen'[w] = seen[w]
    BY DEF Fire, Shape, TypeOK, workerVars, informerVars
  <2>2. OnePlace(w) /\ s \in Seq(Event)
    BY DEF InOnePlace, Shape, TypeOK
  <2>3. \A v \in Watchers \ {w} :
             /\ seen'[v] = seen[v] /\ ready'[v] = ready[v]
             /\ waiting'[v] = waiting[v] /\ item'[v] = item[v]
    BY DEF Fire, Shape, TypeOK, workerVars, informerVars
  <2>4. ToSet(ready'[w]) = ToSet(s) \cup {e}
    <3> HIDE DEF s
    <3> QED
      BY <2>1, <2>2, ToSetAppend
  <2>5. \A i, j \in DOMAIN ready'[w] : ready'[w][i] = ready'[w][j] => i = j
    <3>1. CASE e \in ToSet(s)
      BY <2>1, <2>2, <3>1 DEF OnePlace
    <3>2. CASE e \notin ToSet(s)
      <4>1. ready'[w] = Append(s, e)
        BY <2>1, <3>2
      <4>2. \A i, j \in DOMAIN s : s[i] = s[j] => i = j
        BY <2>2 DEF OnePlace
      <4> HIDE DEF s
      <4>3. /\ DOMAIN s = 1 .. Len(s) /\ Len(s) \in Nat
            /\ DOMAIN Append(s, e) = 1 .. Len(s) + 1
            /\ \A i \in 1 .. Len(s) : Append(s, e)[i] = s[i]
            /\ Append(s, e)[Len(s) + 1] = e
        BY <2>2, AppendAt
      <4>4. \A i \in DOMAIN s : s[i] # e
        BY <3>2 DEF ToSet
      <4> QED
        BY <4>1, <4>2, <4>3, <4>4
    <3> QED
      BY <3>1, <3>2
  <2>6. OnePlace(w)'
    BY <2>1, <2>2, <2>4, <2>5 DEF OnePlace, Pending
  <2> QED
    BY <2>3, <2>6, OneQueue
<1>6. CASE WorkerStep
  <2>1. ASSUME NEW w \in Watchers, GetItem(w) PROVE InOnePlace'
    <3> DEFINE s == ready[w]
    <3>1. /\ item'[w] = Head(s) /\ ready'[w] = Tail(s) /\ s # <<>>
          /\ waiting'[w] = waiting[w] /\ seen'[w] = seen[w]
      BY <2>1 DEF GetItem, Shape, TypeOK, informerVars
    <3>2. OnePlace(w) /\ s \in Seq(Event)
      BY DEF InOnePlace, Shape, TypeOK
    <3>3. \A v \in Watchers \ {w} :
               /\ seen'[v] = seen[v] /\ ready'[v] = ready[v]
               /\ waiting'[v] = waiting[v] /\ item'[v] = item[v]
      BY <2>1 DEF GetItem, Shape, TypeOK, informerVars
    <3>4. \A i, j \in DOMAIN s : s[i] = s[j] => i = j
      BY <3>2 DEF OnePlace
    <3>5. /\ \A i, j \in DOMAIN Tail(s) : Tail(s)[i] = Tail(s)[j] => i = j
          /\ Head(s) \notin ToSet(Tail(s))
          /\ ToSet(Tail(s)) \subseteq ToSet(s) /\ Head(s) \in ToSet(s)
      <4> HIDE DEF s
      <4>1. /\ DOMAIN s = 1 .. Len(s) /\ Len(s) \in Nat /\ 1 \in DOMAIN s
            /\ DOMAIN Tail(s) = 1 .. Len(s) - 1
            /\ \A i \in DOMAIN Tail(s) : i + 1 \in DOMAIN s /\ Tail(s)[i] = s[i + 1]
            /\ Head(s) = s[1]
        BY <3>1, <3>2, TailAt
      <4>2. \A i, j \in DOMAIN Tail(s) : Tail(s)[i] = Tail(s)[j] => i = j
        BY <3>4, <4>1
      <4>3. \A i \in DOMAIN Tail(s) : Tail(s)[i] # Head(s)
        BY <3>4, <4>1
      <4> QED
        BY <4>1, <4>2, <4>3 DEF ToSet
    <3>6. OnePlace(w)'
      <4> HIDE DEF s
      <4>1. \A i, j \in DOMAIN ready'[w] : ready'[w][i] = ready'[w][j] => i = j
        BY <3>1, <3>5
      <4>2. ASSUME NEW u \in Objects
            PROVE  /\ Add(u) \in waiting'[w] => Add(u) \notin ToSet(ready'[w]) /\ item'[w] # Add(u)
                   /\ item'[w] = Add(u) => Add(u) \notin ToSet(ready'[w])
                   /\ Add(u) \in waiting'[w] \cup ToSet(ready'[w]) \cup {item'[w]} => u \in seen'[w]
        BY <3>1, <3>2, <3>5 DEF OnePlace, Pending, s
      <4> QED
        BY <4>1, <4>2 DEF OnePlace, Pending
    <3> QED
      BY <3>3, <3>6, OneQueue
  <2>2. ASSUME NEW w \in Watchers, Release(w), waiting' = waiting \/ Requeue(w)
        PROVE  InOnePlace'
    <3>1. /\ item'[w] = None /\ ready'[w] = ready[w] /\ seen'[w] = seen[w]
          /\ waiting'[w] \subseteq waiting[w] \cup {item[w]}
      BY <2>2 DEF Release, Requeue, Shape, TypeOK, informerVars
    <3>2. \A u \in Objects : Add(u) # None
      BY EventTypes
    <3>3. OnePlace(w)
      BY DEF InOnePlace
    <3>4. OnePlace(w)'
      BY <3>1, <3>2, <3>3 DEF OnePlace, Pending
    <3>5. \A v \in Watchers \ {w} :
               /\ seen'[v] = seen[v] /\ ready'[v] = ready[v]
               /\ waiting'[v] = waiting[v] /\ item'[v] = item[v]
      BY <2>2 DEF Release, Requeue, Shape, TypeOK, informerVars
    <3> QED
      BY <3>4, <3>5, OneQueue
  <2>3. ASSUME NEW w \in Watchers, FoundNone(w) \/ PutApplied(w) PROVE InOnePlace'
    BY <1>1, <2>3 DEF FoundNone, PutApplied, informerVars, queueVars
  <2> QED
    BY <1>6, <2>1, <2>2, <2>3 DEF WorkerStep, HandleOther, FoundExisting, IfExistsFails,
       PutReturns, PutFails, Done, Requeue
<1>7. CASE OrphanStep
  BY <1>1, <1>7 DEF OrphanStep, OrphanLands, OrphanDropped, informerVars, queueVars, workerVars
<1>8. CASE UNCHANGED vars
  BY <1>1, <1>8 DEF vars, informerVars, queueVars, workerVars
<1> QED
  BY <1>2, <1>3, <1>4, <1>5, <1>6, <1>7, <1>8 DEF Next

LEMMA InOnePlaceInductive == Spec => []InOnePlace
<1>1. Init => InOnePlace
  <2> SUFFICES ASSUME Init, NEW w \in Watchers PROVE OnePlace(w)
    BY DEF InOnePlace
  <2>1. waiting[w] = {} /\ ready[w] = <<>> /\ item[w] = None
    BY DEF Init
  <2>2. ToSet(<<>>) = {}
    BY DEF ToSet
  <2>3. \A u \in Objects : Add(u) # None
    BY EventTypes
  <2> QED
    BY <2>1, <2>2, <2>3 DEF OnePlace, Pending
<1> QED
  BY <1>1, InOnePlaceStep, ToldOnceInductive, ShapeInductive, PTL DEF Spec

(* No two attempts to log an object overlap in one process: its add event  *)
(* is delayed, queued or processed, one of these and once (watcher.go:33), *)
(* through re-lists, requeues and crashes.                                 *)
THEOREM EventsInOnePlace == Spec => []EventInOnePlace
<1>1. Shape /\ InOnePlace => EventInOnePlace
  <2> SUFFICES ASSUME Shape, InOnePlace, NEW w \in Watchers, NEW u \in Objects
               PROVE  LET queued == {i \in DOMAIN ready[w] : ready[w][i] = Add(u)} IN
                      /\ Cardinality(queued) <= 1
                      /\ Add(u) \in waiting[w] => queued = {} /\ item[w] # Add(u)
                      /\ item[w] = Add(u) => queued = {}
    BY DEF EventInOnePlace
  <2> DEFINE queued == {i \in DOMAIN ready[w] : ready[w][i] = Add(u)}
  <2>1. OnePlace(w)
    BY DEF InOnePlace
  <2>2. Add(u) \notin ToSet(ready[w]) => queued = {}
    BY DEF ToSet
  <2>3. Cardinality(queued) <= 1
    <3>1. CASE queued = {}
      BY <3>1, FS_EmptySet
    <3>2. CASE queued # {}
      <4>1. PICK i : queued = {i}
        BY <2>1, <3>2 DEF OnePlace
      <4>2. Cardinality({i}) = 1
        BY FS_Singleton
      <4> HIDE DEF queued
      <4> QED
        BY <4>1, <4>2
    <3> QED
      BY <3>1, <3>2
  <2>4. /\ Add(u) \in waiting[w] => queued = {} /\ item[w] # Add(u)
        /\ item[w] = Add(u) => queued = {}
    <3> HIDE DEF queued
    <3> QED
      BY <2>1, <2>2 DEF OnePlace
  <2> QED
    BY <2>3, <2>4
<1> QED
  BY <1>1, ShapeInductive, InOnePlaceInductive, PTL

-----------------------------------------------------------------------------
(* The refinement of ResourceLog.  What makes a put a Record of it: the    *)
(* object was told of by OnAdd, as its event is in hand, and it has no     *)
(* artifact yet, as the attempt counts towards the bound of one.           *)
RefineInv == Shape /\ AttemptsBounded /\ InOnePlace /\ NothingOrphaned

LEMMA LogStep ==
    ASSUME NEW w \in Watchers, Watchers = {w}, MaxOrphans = 0,
           RefineInv, [Next]_vars
    PROVE  [Log!Next]_Log!vars
<1> USE DEF RefineInv, Shape
<1>0. \A s : UNION {s[v] : v \in Watchers} = s[w]
  OBVIOUS
<1>1. ASSUME UNCHANGED <<seen, copies>> PROVE [Log!Next]_Log!vars
  BY <1>1 DEF Log!vars
<1>2. ASSUME NEW S \in SUBSET Objects, seen' = [seen EXCEPT ![w] = @ \cup S], UNCHANGED copies
      PROVE  Log!Next
  <2>1. seen'[w] = seen[w] \cup S
    BY <1>2 DEF TypeOK
  <2>2. Log!Tell(S)
    BY <1>0, <1>2, <2>1 DEF Log!Tell
  <2> QED
    BY <2>2 DEF Log!Next
<1>3. CASE ClusterStep
  BY <1>1, <1>3 DEF ClusterStep, CreateObject, ModifyObject, DeleteObject, Notify, storeVars
<1>4. CASE ProcessStep
  <2>1. ASSUME NEW v \in Watchers, Crash(v) PROVE Log!Next
    <3>1. seen'[w] = {} /\ copies' = copies
      BY <2>1, AbandonEffect DEF Crash, TypeOK
    <3>2. Log!Forget
      BY <1>0, <3>1 DEF Log!Forget
    <3> QED
      BY <3>2 DEF Log!Next
  <2> QED
    BY <1>1, <1>4, <2>1 DEF ProcessStep, Start, RegisterOk, RegisterFails, informerVars, storeVars
<1>5. CASE InformerStep
  <2>1. CASE List(w)
    <3> DEFINE added == {u \in cluster : ~SameName(u, cache[w])}
    <3>1. seen' = [seen EXCEPT ![w] = @ \cup added] /\ UNCHANGED copies
      BY <2>1 DEF List, storeVars
    <3>2. added \in SUBSET Objects
      BY DEF TypeOK
    <3> QED
      BY <1>2, <3>1, <3>2
  <2>2. CASE Deliver(w)
    <3> DEFINE n == Head(stream[w])
               S == IF n.kind = "add" THEN {n.obj} ELSE {}
    <3>1. n \in Notification
      BY <2>2 DEF Deliver, TypeOK
    <3>2. S \in SUBSET Objects
      BY <3>1, EventTypes
    <3>3. seen' = [seen EXCEPT ![w] = @ \cup S] /\ UNCHANGED copies
      BY <2>2 DEF Deliver, storeVars, TypeOK
    <3> QED
      BY <1>2, <3>2, <3>3
  <2>3. CASE LoseWatch(w)
    BY <1>1, <2>3 DEF LoseWatch, storeVars
  <2> QED
    BY <1>5, <2>1, <2>2, <2>3 DEF InformerStep
<1>6. CASE QueueStep
  BY <1>1, <1>6 DEF QueueStep, Fire, informerVars, storeVars
<1>7. CASE WorkerStep
  <2>1. CASE PutApplied(w)
    <3>1. PICK u \in Objects : item[w] = Add(u)
      BY <2>1 DEF PutApplied, WorkerShape
    <3>2. copies' = [copies EXCEPT ![u] = @ + 1] /\ UNCHANGED seen
      BY <2>1, <3>1, EventTypes DEF PutApplied, informerVars
    <3>3. u \in seen[w]
      BY <3>1 DEF InOnePlace, OnePlace, Pending
    <3>4. copies[u] = 0
      <4>1. Attempting(u) = {w}
        BY <2>1, <3>1 DEF Attempting, PutApplied
      <4>2. Cardinality({w}) = 1
        BY FS_Singleton
      <4>3. copies[u] \in Nat /\ orphans[u] \in Nat /\ orphaned[u] = 0
        BY DEF TypeOK, NothingOrphaned
      <4>4. copies[u] + orphans[u] + Cardinality(Attempting(u))
                <= Cardinality(Watchers) + orphaned[u]
        BY DEF AttemptsBounded
      <4> QED
        BY <4>1, <4>2, <4>3, <4>4
    <3>5. copies' = [copies EXCEPT ![u] = 1]
      BY <3>2, <3>4
    <3>6. Log!Record(u)
      BY <1>0, <3>2, <3>3, <3>4, <3>5 DEF Log!Record
    <3> QED
      BY <3>6 DEF Log!Next
  <2>2. ASSUME NEW v \in Watchers, PutFails(v) PROVE UNCHANGED <<seen, copies>>
    BY <2>2, AbandonEffect DEF PutFails, Requeue, Release, informerVars
  <2> QED
    BY <1>1, <1>7, <2>1, <2>2 DEF WorkerStep, GetItem, HandleOther, FoundExisting, FoundNone,
       IfExistsFails, PutReturns, Requeue, Done, Release, informerVars, storeVars
<1>8. CASE OrphanStep
  <2>1. \A u \in Objects : orphans[u] = 0
    BY DEF AttemptsBounded, NothingOrphaned, TypeOK
  <2> QED
    BY <1>8, <2>1 DEF OrphanStep, OrphanLands, OrphanDropped
<1>9. CASE UNCHANGED vars
  BY <1>1, <1>9 DEF vars, informerVars, storeVars
<1> QED
  BY <1>3, <1>4, <1>5, <1>6, <1>7, <1>8, <1>9 DEF Next

(* The deployment's steady state, one watcher whose puts end with their    *)
(* calls, keeps the safety of ResourceLog: only what OnAdd was told of is  *)
(* logged, once, and no artifact is taken back, through failed calls, lost *)
(* connections and restarts.  That all of it is logged is ImplementsLog,   *)
(* under fairness.                                                         *)
THEOREM KeepsLog ==
    ASSUME Cardinality(Watchers) = 1, MaxOrphans = 0
    PROVE  Spec => Log!SafeSpec
<1>1. PICK w : Watchers = {w}
  BY WatchersAssumption, FS_Singleton
<1>2. w \in Watchers
  BY <1>1
<1>3. Init => Log!Init
  BY <1>1 DEF Init, Log!Init
<1>4. RefineInv /\ [Next]_vars => [Log!Next]_Log!vars
  BY <1>1, <1>2, LogStep
<1> QED
  BY <1>3, <1>4, ShapeInductive, AttemptsStayBounded, InOnePlaceInductive, NoOrphans, PTL
     DEF Spec, RefineInv, Log!SafeSpec
=============================================================================
