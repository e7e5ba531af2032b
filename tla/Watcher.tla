------------------------------- MODULE Watcher -------------------------------
(***************************************************************************)
(* The resource watcher: for one Kubernetes kind, an informer feeds the    *)
(* rate-limited work queue of src/watcher/watcher.go, and one worker takes *)
(* events off it and runs the MetaLogger handler, which logs every object  *)
(* it has not logged yet as an artifact of the ML Metadata store.          *)
(*                                                                         *)
(* Watchers is the set of processes watching the same kind: one in the     *)
(* deployment's steady state, two while a rolling update replaces the pod  *)
(* (or when the resource list names a kind twice).  Kinds do not interact: *)
(* each has its own artifact type, so one kind is modelled.                *)
(*                                                                         *)
(* Three parts are external: the API server with its list/watch stream,    *)
(* client-go's informer and work queue, and the metadata store.            *)
(***************************************************************************)
EXTENDS Naturals, FiniteSets, SequencesExt

CONSTANTS
    Watchers,    \* processes that watch the kind
    Objects,     \* objects of the kind, identified by UID: never reused
    Names,       \* namespace/name keys of the objects
    NameOf,      \* the name each object is created under
    None,        \* no event
    MaxCrashes,  \* bound: crashes of watcher processes
    MaxGaps,     \* bound: watch connections lost
    MaxOrphans,  \* bound: puts of one object outliving the call that sent them
    MaxStream    \* bound: watch notifications in flight

Kinds == {"add", "update", "delete"}

(* A notification of the informer, and the event put on the queue for it.  *)
(* The handler never reads the object of an update or a deletion, so the   *)
(* events of either kind are one.                                          *)
Notification == [kind : Kinds, obj : Objects]
Add(u)       == [kind |-> "add", obj |-> u]
Other(k)     == [kind |-> k]
EventOf(n)   == IF n.kind = "add" THEN n ELSE Other(n.kind)
Event        == [kind : {"add"}, obj : Objects] \cup [kind : {"update", "delete"}]

ASSUME WatchersAssumption == IsFiniteSet(Watchers) /\ Watchers # {}
ASSUME NameOfAssumption   == NameOf \in [Objects -> Names]
ASSUME NoneAssumption     == None \notin Event
ASSUME BoundsAssumption   == {MaxCrashes, MaxGaps, MaxOrphans, MaxStream} \subseteq Nat

VARIABLES
    cluster,   \* objects that exist at the API server
    created,   \* objects that ever existed
    phase,     \* of a process: down, boot (registering its type), sync, run
    watching,  \* whether the process's watch connection is open
    stream,    \* notifications sent on that connection and not yet received
    cache,     \* objects in the informer's local store
    waiting,   \* events whose rate-limiting delay has not passed
    ready,     \* the work queue proper, first in first out
    pc,        \* the worker: idle, handle, put, acked
    item,      \* the event the worker is processing
    copies,    \* artifacts in the store whose "version" is the object's UID
    orphans,   \* puts still travelling although nobody waits for their answer
    orphaned,  \* history: how many puts of the object were ever orphaned
    seen,      \* history: objects this incarnation was told of by OnAdd
    crashes,   \* crashes so far
    gaps       \* watch connections lost so far

clusterVars  == <<cluster, created>>
informerVars == <<watching, stream, cache, seen>>
queueVars    == <<waiting, ready>>
workerVars   == <<pc, item>>
storeVars    == <<copies, orphans, orphaned>>
vars == <<clusterVars, phase, informerVars, queueVars, workerVars, storeVars, crashes, gaps>>

TypeOK ==
    /\ cluster \in SUBSET Objects
    /\ created \in SUBSET Objects
    /\ phase \in [Watchers -> {"down", "boot", "sync", "run"}]
    /\ watching \in [Watchers -> BOOLEAN]
    /\ stream \in [Watchers -> Seq(Notification)]
    /\ cache \in [Watchers -> SUBSET Objects]
    /\ waiting \in [Watchers -> SUBSET Event]
    /\ ready \in [Watchers -> Seq(Event)]
    /\ pc \in [Watchers -> {"idle", "handle", "put", "acked"}]
    /\ item \in [Watchers -> Event \cup {None}]
    /\ copies \in [Objects -> Nat]
    /\ orphans \in [Objects -> Nat]
    /\ orphaned \in [Objects -> Nat]
    /\ seen \in [Watchers -> SUBSET Objects]
    /\ crashes \in Nat
    /\ gaps \in Nat

Init ==
    /\ cluster = {} /\ created = {}
    /\ phase = [w \in Watchers |-> "down"]
    /\ watching = [w \in Watchers |-> FALSE]
    /\ stream = [w \in Watchers |-> <<>>]
    /\ cache = [w \in Watchers |-> {}]
    /\ waiting = [w \in Watchers |-> {}]
    /\ ready = [w \in Watchers |-> <<>>]
    /\ pc = [w \in Watchers |-> "idle"]
    /\ item = [w \in Watchers |-> None]
    /\ copies = [u \in Objects |-> 0]
    /\ orphans = [u \in Objects |-> 0]
    /\ orphaned = [u \in Objects |-> 0]
    /\ seen = [w \in Watchers |-> {}]
    /\ crashes = 0 /\ gaps = 0

-----------------------------------------------------------------------------
(* The API server: a change goes to every open watch connection.           *)

Notify(k, u) ==
    /\ \A w \in Watchers : Len(stream[w]) < MaxStream
    /\ stream' = [w \in Watchers |-> IF watching[w] THEN Append(stream[w], [kind |-> k, obj |-> u]) ELSE stream[w]]
    /\ UNCHANGED <<phase, watching, cache, seen, queueVars, workerVars, storeVars, crashes, gaps>>

CreateObject(u) ==
    /\ u \notin created
    /\ \A v \in cluster : NameOf[v] # NameOf[u]
    /\ cluster' = cluster \cup {u}
    /\ created' = created \cup {u}
    /\ Notify("add", u)

ModifyObject(u) ==
    /\ u \in cluster
    /\ UNCHANGED clusterVars
    /\ Notify("update", u)

DeleteObject(u) ==
    /\ u \in cluster
    /\ cluster' = cluster \ {u}
    /\ UNCHANGED created
    /\ Notify("delete", u)

-----------------------------------------------------------------------------
(* The life of a watcher process.                                          *)

Start(w) ==
    /\ phase[w] = "down"
    /\ phase' = [phase EXCEPT ![w] = "boot"]
    /\ UNCHANGED <<clusterVars, informerVars, queueVars, workerVars, storeVars, crashes, gaps>>

(* PutArtifactType is idempotent, so registering leaves no trace; without  *)
(* an answer the process exits, and its deployment starts it again.        *)
RegisterOk(w) ==
    /\ phase[w] = "boot"
    /\ phase' = [phase EXCEPT ![w] = "sync"]
    /\ UNCHANGED <<clusterVars, informerVars, queueVars, workerVars, storeVars, crashes, gaps>>

RegisterFails(w) ==
    /\ phase[w] = "boot"
    /\ phase' = [phase EXCEPT ![w] = "down"]
    /\ UNCHANGED <<clusterVars, informerVars, queueVars, workerVars, storeVars, crashes, gaps>>

(* What becomes of a put whose caller stops waiting for it.  If the store  *)
(* has not executed it yet, it may be lost or may still be executed later. *)
Abandon(w) ==
    \/ UNCHANGED storeVars
    \/ LET u == item[w].obj IN
         /\ pc[w] = "put"
         /\ orphaned[u] < MaxOrphans
         /\ orphans' = [orphans EXCEPT ![u] = @ + 1]
         /\ orphaned' = [orphaned EXCEPT ![u] = @ + 1]
         /\ UNCHANGED copies

(* A crash, or the stop that SIGTERM asks for: queue and cache are memory. *)
Crash(w) ==
    /\ phase[w] # "down"
    /\ crashes < MaxCrashes
    /\ crashes' = crashes + 1
    /\ phase' = [phase EXCEPT ![w] = "down"]
    /\ watching' = [watching EXCEPT ![w] = FALSE]
    /\ stream' = [stream EXCEPT ![w] = <<>>]
    /\ cache' = [cache EXCEPT ![w] = {}]
    /\ seen' = [seen EXCEPT ![w] = {}]
    /\ waiting' = [waiting EXCEPT ![w] = {}]
    /\ ready' = [ready EXCEPT ![w] = <<>>]
    /\ pc' = [pc EXCEPT ![w] = "idle"]
    /\ item' = [item EXCEPT ![w] = None]
    /\ Abandon(w)
    /\ UNCHANGED <<clusterVars, gaps>>

-----------------------------------------------------------------------------
(* The informer: a list on start and after a lost connection, compared by  *)
(* name with the local store, and the notifications of the watch.          *)

SameName(u, S) == \E v \in S : NameOf[v] = NameOf[u]

List(w) ==
    LET added   == {u \in cluster : ~SameName(u, cache[w])}
        updated == cluster \ added
        deleted == {u \in cache[w] : ~SameName(u, cluster)}
    IN  /\ phase[w] \in {"sync", "run"}
        /\ ~watching[w]
        /\ watching' = [watching EXCEPT ![w] = TRUE]
        /\ phase' = [phase EXCEPT ![w] = "run"]
        /\ cache' = [cache EXCEPT ![w] = cluster]
        /\ seen' = [seen EXCEPT ![w] = @ \cup added]
        /\ waiting' = [waiting EXCEPT ![w] = @ \cup {Add(u) : u \in added}
                                               \cup {Other("update") : u \in updated}
                                               \cup {Other("delete") : u \in deleted}]
        /\ UNCHANGED <<clusterVars, stream, ready, workerVars, storeVars, crashes, gaps>>

(* OnAdd, OnUpdate and OnDelete: AddRateLimited of an event.               *)
Deliver(w) ==
    LET n == Head(stream[w]) IN
    /\ stream[w] # <<>>
    /\ stream' = [stream EXCEPT ![w] = Tail(@)]
    /\ cache' = [cache EXCEPT ![w] = IF n.kind = "delete" THEN @ \ {n.obj} ELSE @ \cup {n.obj}]
    /\ seen' = [seen EXCEPT ![w] = IF n.kind = "add" THEN @ \cup {n.obj} ELSE @]
    /\ waiting' = [waiting EXCEPT ![w] = @ \cup {EventOf(n)}]
    /\ UNCHANGED <<clusterVars, phase, watching, ready, workerVars, storeVars, crashes, gaps>>

LoseWatch(w) ==
    /\ watching[w]
    /\ gaps < MaxGaps
    /\ gaps' = gaps + 1
    /\ watching' = [watching EXCEPT ![w] = FALSE]
    /\ stream' = [stream EXCEPT ![w] = <<>>]
    /\ UNCHANGED <<clusterVars, phase, cache, seen, queueVars, workerVars, storeVars, crashes>>

-----------------------------------------------------------------------------
(* The work queue and its single worker.                                   *)

(* The delay of an event ends.  An event being processed is only marked    *)
(* dirty and queued at its Done: waiting until then is the same.           *)
Fire(w, e) ==
    /\ e \in waiting[w]
    /\ e # item[w]
    /\ waiting' = [waiting EXCEPT ![w] = @ \ {e}]
    /\ ready' = [ready EXCEPT ![w] = IF e \in ToSet(@) THEN @ ELSE Append(@, e)]
    /\ UNCHANGED <<clusterVars, phase, informerVars, workerVars, storeVars, crashes, gaps>>

(* Mutant: the event stays on the queue while it is processed.             *)
GetItemPeek(w) ==
    /\ phase[w] = "run" /\ pc[w] = "idle" /\ ready[w] # <<>>
    /\ item' = [item EXCEPT ![w] = Head(ready[w])]
    /\ pc' = [pc EXCEPT ![w] = "handle"]
    /\ UNCHANGED <<clusterVars, phase, informerVars, queueVars, storeVars, crashes, gaps>>

(* The worker starts when the caches have synced: phase "run".             *)
GetItem(w) ==
    /\ phase[w] = "run"
    /\ pc[w] = "idle"
    /\ ready[w] # <<>>
    /\ item' = [item EXCEPT ![w] = Head(ready[w])]
    /\ ready' = [ready EXCEPT ![w] = Tail(@)]
    /\ pc' = [pc EXCEPT ![w] = "handle"]
    /\ UNCHANGED <<clusterVars, phase, informerVars, waiting, storeVars, crashes, gaps>>

Release(w) ==
    /\ pc' = [pc EXCEPT ![w] = "idle"]
    /\ item' = [item EXCEPT ![w] = None]
    /\ UNCHANGED <<clusterVars, phase, informerVars, ready, crashes, gaps>>

(* The handler returned nil: Done.                                         *)
Done(w) == Release(w) /\ UNCHANGED waiting

(* Mutants: Done comes before the event is read, or there is no retry.     *)
RequeueNothing(w) == Release(w) /\ waiting' = [waiting EXCEPT ![w] = @ \cup {item'[w]}]
RequeueDropped(w) == Release(w) /\ UNCHANGED waiting

(* The handler returned an error: AddRateLimited again, then Done.         *)
Requeue(w) == Release(w) /\ waiting' = [waiting EXCEPT ![w] = @ \cup {item[w]}]

(* MetaLogger.OnUpdate and OnDelete do nothing.                            *)
HandleOther(w) ==
    /\ pc[w] = "handle"
    /\ item[w].kind # "add"
    /\ Done(w)
    /\ UNCHANGED storeVars

Checking(w) == pc[w] = "handle" /\ item[w].kind = "add"

(* MetaLogger.OnAdd: is there an artifact with the object's UID?           *)
FoundExisting(w) ==
    /\ Checking(w)
    /\ copies[item[w].obj] > 0
    /\ Done(w)
    /\ UNCHANGED storeVars

(* Mutant: the answer of ifExists is not looked at.                        *)
FoundNoneUnchecked(w) ==
    /\ Checking(w)
    /\ pc' = [pc EXCEPT ![w] = "put"]
    /\ UNCHANGED <<clusterVars, phase, informerVars, queueVars, item, storeVars, crashes, gaps>>

FoundNone(w) ==
    /\ Checking(w)
    /\ copies[item[w].obj] = 0
    /\ pc' = [pc EXCEPT ![w] = "put"]
    /\ UNCHANGED <<clusterVars, phase, informerVars, queueVars, item, storeVars, crashes, gaps>>

IfExistsFails(w) ==
    /\ Checking(w)
    /\ Requeue(w)
    /\ UNCHANGED storeVars

(* The store executes PutArtifacts: it adds an artifact, whatever is there. *)
PutApplied(w) ==
    /\ pc[w] = "put"
    /\ copies' = [copies EXCEPT ![item[w].obj] = @ + 1]
    /\ pc' = [pc EXCEPT ![w] = "acked"]
    /\ UNCHANGED <<clusterVars, phase, informerVars, queueVars, item, orphans, orphaned, crashes, gaps>>

PutReturns(w) ==
    /\ pc[w] = "acked"
    /\ Done(w)
    /\ UNCHANGED storeVars

(* The call fails before or after the store executed it.                   *)
PutFails(w) ==
    /\ pc[w] \in {"put", "acked"}
    /\ Abandon(w)
    /\ Requeue(w)

OrphanLands(u) ==
    /\ orphans[u] > 0
    /\ orphans' = [orphans EXCEPT ![u] = @ - 1]
    /\ copies' = [copies EXCEPT ![u] = @ + 1]
    /\ UNCHANGED <<clusterVars, phase, informerVars, queueVars, workerVars, orphaned, crashes, gaps>>

OrphanDropped(u) ==
    /\ orphans[u] > 0
    /\ orphans' = [orphans EXCEPT ![u] = @ - 1]
    /\ UNCHANGED <<clusterVars, phase, informerVars, queueVars, workerVars, copies, orphaned, crashes, gaps>>

-----------------------------------------------------------------------------
ClusterStep == \E u \in Objects : CreateObject(u) \/ ModifyObject(u) \/ DeleteObject(u)

ProcessStep == \E w \in Watchers : Start(w) \/ RegisterOk(w) \/ RegisterFails(w) \/ Crash(w)

InformerStep == \E w \in Watchers : List(w) \/ Deliver(w) \/ LoseWatch(w)

QueueStep == \E w \in Watchers : \E e \in Event : Fire(w, e)

WorkerStep ==
    \E w \in Watchers :
        \/ GetItem(w) \/ HandleOther(w)
        \/ FoundExisting(w) \/ FoundNone(w) \/ IfExistsFails(w)
        \/ PutApplied(w) \/ PutReturns(w) \/ PutFails(w)

OrphanStep == \E u \in Objects : OrphanLands(u) \/ OrphanDropped(u)

Next == ClusterStep \/ ProcessStep \/ InformerStep \/ QueueStep \/ WorkerStep \/ OrphanStep

(* Fairness.  Deployment, informer, timers and worker keep running (weak). *)
(* The store may fail any call, but an event whose calls are repeated is   *)
(* not failed for ever (strong): the assumption every retry rests on.      *)
Answered(w) == FoundExisting(w) \/ FoundNone(w)

Fairness ==
    /\ \A w \in Watchers :
         /\ WF_vars(Start(w))
         /\ SF_vars(RegisterOk(w))
         /\ WF_vars(List(w))
         /\ WF_vars(Deliver(w))
         /\ WF_vars(GetItem(w))
         /\ WF_vars(HandleOther(w))
         /\ WF_vars(PutReturns(w))
         /\ \A u \in Objects :
              /\ WF_vars(Fire(w, Add(u)))
              /\ SF_vars(item[w] = Add(u) /\ Answered(w))
              /\ SF_vars(item[w] = Add(u) /\ PutApplied(w))

Spec == Init /\ [][Next]_vars

FairSpec == Spec /\ Fairness

-----------------------------------------------------------------------------
(* Properties.                                                             *)

Pending(w) == waiting[w] \cup ToSet(ready[w]) \cup {item[w]}

(* Logging is check-then-put (metalogger.go:97-128) over calls that may be *)
(* retried, time out half way or be cut by a crash, and nothing in the     *)
(* store makes a UID unique.  An object still gets at most one artifact    *)
(* per concurrent watcher, plus one for every put that outlived its call.  *)
DuplicateBound ==
    \A u \in Objects : copies[u] <= Cardinality(Watchers) + orphaned[u]

(* Why the bound holds, and what is inductive about it: a put under way or *)
(* orphaned counts like the artifact it may become, and no attempt starts  *)
(* once there is a copy.                                                   *)
Attempting(u) == {w \in Watchers : pc[w] = "put" /\ item[w] = Add(u)}

WorkerShape ==
    \A w \in Watchers :
        /\ pc[w] = "idle" <=> item[w] = None
        /\ pc[w] \in {"put", "acked"} => \E u \in Objects : item[w] = Add(u)
        /\ pc[w] = "acked" => copies[item[w].obj] > 0

AttemptsBounded ==
    \A u \in Objects :
        /\ orphans[u] <= orphaned[u]
        /\ copies[u] + orphans[u] + Cardinality(Attempting(u))
               <= Cardinality(Watchers) + orphaned[u]

(* An event is never dropped: an object that OnAdd reported to a running   *)
(* watcher is logged, or its event is delayed, queued or being processed   *)
(* (watcher.go:39, "the event will be put back to the queue").             *)
NoEventLost ==
    \A w \in Watchers : \A u \in seen[w] : copies[u] > 0 \/ Add(u) \in Pending(w)

(* watcher.go:33, "we process one event at a time": an add event sits in   *)
(* one place, so that no two attempts to log an object overlap in one      *)
(* process: not delayed and queued, nor queued and processed, nor twice.   *)
EventInOnePlace ==
    \A w \in Watchers : \A u \in Objects :
        LET queued == {i \in DOMAIN ready[w] : ready[w][i] = Add(u)} IN
        /\ Cardinality(queued) <= 1
        /\ Add(u) \in waiting[w] => queued = {} /\ item[w] # Add(u)
        /\ item[w] = Add(u) => queued = {}

(* README.md:8 of the watcher: it "can watch the creation of any           *)
(* Kubernetes resouce object".  An object that stays is logged.            *)
EventuallyLogged == \A u \in Objects : <>[](u \in cluster) => <>(copies[u] > 0)

(* With one watcher and no orphaned put, the watcher keeps the promise of  *)
(* ResourceLog: at most one artifact per object, and exactly one for those *)
(* the watcher lives long enough to log.                                   *)
Log == INSTANCE ResourceLog WITH told <- UNION {seen[w] : w \in Watchers}, log <- copies
ImplementsLog == Log!Spec
=============================================================================
