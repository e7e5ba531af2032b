------------------------------- MODULE Service -------------------------------
(***************************************************************************)
(* The gRPC handlers of src/service/service.go over the metadata store.    *)
(* A handler is a sequence of store calls; each store call is a            *)
(* transaction, the sequence is not, so the handlers of different clients  *)
(* interleave between the calls.  Artifacts and executions have the same   *)
(* handlers, so Kinds is a parameter of one set of actions.                *)
(*                                                                         *)
(* A resource name is abstracted to the number of "artifact_types/" (or    *)
(* "execution_types/") prefixes it starts with and the name that follows.  *)
(***************************************************************************)
EXTENDS MetadataStore

CONSTANTS
    Clients,      \* callers of the service
    Kinds,        \* subset of {"artifact", "execution"}
    Operations,   \* the RPCs the clients issue
    Bases,        \* type names without a collection prefix
    MaxPrefixes,  \* bound: collection prefixes of a name
    Shapes,       \* the maps of properties that appear in requests
    Missing,      \* a message left out of a request
    MaxItems,     \* bound: artifacts, and executions, stored
    MaxFailures   \* bound: store calls that fail

TypeNames == [prefixes : 0 .. MaxPrefixes, base : Bases]

ASSUME KindsAssumption  == Kinds \subseteq {"artifact", "execution"}
ASSUME OperationsAssumption ==
    Operations \subseteq {"CreateType", "UpdateType", "GetType", "CreateItem", "GetItem", "ListItems",
                          "ListTypes", "Delete", "CreateEvent", "ListEvents"}
ASSUME ShapesAssumption == Shapes # {} /\ \A s \in Shapes : s = [p \in DOMAIN s |-> s[p]]
ASSUME BoundsAssumption == {MaxPrefixes, MaxItems, MaxFailures} \subseteq Nat

VARIABLES
    types,    \* of each kind: name -> properties
    items,    \* of each kind: the artifacts or executions, in the order of their ids
    events,   \* events stored
    call,     \* of each client: its last request, how far it is, its answer
    failures  \* store calls that failed so far

vars == <<types, items, events, call, failures>>

(* Requests.  GetType and GetItem enter the handler at the reading step    *)
(* they share with the handlers that create.  ends are the artifacts and   *)
(* executions in the answer to ListEvents; stored, failed (the steps whose *)
(* store call failed) and known (what there was to list when the request   *)
(* came) are history.                                                      *)
Request(op, kind, name, props, id, step) ==
    [op |-> op, kind |-> kind, name |-> name, props |-> props, id |-> id, step |-> step,
     stored |-> FALSE, failed |-> {}, ok |-> FALSE, result |-> {},
     ends |-> [artifact |-> {}, execution |-> {}], known |-> {}]

NoName == [prefixes |-> 0, base |-> ""]
NoCall == Request("none", "artifact", NoName, Missing, 0, "done")

Ids == 0 .. MaxItems

(* Of a request that names no kind.                                        *)
AnyKind == CHOOSE k \in Kinds : TRUE

(* artifactNameRE, executionNameRE: the collection prefix must be there.   *)
MatchesItemName(n) == n.prefixes > 0

(* A message left out has no name, and one name is enough of those that    *)
(* are no name of an item.                                                 *)
RequestsOf(op, k) ==
    CASE op \in {"CreateType", "UpdateType"} ->
            {Request(op, k, n, s, 0, "start") : n \in TypeNames, s \in Shapes}
                \cup {Request(op, k, NoName, Missing, 0, "start")}
      [] op = "GetType"   -> {Request(op, k, n, Missing, 0, "read") : n \in TypeNames}
      [] op = "CreateItem" ->
            {Request(op, k, n, s, 0, "start") : n \in TypeNames, s \in Shapes}
                \cup {Request(op, k, NoName, Missing, 0, "start")}
                \cup {Request(op, k, n, s, 1, "start") : n \in TypeNames, s \in {CHOOSE t \in Shapes : TRUE}}
      [] op = "GetItem"   ->
            {Request(op, k, n, Missing, i, "read") : n \in {m \in TypeNames : MatchesItemName(m)}, i \in Ids}
                \cup {Request(op, k, NoName, Missing, 0, "read")}
      [] op = "ListItems" -> {Request(op, k, n, Missing, 0, "list") : n \in TypeNames \cup {NoName}}
      [] op = "ListTypes" -> {Request(op, k, NoName, Missing, 0, "list")}
      [] op = "Delete"    -> {Request(op, k, NoName, Missing, 0, "start")}
      [] op = "CreateEvent" ->
            {Request(op, AnyKind, NoName, e, 0, "start") :
                e \in [artifact : Ids, execution : Ids] \cup {Missing}}
      [] op = "ListEvents" -> {Request(op, k, NoName, Missing, i, "events") : i \in Ids \cup {Missing}}

(* strings.TrimPrefix(name, "artifact_types/"): one prefix, if there is one. *)
TrimPrefix(n) == IF n.prefixes > 0 THEN [n EXCEPT !.prefixes = @ - 1] ELSE n

Init ==
    /\ types = [k \in Kinds |-> <<>>]
    /\ items = [k \in Kinds |-> <<>>]
    /\ events = {}
    /\ call = [c \in Clients |-> NoCall]
    /\ failures = 0

-----------------------------------------------------------------------------
(* Steps common to the handlers.                                           *)

At(c, ops, step) == call[c].op \in ops /\ call[c].step = step

Proceed(c, step) == call' = [call EXCEPT ![c].step = step]

Answer(c, result) ==
    call' = [call EXCEPT ![c].step = "done", ![c].ok = TRUE, ![c].result = result]

Fail(c) == call' = [call EXCEPT ![c].step = "done", ![c].ok = FALSE]

(* The items of a type named artifact_types/{name}, or of all; the events  *)
(* of an artifact or execution.                                            *)
ToList(r) ==
    CASE r.op = "ListItems" ->
            {i \in DOMAIN items[r.kind] :
                r.name \in {NoName, [items[r.kind][i].type EXCEPT !.prefixes = @ + 1]}}
      [] r.op = "ListEvents" -> {e \in events : e[r.kind] = r.id}
      [] OTHER -> {}

Call(c) ==
    /\ call[c].step = "done"
    /\ \E op \in Operations : \E k \in Kinds : \E r \in RequestsOf(op, k) :
          call' = [call EXCEPT ![c] = [r EXCEPT !.known = ToList(r)]]
    /\ UNCHANGED <<types, items, events, failures>>

(* The guards before the first store call, and the handlers not written.   *)
(* CreateEvent has no guard: a missing event cannot be encoded for the     *)
(* store.                                                                  *)
Rejected(r) ==
    \/ r.step = "start" /\ r.op \in {"CreateType", "UpdateType", "CreateItem", "CreateEvent"}
       /\ r.props = Missing
    \/ r.step = "start" /\ r.op = "CreateItem" /\ r.id # 0
    \/ r.step = "start" /\ r.op = "Delete"
    \/ r.step = "read" /\ r.op \in {"CreateItem", "GetItem"} /\ ~MatchesItemName(r.name)
    \/ r.step = "events" /\ r.id = Missing

Reject(c) ==
    /\ call[c].step # "done"
    /\ Rejected(call[c])
    /\ Fail(c)
    /\ UNCHANGED <<types, items, events, failures>>

(* Whether the step calls the store: without events there are no ends to   *)
(* look for.                                                               *)
CallsStore(r) ==
    /\ r.step # "done" /\ ~Rejected(r)
    /\ r.step \in {"artifacts", "executions"} => r.result # {}

(* The store tells an empty list from a failure by the text of the error.  *)
NoRecord == "Cannot find any record"
Failure == "failure"

(* Mutant: any error of the store is taken for an empty list.              *)
OnErrorAnyIsEmpty(r, error) ==
    CASE r.step = "events" -> [r EXCEPT !.step = "artifacts"]
      [] r.op = "ListItems" -> [r EXCEPT !.step = "done", !.ok = TRUE]
      [] OTHER -> [r EXCEPT !.step = "done"]

(* What a handler makes of an error.  ListArtifacts and ListExecutions     *)
(* take one error for an empty list.  ListEvents assigns that of its first *)
(* call to a variable of the inner block, and goes on with no events.  All *)
(* others are returned.                                                    *)
OnError(r, error) ==
    CASE r.step = "events" -> [r EXCEPT !.step = "artifacts"]
      [] r.op = "ListItems" /\ error = NoRecord -> [r EXCEPT !.step = "done", !.ok = TRUE]
      [] OTHER -> [r EXCEPT !.step = "done"]

(* A store call fails and leaves no trace: a call is a transaction.        *)
StoreFails(c) ==
    LET r == call[c] IN
    /\ CallsStore(r)
    /\ failures < MaxFailures
    /\ failures' = failures + 1
    /\ call' = [call EXCEPT ![c] = OnError([r EXCEPT !.failed = r.failed \cup {r.step}], Failure)]
    /\ UNCHANGED <<types, items, events>>

-----------------------------------------------------------------------------
(* Types.                                                                  *)

PutTypeOptions(op) == IF op = "UpdateType" THEN UpdateOptions ELSE CreateOptions

(* Mutant: the guard against a request without a type is missing.          *)
PutTypeUnguarded(c) ==
    LET r == call[c] IN
    /\ At(c, {"CreateType", "UpdateType"}, "start")
    /\ r.name \notin DOMAIN types[r.kind]
    /\ types' = [types EXCEPT ![r.kind] = WithType(@, r.name, r.props)]
    /\ call' = [call EXCEPT ![c].step = "read", ![c].stored = TRUE]
    /\ UNCHANGED <<items, events, failures>>

PutType(c) ==
    LET r == call[c] IN
    /\ At(c, {"CreateType", "UpdateType"}, "start")
    /\ ~Rejected(r)
    /\ IF CanPutType(types[r.kind], r.name, r.props, PutTypeOptions(r.op))
       THEN /\ types' = [types EXCEPT ![r.kind] = WithType(@, r.name, r.props)]
            /\ call' = [call EXCEPT ![c].step = "read", ![c].stored = TRUE]
       ELSE Fail(c) /\ UNCHANGED types
    /\ UNCHANGED <<items, events, failures>>

(* getArtifactType, getExecutionType                                       *)
ReadType(c) ==
    LET r == call[c]
        n == TrimPrefix(r.name)
    IN  /\ At(c, {"CreateType", "UpdateType", "GetType"}, "read")
        /\ IF n \in DOMAIN types[r.kind]
           THEN Answer(c, [name |-> n, props |-> types[r.kind][n]])
           ELSE Fail(c)
        /\ UNCHANGED <<types, items, events, failures>>

ListTypes(c) ==
    /\ At(c, {"ListTypes"}, "list")
    /\ Answer(c, DOMAIN types[call[c].kind])
    /\ UNCHANGED <<types, items, events, failures>>

-----------------------------------------------------------------------------
(* Artifacts and executions.  What a client stores is told apart by its    *)
(* content, here the client.                                               *)

ResolveParent(c) ==
    LET r == call[c] IN
    /\ At(c, {"CreateItem"}, "start")
    /\ ~Rejected(r)
    /\ IF TrimPrefix(r.name) \in DOMAIN types[r.kind] THEN Proceed(c, "put") ELSE Fail(c)
    /\ UNCHANGED <<types, items, events, failures>>

PutItem(c) ==
    LET r == call[c]
        t == TrimPrefix(r.name)
    IN  /\ At(c, {"CreateItem"}, "put")
        /\ Len(items[r.kind]) < MaxItems
        /\ IF Conforms(r.props, types[r.kind][t])
           THEN /\ items' = [items EXCEPT ![r.kind] =
                                Append(@, [type |-> t, props |-> r.props, content |-> c])]
                /\ call' = [call EXCEPT ![c].step = "read", ![c].stored = TRUE,
                                        ![c].id = Len(items[r.kind]) + 1]
           ELSE Fail(c) /\ UNCHANGED items
        /\ UNCHANGED <<types, events, failures>>

(* Mutant: the answer is the newest item.                                  *)
ReadNewestItem(c) ==
    LET r == call[c] IN
    /\ At(c, {"CreateItem", "GetItem"}, "read")
    /\ ~Rejected(r)
    /\ items[r.kind] # <<>>
    /\ Answer(c, items[r.kind][Len(items[r.kind])])
    /\ UNCHANGED <<types, items, events, failures>>

(* Mutant: the item's name is built from the trimmed name of its type.     *)
ReadItemTrimmed(c) ==
    LET r == call[c] IN
    /\ At(c, {"CreateItem", "GetItem"}, "read")
    /\ IF MatchesItemName(TrimPrefix(r.name)) /\ r.id \in DOMAIN items[r.kind]
       THEN Answer(c, items[r.kind][r.id])
       ELSE Fail(c)
    /\ UNCHANGED <<types, items, events, failures>>

(* getStoredArtifact, getExecution                                         *)
ReadItem(c) ==
    LET r == call[c] IN
    /\ At(c, {"CreateItem", "GetItem"}, "read")
    /\ ~Rejected(r)
    /\ IF r.id \in DOMAIN items[r.kind]
       THEN Answer(c, items[r.kind][r.id])
       ELSE Fail(c)
    /\ UNCHANGED <<types, items, events, failures>>

(* The store answers that there is none, an unknown type included, with an *)
(* empty list or with an error.                                            *)
ListItems(c) ==
    LET r == call[c]
        found == {i \in DOMAIN items[r.kind] :
                     r.name = NoName \/ items[r.kind][i].type = TrimPrefix(r.name)}
    IN
    /\ At(c, {"ListItems"}, "list")
    /\ \/ Answer(c, found)
       \/ found = {} /\ call' = [call EXCEPT ![c] = OnError(r, NoRecord)]
    /\ UNCHANGED <<types, items, events, failures>>

-----------------------------------------------------------------------------
(* Events.                                                                 *)

PutEvent(c) ==
    LET r == call[c] IN
    /\ At(c, {"CreateEvent"}, "start")
    /\ ~Rejected(r)
    /\ IF CanPutEvent(items["artifact"], items["execution"], r.props)
       THEN /\ events' = events \cup {r.props}
            /\ call' = [call EXCEPT ![c].step = "done", ![c].ok = TRUE, ![c].stored = TRUE]
       ELSE Fail(c) /\ UNCHANGED events
    /\ UNCHANGED <<types, items, failures>>

FindEvents(c) ==
    LET r == call[c] IN
    /\ At(c, {"ListEvents"}, "events")
    /\ ~Rejected(r)
    /\ call' = [call EXCEPT ![c].step = "artifacts",
                            ![c].result = {e \in events : e[r.kind] = r.id}]
    /\ UNCHANGED <<types, items, events, failures>>

(* getArtifactsInEvents, getExecutionsInEvents: one call for each id not   *)
(* met yet.  What is stored does not change, so the loop is one step.      *)
InEvents(evs, kind) == {e[kind] : e \in evs}

Fetch(c, kind, step, found) ==
    LET ids == InEvents(call[c].result, kind) IN
    /\ At(c, {"ListEvents"}, step)
    /\ IF ids \subseteq DOMAIN items[kind]
       THEN call' = [call EXCEPT ![c] = [found EXCEPT !.ends = [call[c].ends EXCEPT ![kind] = ids]]]
       ELSE Fail(c)
    /\ UNCHANGED <<types, items, events, failures>>

FetchArtifacts(c) ==
    Fetch(c, "artifact", "artifacts", [call[c] EXCEPT !.step = "executions"])
FetchExecutions(c) ==
    Fetch(c, "execution", "executions", [call[c] EXCEPT !.step = "done", !.ok = TRUE])

-----------------------------------------------------------------------------
Step(c) ==
    \/ Reject(c) \/ StoreFails(c)
    \/ PutType(c) \/ ReadType(c) \/ ListTypes(c)
    \/ ResolveParent(c) \/ PutItem(c) \/ ReadItem(c) \/ ListItems(c)
    \/ PutEvent(c) \/ FindEvents(c) \/ FetchArtifacts(c) \/ FetchExecutions(c)

Next == \E c \in Clients : Call(c) \/ Step(c)

Spec == Init /\ [][Next]_vars

-----------------------------------------------------------------------------
(* Properties.                                                             *)

TypeOK ==
    /\ DOMAIN types = Kinds /\ DOMAIN items = Kinds
    /\ \A k \in Kinds :
         /\ DOMAIN types[k] \subseteq TypeNames
         /\ \A n \in DOMAIN types[k] : types[k][n] \in Shapes
         /\ items[k] \in Seq([type : TypeNames, props : Shapes, content : Clients])
    /\ events \subseteq [artifact : Ids, execution : Ids]
    /\ \A c \in Clients : call[c].step \in
          {"start", "read", "list", "put", "events", "artifacts", "executions", "done"}
    /\ failures \in 0 .. MaxFailures

Finished(c, op) == call[c].op = op /\ call[c].step = "done"
Succeeded(c, op) == Finished(c, op) /\ call[c].ok

(* CreateArtifact looks the type up, puts and reads back in three separate *)
(* transactions (service.go:251-268), other clients' calls in between: its *)
(* answer is still the caller's own item, under the type named as parent.  *)
ReplyIsOwn ==
    \A c \in Clients : Succeeded(c, "CreateItem") =>
        /\ call[c].result.content = c
        /\ call[c].result.type = TrimPrefix(call[c].name)
        /\ call[c].result.props = call[c].props

(* api.proto:75, "Properties must be specified in the ArtifactType": of    *)
(* every stored item this stays true, whatever happened to its type since  *)
(* it was resolved and since the item was stored.                          *)
ItemsConform ==
    \A k \in Kinds : \A i \in DOMAIN items[k] :
        LET it == items[k][i] IN
        it.type \in DOMAIN types[k] /\ Conforms(it.props, types[k][it.type])

(* service.go:161-163: a type never goes away, changes only in the course  *)
(* of an UpdateType, and then only gains properties.                       *)
TypesOnlyGrow ==
    [][\A k \in Kinds : \A n \in DOMAIN types[k] :
          /\ n \in DOMAIN types'[k]
          /\ Conforms(types[k][n], types'[k][n])
          /\ types'[k][n] # types[k][n] =>
                \E c \in Clients : call[c].op = "UpdateType" /\ call[c].step # "done"]_vars

(* A handler that stored something and met no store failure does not       *)
(* report an error, so that a client that retries on errors stores nothing *)
(* twice: the read after the put (service.go:151, 268) finds what was put, *)
(* for types named {namespace}/{name} (api.proto:38) and for parents named *)
(* artifact_types/{namespace}/{name} (service.proto:65).                   *)
WellNamed(r) ==
    \/ r.op \in {"CreateType", "UpdateType"} /\ r.name.prefixes = 0
    \/ r.op = "CreateItem" /\ r.name.prefixes > 0

StoredIsAnswered ==
    \A c \in Clients :
        call[c].step = "done" /\ call[c].stored /\ call[c].failed = {} /\ WellNamed(call[c])
            => call[c].ok

(* The type in the answer to CreateType and UpdateType is the one named in *)
(* the request and has at least the properties asked for, although others  *)
(* update it between the put and the read (service.go:145-151, 168-176).   *)
AnswersType(c) ==
    Succeeded(c, "CreateType") \/ Succeeded(c, "UpdateType") =>
        /\ call[c].result.name = call[c].name
        /\ Conforms(call[c].props, call[c].result.props)

TypeAnswered == \A c \in Clients : WellNamed(call[c]) => AnswersType(c)

(* "An empty list is returned if no artifact is found" (service.go:299,    *)
(* 475), and only then: ListArtifacts and ListExecutions answer without an *)
(* error just when no call has failed, and nothing that was stored, by     *)
(* whatever client, when they or ListEvents were called is missing in the  *)
(* answer, nor an end of an event in it (service.go:512-519).  The failure *)
(* of the first call of ListEvents is the one excepted.                    *)
ListsAreComplete ==
    \A c \in Clients :
        LET r == call[c] IN
        /\ Finished(c, "ListItems") => (r.ok <=> r.failed = {})
        /\ Succeeded(c, "ListItems") => r.known \subseteq r.result
        /\ Succeeded(c, "ListEvents") /\ "events" \notin r.failed =>
              /\ r.known \subseteq r.result
              /\ \A e \in r.result : e.artifact \in r.ends.artifact /\ e.execution \in r.ends.execution

(* mlmetadata/metadata_store.go:258, "It returns an error if the query     *)
(* execution fails": an answer without events means there were none.       *)
ListEventsReportsFailure == \A c \in Clients : Succeeded(c, "ListEvents") => call[c].failed = {}

(* ListEvents (service.go:512-519) finds both ends of every event it       *)
(* reports, although it reads them in later calls: without a store failure *)
(* it answers a well-formed request.                                       *)
EventsAnswered ==
    \A c \in Clients :
        Finished(c, "ListEvents") /\ call[c].failed = {} /\ call[c].id # Missing => call[c].ok
=============================================================================
