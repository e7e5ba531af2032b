----------------------------- MODULE ServerBoot -----------------------------
(***************************************************************************)
(* The metadata server's life (src/server/main.go): it connects to the     *)
(* store, registers the types of the predefined schemas                    *)
(* (src/schemaparser/register.go), serves, and is started again by its     *)
(* deployment whenever it dies.  The store is a database that outlives it. *)
(***************************************************************************)
EXTENDS MetadataStore

CONSTANTS
    Releases,    \* the sets of predefined schemas of the images deployed
    Shapes,      \* the properties clients give the types they put
    ClientOps,   \* subset of {"CreateType", "UpdateType"}
    RetryNum,    \* flag retries_on_transaction_failure
    MaxFailures  \* bound: store calls that fail, and crashes

(* A schema: whether kind, version and namespace are constants, its        *)
(* category, the name and the properties of the type registered for it;    *)
(* and whether its file cannot be read, or its properties not be resolved  *)
(* to types of the store.                                                  *)
TypeKinds      == {"artifact", "execution"}
Typed(s)       == s.named /\ s.category \in TypeKinds
Registrable(S) == {s \in S : Typed(s) /\ s.file = "good"}
AllSchemas     == UNION Releases
Loads(S)       == \A s \in S : s.file # "unreadable"

(* Maps of properties, of requests and of schemas.                         *)
PropertyMaps == Shapes \cup {s.props : s \in Registrable(AllSchemas)}

ASSUME MapsAssumption   == \A m \in PropertyMaps : m = [p \in DOMAIN m |-> m[p]]
ASSUME RetryAssumption  == RetryNum \in Nat \ {0} /\ MaxFailures \in Nat
ASSUME NamesAssumption  ==
    \A S \in Releases : \A s, t \in Registrable(S) :
        s.category = t.category /\ s.name = t.name => s = t

VARIABLES
    phase,    \* down, connect, register, serve
    release,  \* predefined schemas of the running image
    attempt,  \* connections tried by this incarnation
    pending,  \* schemas the registration has not come to
    types,    \* of each kind: name -> properties
    faults    \* store failures and crashes so far

vars == <<phase, release, attempt, pending, types, faults>>

Init ==
    /\ phase = "down" /\ release \in Releases /\ attempt = 0 /\ pending = {}
    /\ types = [k \in TypeKinds |-> <<>>]
    /\ faults = 0

Fault == faults < MaxFailures /\ faults' = faults + 1

(* glog.Fatalf: the process exits.                                         *)
Die == phase' = "down" /\ attempt' = 0 /\ pending' = {} /\ UNCHANGED release

-----------------------------------------------------------------------------
Boot ==
    /\ phase = "down"
    /\ phase' = "connect"
    /\ release' \in Releases
    /\ UNCHANGED <<attempt, pending, types, faults>>

(* mlmdStoreOrDie, and NewSchemaSetFromADir, which reads all schemas.      *)
ConnectOk ==
    /\ phase = "connect" /\ attempt < RetryNum
    /\ Loads(release)
    /\ phase' = "register"
    /\ pending' = release
    /\ UNCHANGED <<release, attempt, types, faults>>

(* The store answers, but a file of the release is no schema.              *)
LoadFails ==
    /\ phase = "connect" /\ attempt < RetryNum
    /\ ~Loads(release)
    /\ Die
    /\ UNCHANGED <<types, faults>>

(* Mutant: the loop has no bound.                                          *)
ConnectFailsForever ==
    /\ phase = "connect"
    /\ attempt' = attempt + 1
    /\ Fault
    /\ UNCHANGED <<phase, release, pending, types>>

ConnectFails ==
    /\ phase = "connect" /\ attempt < RetryNum
    /\ attempt' = attempt + 1
    /\ Fault
    /\ UNCHANGED <<phase, release, pending, types>>

GiveUp ==
    /\ phase = "connect" /\ attempt = RetryNum
    /\ Die
    /\ UNCHANGED <<types, faults>>

-----------------------------------------------------------------------------
(* RegisterSchemas: the loop over a map, in any order.                     *)

Accepts(kind, name, props, opts) == CanPutType(types[kind], name, props, opts)

Put(kind, name, props) == types' = [types EXCEPT ![kind] = WithType(@, name, props)]

AcceptsSchema(s) == Accepts(s.category, s.name, s.props, CreateOptions)
PutSchema(s)     == Put(s.category, s.name, s.props)

(* A schema without a name, or of an unknown category, is passed over.     *)
Skip(s) ==
    /\ phase = "register" /\ s \in pending
    /\ ~s.named \/ s.category = "unknown"
    /\ pending' = pending \ {s}
    /\ UNCHANGED <<phase, release, attempt, types, faults>>

(* Mutant: a type that differs from its schema is passed over, logged only. *)
RegisterLenient(s) ==
    /\ phase = "register" /\ s \in pending \cap Registrable(release)
    /\ IF s.name \in DOMAIN types[s.category] THEN UNCHANGED types ELSE PutSchema(s)
    /\ pending' = pending \ {s}
    /\ UNCHANGED <<phase, release, attempt, faults>>

(* registerArtifactType, registerExecutionType: CreateArtifactType of the  *)
(* service; the name has no collection prefix, so it reads back what it put. *)
Register(s) ==
    /\ phase = "register" /\ s \in pending \cap Registrable(release)
    /\ AcceptsSchema(s)
    /\ PutSchema(s)
    /\ pending' = pending \ {s}
    /\ UNCHANGED <<phase, release, attempt, faults>>

(* Mutant: a schema of an unknown category is refused, not passed over.    *)
RefuseUnknownSchema(s) ==
    /\ phase = "register" /\ s \in pending
    /\ s.named /\ s.category \notin TypeKinds
    /\ Die
    /\ UNCHANGED <<types, faults>>

(* The schema has no category, or properties that are not resolved.        *)
Refused(s) ==
    \/ s.named /\ s.category = "missing"
    \/ Typed(s) /\ s.file = "unresolvable"

RefuseSchema(s) ==
    /\ phase = "register" /\ s \in pending
    /\ Refused(s)
    /\ Die
    /\ UNCHANGED <<types, faults>>

(* The type in the store differs from that of the schema.                  *)
RefuseType(s) ==
    /\ phase = "register" /\ s \in pending \cap Registrable(release)
    /\ ~AcceptsSchema(s)
    /\ Die
    /\ UNCHANGED <<types, faults>>

(* The store fails the put, or the read after it.                          *)
RegisterFails(s) ==
    /\ phase = "register" /\ s \in pending \cap Registrable(release)
    /\ Fault
    /\ Die
    /\ \/ UNCHANGED types
       \/ AcceptsSchema(s) /\ PutSchema(s)

Serve ==
    /\ phase = "register" /\ pending = {}
    /\ phase' = "serve"
    /\ UNCHANGED <<release, attempt, pending, types, faults>>

-----------------------------------------------------------------------------
(* CreateArtifactType, UpdateArtifactType and their twins, by clients.     *)
ClientPuts(op, s, props) ==
    /\ phase = "serve"
    /\ Accepts(s.category, s.name, props, IF op = "UpdateType" THEN UpdateOptions ELSE CreateOptions)
    /\ Put(s.category, s.name, props)
    /\ UNCHANGED <<phase, release, attempt, pending, faults>>

Crash ==
    /\ phase # "down"
    /\ Fault
    /\ Die
    /\ UNCHANGED types

Next ==
    \/ Boot \/ ConnectOk \/ LoadFails \/ ConnectFails \/ GiveUp
    \/ \E s \in AllSchemas : Skip(s) \/ Register(s) \/ RefuseSchema(s) \/ RefuseType(s) \/ RegisterFails(s)
    \/ Serve
    \/ \E op \in ClientOps, s \in Registrable(AllSchemas), props \in Shapes : ClientPuts(op, s, props)
    \/ Crash

Spec == Init /\ [][Next]_vars

(* The deployment restarts the process, and the process runs.  Failures    *)
(* and crashes come to an end: there are at most MaxFailures.              *)
FairSpec ==
    /\ Spec
    /\ WF_vars(Boot) /\ WF_vars(ConnectOk \/ LoadFails) /\ WF_vars(GiveUp) /\ WF_vars(Serve)
    /\ \A s \in AllSchemas : WF_vars(Skip(s) \/ Register(s) \/ RefuseSchema(s) \/ RefuseType(s))

-----------------------------------------------------------------------------
(* Properties.                                                             *)

TypeOK ==
    /\ phase \in {"down", "connect", "register", "serve"}
    /\ attempt \in 0 .. RetryNum
    /\ release \in Releases /\ pending \subseteq release
    /\ DOMAIN types = TypeKinds
    /\ \A k \in TypeKinds : \A n \in DOMAIN types[k] : types[k][n] \in PropertyMaps
    /\ faults \in 0 .. MaxFailures

(* register.go:38: no request is served before every predefined type is in *)
(* the store with at least the properties of its schema, although earlier  *)
(* incarnations died anywhere in the registration (register.go:58-65) and  *)
(* clients have updated types since.                                       *)
ServesPredefined ==
    phase = "serve" => \A s \in Registrable(release) :
        /\ s.name \in DOMAIN types[s.category]
        /\ Conforms(s.props, types[s.category][s.name])

(* A start of the server never changes a type that is in the store: what   *)
(* clients added to it (service.go:161-163) survives every restart.        *)
RestartKeepsTypes ==
    [][phase # "serve" => \A k \in TypeKinds : \A n \in DOMAIN types[k] :
          n \in DOMAIN types'[k] /\ types'[k][n] = types[k][n]]_vars

(* What no start gets over: a schema that cannot be read or is refused, or *)
(* a type in the store that is no longer the one of its schema.            *)
Blocked ==
    \/ ~Loads(release) \/ \E s \in release : Refused(s)
    \/ \E s \in Registrable(release) :
          s.name \in DOMAIN types[s.category] /\ types[s.category][s.name] # s.props

(* The server comes back after every crash, half of the predefined types   *)
(* registered or all (register.go:58), over failures of the store and of   *)
(* the connection, and with whatever release, unless the release or the    *)
(* store keeps it from it.                                                 *)
KeepsServing == []<>(phase = "serve" \/ Blocked)

(* Registering the predefined types again (register.go:38,                 *)
(* "RegisterSchemas registers all predefined schema into the metadata      *)
(* service") succeeds on whatever store the server has left behind.        *)
ServesAgain == []<>(phase = "serve")
=============================================================================
