--------------------------- MODULE ServerBootProofs ---------------------------
(***************************************************************************)
(* What TLAPS proves of the metadata server's start, for any releases,     *)
(* client requests, retry limits and number of faults.                     *)
(***************************************************************************)
EXTENDS ServerBoot, MetadataStoreProofs

(* Putting one type of one kind keeps all the types of both kinds.         *)
TypesExtend ==
    \A k \in TypeKinds : \A n \in DOMAIN types[k] :
        n \in DOMAIN types'[k] /\ Conforms(types[k][n], types'[k][n])

LEMMA AcceptedPut ==
    ASSUME TypeOK, NEW kind \in TypeKinds, NEW name, NEW props \in PropertyMaps, NEW opts,
           Accepts(kind, name, props, opts), ~opts.canDeleteFields, Put(kind, name, props)
    PROVE  /\ DOMAIN types' = TypeKinds
           /\ \A k \in TypeKinds : \A n \in DOMAIN types'[k] : types'[k][n] \in PropertyMaps
           /\ name \in DOMAIN types'[kind] /\ types'[kind][name] = props
           /\ TypesExtend
<1>1. DOMAIN types' = TypeKinds
  BY DEF TypeOK, Put
<1>2. types'[kind] = WithType(types[kind], name, props)
  BY DEF TypeOK, Put
<1>3. \A k \in TypeKinds \ {kind} : types'[k] = types[k]
  BY DEF TypeOK, Put
<1>4. /\ DOMAIN WithType(types[kind], name, props) = DOMAIN types[kind] \cup {name}
      /\ WithType(types[kind], name, props)[name] = props
      /\ \A n \in DOMAIN types[kind] : Conforms(types[kind][n], WithType(types[kind], name, props)[n])
  <2>1. CanPutType(types[kind], name, props, opts)
    BY DEF Accepts
  <2> QED
    BY <2>1, PutExtends
<1>5. \A n \in DOMAIN types'[kind] : types'[kind][n] \in PropertyMaps
  BY <1>2 DEF WithType, TypeOK
<1>6. \A k \in TypeKinds : \A n \in DOMAIN types'[k] : types'[k][n] \in PropertyMaps
  BY <1>3, <1>5 DEF TypeOK
<1>7. TypesExtend
  <2> SUFFICES ASSUME NEW k \in TypeKinds, NEW n \in DOMAIN types[k]
               PROVE  n \in DOMAIN types'[k] /\ Conforms(types[k][n], types'[k][n])
    BY DEF TypesExtend
  <2>1. CASE k = kind
    BY <2>1, <1>2, <1>4
  <2>2. CASE k # kind
    BY <2>2, <1>3 DEF Conforms
  <2> QED
    BY <2>1, <2>2
<1> QED
  BY <1>1, <1>2, <1>4, <1>6, <1>7

-----------------------------------------------------------------------------
(* The strengthening: between the start of a registration and the end of   *)
(* the process, every schema the loop has passed has its type in the store. *)
Has(s) == s.name \in DOMAIN types[s.category] /\ Conforms(s.props, types[s.category][s.name])

Registered ==
    /\ phase \in {"down", "connect", "serve"} => pending = {}
    /\ phase \in {"register", "serve"} => \A s \in Registrable(release) \ pending : Has(s)

BootInv == TypeOK /\ Registered

LEMMA HasStays ==
    ASSUME TypesExtend, NEW s, s.category \in TypeKinds, Has(s)
    PROVE  Has(s)'
  BY DEF TypesExtend, Has, Conforms

LEMMA SchemaFacts ==
    ASSUME TypeOK, NEW s \in Registrable(release)
    PROVE  s \in Registrable(AllSchemas) /\ s.category \in TypeKinds /\ s.props \in PropertyMaps
<1>1. s \in release /\ Typed(s) /\ s.file = "good"
  BY DEF Registrable
<1>2. s \in AllSchemas
  BY <1>1 DEF AllSchemas, TypeOK
<1>3. s \in Registrable(AllSchemas)
  BY <1>1, <1>2 DEF Registrable
<1> QED
  BY <1>1, <1>3 DEF PropertyMaps, Typed

(* What a put of a schema's type does, in the loop and in its failing step. *)
LEMMA SchemaPut ==
    ASSUME TypeOK, NEW s \in Registrable(release), AcceptsSchema(s), PutSchema(s)
    PROVE  /\ DOMAIN types' = TypeKinds
           /\ \A k \in TypeKinds : \A n \in DOMAIN types'[k] : types'[k][n] \in PropertyMaps
           /\ TypesExtend
           /\ Has(s)'
<1>1. s.category \in TypeKinds /\ s.props \in PropertyMaps
  BY SchemaFacts
<1>2. ~CreateOptions.canDeleteFields
  BY DEF CreateOptions
<1>3. /\ DOMAIN types' = TypeKinds
      /\ \A k \in TypeKinds : \A n \in DOMAIN types'[k] : types'[k][n] \in PropertyMaps
      /\ s.name \in DOMAIN types'[s.category] /\ types'[s.category][s.name] = s.props
      /\ TypesExtend
  BY <1>1, <1>2, AcceptedPut DEF AcceptsSchema, PutSchema
<1> QED
  BY <1>3 DEF Has, Conforms

LEMMA BootInductive == Spec => []BootInv
<1>1. Init => BootInv
  <2> SUFFICES ASSUME Init PROVE BootInv
    OBVIOUS
  <2>1. \A k \in TypeKinds : DOMAIN types[k] = {}
    BY DEF Init
  <2> QED
    BY <2>1, RetryAssumption DEF Init, BootInv, TypeOK, Registered
<1>2. BootInv /\ [Next]_vars => BootInv'
  <2> SUFFICES ASSUME BootInv, [Next]_vars PROVE BootInv'
    OBVIOUS
  <2> USE RetryAssumption
  <2>1. CASE Boot
    BY <2>1 DEF Boot, BootInv, TypeOK, Registered
  <2>2. CASE ConnectOk \/ LoadFails
    BY <2>2 DEF ConnectOk, LoadFails, Die, BootInv, TypeOK, Registered, Registrable
  <2>3. CASE ConnectFails
    BY <2>3 DEF ConnectFails, Fault, BootInv, TypeOK, Registered
  <2>4. CASE GiveUp
    BY <2>4 DEF GiveUp, Die, BootInv, TypeOK, Registered
  <2>5. ASSUME NEW s \in AllSchemas, Skip(s) PROVE BootInv'
    <3>1. TypeOK'
      BY <2>5 DEF Skip, BootInv, TypeOK
    <3>2. s \notin Registrable(release)
      BY <2>5 DEF Skip, Registrable, Typed, TypeKinds
    <3>3. Registered'
      BY <2>5, <3>2 DEF Skip, BootInv, Registered, Has
    <3> QED
      BY <3>1, <3>3 DEF BootInv
  <2>6. ASSUME NEW s \in AllSchemas, Register(s) PROVE BootInv'
    <3>1. /\ DOMAIN types' = TypeKinds
          /\ \A k \in TypeKinds : \A n \in DOMAIN types'[k] : types'[k][n] \in PropertyMaps
          /\ TypesExtend
          /\ Has(s)'
      BY <2>6, SchemaPut DEF Register, BootInv
    <3>2. TypeOK'
      BY <2>6, <3>1 DEF Register, BootInv, TypeOK
    <3>3. \A t \in Registrable(release) \ pending : Has(t)'
      BY <2>6, <3>1, HasStays, SchemaFacts DEF Register, BootInv, Registered
    <3>4. Registered'
      BY <2>6, <3>1, <3>3 DEF Register, BootInv, Registered
    <3> QED
      BY <3>2, <3>4 DEF BootInv
  <2>7. ASSUME NEW s \in AllSchemas, RefuseSchema(s) PROVE BootInv'
    BY <2>7 DEF RefuseSchema, Die, BootInv, TypeOK, Registered
  <2>8. ASSUME NEW s \in AllSchemas, RefuseType(s) PROVE BootInv'
    BY <2>8 DEF RefuseType, Die, BootInv, TypeOK, Registered
  <2>9. ASSUME NEW s \in AllSchemas, RegisterFails(s) PROVE BootInv'
    <3>1. /\ DOMAIN types' = TypeKinds
          /\ \A k \in TypeKinds : \A n \in DOMAIN types'[k] : types'[k][n] \in PropertyMaps
      <4>1. CASE UNCHANGED types
        BY <4>1 DEF BootInv, TypeOK
      <4>2. CASE AcceptsSchema(s) /\ PutSchema(s)
        BY <4>2, <2>9, SchemaPut DEF RegisterFails, BootInv
      <4> QED
        BY <2>9, <4>1, <4>2 DEF RegisterFails
    <3> QED
      BY <2>9, <3>1 DEF RegisterFails, Fault, Die, BootInv, TypeOK, Registered
  <2>10. CASE Serve
    BY <2>10 DEF Serve, BootInv, TypeOK, Registered, Has
  <2>11. ASSUME NEW op \in ClientOps, NEW s \in Registrable(AllSchemas), NEW props \in Shapes,
                ClientPuts(op, s, props)
         PROVE  BootInv'
    <3> DEFINE opts == IF op = "UpdateType" THEN UpdateOptions ELSE CreateOptions
    <3>1. ~opts.canDeleteFields
      BY DEF UpdateOptions, CreateOptions
    <3>2. s.category \in TypeKinds /\ props \in PropertyMaps
      BY DEF Registrable, Typed, PropertyMaps
    <3>3. /\ DOMAIN types' = TypeKinds
          /\ \A k \in TypeKinds : \A n \in DOMAIN types'[k] : types'[k][n] \in PropertyMaps
          /\ TypesExtend
      BY <2>11, <3>1, <3>2, AcceptedPut DEF ClientPuts, BootInv
    <3>4. TypeOK'
      BY <2>11, <3>3 DEF ClientPuts, BootInv, TypeOK
    <3>5. \A t \in Registrable(release) \ pending : Has(t)'
      BY <2>11, <3>3, HasStays, SchemaFacts DEF ClientPuts, BootInv, Registered
    <3>6. Registered'
      BY <2>11, <3>5 DEF ClientPuts, BootInv, Registered
    <3> QED
      BY <3>4, <3>6 DEF BootInv
  <2>12. CASE Crash
    BY <2>12 DEF Crash, Fault, Die, BootInv, TypeOK, Registered
  <2>13. CASE UNCHANGED vars
    BY <2>13 DEF vars, BootInv, TypeOK, Registered, Has
  <2> QED
    BY <2>1, <2>2, <2>3, <2>4, <2>5, <2>6, <2>7, <2>8, <2>9, <2>10, <2>11, <2>12, <2>13 DEF Next
<1> QED
  BY <1>1, <1>2, PTL DEF Spec

(* Every variable of the server keeps its type.                            *)
THEOREM BootTypeCorrect == Spec => []TypeOK
  BY BootInductive, PTL DEF BootInv

(* Wherever earlier incarnations died, and whatever clients put since, a   *)
(* server that serves has its predefined types in the store.               *)
THEOREM PredefinedServed == Spec => []ServesPredefined
<1>1. BootInv => ServesPredefined
  BY DEF BootInv, Registered, ServesPredefined, Has
<1> QED
  BY <1>1, BootInductive, PTL

(* No step of a start changes a type in the store: registration adds types *)
(* or leaves them as they are.                                             *)
THEOREM TypesSurviveRestarts == Spec => RestartKeepsTypes
<1> DEFINE Kept == phase # "serve" => \A k \in TypeKinds : \A n \in DOMAIN types[k] :
                      n \in DOMAIN types'[k] /\ types'[k][n] = types[k][n]
<1>1. BootInv /\ [Next]_vars => [Kept]_vars
  <2> SUFFICES ASSUME BootInv, [Next]_vars, phase # "serve",
                      NEW k \in TypeKinds, NEW n \in DOMAIN types[k]
               PROVE  n \in DOMAIN types'[k] /\ types'[k][n] = types[k][n]
    OBVIOUS
  <2>1. CASE UNCHANGED types
    BY <2>1
  <2>2. ASSUME NEW s \in Registrable(release), AcceptsSchema(s), PutSchema(s)
        PROVE  n \in DOMAIN types'[k] /\ types'[k][n] = types[k][n]
    <3>1. s.category \in TypeKinds /\ s.props \in PropertyMaps
      BY SchemaFacts DEF BootInv
    <3>2. \A m \in DOMAIN types[s.category] :
              WithType(types[s.category], s.name, s.props)[m] = types[s.category][m]
      BY <2>2, <3>1, PutRepeats, MapsAssumption DEF AcceptsSchema, Accepts, BootInv, TypeOK
    <3>3. CASE k = s.category
      <4>1. types'[k] = WithType(types[k], s.name, s.props)
        BY <2>2, <3>3 DEF PutSchema, Put, BootInv, TypeOK
      <4>2. n \in DOMAIN types'[k]
        BY <4>1 DEF WithType
      <4> QED
        BY <3>2, <3>3, <4>1, <4>2
    <3>4. CASE k # s.category
      BY <2>2, <3>4 DEF PutSchema, Put, BootInv, TypeOK
    <3> QED
      BY <3>3, <3>4
  <2>3. CASE Boot \/ ConnectOk \/ LoadFails \/ ConnectFails \/ GiveUp \/ Serve \/ Crash
    BY <2>1, <2>3 DEF Boot, ConnectOk, LoadFails, ConnectFails, GiveUp, Serve, Crash
  <2>4. ASSUME NEW s \in AllSchemas, Skip(s) \/ RefuseSchema(s) \/ RefuseType(s)
        PROVE  n \in DOMAIN types'[k] /\ types'[k][n] = types[k][n]
    BY <2>1, <2>4 DEF Skip, RefuseSchema, RefuseType
  <2>5. ASSUME NEW s \in AllSchemas, Register(s) \/ RegisterFails(s)
        PROVE  n \in DOMAIN types'[k] /\ types'[k][n] = types[k][n]
    BY <2>1, <2>2, <2>5 DEF Register, RegisterFails
  <2>6. ASSUME NEW op \in ClientOps, NEW s \in Registrable(AllSchemas), NEW props \in Shapes,
               ClientPuts(op, s, props)
        PROVE  FALSE
    BY <2>6 DEF ClientPuts
  <2>7. CASE UNCHANGED vars
    BY <2>1, <2>7 DEF vars
  <2> QED
    BY <2>3, <2>4, <2>5, <2>6, <2>7 DEF Next
<1> QED
  BY <1>1, BootInductive, PTL DEF Spec, RestartKeepsTypes
=============================================================================
