----------------------------- MODULE ServiceProofs -----------------------------
(***************************************************************************)
(* Theorems about Service, for any number of clients, names, property maps *)
(* and failures.                                                           *)
(*                                                                         *)
(* A handler acts on what it has found in the store in an earlier step.    *)
(* What makes the properties inductive is that the store only grows, so    *)
(* that what was found is still there: Progress says for each step of a    *)
(* handler what it has found or put, and Grows that others cannot undo it. *)
(***************************************************************************)
EXTENDS Service, MetadataStoreProofs

Fields == {"op", "kind", "name", "props", "id", "step", "stored", "failed", "ok", "result",
           "ends", "known"}

Writes == {"CreateType", "UpdateType", "CreateItem"}

Items == [type : TypeNames, props : Shapes, content : Clients]

(* A request, wherever its handler is.                                     *)
IsCall(r) ==
    /\ DOMAIN r = Fields
    /\ r.kind \in {"artifact", "execution"}
    /\ r.op # "none" => r.kind \in Kinds
    /\ r.step \in {"start", "read", "list", "put", "events", "artifacts", "executions", "done"}
    /\ r.op = "none" => r.step = "done"
    /\ r.step = "start" => r.op \in Writes \cup {"Delete", "CreateEvent"}
    /\ r.step = "put" => r.op = "CreateItem"
    /\ r.step \in {"events", "artifacts", "executions"} => r.op = "ListEvents"
    /\ r.op = "ListEvents" => r.step \in {"events", "artifacts", "executions", "done"}
    /\ r.op = "ListItems" => r.step \in {"list", "done"}
    /\ r.op \in Writes => r.props = Missing \/ (r.name \in TypeNames /\ r.props \in Shapes)
    /\ r.op \in Writes /\ r.step \in {"read", "put"} => r.name \in TypeNames
    /\ r.op = "CreateEvent" => r.props \in [artifact : Ids, execution : Ids] \cup {Missing}

(* Whether it has stored anything, and answers if it has.                  *)
Reports(r) ==
    /\ {r.stored, r.ok} \subseteq BOOLEAN
    /\ r.step \in {"start", "put"} => ~r.stored
    /\ r.step # "done" => ~r.ok
    /\ r.step = "done" /\ r.stored /\ r.failed = {} /\ WellNamed(r) => r.ok

(* A handler of a type that reads has put it; one that has answered has    *)
(* read it.                                                                *)
TypeProgress(r) ==
    r.op \in {"CreateType", "UpdateType"} =>
        /\ r.step = "read" =>
              /\ r.name \in DOMAIN types[r.kind]
              /\ Conforms(r.props, types[r.kind][r.name])
        /\ r.step = "done" /\ r.ok /\ WellNamed(r) =>
              /\ r.result.name = r.name
              /\ Conforms(r.props, r.result.props)

OwnItem(c, r) == [type |-> TrimPrefix(r.name), props |-> r.props, content |-> c]

(* The same of an artifact or an execution.                                *)
ItemProgress(c, r) ==
    r.op = "CreateItem" =>
        /\ r.step = "put" => r.props \in Shapes /\ TrimPrefix(r.name) \in DOMAIN types[r.kind]
        /\ r.step = "read" =>
              r.id \in DOMAIN items[r.kind] /\ items[r.kind][r.id] = OwnItem(c, r)
        /\ r.step = "done" /\ r.ok => r.result = OwnItem(c, r)

Progress(c, r) == IsCall(r) /\ Reports(r) /\ TypeProgress(r) /\ ItemProgress(c, r)

StoreInv ==
    /\ DOMAIN types = Kinds /\ DOMAIN items = Kinds
    /\ \A k \in Kinds :
         /\ DOMAIN types[k] \subseteq TypeNames
         /\ \A n \in DOMAIN types[k] : types[k][n] \in Shapes
         /\ items[k] \in Seq(Items)
    /\ events \subseteq [artifact : Ids, execution : Ids]
    /\ failures \in 0 .. MaxFailures
    /\ ItemsConform

ServiceInv ==
    /\ StoreInv
    /\ DOMAIN call = Clients
    /\ \A c \in Clients : Progress(c, call[c])

(* What no step of any handler undoes.                                     *)
Grows ==
    /\ \A k \in Kinds : \A n \in DOMAIN types[k] :
         n \in DOMAIN types'[k] /\ Conforms(types[k][n], types'[k][n])
    /\ \A k \in Kinds : \A i \in DOMAIN items[k] :
         i \in DOMAIN items'[k] /\ items'[k][i] = items[k][i]
    /\ events \subseteq events'

StoreSame == UNCHANGED <<types, items, events>>

(* Only the call of c changes.                                             *)
OthersSame(c) ==
    /\ DOMAIN call' = Clients
    /\ \A d \in Clients \ {c} : call'[d] = call[d]

(* c is still at the request it was at.                                    *)
SameRequest(c) ==
    /\ DOMAIN call'[c] = Fields
    /\ call'[c].op = call[c].op /\ call'[c].kind = call[c].kind
    /\ call'[c].name = call[c].name /\ call'[c].props = call[c].props

-----------------------------------------------------------------------------
(* Lemmas about the operators.                                             *)

LEMMA TrimmedName ==
    ASSUME NEW n \in TypeNames
    PROVE  TrimPrefix(n) \in TypeNames /\ (n.prefixes = 0 => TrimPrefix(n) = n)
BY BoundsAssumption DEF TypeNames, TrimPrefix

LEMMA StoreUntouched ==
    ASSUME StoreInv, StoreSame, failures' \in 0 .. MaxFailures
    PROVE  StoreInv' /\ Grows
BY ConformsItself DEF StoreInv, StoreSame, Grows, ItemsConform

(* What a handler has found is still there after a step of another.        *)
LEMMA ProgressStays ==
    ASSUME StoreInv, Grows, NEW c, NEW r, Progress(c, r)
    PROVE  /\ (IsCall(r) /\ Reports(r))
           /\ r.op \in {"CreateType", "UpdateType"} /\ r.step = "read" =>
                 /\ r.name \in DOMAIN types'[r.kind]
                 /\ Conforms(r.props, types'[r.kind][r.name])
           /\ r.op = "CreateItem" /\ r.step = "put" => TrimPrefix(r.name) \in DOMAIN types'[r.kind]
           /\ r.op = "CreateItem" /\ r.step = "read" =>
                 r.id \in DOMAIN items'[r.kind] /\ items'[r.kind][r.id] = OwnItem(c, r)
<1>1. r.op # "none" => r.kind \in Kinds
  BY DEF Progress, IsCall
<1>2. ASSUME r.op \in {"CreateType", "UpdateType"}, r.step = "read"
      PROVE  r.name \in DOMAIN types'[r.kind] /\ Conforms(r.props, types'[r.kind][r.name])
  <2>1. /\ r.kind \in Kinds /\ r.name \in DOMAIN types[r.kind]
        /\ Conforms(r.props, types[r.kind][r.name])
    BY <1>1, <1>2 DEF Progress, TypeProgress
  <2>2. /\ r.name \in DOMAIN types'[r.kind]
        /\ Conforms(types[r.kind][r.name], types'[r.kind][r.name])
    BY <2>1 DEF Grows
  <2> QED
    BY <2>1, <2>2, ConformsTransitive
<1>3. ASSUME r.op = "CreateItem", r.step = "put"
      PROVE  TrimPrefix(r.name) \in DOMAIN types'[r.kind]
  BY <1>1, <1>3 DEF Progress, ItemProgress, Grows
<1>4. ASSUME r.op = "CreateItem", r.step = "read"
      PROVE  r.id \in DOMAIN items'[r.kind] /\ items'[r.kind][r.id] = OwnItem(c, r)
  BY <1>1, <1>4 DEF Progress, ItemProgress, Grows
<1> QED
  BY <1>2, <1>3, <1>4 DEF Progress

LEMMA OthersProgress ==
    ASSUME ServiceInv, Grows, NEW c \in Clients, OthersSame(c), NEW d \in Clients \ {c}
    PROVE  Progress(d, call[d])'
<1> DEFINE r == call[d]
<1>1. r' = r
  BY DEF OthersSame
<1>2. Progress(d, r) /\ StoreInv
  BY DEF ServiceInv
<1> HIDE DEF r
<1>3. Progress(d, r)'
  BY <1>1, <1>2, ProgressStays DEF Progress, TypeProgress, ItemProgress, IsCall, Reports, OwnItem, WellNamed
<1> QED
  BY <1>3 DEF r

-----------------------------------------------------------------------------
(* One lemma for each step a handler may take.                             *)

StepOk(c) == StoreInv' /\ Grows /\ OthersSame(c) /\ Progress(c, call[c])'

LEMMA CallFacts ==
    ASSUME ServiceInv, NEW c \in Clients
    PROVE  /\ DOMAIN call = Clients /\ StoreInv /\ Progress(c, call[c])
           /\ DOMAIN call[c] = Fields
BY DEF ServiceInv, Progress, IsCall

(* A request when it arrives.                                              *)
Arrives(r, op) ==
    /\ DOMAIN r = Fields /\ r.op = op /\ r.kind \in Kinds
    /\ r.stored = FALSE /\ r.failed = {} /\ r.ok = FALSE /\ r.result = {}
    /\ r.ends = [artifact |-> {}, execution |-> {}]
    /\ op \in Writes \cup {"Delete", "CreateEvent"} => r.step = "start"
    /\ op \in {"GetType", "GetItem"} => r.step = "read"
    /\ op \in {"ListItems", "ListTypes"} => r.step = "list"
    /\ op = "ListEvents" => r.step = "events"
    /\ op \in Writes => r.props = Missing \/ (r.name \in TypeNames /\ r.props \in Shapes)
    /\ op = "CreateEvent" => r.props \in [artifact : Ids, execution : Ids] \cup {Missing}

LEMMA RequestFacts ==
    ASSUME NEW op \in Operations, NEW k \in Kinds, NEW r \in RequestsOf(op, k)
    PROVE  Arrives(r, op)
<1> USE DEF RequestsOf, Request, Fields, Writes, Arrives
<1>0. AnyKind \in Kinds
  BY DEF AnyKind
<1>1. CASE op \in {"CreateType", "UpdateType"}
  BY <1>1
<1>2. CASE op = "GetType"
  BY <1>2
<1>3. CASE op = "CreateItem"
  <2>1. (CHOOSE t \in Shapes : TRUE) \in Shapes
    BY ShapesAssumption
  <2> QED
    BY <1>3, <2>1
<1>4. CASE op = "GetItem"
  BY <1>4
<1>5. CASE op = "ListItems"
  BY <1>5
<1>6. CASE op = "ListTypes"
  BY <1>6
<1>7. CASE op = "Delete"
  BY <1>7
<1>8. CASE op = "CreateEvent"
  BY <1>0, <1>8
<1>9. CASE op = "ListEvents"
  BY <1>9
<1> HIDE DEF RequestsOf, Request, Fields, Writes, Arrives
<1> QED
  BY <1>1, <1>2, <1>3, <1>4, <1>5, <1>6, <1>7, <1>8, <1>9, OperationsAssumption

LEMMA ArrivesInOrder ==
    ASSUME NEW op \in Operations, NEW r, Arrives(r, op), NEW c
    PROVE  Progress(c, r) /\ Progress(c, r)'
<1>1. IsCall(r)
  BY KindsAssumption, OperationsAssumption DEF Arrives, IsCall, Writes
<1>2. r.step # "done" /\ (r.op \in Writes => r.step = "start")
  BY OperationsAssumption DEF Arrives, Writes
<1>3. Reports(r)
  BY <1>2 DEF Arrives, Reports
<1> QED
  BY <1>1, <1>2, <1>3 DEF Progress, TypeProgress, ItemProgress, Writes, IsCall, Reports, WellNamed

(* It comes with what there is to list, which changes nothing of that.     *)
LEMMA CallArrives ==
    ASSUME ServiceInv, NEW c \in Clients, Call(c)
    PROVE  \E op \in Operations : \E r :
              Arrives(r, op) /\ r.known = ToList(r) /\ call' = [call EXCEPT ![c] = r]
<1>1. PICK op \in Operations, k \in Kinds :
        \E r \in RequestsOf(op, k) : call' = [call EXCEPT ![c] = [r EXCEPT !.known = ToList(r)]]
  BY DEF Call
<1>2. PICK r \in RequestsOf(op, k) : call' = [call EXCEPT ![c] = [r EXCEPT !.known = ToList(r)]]
  BY <1>1
<1> DEFINE s == [r EXCEPT !.known = ToList(r)]
<1>3. Arrives(r, op)
  BY RequestFacts
<1>4. Arrives(s, op) /\ s.known = ToList(r)
  BY <1>3 DEF Arrives, Fields
<1>5. ToList(s) = ToList(r)
  BY <1>3 DEF ToList, Arrives, Fields
<1> HIDE DEF s
<1> QED
  BY <1>2, <1>4, <1>5 DEF s

LEMMA CallStep ==
    ASSUME ServiceInv, NEW c \in Clients, Call(c)
    PROVE  StepOk(c)
<1>1. PICK op \in Operations : \E r : Arrives(r, op) /\ call' = [call EXCEPT ![c] = r]
  BY CallArrives
<1>2. PICK r : Arrives(r, op) /\ call' = [call EXCEPT ![c] = r]
  BY <1>1
<1>3. OthersSame(c) /\ call'[c] = r
  BY <1>2, CallFacts DEF OthersSame
<1>4. Progress(c, r)'
  BY <1>2, ArrivesInOrder
<1>5. Progress(c, call[c])'
  BY <1>3, <1>4 DEF Progress, TypeProgress, ItemProgress
<1>6. StoreInv' /\ Grows
  BY CallFacts, StoreUntouched DEF Call, StoreSame, StoreInv
<1> QED
  BY <1>3, <1>5, <1>6 DEF StepOk

(* A handler that gives up, with an error it may give.                     *)
LEMMA FailStep ==
    ASSUME ServiceInv, NEW c \in Clients, Fail(c), StoreSame, failures' \in 0 .. MaxFailures,
           call[c].step # "done",
           call[c].stored /\ call[c].failed = {} => ~WellNamed(call[c])
    PROVE  StepOk(c)
<1>1. OthersSame(c) /\ SameRequest(c)
      /\ call'[c].step = "done" /\ call'[c].ok = FALSE
      /\ call'[c].stored = call[c].stored /\ call'[c].failed = call[c].failed
  BY CallFacts DEF Fail, OthersSame, SameRequest, Fields
<1>2. Progress(c, call[c])'
  BY <1>1, CallFacts DEF Progress, IsCall, Reports, TypeProgress, ItemProgress, SameRequest, WellNamed
<1> QED
  BY <1>1, <1>2, CallFacts, StoreUntouched DEF StepOk

(* A handler that only reads, and ends.                                    *)
LEMMA ReaderStep ==
    ASSUME ServiceInv, NEW c \in Clients, OthersSame(c), SameRequest(c),
           StoreSame, UNCHANGED failures,
           call[c].step # "done", call[c].op \notin Writes,
           call'[c].step = "done", call'[c].ok \in BOOLEAN, call'[c].stored = call[c].stored
    PROVE  StepOk(c)
<1>1. IsCall(call[c])'
  BY CallFacts DEF Progress, IsCall, SameRequest
<1>2. Reports(call[c])'
  BY CallFacts DEF Progress, Reports, SameRequest, WellNamed, Writes
<1>3. TypeProgress(call[c])' /\ ItemProgress(c, call[c])'
  BY DEF TypeProgress, ItemProgress, SameRequest, Writes
<1>4. failures' \in 0 .. MaxFailures
  BY CallFacts DEF StoreInv
<1> QED
  BY <1>1, <1>2, <1>3, <1>4, CallFacts, StoreUntouched DEF StepOk, Progress

LEMMA RejectStep ==
    ASSUME ServiceInv, NEW c \in Clients, Reject(c)
    PROVE  StepOk(c)
<1>1. call[c].stored => ~WellNamed(call[c])
  BY CallFacts DEF Reject, Rejected, Progress, IsCall, Reports, WellNamed, MatchesItemName
<1>2. failures' \in 0 .. MaxFailures
  BY CallFacts DEF Reject, StoreInv
<1> QED
  BY <1>1, <1>2, FailStep DEF Reject, StoreSame

LEMMA StoreFailsFacts ==
    ASSUME ServiceInv, NEW c \in Clients, StoreFails(c)
    PROVE  /\ OthersSame(c) /\ SameRequest(c)
           /\ call'[c].ok = call[c].ok /\ call'[c].stored = call[c].stored
           /\ call'[c].failed = call[c].failed \cup {call[c].step}
           /\ call'[c].step = IF call[c].step = "events" THEN "artifacts" ELSE "done"
           /\ call'[c].ends = call[c].ends /\ call'[c].result = call[c].result
           /\ call'[c].id = call[c].id
<1> DEFINE r == [call[c] EXCEPT !.failed = call[c].failed \cup {call[c].step}]
           s == OnError(r, Failure)
<1>1. call' = [call EXCEPT ![c] = s]
  BY DEF StoreFails
<1>2. s = [r EXCEPT !.step = IF call[c].step = "events" THEN "artifacts" ELSE "done"]
  BY CallFacts DEF OnError, NoRecord, Failure, Fields
<1> HIDE DEF s
<1>3. OthersSame(c) /\ call'[c] = s
  BY <1>1, CallFacts DEF OthersSame
<1> QED
  BY <1>2, <1>3, CallFacts DEF SameRequest, Fields

LEMMA StoreFailsStep ==
    ASSUME ServiceInv, NEW c \in Clients, StoreFails(c)
    PROVE  StepOk(c)
<1>1. /\ OthersSame(c) /\ SameRequest(c)
      /\ call'[c].ok = call[c].ok /\ call'[c].stored = call[c].stored /\ call'[c].failed # {}
      /\ call'[c].step = IF call[c].step = "events" THEN "artifacts" ELSE "done"
  BY StoreFailsFacts
<1>2. call[c].step # "done"
  BY DEF StoreFails, CallsStore
<1>3. IsCall(call[c])'
  BY <1>1, <1>2, CallFacts DEF Progress, IsCall, SameRequest
<1>4. Reports(call[c])'
  BY <1>1, <1>2, CallFacts DEF Progress, IsCall, Reports, SameRequest
<1>5. call'[c].ok = FALSE
  BY <1>1, <1>2, CallFacts DEF Progress, Reports
<1>6. Progress(c, call[c])'
  BY <1>1, <1>2, <1>3, <1>4, <1>5, CallFacts
     DEF Progress, IsCall, TypeProgress, ItemProgress, SameRequest
<1>7. failures' \in 0 .. MaxFailures
  BY CallFacts, BoundsAssumption DEF StoreFails, StoreInv
<1> QED
  BY <1>1, <1>6, <1>7, CallFacts, StoreUntouched DEF StepOk, StoreFails, StoreSame

(* Steps that pass from one reading step to the next.                      *)
LEMMA ProceedStep ==
    ASSUME ServiceInv, NEW c \in Clients, OthersSame(c), SameRequest(c), IsCall(call[c])',
           call'[c].step \notin {"start", "done", "read", "put"}, call[c].step # "done",
           call'[c].ok = call[c].ok, call'[c].stored = call[c].stored,
           call'[c].failed = call[c].failed,
           call[c].op = "ListEvents", StoreSame, UNCHANGED failures
    PROVE  StepOk(c)
<1>1. Reports(call[c])'
  BY CallFacts DEF Progress, IsCall, Reports, SameRequest
<1>2. Progress(c, call[c])'
  BY <1>1 DEF Progress, TypeProgress, ItemProgress
<1>3. failures' \in 0 .. MaxFailures
  BY CallFacts DEF StoreInv
<1> QED
  BY <1>2, <1>3, CallFacts, StoreUntouched DEF StepOk

LEMMA ListingSteps ==
    ASSUME ServiceInv, NEW c \in Clients, ListTypes(c) \/ ListItems(c)
    PROVE  StepOk(c)
<1>1. /\ call[c].step # "done" /\ call[c].op \notin Writes
      /\ StoreSame /\ UNCHANGED failures
  BY DEF ListTypes, ListItems, At, Writes, StoreSame
<1>2. ASSUME NEW x, Answer(c, x) PROVE StepOk(c)
  <2>1. /\ OthersSame(c) /\ SameRequest(c) /\ call'[c].step = "done"
        /\ call'[c].ok = TRUE /\ call'[c].stored = call[c].stored
    BY <1>2, CallFacts DEF Answer, OthersSame, SameRequest, Fields
  <2> QED
    BY <1>1, <2>1, ReaderStep
<1>3. ASSUME ListItems(c), call' = [call EXCEPT ![c] = OnError(call[c], NoRecord)]
      PROVE  StepOk(c)
  <2>1. call[c].op = "ListItems" /\ call[c].step = "list"
    BY <1>3 DEF ListItems, At
  <2>2. OnError(call[c], NoRecord) = [call[c] EXCEPT !.step = "done", !.ok = TRUE]
    BY <2>1 DEF OnError
  <2>3. /\ OthersSame(c) /\ SameRequest(c) /\ call'[c].step = "done"
        /\ call'[c].ok = TRUE /\ call'[c].stored = call[c].stored
    BY <1>3, <2>2, CallFacts DEF OthersSame, SameRequest, Fields
  <2> QED
    BY <1>1, <2>3, ReaderStep
<1> QED
  BY <1>2, <1>3 DEF ListTypes, ListItems

LEMMA EventReadingSteps ==
    ASSUME ServiceInv, NEW c \in Clients,
           FindEvents(c) \/ FetchArtifacts(c) \/ FetchExecutions(c)
    PROVE  StepOk(c)
<1>1. /\ call[c].step \in {"events", "artifacts", "executions"} /\ call[c].op = "ListEvents"
      /\ StoreSame /\ UNCHANGED failures
  BY DEF FindEvents, FetchArtifacts, FetchExecutions, Fetch, At, StoreSame
<1>2. failures' \in 0 .. MaxFailures
  BY <1>1, CallFacts DEF StoreInv
<1>3. CASE Fail(c)
  BY <1>1, <1>2, <1>3, FailStep DEF WellNamed
<1>4. CASE FindEvents(c)
  <2>1. /\ OthersSame(c) /\ SameRequest(c) /\ call'[c].step = "artifacts"
        /\ call'[c].ok = call[c].ok /\ call'[c].stored = call[c].stored
        /\ call'[c].failed = call[c].failed
    BY <1>4, CallFacts DEF FindEvents, OthersSame, SameRequest, Fields
  <2>2. IsCall(call[c])'
    BY <1>1, <2>1, CallFacts DEF Progress, IsCall, SameRequest, Writes
  <2> QED
    BY <1>1, <2>1, <2>2, ProceedStep
<1>5. CASE FetchArtifacts(c) /\ ~Fail(c)
  <2>1. /\ OthersSame(c) /\ SameRequest(c) /\ call'[c].step = "executions"
        /\ call'[c].ok = call[c].ok /\ call'[c].stored = call[c].stored
        /\ call'[c].failed = call[c].failed
    BY <1>5, CallFacts DEF FetchArtifacts, Fetch, OthersSame, SameRequest, Fields
  <2>2. IsCall(call[c])'
    BY <1>1, <2>1, CallFacts DEF Progress, IsCall, SameRequest, Writes
  <2> QED
    BY <1>1, <2>1, <2>2, ProceedStep
<1>6. CASE FetchExecutions(c) /\ ~Fail(c)
  <2>1. /\ OthersSame(c) /\ SameRequest(c) /\ call'[c].step = "done"
        /\ call'[c].ok = TRUE /\ call'[c].stored = call[c].stored
    BY <1>6, CallFacts DEF FetchExecutions, Fetch, OthersSame, SameRequest, Fields
  <2> QED
    BY <1>1, <2>1, ReaderStep DEF Writes
<1> QED
  BY <1>3, <1>4, <1>5, <1>6

(* Types.                                                                  *)

LEMMA ReadTypeStep ==
    ASSUME ServiceInv, NEW c \in Clients, ReadType(c)
    PROVE  StepOk(c)
<1> DEFINE r == call[c]
           n == TrimPrefix(r.name)
<1>1. /\ r.op \in {"CreateType", "UpdateType", "GetType"} /\ r.step = "read"
      /\ StoreSame /\ UNCHANGED failures
      /\ r.op = "GetType" => ~WellNamed(r)
  BY DEF ReadType, At, StoreSame, WellNamed
<1>2. failures' \in 0 .. MaxFailures
  BY <1>1, CallFacts DEF StoreInv
<1>3. ASSUME r.op \in {"CreateType", "UpdateType"}, WellNamed(r)
      PROVE  n = r.name /\ n \in DOMAIN types[r.kind] /\ Conforms(r.props, types[r.kind][n])
  <2>1. r.name \in TypeNames /\ r.name.prefixes = 0
    BY <1>1, <1>3, CallFacts DEF Progress, IsCall, Writes, WellNamed
  <2>2. n = r.name
    BY <2>1, TrimmedName
  <2> QED
    BY <1>1, <1>3, <2>2, CallFacts DEF Progress, TypeProgress
<1>4. CASE n \notin DOMAIN types[r.kind]
  <2>1. Fail(c) /\ ~WellNamed(r)
    BY <1>1, <1>3, <1>4 DEF ReadType
  <2> QED
    BY <1>1, <1>2, <2>1, FailStep
<1>5. CASE n \in DOMAIN types[r.kind]
  <2>1. Answer(c, [name |-> n, props |-> types[r.kind][n]])
    BY <1>5 DEF ReadType
  <2>2. /\ OthersSame(c) /\ SameRequest(c)
        /\ call'[c].step = "done" /\ call'[c].ok = TRUE
        /\ call'[c].stored = r.stored /\ call'[c].failed = r.failed
        /\ call'[c].result = [name |-> n, props |-> types[r.kind][n]]
    BY <2>1, CallFacts DEF Answer, OthersSame, SameRequest, Fields
  <2>3. IsCall(call[c])'
    BY <1>1, <2>2, CallFacts DEF Progress, IsCall, SameRequest
  <2>4. Reports(call[c])'
    BY <1>1, <2>2, CallFacts DEF Progress, Reports, SameRequest
  <2>5. TypeProgress(call[c])'
    BY <1>3, <2>2 DEF TypeProgress, SameRequest, WellNamed
  <2>6. ItemProgress(c, call[c])'
    BY <1>1, <2>2 DEF ItemProgress, SameRequest
  <2> QED
    BY <1>1, <1>2, <2>2, <2>3, <2>4, <2>5, <2>6, CallFacts, StoreUntouched DEF StepOk, Progress
<1> QED
  BY <1>4, <1>5

(* A put of a type: what it leaves is at least what there was and what it  *)
(* was given.                                                              *)
LEMMA PutTypeStep ==
    ASSUME ServiceInv, NEW c \in Clients, PutType(c)
    PROVE  StepOk(c)
<1> DEFINE r == call[c]
           opts == PutTypeOptions(r.op)
<1>1. /\ r.op \in {"CreateType", "UpdateType"} /\ r.step = "start" /\ ~Rejected(r)
      /\ UNCHANGED <<items, events, failures>>
  BY DEF PutType, At
<1>2. r.kind \in Kinds /\ r.name \in TypeNames /\ r.props \in Shapes
  BY <1>1, CallFacts DEF Progress, IsCall, Rejected, Writes
<1>3. CASE ~CanPutType(types[r.kind], r.name, r.props, opts)
  <2>1. Fail(c) /\ StoreSame
    BY <1>1, <1>3 DEF PutType, StoreSame
  <2>2. ~r.stored /\ failures' \in 0 .. MaxFailures
    BY <1>1, CallFacts DEF Progress, Reports, StoreInv
  <2> QED
    BY <1>1, <2>1, <2>2, FailStep
<1>4. CASE CanPutType(types[r.kind], r.name, r.props, opts)
  <2> DEFINE T == types[r.kind]
             U == WithType(T, r.name, r.props)
  <2>1. types' = [types EXCEPT ![r.kind] = U]
        /\ call' = [call EXCEPT ![c].step = "read", ![c].stored = TRUE]
    BY <1>4 DEF PutType
  <2>2. ~opts.canDeleteFields
    BY DEF PutTypeOptions, UpdateOptions, CreateOptions
  <2>3. /\ DOMAIN U = DOMAIN T \cup {r.name} /\ U[r.name] = r.props
        /\ \A n \in DOMAIN T : Conforms(T[n], U[n])
    <3>1. CanPutType(T, r.name, r.props, opts) /\ ~opts.canDeleteFields
      BY <1>4, <2>2
    <3> HIDE DEF opts, T, r
    <3>2. /\ DOMAIN WithType(T, r.name, r.props) = DOMAIN T \cup {r.name}
          /\ WithType(T, r.name, r.props)[r.name] = r.props
      BY DEF WithType
    <3>3. \A n \in DOMAIN T : Conforms(T[n], WithType(T, r.name, r.props)[n])
      BY <3>1, PutExtends
    <3> QED
      BY <3>2, <3>3
  <2>4. \A n \in DOMAIN U : U[n] = r.props \/ (n \in DOMAIN T /\ U[n] = T[n])
    BY DEF WithType
  <2> HIDE DEF U
  <2>5. DOMAIN types' = Kinds /\ types'[r.kind] = U
        /\ \A k \in Kinds \ {r.kind} : types'[k] = types[k]
    BY <1>2, <2>1, CallFacts DEF StoreInv
  <2>6. \A k \in Kinds : \A n \in DOMAIN types[k] :
          n \in DOMAIN types'[k] /\ Conforms(types[k][n], types'[k][n])
    BY <2>3, <2>5, ConformsItself
  <2>7. Grows
    BY <1>1, <2>6 DEF Grows
  <2>8. /\ \A k \in Kinds : DOMAIN types'[k] \subseteq TypeNames
        /\ \A k \in Kinds : \A n \in DOMAIN types'[k] : types'[k][n] \in Shapes
    BY <1>2, <2>3, <2>4, <2>5, CallFacts DEF StoreInv
  <2>9. ItemsConform'
    <3> SUFFICES ASSUME NEW k \in Kinds, NEW i \in DOMAIN items[k]
                 PROVE  /\ items[k][i].type \in DOMAIN types'[k]
                        /\ Conforms(items[k][i].props, types'[k][items[k][i].type])
      BY <1>1 DEF ItemsConform
    <3>1. /\ items[k][i].type \in DOMAIN types[k]
          /\ Conforms(items[k][i].props, types[k][items[k][i].type])
      BY CallFacts DEF StoreInv, ItemsConform
    <3> QED
      BY <2>6, <3>1, ConformsTransitive
  <2>10. StoreInv'
    BY <1>1, <2>5, <2>8, <2>9, CallFacts DEF StoreInv
  <2>11. /\ OthersSame(c) /\ SameRequest(c)
         /\ call'[c].step = "read" /\ call'[c].stored = TRUE
         /\ call'[c].ok = r.ok /\ call'[c].failed = r.failed
    BY <2>1, CallFacts DEF OthersSame, SameRequest, Fields
  <2>12. IsCall(call[c])'
    BY <1>1, <1>2, <2>11, CallFacts DEF Progress, IsCall, SameRequest
  <2>13. Reports(call[c])'
    BY <1>1, <2>11, CallFacts DEF Progress, Reports, SameRequest
  <2>14. TypeProgress(call[c])'
    BY <2>3, <2>5, <2>11, ConformsItself DEF TypeProgress, SameRequest
  <2>15. ItemProgress(c, call[c])'
    BY <1>1, <2>11 DEF ItemProgress, SameRequest
  <2> QED
    BY <2>7, <2>10, <2>11, <2>12, <2>13, <2>14, <2>15 DEF StepOk, Progress
<1> QED
  BY <1>3, <1>4

(* Artifacts and executions.                                               *)

LEMMA ResolveParentStep ==
    ASSUME ServiceInv, NEW c \in Clients, ResolveParent(c)
    PROVE  StepOk(c)
<1> DEFINE r == call[c]
<1>1. /\ r.op = "CreateItem" /\ r.step = "start" /\ ~Rejected(r)
      /\ StoreSame /\ UNCHANGED failures
  BY DEF ResolveParent, At, StoreSame
<1>2. /\ r.name \in TypeNames /\ r.props \in Shapes
      /\ ~r.stored /\ failures' \in 0 .. MaxFailures
  BY <1>1, CallFacts DEF Progress, IsCall, Reports, Rejected, Writes, StoreInv
<1>3. CASE Fail(c)
  BY <1>1, <1>2, <1>3, FailStep
<1>4. CASE ~Fail(c)
  <2>1. Proceed(c, "put") /\ TrimPrefix(r.name) \in DOMAIN types[r.kind]
    BY <1>4 DEF ResolveParent
  <2>2. /\ OthersSame(c) /\ SameRequest(c) /\ call'[c].step = "put"
        /\ call'[c].ok = r.ok /\ call'[c].stored = r.stored /\ call'[c].failed = r.failed
    BY <2>1, CallFacts DEF Proceed, OthersSame, SameRequest, Fields
  <2>3. IsCall(call[c])'
    BY <1>1, <1>2, <2>2, CallFacts DEF Progress, IsCall, SameRequest
  <2>4. Reports(call[c])'
    BY <1>1, <2>2, CallFacts DEF Progress, Reports, SameRequest
  <2>5. TypeProgress(call[c])' /\ ItemProgress(c, call[c])'
    BY <1>1, <1>2, <2>1, <2>2 DEF TypeProgress, ItemProgress, SameRequest, StoreSame
  <2> QED
    BY <1>1, <1>2, <2>2, <2>3, <2>4, <2>5, CallFacts, StoreUntouched DEF StepOk, Progress
<1> QED
  BY <1>3, <1>4

LEMMA PutItemStep ==
    ASSUME ServiceInv, NEW c \in Clients, PutItem(c)
    PROVE  StepOk(c)
<1> DEFINE r == call[c]
           t == TrimPrefix(r.name)
           new == OwnItem(c, r)
<1>1. /\ r.op = "CreateItem" /\ r.step = "put"
      /\ UNCHANGED <<types, events, failures>>
  BY DEF PutItem, At
<1>2. /\ r.kind \in Kinds /\ r.name \in TypeNames /\ t \in TypeNames
      /\ r.props \in Shapes /\ t \in DOMAIN types[r.kind]
  <2>1. r.kind \in Kinds /\ r.name \in TypeNames
    BY <1>1, CallFacts DEF Progress, IsCall, Writes
  <2>2. r.props \in Shapes /\ t \in DOMAIN types[r.kind]
    BY <1>1, CallFacts DEF Progress, ItemProgress
  <2> QED
    BY <2>1, <2>2, TrimmedName
<1>3. new \in Items
  BY <1>2 DEF Items, OwnItem
<1>4. CASE ~Conforms(r.props, types[r.kind][t])
  <2>1. Fail(c) /\ StoreSame
    BY <1>1, <1>4 DEF PutItem, StoreSame
  <2>2. ~r.stored /\ failures' \in 0 .. MaxFailures
    BY <1>1, CallFacts DEF Progress, Reports, StoreInv
  <2> QED
    BY <1>1, <2>1, <2>2, FailStep
<1>5. CASE Conforms(r.props, types[r.kind][t])
  <2> DEFINE S == items[r.kind]
  <2>1. /\ items' = [items EXCEPT ![r.kind] = Append(S, new)]
        /\ call' = [call EXCEPT ![c].step = "read", ![c].stored = TRUE, ![c].id = Len(S) + 1]
    BY <1>5 DEF PutItem, OwnItem
  <2>2. S \in Seq(Items)
    BY <1>2, CallFacts DEF StoreInv
  <2>3. DOMAIN items' = Kinds /\ items'[r.kind] = Append(S, new)
        /\ \A k \in Kinds \ {r.kind} : items'[k] = items[k]
    BY <1>2, <2>1, CallFacts DEF StoreInv
  <2>4. /\ Append(S, new) \in Seq(Items)
        /\ DOMAIN Append(S, new) = DOMAIN S \cup {Len(S) + 1}
        /\ Len(S) + 1 \notin DOMAIN S
        /\ Append(S, new)[Len(S) + 1] = new
        /\ \A i \in DOMAIN S : Append(S, new)[i] = S[i]
    <3> HIDE DEF S, new
    <3> QED
      BY <1>3, <2>2
  <2>5. Grows
    BY <1>1, <2>3, <2>4, ConformsItself DEF Grows
  <2>6. ItemsConform'
    <3> SUFFICES ASSUME NEW k \in Kinds, NEW i \in DOMAIN items'[k]
                 PROVE  /\ items'[k][i].type \in DOMAIN types[k]
                        /\ Conforms(items'[k][i].props, types[k][items'[k][i].type])
      BY <1>1 DEF ItemsConform
    <3>1. ItemsConform
      BY CallFacts DEF StoreInv
    <3>2. CASE k # r.kind
      BY <2>3, <3>1, <3>2 DEF ItemsConform
    <3>3. CASE k = r.kind /\ i \in DOMAIN S
      BY <2>3, <2>4, <3>1, <3>3 DEF ItemsConform
    <3>4. CASE k = r.kind /\ i \notin DOMAIN S
      <4>1. items'[k][i] = new
        BY <2>3, <2>4, <3>4
      <4> QED
        BY <1>2, <1>5, <3>4, <4>1 DEF OwnItem
    <3> QED
      BY <3>2, <3>3, <3>4
  <2>7. StoreInv'
    <3>1. \A k \in Kinds : items'[k] \in Seq(Items)
      BY <2>3, <2>4, CallFacts DEF StoreInv
    <3> QED
      BY <1>1, <2>3, <2>6, <3>1, CallFacts DEF StoreInv
  <2>8. /\ OthersSame(c) /\ SameRequest(c)
        /\ call'[c].step = "read" /\ call'[c].stored = TRUE /\ call'[c].id = Len(S) + 1
        /\ call'[c].ok = r.ok /\ call'[c].failed = r.failed
    <3> HIDE DEF S
    <3> QED
      BY <2>1, CallFacts DEF OthersSame, SameRequest, Fields
  <2>9. IsCall(call[c])'
    BY <1>1, <2>8, CallFacts DEF Progress, IsCall, SameRequest
  <2>10. Reports(call[c])'
    BY <1>1, <2>8, CallFacts DEF Progress, Reports, SameRequest
  <2>11. TypeProgress(call[c])'
    BY <1>1, <2>8 DEF TypeProgress, SameRequest
  <2>12. ItemProgress(c, call[c])'
    <3>1. call'[c].id \in DOMAIN items'[r.kind] /\ items'[r.kind][call'[c].id] = new
      BY <2>3, <2>4, <2>8
    <3>2. OwnItem(c, call'[c]) = new
      BY <2>8 DEF OwnItem, SameRequest
    <3> QED
      BY <2>8, <3>1, <3>2 DEF ItemProgress, SameRequest, OwnItem
  <2> QED
    BY <2>5, <2>7, <2>8, <2>9, <2>10, <2>11, <2>12 DEF StepOk, Progress
<1> QED
  BY <1>4, <1>5

LEMMA ReadItemStep ==
    ASSUME ServiceInv, NEW c \in Clients, ReadItem(c)
    PROVE  StepOk(c)
<1> DEFINE r == call[c]
           it == items[r.kind][r.id]
<1>1. /\ r.op \in {"CreateItem", "GetItem"} /\ r.step = "read"
      /\ StoreSame /\ UNCHANGED failures
  BY DEF ReadItem, At, StoreSame
<1>2. failures' \in 0 .. MaxFailures
  BY <1>1, CallFacts DEF StoreInv
<1>3. ASSUME r.op = "CreateItem"
      PROVE  r.id \in DOMAIN items[r.kind] /\ it = OwnItem(c, r)
  BY <1>1, <1>3, CallFacts DEF Progress, ItemProgress
<1>4. CASE r.id \notin DOMAIN items[r.kind]
  <2>1. Fail(c) /\ ~WellNamed(r)
    BY <1>1, <1>3, <1>4 DEF ReadItem, WellNamed
  <2> QED
    BY <1>1, <1>2, <2>1, FailStep
<1>5. CASE r.id \in DOMAIN items[r.kind]
  <2>1. Answer(c, it)
    BY <1>5 DEF ReadItem
  <2>2. /\ OthersSame(c) /\ SameRequest(c)
        /\ call'[c].step = "done" /\ call'[c].ok = TRUE
        /\ call'[c].stored = r.stored /\ call'[c].failed = r.failed /\ call'[c].result = it
    <3> HIDE DEF it
    <3> QED
      BY <2>1, CallFacts DEF Answer, OthersSame, SameRequest, Fields
  <2>3. IsCall(call[c])'
    BY <1>1, <2>2, CallFacts DEF Progress, IsCall, SameRequest
  <2>4. Reports(call[c])'
    BY <1>1, <2>2, CallFacts DEF Progress, Reports, SameRequest
  <2>5. TypeProgress(call[c])'
    BY <1>1, <2>2 DEF TypeProgress, SameRequest
  <2>6. ItemProgress(c, call[c])'
    BY <1>3, <2>2 DEF ItemProgress, SameRequest, OwnItem
  <2> QED
    BY <1>1, <1>2, <2>2, <2>3, <2>4, <2>5, <2>6, CallFacts, StoreUntouched DEF StepOk, Progress
<1> QED
  BY <1>4, <1>5

LEMMA PutEventStep ==
    ASSUME ServiceInv, NEW c \in Clients, PutEvent(c)
    PROVE  StepOk(c)
<1> DEFINE r == call[c]
<1>1. /\ r.op = "CreateEvent" /\ r.step = "start" /\ r.props # Missing
      /\ UNCHANGED <<types, items, failures>>
  BY DEF PutEvent, At, Rejected
<1>2. r.props \in [artifact : Ids, execution : Ids] /\ failures' \in 0 .. MaxFailures
  BY <1>1, CallFacts DEF Progress, IsCall, StoreInv
<1>3. CASE Fail(c) /\ UNCHANGED events
  BY <1>1, <1>2, <1>3, FailStep DEF WellNamed, StoreSame
<1>4. CASE ~(Fail(c) /\ UNCHANGED events)
  <2>1. /\ events' = events \cup {r.props}
        /\ call' = [call EXCEPT ![c].step = "done", ![c].ok = TRUE, ![c].stored = TRUE]
    BY <1>4 DEF PutEvent
  <2>2. /\ OthersSame(c) /\ SameRequest(c)
        /\ call'[c].step = "done" /\ call'[c].ok = TRUE
        /\ call'[c].stored = TRUE /\ call'[c].failed = r.failed
    BY <2>1, CallFacts DEF OthersSame, SameRequest, Fields
  <2>3. IsCall(call[c])'
    BY <1>1, <2>2, CallFacts DEF Progress, IsCall, SameRequest
  <2>4. Reports(call[c])'
    BY <1>1, <2>2, CallFacts DEF Progress, Reports, SameRequest
  <2>5. TypeProgress(call[c])' /\ ItemProgress(c, call[c])'
    BY <1>1, <2>2 DEF TypeProgress, ItemProgress, SameRequest
  <2>6. StoreInv'
    BY <1>1, <1>2, <2>1, CallFacts DEF StoreInv, ItemsConform
  <2>7. Grows
    BY <1>1, <2>1, ConformsItself DEF Grows
  <2> QED
    BY <2>2, <2>3, <2>4, <2>5, <2>6, <2>7 DEF StepOk, Progress
<1> QED
  BY <1>3, <1>4

-----------------------------------------------------------------------------
(* The invariant.                                                          *)

LEMMA ServiceInit == Init => ServiceInv
<1> SUFFICES ASSUME Init PROVE ServiceInv
  OBVIOUS
<1>1. StoreInv
  BY BoundsAssumption DEF Init, StoreInv, ItemsConform
<1>2. ASSUME NEW c \in Clients PROVE Progress(c, call[c])
  <2>1. call[c] = NoCall
    BY DEF Init
  <2> QED
    BY <2>1 DEF NoCall, Request, Progress, IsCall, Reports, TypeProgress, ItemProgress, Fields,
       Writes, WellNamed
<1> QED
  BY <1>1, <1>2 DEF ServiceInv, Init

LEMMA EveryStep ==
    ASSUME ServiceInv, NEW c \in Clients, Call(c) \/ Step(c)
    PROVE  StepOk(c)
BY CallStep, RejectStep, StoreFailsStep, PutTypeStep, ReadTypeStep, ListingSteps,
   ResolveParentStep, PutItemStep, ReadItemStep, PutEventStep, EventReadingSteps DEF Step

LEMMA ServiceStep == ServiceInv /\ [Next]_vars => ServiceInv'
<1> SUFFICES ASSUME ServiceInv, [Next]_vars PROVE ServiceInv'
  OBVIOUS
<1>1. ASSUME NEW c \in Clients, Call(c) \/ Step(c) PROVE ServiceInv'
  <2>1. StepOk(c)
    BY <1>1, EveryStep
  <2>2. \A d \in Clients \ {c} : Progress(d, call[d])'
    BY <2>1, OthersProgress DEF StepOk
  <2> QED
    BY <2>1, <2>2 DEF StepOk, ServiceInv, OthersSame
<1>2. CASE UNCHANGED vars
  BY <1>2 DEF vars, ServiceInv, StoreInv, ItemsConform, Progress, TypeProgress, ItemProgress
<1> QED
  BY <1>1, <1>2 DEF Next

LEMMA ServiceInductive == Spec => []ServiceInv
BY ServiceInit, ServiceStep, PTL DEF Spec

(* The variables keep their types.                                         *)
THEOREM ServiceTypeCorrect == Spec => []TypeOK
<1>1. ServiceInv => TypeOK
  BY DEF ServiceInv, StoreInv, Progress, IsCall, TypeOK, Items
<1> QED
  BY <1>1, ServiceInductive, PTL

(* CreateArtifact, CreateExecution: the answer is the caller's own item,   *)
(* for any number of clients between its three transactions.               *)
THEOREM RepliesAreOwn == Spec => []ReplyIsOwn
<1>1. ServiceInv => ReplyIsOwn
  <2> SUFFICES ASSUME ServiceInv, NEW c \in Clients, Succeeded(c, "CreateItem")
               PROVE  /\ call[c].result.content = c
                      /\ call[c].result.type = TrimPrefix(call[c].name)
                      /\ call[c].result.props = call[c].props
    BY DEF ReplyIsOwn
  <2>1. call[c].result = OwnItem(c, call[c])
    BY DEF ServiceInv, Progress, ItemProgress, Succeeded, Finished
  <2> QED
    BY <2>1 DEF OwnItem
<1> QED
  BY <1>1, ServiceInductive, PTL

(* Every stored item has only properties of its type (api.proto:75).       *)
THEOREM ItemsStayConforming == Spec => []ItemsConform
<1>1. ServiceInv => ItemsConform
  BY DEF ServiceInv, StoreInv
<1> QED
  BY <1>1, ServiceInductive, PTL

(* What was stored without an error of the store is answered without one.  *)
THEOREM StoredAnswered == Spec => []StoredIsAnswered
<1>1. ServiceInv => StoredIsAnswered
  BY DEF ServiceInv, Progress, Reports, StoredIsAnswered
<1> QED
  BY <1>1, ServiceInductive, PTL

(* CreateType, UpdateType: the answer is the type of the request, with at  *)
(* least its properties.                                                   *)
THEOREM TypesAnswered == Spec => []TypeAnswered
<1>1. ServiceInv => TypeAnswered
  BY DEF ServiceInv, Progress, TypeProgress, TypeAnswered, AnswersType, Succeeded, Finished
<1> QED
  BY <1>1, ServiceInductive, PTL

-----------------------------------------------------------------------------
(* Types.                                                                  *)

(* A put of CreateType repeats what is there.                              *)
LEMMA CreateRepeats ==
    ASSUME ServiceInv, NEW c \in Clients, PutType(c), call[c].op = "CreateType",
           NEW k \in Kinds, NEW n \in DOMAIN types[k]
    PROVE  types'[k][n] = types[k][n]
<1> DEFINE r == call[c]
           T == types[r.kind]
<1>1. r.step = "start" /\ ~Rejected(r) /\ PutTypeOptions(r.op) = CreateOptions
  BY DEF PutType, At, PutTypeOptions
<1>2. r.kind \in Kinds /\ r.props \in Shapes
  BY <1>1, CallFacts DEF Progress, IsCall, Rejected, Writes
<1>3. CASE UNCHANGED types
  BY <1>3
<1>4. CASE types' # types
  <2>1. /\ CanPutType(T, r.name, r.props, CreateOptions)
        /\ types' = [types EXCEPT ![r.kind] = WithType(T, r.name, r.props)]
    BY <1>1, <1>4 DEF PutType
  <2>2. /\ r.props = [p \in DOMAIN r.props |-> r.props[p]]
        /\ \A m \in DOMAIN T : T[m] = [p \in DOMAIN T[m] |-> T[m][p]]
    BY <1>2, CallFacts, ShapesAssumption DEF StoreInv
  <2>3. \A m \in DOMAIN T : WithType(T, r.name, r.props)[m] = T[m]
    <3> HIDE DEF r, T
    <3> QED
      BY <2>1, <2>2, PutRepeats
  <2> QED
    BY <1>2, <2>1, <2>3, CallFacts DEF StoreInv
<1> QED
  BY <1>3, <1>4

LEMMA OnlyPutsTouchTypes ==
    ASSUME NEW c \in Clients, Call(c) \/ Step(c), ~PutType(c)
    PROVE  UNCHANGED types
BY DEF Call, Step, Reject, StoreFails, ReadType, ListTypes, ResolveParent, PutItem, ReadItem,
   ListItems, PutEvent, FindEvents, FetchArtifacts, FetchExecutions, Fetch

(* A type changes only in the course of an update, and only grows          *)
(* (service.go:161-163).                                                   *)
THEOREM TypesGrow == Spec => TypesOnlyGrow
<1>1. ASSUME ServiceInv, [Next]_vars
      PROVE  [\A k \in Kinds : \A n \in DOMAIN types[k] :
                /\ n \in DOMAIN types'[k]
                /\ Conforms(types[k][n], types'[k][n])
                /\ types'[k][n] # types[k][n] =>
                      \E c \in Clients : call[c].op = "UpdateType" /\ call[c].step # "done"]_vars
  <2> SUFFICES ASSUME Next, NEW k \in Kinds, NEW n \in DOMAIN types[k]
               PROVE  /\ n \in DOMAIN types'[k]
                      /\ Conforms(types[k][n], types'[k][n])
                      /\ types'[k][n] # types[k][n] =>
                            \E c \in Clients : call[c].op = "UpdateType" /\ call[c].step # "done"
    BY <1>1
  <2> PICK c \in Clients : Call(c) \/ Step(c)
    BY DEF Next
  <2>1. n \in DOMAIN types'[k] /\ Conforms(types[k][n], types'[k][n])
    BY <1>1, EveryStep DEF StepOk, Grows
  <2>2. ASSUME types'[k][n] # types[k][n]
        PROVE  call[c].op = "UpdateType" /\ call[c].step # "done"
    <3>1. PutType(c)
      BY <2>2, OnlyPutsTouchTypes
    <3>2. call[c].op \in {"CreateType", "UpdateType"} /\ call[c].step = "start"
      BY <3>1 DEF PutType, At
    <3> QED
      BY <1>1, <2>2, <3>1, <3>2, CreateRepeats
  <2> QED
    BY <2>1, <2>2
<1> QED
  BY <1>1, ServiceInductive, PTL DEF Spec, TypesOnlyGrow

-----------------------------------------------------------------------------
(* What is listed.                                                         *)

LEMMA SameOp ==
    ASSUME ServiceInv, NEW c \in Clients, Step(c)
    PROVE  call'[c].op = call[c].op
<1> USE CallFacts DEF Fields
<1>1. CASE Fail(c)
  BY <1>1 DEF Fail
<1>2. CASE \E x : Answer(c, x)
  BY <1>2 DEF Answer
<1>3. CASE \E step : Proceed(c, step)
  BY <1>3 DEF Proceed
<1>4. CASE StoreFails(c)
  BY <1>4, StoreFailsFacts DEF SameRequest
<1>5. CASE FindEvents(c)
  BY <1>5 DEF FindEvents
<1>6. CASE (PutType(c) \/ PutItem(c) \/ PutEvent(c)) /\ ~Fail(c)
  BY <1>6 DEF PutType, PutItem, PutEvent
<1>7. CASE (FetchArtifacts(c) \/ FetchExecutions(c)) /\ ~Fail(c)
  BY <1>7 DEF FetchArtifacts, FetchExecutions, Fetch
<1>8. CASE call' = [call EXCEPT ![c] = OnError(call[c], NoRecord)]
  BY <1>8 DEF OnError
<1>9. /\ Reject(c) => Fail(c)
      /\ ReadType(c) \/ ListTypes(c) \/ ReadItem(c) => Fail(c) \/ \E x : Answer(c, x)
      /\ ResolveParent(c) => Fail(c) \/ \E step : Proceed(c, step)
  BY DEF Reject, ReadType, ListTypes, ReadItem, ResolveParent
<1>10. ListItems(c) =>
          (\E x : Answer(c, x)) \/ call' = [call EXCEPT ![c] = OnError(call[c], NoRecord)]
  BY DEF ListItems
<1> QED
  BY <1>1, <1>2, <1>3, <1>4, <1>5, <1>6, <1>7, <1>8, <1>9, <1>10 DEF Step

(* What a listing call has still to find, or has found.                    *)
ListProgress(r) ==
    /\ r.op = "ListItems" =>
          /\ r.step = "list" => r.failed = {} /\ r.known \subseteq ToList(r)
          /\ r.step = "done" => (r.ok <=> r.failed = {}) /\ (r.ok => r.known \subseteq r.result)
    /\ r.op = "ListEvents" =>
          /\ DOMAIN r.ends = {"artifact", "execution"}
          /\ r.step = "events" => r.failed = {} /\ r.known \subseteq ToList(r)
          /\ r.step \in {"artifacts", "executions"} \/ (r.step = "done" /\ r.ok) =>
                ("events" \notin r.failed => r.known \subseteq r.result)
          /\ r.step = "executions" \/ (r.step = "done" /\ r.ok) =>
                \A e \in r.result : e.artifact \in r.ends.artifact
          /\ r.step = "done" /\ r.ok => \A e \in r.result : e.execution \in r.ends.execution

ListsInv == ServiceInv /\ \A c \in Clients : ListProgress(call[c])

(* An item is listed under the name its type has with its prefix.          *)
LEMMA ListedFound ==
    ASSUME ServiceInv, NEW c \in Clients, call[c].op = "ListItems",
           NEW i \in ToList(call[c])
    PROVE  /\ i \in DOMAIN items[call[c].kind]
           /\ call[c].name = NoName \/ items[call[c].kind][i].type = TrimPrefix(call[c].name)
<1> DEFINE k == call[c].kind
           t == items[k][i].type
<1>1. /\ i \in DOMAIN items[k]
      /\ call[c].name \in {NoName, [t EXCEPT !.prefixes = @ + 1]}
  BY DEF ToList
<1>2. k \in Kinds /\ items[k] \in Seq(Items)
  BY CallFacts DEF Progress, IsCall, StoreInv
<1>3. t \in TypeNames
  <2> DEFINE list == items[k]
  <2>1. list \in Seq(Items) /\ i \in DOMAIN list
    BY <1>1, <1>2
  <2> HIDE DEF list
  <2>2. list[i] \in Items
    BY <2>1
  <2> QED
    BY <2>2 DEF Items, list
<1> HIDE DEF t
<1>4. TrimPrefix([t EXCEPT !.prefixes = @ + 1]) = t
  <2>1. t.prefixes \in Nat /\ t = [prefixes |-> t.prefixes, base |-> t.base]
    BY <1>3, BoundsAssumption DEF TypeNames
  <2>2. [t EXCEPT !.prefixes = @ + 1] = [prefixes |-> t.prefixes + 1, base |-> t.base]
    BY <2>1
  <2>3. TrimPrefix([prefixes |-> t.prefixes + 1, base |-> t.base])
          = [prefixes |-> t.prefixes + 1 - 1, base |-> t.base]
    BY <2>1 DEF TrimPrefix
  <2> QED
    BY <2>1, <2>2, <2>3
<1> QED
  BY <1>1, <1>4 DEF t

LEMMA ListGrows ==
    ASSUME ServiceInv, Grows, NEW c \in Clients, call'[c] = call[c]
    PROVE  ToList(call[c]) \subseteq ToList(call[c])'
<1> SUFFICES ASSUME NEW x \in ToList(call[c]) PROVE x \in ToList(call[c])'
  OBVIOUS
<1>1. call[c].op # "none" => call[c].kind \in Kinds
  BY CallFacts DEF Progress, IsCall
<1>2. CASE call[c].op = "ListItems"
  BY <1>1, <1>2 DEF ToList, Grows
<1>3. CASE call[c].op = "ListEvents"
  BY <1>3 DEF ToList, Grows
<1>4. CASE call[c].op \notin {"ListItems", "ListEvents"}
  BY <1>4 DEF ToList
<1> QED
  BY <1>2, <1>3, <1>4

LEMMA ItemsListed ==
    ASSUME ListsInv, NEW c \in Clients, call[c].op = "ListItems", Step(c)
    PROVE  ListProgress(call[c])'
<1> USE CallFacts DEF ListsInv
<1>1. call'[c].op = "ListItems" /\ call[c].step \in {"list", "done"}
  BY SameOp DEF Progress, IsCall
<1>2. ~(Reject(c) \/ PutType(c) \/ ReadType(c) \/ ListTypes(c) \/ ResolveParent(c)
        \/ PutItem(c) \/ ReadItem(c) \/ PutEvent(c) \/ FindEvents(c) \/ FetchArtifacts(c)
        \/ FetchExecutions(c))
  BY <1>1 DEF PutType, ReadType, ListTypes, ResolveParent, PutItem, ReadItem, PutEvent,
     FindEvents, FetchArtifacts, FetchExecutions, Fetch, At, Reject, Rejected
<1>3. CASE StoreFails(c)
  <2>1. call'[c].step = "done" /\ call'[c].ok = FALSE /\ call'[c].failed # {}
    BY <1>1, <1>3, StoreFailsFacts DEF Progress, Reports, StoreFails, CallsStore
  <2> QED
    BY <1>1, <2>1 DEF ListProgress
<1>4. CASE ListItems(c)
  <2> DEFINE r == call[c]
             found == {i \in DOMAIN items[r.kind] :
                          r.name = NoName \/ items[r.kind][i].type = TrimPrefix(r.name)}
  <2>1. r.step = "list" /\ r.failed = {} /\ r.known \subseteq ToList(r)
    BY <1>4 DEF ListItems, At, ListProgress
  <2>2. r.known \subseteq found
    BY <2>1, ListedFound
  <2>3. CASE Answer(c, found)
    <3> HIDE DEF found
    <3>1. call'[c].ok = TRUE /\ call'[c].step = "done" /\ call'[c].result = found
          /\ call'[c].failed = r.failed /\ call'[c].known = r.known
      BY <2>3 DEF Answer, Fields
    <3> QED
      BY <1>1, <2>1, <2>2, <3>1 DEF ListProgress
  <2>4. CASE found = {} /\ call' = [call EXCEPT ![c] = OnError(r, NoRecord)]
    <3>1. OnError(r, NoRecord) = [r EXCEPT !.step = "done", !.ok = TRUE]
      BY <2>1 DEF OnError
    <3>2. call'[c].ok = TRUE /\ call'[c].step = "done"
          /\ call'[c].failed = r.failed /\ call'[c].known = {}
      BY <2>2, <2>4, <3>1 DEF Fields
    <3> QED
      BY <1>1, <2>1, <3>2 DEF ListProgress
  <2> QED
    BY <1>4, <2>3, <2>4 DEF ListItems
<1> QED
  BY <1>2, <1>3, <1>4 DEF Step

LEMMA EventsListed ==
    ASSUME ListsInv, NEW c \in Clients, call[c].op = "ListEvents", Step(c)
    PROVE  ListProgress(call[c])'
<1> USE CallFacts DEF ListsInv
<1> DEFINE r == call[c]
<1>1. /\ call'[c].op = "ListEvents" /\ r.step \in {"events", "artifacts", "executions", "done"}
      /\ ListProgress(r) /\ (r.step # "done" => r.ok = FALSE)
  BY SameOp DEF Progress, IsCall, Reports
<1>2. ~(PutType(c) \/ ReadType(c) \/ ListTypes(c) \/ ResolveParent(c)
        \/ PutItem(c) \/ ReadItem(c) \/ PutEvent(c) \/ ListItems(c))
  BY <1>1 DEF PutType, ReadType, ListTypes, ResolveParent, PutItem, ReadItem, PutEvent, ListItems, At
<1>3. CASE Fail(c)
  <2>1. call'[c].step = "done" /\ call'[c].ok = FALSE /\ call'[c].ends = r.ends
    BY <1>3 DEF Fail, Fields
  <2> QED
    BY <1>1, <2>1 DEF ListProgress
<1>4. CASE StoreFails(c)
  <2>1. /\ call'[c].ok = FALSE /\ r.step # "done" /\ call'[c].ends = r.ends
        /\ call'[c].step = IF r.step = "events" THEN "artifacts" ELSE "done"
        /\ call'[c].failed = r.failed \cup {r.step}
    BY <1>1, <1>4, StoreFailsFacts DEF StoreFails, CallsStore
  <2>2. CASE r.step = "events"
    BY <1>1, <2>1, <2>2 DEF ListProgress
  <2>3. CASE r.step # "events"
    BY <1>1, <2>1, <2>3 DEF ListProgress
  <2> QED
    BY <2>2, <2>3
<1>5. CASE FindEvents(c)
  <2>1. /\ r.step = "events" /\ call'[c].step = "artifacts" /\ call'[c].ends = r.ends
        /\ call'[c].result = ToList(r) /\ call'[c].known = r.known
    BY <1>1, <1>5 DEF FindEvents, At, Fields, ToList
  <2> QED
    BY <1>1, <2>1 DEF ListProgress
<1>6. CASE FetchArtifacts(c) /\ ~Fail(c)
  <2> DEFINE ids == InEvents(r.result, "artifact")
  <2>1. /\ r.step = "artifacts" /\ call'[c].step = "executions" /\ call'[c].failed = r.failed
        /\ call'[c].result = r.result /\ call'[c].known = r.known
        /\ call'[c].ends = [r.ends EXCEPT !["artifact"] = ids]
    <3> HIDE DEF ids
    <3> QED
      BY <1>6 DEF FetchArtifacts, Fetch, At, Fields, ids
  <2>2. DOMAIN call'[c].ends = {"artifact", "execution"} /\ call'[c].ends.artifact = ids
    BY <1>1, <2>1 DEF ListProgress
  <2>3. \A e \in r.result : e.artifact \in ids
    BY DEF InEvents
  <2> HIDE DEF ids
  <2> QED
    BY <1>1, <2>1, <2>2, <2>3 DEF ListProgress
<1>7. CASE FetchExecutions(c) /\ ~Fail(c)
  <2> DEFINE ids == InEvents(r.result, "execution")
  <2>1. /\ r.step = "executions" /\ call'[c].step = "done" /\ call'[c].failed = r.failed
        /\ call'[c].result = r.result /\ call'[c].known = r.known
        /\ call'[c].ends = [r.ends EXCEPT !["execution"] = ids]
    <3> HIDE DEF ids
    <3> QED
      BY <1>7 DEF FetchExecutions, Fetch, At, Fields, ids
  <2>2. /\ DOMAIN call'[c].ends = {"artifact", "execution"}
        /\ call'[c].ends.execution = ids /\ call'[c].ends.artifact = r.ends.artifact
    BY <1>1, <2>1 DEF ListProgress
  <2>3. \A e \in r.result : e.execution \in ids
    BY DEF InEvents
  <2> HIDE DEF ids
  <2> QED
    BY <1>1, <2>1, <2>2, <2>3 DEF ListProgress
<1> QED
  BY <1>2, <1>3, <1>4, <1>5, <1>6, <1>7 DEF Step, Reject

LEMMA ListsStep == ListsInv /\ [Next]_vars => ListsInv'
<1> SUFFICES ASSUME ListsInv, [Next]_vars PROVE ListsInv'
  OBVIOUS
<1>1. ServiceInv'
  BY ServiceStep DEF ListsInv
<1>2. ASSUME NEW c \in Clients, Call(c) \/ Step(c) PROVE ListsInv'
  <2>1. Grows /\ OthersSame(c)
    BY <1>2, EveryStep DEF ListsInv, StepOk
  <2>2. ASSUME NEW d \in Clients \ {c} PROVE ListProgress(call[d])'
    <3>1. call'[d] = call[d] /\ ToList(call[d]) \subseteq ToList(call[d])'
      BY <2>1, ListGrows DEF OthersSame, ListsInv
    <3> QED
      BY <3>1 DEF ListsInv, ListProgress
  <2>3. ListProgress(call[c])'
    <3>1. CASE Call(c)
      <4>0. PICK op \in Operations :
               \E r : Arrives(r, op) /\ r.known = ToList(r) /\ call' = [call EXCEPT ![c] = r]
        BY <3>1, CallArrives DEF ListsInv
      <4> PICK r : Arrives(r, op) /\ r.known = ToList(r) /\ call' = [call EXCEPT ![c] = r]
        BY <4>0
      <4>1. call'[c] = r /\ UNCHANGED <<items, events>>
        BY <3>1, CallFacts DEF ListsInv, Call
      <4>2. ToList(call[c])' = ToList(r)
        BY <4>1 DEF ToList
      <4>3. /\ r.failed = {} /\ r.step # "done"
            /\ r.op = "ListItems" => r.step = "list"
            /\ r.op = "ListEvents" => r.step = "events" /\ DOMAIN r.ends = {"artifact", "execution"}
        BY OperationsAssumption DEF Arrives, Writes
      <4> QED
        BY <4>1, <4>2, <4>3 DEF ListProgress
    <3>2. CASE Step(c) /\ call[c].op \notin {"ListItems", "ListEvents"}
      BY <3>2, SameOp DEF ListsInv, ListProgress
    <3> QED
      BY <1>2, <3>1, <3>2, ItemsListed, EventsListed
  <2> QED
    BY <1>1, <2>2, <2>3 DEF ListsInv
<1>3. CASE UNCHANGED vars
  BY <1>1, <1>3 DEF vars, ListsInv, ListProgress, ToList
<1> QED
  BY <1>2, <1>3 DEF Next

(* A list has all that was stored when it was asked for, with the ends of  *)
(* its events, and is answered just when no call failed but the first of   *)
(* ListEvents (service.go:298-304, 474-480, 512-519).                      *)
THEOREM ListsComplete == Spec => []ListsAreComplete
<1>1. Init => ListsInv
  BY ServiceInit DEF Init, ListsInv, ListProgress, NoCall, Request
<1>2. ListsInv => ListsAreComplete
  BY DEF ListsInv, ListProgress, ListsAreComplete, Succeeded, Finished
<1> QED
  BY <1>1, <1>2, ListsStep, PTL DEF Spec

-----------------------------------------------------------------------------
(* Events, of a store that has artifacts and executions.                   *)

(* What ListEvents has found so far.                                       *)
EventProgress(r) ==
    r.op = "ListEvents" =>
        /\ r.step = "events" => r.result = {}
        /\ r.step \in {"artifacts", "executions"} => r.result \subseteq events
        /\ r.step = "done" /\ r.failed = {} /\ r.id # Missing => r.ok

EventsInv ==
    /\ ServiceInv
    /\ \A e \in events :
         e.artifact \in DOMAIN items["artifact"] /\ e.execution \in DOMAIN items["execution"]
    /\ \A c \in Clients : EventProgress(call[c])

LEMMA EventsOwnStep ==
    ASSUME EventsInv, NEW c \in Clients, Call(c) \/ Step(c)
    PROVE  EventProgress(call[c])'
<1>1. CASE Call(c)
  <2>0. PICK op \in Operations : \E r : Arrives(r, op) /\ call' = [call EXCEPT ![c] = r]
    BY <1>1, CallArrives DEF EventsInv
  <2> PICK r : Arrives(r, op) /\ call' = [call EXCEPT ![c] = r]
    BY <2>0
  <2>1. call'[c] = r
    BY CallFacts DEF EventsInv
  <2> QED
    BY <2>1 DEF Arrives, EventProgress
<1>2. CASE Step(c) /\ call[c].op # "ListEvents"
  BY <1>2, SameOp DEF EventsInv, EventProgress
<1>3. CASE Step(c) /\ call[c].op = "ListEvents"
  <2> USE CallFacts DEF EventsInv, Fields
  <2>1. EventProgress(call[c]) /\ IsCall(call[c])
    BY DEF Progress
  <2>2. CASE Reject(c)
    BY <1>3, <2>1, <2>2 DEF Reject, Rejected, Fail, EventProgress, IsCall
  <2>3. CASE StoreFails(c)
    <3>1. /\ call'[c].failed # {} /\ call'[c].result = call[c].result /\ call'[c].op = "ListEvents"
          /\ call'[c].step = IF call[c].step = "events" THEN "artifacts" ELSE "done"
          /\ UNCHANGED events
      BY <1>3, <2>3, StoreFailsFacts DEF SameRequest, StoreFails
    <3> QED
      BY <2>1, <3>1 DEF EventProgress, IsCall
  <2>4. CASE FindEvents(c)
    BY <1>3, <2>1, <2>4 DEF FindEvents, At, EventProgress
  <2>5. CASE FetchArtifacts(c)
    <3>1. call[c].result \subseteq events /\ call[c].step = "artifacts" /\ UNCHANGED events
      BY <1>3, <2>1, <2>5 DEF FetchArtifacts, Fetch, At, EventProgress
    <3>2. InEvents(call[c].result, "artifact") \subseteq DOMAIN items["artifact"]
      BY <3>1 DEF InEvents
    <3>3. call'[c].step = "executions" /\ call'[c].result = call[c].result
      BY <2>5, <3>2 DEF FetchArtifacts, Fetch
    <3> QED
      BY <3>1, <3>3 DEF EventProgress
  <2>6. CASE FetchExecutions(c)
    <3>1. call[c].result \subseteq events
      BY <1>3, <2>1, <2>6 DEF FetchExecutions, Fetch, At, EventProgress
    <3>2. InEvents(call[c].result, "execution") \subseteq DOMAIN items["execution"]
      BY <3>1 DEF InEvents
    <3>3. call'[c].step = "done" /\ call'[c].ok = TRUE
      BY <2>6, <3>2 DEF FetchExecutions, Fetch
    <3> QED
      BY <3>3 DEF EventProgress
  <2>7. ~(PutType(c) \/ ReadType(c) \/ ListTypes(c) \/ ResolveParent(c) \/ PutItem(c)
          \/ ReadItem(c) \/ ListItems(c) \/ PutEvent(c))
    BY <1>3 DEF PutType, ReadType, ListTypes, ResolveParent, PutItem, ReadItem, ListItems,
       PutEvent, At
  <2> QED
    BY <1>3, <2>2, <2>3, <2>4, <2>5, <2>6, <2>7 DEF Step
<1> QED
  BY <1>1, <1>2, <1>3

LEMMA EventsAdded ==
    ASSUME NEW c \in Clients, Call(c) \/ Step(c), ServiceInv
    PROVE  /\ events \subseteq events'
           /\ \A e \in events' \ events : CanPutEvent(items["artifact"], items["execution"], e)
BY DEF Call, Step, Reject, StoreFails, PutType, ReadType, ListTypes, ResolveParent, PutItem,
   ReadItem, ListItems, PutEvent, FindEvents, FetchArtifacts, FetchExecutions, Fetch

LEMMA EventsStep ==
    ASSUME Kinds = {"artifact", "execution"}, EventsInv, [Next]_vars
    PROVE  EventsInv'
<1>1. ServiceInv'
  BY ServiceStep DEF EventsInv
<1>2. ASSUME NEW c \in Clients, Call(c) \/ Step(c) PROVE EventsInv'
  <2>1. Grows /\ OthersSame(c)
    BY <1>2, EveryStep DEF EventsInv, StepOk
  <2>2. /\ events \subseteq events'
        /\ \A e \in events' \ events : CanPutEvent(items["artifact"], items["execution"], e)
    BY <1>2, EventsAdded DEF EventsInv
  <2>3. \A e \in events' :
          e.artifact \in DOMAIN items["artifact"] /\ e.execution \in DOMAIN items["execution"]
    BY <2>2 DEF EventsInv, CanPutEvent
  <2>4. (\A e \in events :
          e.artifact \in DOMAIN items["artifact"] /\ e.execution \in DOMAIN items["execution"])'
    BY <2>1, <2>3 DEF Grows
  <2>5. \A d \in Clients \ {c} : EventProgress(call[d])'
    BY <2>1, <2>2 DEF OthersSame, EventsInv, EventProgress
  <2> QED
    BY <1>1, <1>2, <2>4, <2>5, EventsOwnStep DEF EventsInv
<1>3. CASE UNCHANGED vars
  BY <1>1, <1>3 DEF vars, EventsInv, EventProgress
<1> QED
  BY <1>2, <1>3 DEF Next

(* ListEvents finds both ends of what it reports, although it reads them   *)
(* in later calls (service.go:512-519).                                    *)
THEOREM EventsFound ==
    ASSUME Kinds = {"artifact", "execution"}
    PROVE  Spec => []EventsAnswered
<1>1. Init => EventsInv
  BY ServiceInit DEF Init, EventsInv, EventProgress, NoCall, Request
<1>2. EventsInv /\ [Next]_vars => EventsInv'
  BY EventsStep
<1>3. EventsInv => EventsAnswered
  BY DEF EventsInv, EventProgress, EventsAnswered, Finished
<1> QED
  BY <1>1, <1>2, <1>3, PTL DEF Spec
=============================================================================
