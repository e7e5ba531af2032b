---------------------------- MODULE SdkClientProofs ----------------------------
(***************************************************************************)
(* Theorems about SdkClient, for any number of clients and of objects they *)
(* log, and any number of answers lost and exceptions raised.              *)
(***************************************************************************)
EXTENDS SdkClient, FiniteSetTheorems, TLAPS

Logging == {"ready", "by_uri", "put_artifacts", "attribute", "put_events"}
Steps == Logging \cup {"contexts", "put_contexts", "put_executions", "associate"}

TypeInv ==
    /\ step \in [Clients -> Steps]
    /\ execution \in [Clients -> Nat \cup {None}]
    /\ model \in [Clients -> Models]
    /\ id \in [Clients -> [Models -> Nat \cup {None}]]
    /\ logged \in [Clients -> SUBSET Models]
    /\ executions \in Nat /\ artifacts \in Nat
    /\ lost \in [{"put_executions", "put_artifacts", "put_events"} -> Nat]
    /\ raised \in [{"associate", "attribute"} -> Nat]

(* An object has the id of an artifact of the store.  It has none when its *)
(* client looks for it, and none of the client's has one when it is put.   *)
IdsAreStored ==
    \A c \in Clients :
        /\ \A m \in Models : id[c][m] = None \/ id[c][m] \in 1 .. artifacts
        /\ step[c] = "by_uri" => Id(c) = None
        /\ step[c] = "put_artifacts" => \A m \in Models : id[c][m] = None
        /\ step[c] \in {"attribute", "put_events"} => Id(c) # None

(* A client logs only once its execution is of the workspace.              *)
ExecutionFirst ==
    \A c \in Clients :
        /\ step[c] \in Logging => execution[c] \in associated
        /\ step[c] \notin Logging => logged[c] = {}

SdkInv == TypeInv /\ IdsAreStored /\ ExecutionFirst /\ LoggedIsRecorded

-----------------------------------------------------------------------------
LEMMA BagAdd ==
    ASSUME NEW B, NEW e
    PROVE  DOMAIN (B (+) SetToBag({e})) = DOMAIN B \cup {e}
BY DEF (+), SetToBag

LEMMA SdkInit == Init => SdkInv
BY DEF Init, SdkInv, TypeInv, IdsAreStored, ExecutionFirst, LoggedIsRecorded, Steps, Logging, Id

(* What every step keeps of the variables' types.                          *)
LEMMA TypeStep ==
    ASSUME TypeInv, NEW c \in Clients, ClientStep(c)
    PROVE  TypeInv'
<1> USE DEF TypeInv, Steps, Logging, At, Goes
<1>1. CASE GetContexts(c) \/ PutContexts(c)
  BY <1>1 DEF GetContexts, PutContexts, storeVars
<1>2. CASE PutExecutions(c)
  BY <1>2 DEF PutExecutions
<1>3. CASE Associate(c) \/ Attribute(c)
  BY <1>3 DEF Associate, Attribute
<1>4. CASE \E m \in Models : Log(c, m)
  BY <1>4 DEF Log, storeVars
<1>5. CASE GetArtifactsByUri(c)
  <2>1. CASE UNCHANGED id
    BY <1>5, <2>1 DEF GetArtifactsByUri, storeVars
  <2>2. ASSUME NEW a \in 1 .. artifacts, id' = [id EXCEPT ![c][model[c]] = a]
        PROVE  TypeInv'
    <3>1. a \in Nat
      OBVIOUS
    <3> QED
      BY <1>5, <2>2, <3>1 DEF GetArtifactsByUri, storeVars
  <2> QED
    BY <1>5, <2>1, <2>2 DEF GetArtifactsByUri
<1>6. CASE PutArtifacts(c)
  BY <1>6 DEF PutArtifacts
<1>7. CASE PutEvents(c)
  BY <1>7 DEF PutEvents
<1>8. CASE Lost(c)
  BY <1>8 DEF Lost, clientVars
<1>9. CASE Raise(c)
  BY <1>9 DEF Raise, AfterRaise, storeVars
<1> HIDE DEF TypeInv, Steps, Logging, At, Goes
<1> QED
  BY <1>1, <1>2, <1>3, <1>4, <1>5, <1>6, <1>7, <1>8, <1>9 DEF ClientStep

LEMMA IdsStep ==
    ASSUME SdkInv, TypeInv', NEW c \in Clients, ClientStep(c)
    PROVE  IdsAreStored'
<1> USE ClientsAssumption DEF SdkInv, TypeInv, IdsAreStored, At, Goes, Id
<1>1. CASE GetContexts(c) \/ PutContexts(c) \/ PutExecutions(c) \/ Associate(c)
  BY <1>1 DEF GetContexts, PutContexts, PutExecutions, Associate, storeVars
<1>2. CASE \E m \in Models : Log(c, m)
  BY <1>2 DEF Log, storeVars
<1>3. CASE GetArtifactsByUri(c)
  <2>1. CASE artifacts = 0 /\ Goes(c, "put_artifacts") /\ UNCHANGED id
    BY <1>3, <2>1 DEF GetArtifactsByUri, storeVars
  <2>2. ASSUME NEW a \in 1 .. artifacts,
               id' = [id EXCEPT ![c][model[c]] = a], Goes(c, "put_events")
        PROVE  IdsAreStored'
    BY <1>3, <2>2 DEF GetArtifactsByUri, storeVars
  <2> QED
    BY <1>3, <2>1, <2>2 DEF GetArtifactsByUri
<1>4. CASE PutArtifacts(c)
  BY <1>4 DEF PutArtifacts
<1>5. CASE Attribute(c)
  BY <1>5 DEF Attribute
<1>6. CASE PutEvents(c)
  BY <1>6 DEF PutEvents
<1>7. CASE Lost(c)
  BY <1>7 DEF Lost, clientVars
<1>8. CASE Raise(c)
  BY <1>8 DEF Raise, AfterRaise, storeVars
<1> HIDE DEF SdkInv, TypeInv, IdsAreStored, At, Goes, Id
<1> QED
  BY <1>1, <1>2, <1>3, <1>4, <1>5, <1>6, <1>7, <1>8 DEF ClientStep

LEMMA ExecutionStep ==
    ASSUME SdkInv, NEW c \in Clients, ClientStep(c)
    PROVE  ExecutionFirst'
<1> USE DEF SdkInv, TypeInv, ExecutionFirst, At, Goes, Logging
<1>1. CASE GetContexts(c) \/ PutContexts(c) \/ PutExecutions(c) \/ Associate(c)
  BY <1>1 DEF GetContexts, PutContexts, PutExecutions, Associate, storeVars
<1>2. CASE \E m \in Models : Log(c, m)
  BY <1>2 DEF Log, storeVars
<1>3. CASE GetArtifactsByUri(c)
  BY <1>3 DEF GetArtifactsByUri, storeVars
<1>4. CASE PutArtifacts(c) \/ Attribute(c)
  BY <1>4 DEF PutArtifacts, Attribute
<1>5. CASE PutEvents(c)
  BY <1>5 DEF PutEvents
<1>6. CASE Lost(c)
  BY <1>6 DEF Lost, clientVars
<1>7. CASE Raise(c)
  <2>1. UNCHANGED <<execution, logged, associated>> /\ Goes(c, AfterRaise(step[c]))
    BY <1>7 DEF Raise, storeVars
  <2>2. step[c] \in Steps /\ (AfterRaise(step[c]) \in Logging <=> step[c] \in Logging)
    BY DEF AfterRaise, Steps
  <2>3. \A d \in Clients : step'[d] \in Logging <=> step[d] \in Logging
    <3> TAKE d \in Clients
    <3>1. CASE d = c
      BY <2>1, <2>2, <3>1 DEF Steps
    <3>2. CASE d # c
      BY <2>1, <3>2
    <3> QED
      BY <3>1, <3>2
  <2> HIDE DEF Logging
  <2> QED
    BY <2>1, <2>3
<1> HIDE DEF SdkInv, TypeInv, ExecutionFirst, At, Goes, Logging
<1> QED
  BY <1>1, <1>2, <1>3, <1>4, <1>5, <1>6, <1>7 DEF ClientStep

(* Of what is recorded nothing is taken back.                              *)
LEMMA EventsStay ==
    ASSUME NEW c \in Clients, ClientStep(c)
    PROVE  DOMAIN events \subseteq DOMAIN events' /\ associated \subseteq associated'
<1>1. AddEvent(c) => DOMAIN events \subseteq DOMAIN events'
  <2> DEFINE e == [artifact |-> Id(c), execution |-> execution[c]]
  <2>1. DOMAIN (events (+) SetToBag({e})) = DOMAIN events \cup {e}
    BY BagAdd
  <2> QED
    BY <2>1 DEF AddEvent
<1>2. UNCHANGED associated \/ Associate(c)
  BY DEF ClientStep, GetContexts, PutContexts, PutExecutions, Log, GetArtifactsByUri,
     PutArtifacts, Attribute, PutEvents, Lost, Raise, storeVars
<1>3. UNCHANGED events \/ AddEvent(c)
  BY DEF ClientStep, GetContexts, PutContexts, PutExecutions, Associate, Log,
     GetArtifactsByUri, PutArtifacts, Attribute, PutEvents, Lost, Raise, storeVars
<1> QED
  BY <1>1, <1>2, <1>3 DEF Associate

LEMMA RecordedStep ==
    ASSUME SdkInv, IdsAreStored', NEW c \in Clients, ClientStep(c)
    PROVE  LoggedIsRecorded'
<1> USE DEF SdkInv
<1>1. DOMAIN events \subseteq DOMAIN events' /\ associated \subseteq associated'
      /\ artifacts' \in Nat /\ artifacts <= artifacts'
  <2>1. artifacts' = artifacts \/ artifacts' = artifacts + 1
    <3>1. UNCHANGED artifacts \/ PutArtifacts(c) \/ Lost(c)
      BY DEF ClientStep, GetContexts, PutContexts, PutExecutions, Associate, Log,
         GetArtifactsByUri, Attribute, PutEvents, Raise, storeVars
    <3>2. artifacts \in Nat
      BY DEF TypeInv
    <3>3. Lost(c) => artifacts' = artifacts + (IF At(c, "put_artifacts") THEN 1 ELSE 0)
      BY DEF Lost
    <3> QED
      BY <3>1, <3>2, <3>3 DEF PutArtifacts
  <2> QED
    BY <2>1, EventsStay DEF TypeInv
<1>2. ASSUME NEW d \in Clients, NEW m \in logged[d]
      PROVE  execution'[d] = execution[d] /\ id'[d][m] = id[d][m]
  <2>1. m \in Models /\ id[d][m] # None /\ step[d] \in Logging
    <3>1. m \in Models /\ step[d] \in Logging
      BY <1>2 DEF ExecutionFirst, TypeInv
    <3>2. id[d][m] \in 1 .. artifacts
      BY <1>2 DEF LoggedIsRecorded
    <3> QED
      BY <3>1, <3>2, ClientsAssumption
  <2>2. UNCHANGED execution \/ PutExecutions(c)
    BY DEF ClientStep, GetContexts, PutContexts, Associate, Log, GetArtifactsByUri,
       PutArtifacts, Attribute, PutEvents, Lost, Raise, clientVars
  <2>3. execution'[d] = execution[d]
    BY <2>1, <2>2 DEF PutExecutions, At, Logging, TypeInv
  <2>4. \/ UNCHANGED id
        \/ step[c] \in {"by_uri", "put_artifacts"} /\ \E a : id' = [id EXCEPT ![c][model[c]] = a]
    BY DEF ClientStep, GetContexts, PutContexts, PutExecutions, Associate, Log,
       GetArtifactsByUri, PutArtifacts, Attribute, PutEvents, Lost, Raise, clientVars, At
  <2>5. step[c] \in {"by_uri", "put_artifacts"} => id[c][model[c]] = None
    BY DEF IdsAreStored, Id, TypeInv
  <2>6. id'[d][m] = id[d][m]
    <3>1. CASE UNCHANGED id
      BY <3>1
    <3>2. ASSUME NEW a, id' = [id EXCEPT ![c][model[c]] = a], id[c][model[c]] = None
          PROVE  id'[d][m] = id[d][m]
      <4>1. CASE d = c
        BY <2>1, <3>2, <4>1 DEF TypeInv
      <4>2. CASE d # c
        BY <3>2, <4>2 DEF TypeInv
      <4> QED
        BY <4>1, <4>2
    <3> QED
      BY <2>4, <2>5, <3>1, <3>2
  <2> QED
    BY <2>3, <2>6
<1>3. ASSUME NEW d \in Clients, NEW m \in logged'[d]
      PROVE  /\ id'[d][m] \in 1 .. artifacts'
             /\ [artifact |-> id'[d][m], execution |-> execution'[d]] \in DOMAIN events'
             /\ execution'[d] \in associated'
  <2>1. CASE m \in logged[d]
    BY <1>1, <1>2, <2>1 DEF LoggedIsRecorded, TypeInv
  <2>2. CASE m \notin logged[d]
    <3>1. PutEvents(c) /\ d = c /\ m = model[c]
      BY <1>3, <2>2 DEF TypeInv, ClientStep, GetContexts, PutContexts, PutExecutions, Associate,
         Log, GetArtifactsByUri, PutArtifacts, Attribute, PutEvents, Lost, Raise, clientVars
    <3>2. /\ UNCHANGED <<id, execution, associated, artifacts>> /\ AddEvent(c)
          /\ step[c] = "put_events"
      BY <3>1 DEF PutEvents, At
    <3>3. Id(c) \in 1 .. artifacts /\ execution[c] \in associated
      BY <3>2 DEF IdsAreStored, ExecutionFirst, Logging, TypeInv, Id
    <3>4. [artifact |-> Id(c), execution |-> execution[c]] \in DOMAIN events'
      <4> DEFINE e == [artifact |-> Id(c), execution |-> execution[c]]
      <4>1. events' = events (+) SetToBag({e})
        BY <3>2 DEF AddEvent
      <4>2. DOMAIN (events (+) SetToBag({e})) = DOMAIN events \cup {e}
        BY BagAdd
      <4> QED
        BY <4>1, <4>2
    <3> QED
      BY <3>1, <3>2, <3>3, <3>4 DEF Id
  <2> QED
    BY <2>1, <2>2
<1> QED
  BY <1>3 DEF LoggedIsRecorded

LEMMA SdkStep == SdkInv /\ [Next]_vars => SdkInv'
<1> SUFFICES ASSUME SdkInv, [Next]_vars PROVE SdkInv'
  OBVIOUS
<1>1. ASSUME NEW c \in Clients, ClientStep(c) PROVE SdkInv'
  BY <1>1, TypeStep, IdsStep, ExecutionStep, RecordedStep DEF SdkInv
<1>2. CASE UNCHANGED vars
  BY <1>2 DEF vars, clientVars, storeVars, SdkInv, TypeInv, IdsAreStored, Id, ExecutionFirst,
     LoggedIsRecorded
<1> QED
  BY <1>1, <1>2 DEF Next

LEMMA SdkInductive == Spec => []SdkInv
BY SdkInit, SdkStep, PTL DEF Spec

(* What log_input or log_output returned is in the store, linked to the    *)
(* caller's execution, which is of the workspace (metadata.py:335, 353),   *)
(* however many clients race, answers are lost and calls made again.       *)
THEOREM LoggedRecorded == Spec => []LoggedIsRecorded
<1>1. SdkInv => LoggedIsRecorded
  BY DEF SdkInv
<1> QED
  BY <1>1, SdkInductive, PTL

-----------------------------------------------------------------------------
(* Counting.                                                               *)

LEMMA SubsetCard ==
    ASSUME NEW S, IsFiniteSet(S), NEW T, T \subseteq S
    PROVE  IsFiniteSet(T) /\ Cardinality(T) \in Nat /\ Cardinality(T) <= Cardinality(S)
BY FS_Subset, FS_CardinalityType

LEMMA GrowCard ==
    ASSUME NEW S, IsFiniteSet(S), NEW e, NEW T, T \subseteq S \cup {e}
    PROVE  IsFiniteSet(T) /\ Cardinality(T) \in Nat /\ Cardinality(T) <= Cardinality(S) + 1
<1>1. IsFiniteSet(S \cup {e}) /\ Cardinality(S) \in Nat
      /\ Cardinality(S \cup {e}) \in {Cardinality(S), Cardinality(S) + 1}
  BY FS_AddElement, FS_CardinalityType
<1> QED
  BY <1>1, SubsetCard

(* Artifacts outside the workspace that no client is about to attribute.   *)
Attributing == {c \in Clients : At(c, "attribute")}
Abandoned   == ((1 .. artifacts) \ attributed) \ {Id(c) : c \in Attributing}

(* Each is of a put whose answer was lost or an attribution given up.      *)
AbandonedExplained ==
    Cardinality(Abandoned) <= lost["put_artifacts"] + raised["attribute"]

LEMMA AbandonedFinite ==
    ASSUME TypeInv PROVE IsFiniteSet(Abandoned) /\ Cardinality(Abandoned) \in Nat
<1>1. IsFiniteSet(1 .. artifacts)
  BY FS_Interval DEF TypeInv
<1> QED
  BY <1>1, SubsetCard DEF Abandoned

(* The counts of what went wrong never fall.                               *)
LEMMA CountsGrow ==
    ASSUME TypeInv, NEW c \in Clients, ClientStep(c)
    PROVE  /\ lost["put_artifacts"] \in Nat /\ raised["attribute"] \in Nat
           /\ lost'["put_artifacts"] \in Nat /\ raised'["attribute"] \in Nat
           /\ lost["put_artifacts"] <= lost'["put_artifacts"]
           /\ raised["attribute"] <= raised'["attribute"]
<1>1. UNCHANGED lost \/ Lost(c)
  BY DEF ClientStep, GetContexts, PutContexts, PutExecutions, Associate, Log,
     GetArtifactsByUri, PutArtifacts, Attribute, PutEvents, Raise
<1>2. UNCHANGED raised \/ Raise(c)
  BY DEF ClientStep, GetContexts, PutContexts, PutExecutions, Associate, Log,
     GetArtifactsByUri, PutArtifacts, Attribute, PutEvents, Lost
<1>3. lost["put_artifacts"] \in Nat /\ raised["attribute"] \in Nat
  BY DEF TypeInv
<1>4. lost'["put_artifacts"] \in {lost["put_artifacts"], lost["put_artifacts"] + 1}
  BY <1>1 DEF Lost, TypeInv
<1>5. raised'["attribute"] \in {raised["attribute"], raised["attribute"] + 1}
  BY <1>2 DEF Raise, TypeInv
<1> QED
  BY <1>3, <1>4, <1>5

(* All steps but those two leave no artifact more behind.                  *)
LEMMA AbandonedStays ==
    ASSUME SdkInv, NEW c \in Clients, ClientStep(c)
    PROVE  \/ Abandoned' \subseteq Abandoned
           \/ Lost(c) /\ At(c, "put_artifacts") /\ Abandoned' \subseteq Abandoned \cup {artifacts + 1}
           \/ Raise(c) /\ At(c, "attribute") /\ Abandoned' \subseteq Abandoned \cup {Id(c)}
<1>1. CASE PutArtifacts(c)
  <2>1. step'[c] = "attribute" /\ Id(c)' = artifacts' /\ artifacts' = artifacts + 1
        /\ attributed' = attributed
    BY <1>1 DEF PutArtifacts, Goes, Id, SdkInv, TypeInv
  <2>2. \A d \in Clients : At(d, "attribute") => At(d, "attribute")' /\ Id(d)' = Id(d)
    BY <1>1 DEF PutArtifacts, At, Goes, Id, SdkInv, TypeInv
  <2>3. artifacts \in Nat
    BY DEF SdkInv, TypeInv
  <2> QED
    BY <2>1, <2>2, <2>3 DEF Abandoned, Attributing, At
<1>2. CASE Attribute(c)
  <2>1. UNCHANGED <<artifacts, id, model>> /\ attributed' = attributed \cup {Id(c)}
    BY <1>2 DEF Attribute
  <2>2. \A d \in Clients : d # c => step'[d] = step[d]
    BY <1>2 DEF Attribute, Goes, SdkInv, TypeInv
  <2> QED
    BY <2>1, <2>2 DEF Abandoned, Attributing, At, Id
<1>3. CASE Lost(c)
  <2>1. /\ UNCHANGED <<step, id, model, attributed>>
        /\ artifacts' = artifacts + (IF At(c, "put_artifacts") THEN 1 ELSE 0)
    BY <1>3 DEF Lost, clientVars
  <2>2. artifacts \in Nat
    BY DEF SdkInv, TypeInv
  <2> QED
    BY <1>3, <2>1, <2>2 DEF Abandoned, Attributing, At, Id
<1>4. CASE Raise(c)
  <2>1. UNCHANGED <<id, model, artifacts, attributed>>
    BY <1>4 DEF Raise, storeVars
  <2>2. \A d \in Clients : d # c => step'[d] = step[d]
    BY <1>4 DEF Raise, Goes, SdkInv, TypeInv
  <2> QED
    BY <1>4, <2>1, <2>2 DEF Abandoned, Attributing, At, Id
<1>5. CASE ~PutArtifacts(c) /\ ~Attribute(c) /\ ~Lost(c) /\ ~Raise(c)
  <2>1. UNCHANGED <<artifacts, attributed>>
    BY <1>5 DEF ClientStep, GetContexts, PutContexts, PutExecutions, Associate, Log,
       GetArtifactsByUri, PutEvents, storeVars
  <2>2. ~At(c, "attribute")
    BY <1>5 DEF ClientStep, GetContexts, PutContexts, PutExecutions, Associate, Log,
       GetArtifactsByUri, PutEvents, At
  <2>3. ASSUME NEW d \in Clients, d # c
        PROVE  step'[d] = step[d] /\ model'[d] = model[d] /\ id'[d] = id[d]
    <3>1. \E s : step' = [step EXCEPT ![c] = s]
      BY <1>5 DEF ClientStep, GetContexts, PutContexts, PutExecutions, Associate, Log,
         GetArtifactsByUri, PutEvents, Goes, SdkInv, TypeInv
    <3>2. UNCHANGED model \/ \E s : model' = [model EXCEPT ![c] = s]
      BY <1>5 DEF ClientStep, GetContexts, PutContexts, PutExecutions, Associate, Log,
         GetArtifactsByUri, PutEvents
    <3>3. UNCHANGED id \/ \E a : id' = [id EXCEPT ![c][model[c]] = a]
      BY <1>5 DEF ClientStep, GetContexts, PutContexts, PutExecutions, Associate, Log,
         GetArtifactsByUri, PutEvents
    <3> QED
      BY <2>3, <3>1, <3>2, <3>3 DEF SdkInv, TypeInv
  <2>4. \A d \in Clients : At(d, "attribute") => At(d, "attribute")' /\ Id(d)' = Id(d)
    BY <2>2, <2>3 DEF At, Id
  <2> QED
    BY <2>1, <2>4 DEF Abandoned, Attributing
<1> QED
  BY <1>1, <1>2, <1>3, <1>4, <1>5

LEMMA AbandonedStep ==
    ASSUME SdkInv, AbandonedExplained, NEW c \in Clients, ClientStep(c)
    PROVE  AbandonedExplained'
<1>1. IsFiniteSet(Abandoned) /\ Cardinality(Abandoned) \in Nat
  BY AbandonedFinite DEF SdkInv
<1>2. CASE Abandoned' \subseteq Abandoned
  <2>1. Cardinality(Abandoned') \in Nat /\ Cardinality(Abandoned') <= Cardinality(Abandoned)
    BY <1>1, <1>2, SubsetCard
  <2> QED
    BY <1>1, <2>1, CountsGrow DEF AbandonedExplained, SdkInv
<1>3. CASE /\ Lost(c) /\ At(c, "put_artifacts")
           /\ Abandoned' \subseteq Abandoned \cup {artifacts + 1}
  <2>1. Cardinality(Abandoned') \in Nat /\ Cardinality(Abandoned') <= Cardinality(Abandoned) + 1
    BY <1>1, <1>3, GrowCard
  <2>2. lost'["put_artifacts"] = lost["put_artifacts"] + 1
    BY <1>3 DEF Lost, At, SdkInv, TypeInv
  <2> QED
    BY <1>1, <2>1, <2>2, CountsGrow DEF AbandonedExplained, SdkInv
<1>4. CASE Raise(c) /\ At(c, "attribute") /\ Abandoned' \subseteq Abandoned \cup {Id(c)}
  <2>1. Cardinality(Abandoned') \in Nat /\ Cardinality(Abandoned') <= Cardinality(Abandoned) + 1
    BY <1>1, <1>4, GrowCard
  <2>2. raised'["attribute"] = raised["attribute"] + 1
    BY <1>4 DEF Raise, At, SdkInv, TypeInv
  <2> QED
    BY <1>1, <2>1, <2>2, CountsGrow DEF AbandonedExplained, SdkInv
<1> QED
  BY <1>2, <1>3, <1>4, AbandonedStays

LEMMA AbandonedInductive == Spec => []AbandonedExplained
<1>1. Init => AbandonedExplained
  <2> SUFFICES ASSUME Init PROVE AbandonedExplained
    OBVIOUS
  <2>1. Abandoned = {}
    BY DEF Init, Abandoned
  <2>2. lost["put_artifacts"] = 0 /\ raised["attribute"] = 0
    BY DEF Init
  <2> QED
    BY <2>1, <2>2, FS_EmptySet DEF AbandonedExplained
<1>2. SdkInv /\ AbandonedExplained /\ [Next]_vars => AbandonedExplained'
  <2> SUFFICES ASSUME SdkInv, AbandonedExplained, [Next]_vars PROVE AbandonedExplained'
    OBVIOUS
  <2>1. CASE UNCHANGED vars
    BY <2>1 DEF vars, clientVars, storeVars, AbandonedExplained, Abandoned, Attributing, At, Id
  <2> QED
    BY <2>1, AbandonedStep DEF Next
<1> QED
  BY <1>1, <1>2, SdkInductive, PTL DEF Spec

(* An artifact is missing from its workspace (metadata.py:396) only after  *)
(* a lost answer or an attribution given up, or while a client is about to *)
(* attribute it, for any number of clients.                                *)
THEOREM UnattributedHolds == Spec => []UnattributedExplained
<1>1. TypeInv /\ AbandonedExplained => UnattributedExplained
  <2> SUFFICES ASSUME TypeInv, AbandonedExplained PROVE UnattributedExplained
    OBVIOUS
  <2> DEFINE I == {Id(c) : c \in Attributing}
             Unattributed == (1 .. artifacts) \ attributed
  <2>1. IsFiniteSet(Attributing) /\ Cardinality(Attributing) \in Nat
    BY ClientsAssumption, SubsetCard DEF Attributing
  <2>2. IsFiniteSet(I) /\ Cardinality(I) \in Nat /\ Cardinality(I) <= Cardinality(Attributing)
    <3> DEFINE f == [c \in Attributing |-> Id(c)]
    <3>1. f \in Surjection(Attributing, I)
      BY DEF Surjection
    <3> QED
      BY <2>1, <3>1, FS_Surjection, FS_CardinalityType
  <2>3. IsFiniteSet(Abandoned) /\ Cardinality(Abandoned) \in Nat
    BY AbandonedFinite
  <2>4. IsFiniteSet(Abandoned \cup I)
        /\ Cardinality(Abandoned \cup I) <= Cardinality(Abandoned) + Cardinality(I)
        /\ Cardinality(Abandoned \cup I) \in Nat
    <3>1. IsFiniteSet(Abandoned \cap I) /\ Cardinality(Abandoned \cap I) \in Nat
      BY <2>2, SubsetCard
    <3>2. Cardinality(Abandoned \cup I) =
              Cardinality(Abandoned) + Cardinality(I) - Cardinality(Abandoned \cap I)
      BY <2>2, <2>3, FS_Union
    <3>3. IsFiniteSet(Abandoned \cup I)
      BY <2>2, <2>3, FS_Union
    <3> QED
      BY <2>2, <2>3, <3>1, <3>2, <3>3, FS_CardinalityType
  <2>5. Unattributed \subseteq Abandoned \cup I
    BY DEF Abandoned
  <2>6. Cardinality(Unattributed) \in Nat
        /\ Cardinality(Unattributed) <= Cardinality(Abandoned \cup I)
    BY <2>4, <2>5, SubsetCard
  <2>7. lost["put_artifacts"] \in Nat /\ raised["attribute"] \in Nat
    BY DEF TypeInv
  <2> HIDE DEF I, Unattributed
  <2>8. Cardinality(Unattributed) <=
            lost["put_artifacts"] + raised["attribute"] + Cardinality(Attributing)
    BY <2>1, <2>2, <2>3, <2>4, <2>6, <2>7 DEF AbandonedExplained
  <2> QED
    BY <2>8 DEF UnattributedExplained, Unattributed, Attributing
<1>2. SdkInv => TypeInv
  BY DEF SdkInv
<1> QED
  BY <1>1, <1>2, AbandonedInductive, SdkInductive, PTL

-----------------------------------------------------------------------------
(* Duplicates.  What there is of each kind is set against the clients, or  *)
(* the calls, that have come past the put of it.                           *)

LEMMA LostGrows ==
    ASSUME TypeInv, NEW c \in Clients, ClientStep(c), NEW s \in DOMAIN lost
    PROVE  /\ lost[s] \in Nat
           /\ lost'[s] = IF Lost(c) /\ At(c, s) THEN lost[s] + 1 ELSE lost[s]
<1>1. UNCHANGED lost \/ Lost(c)
  BY DEF ClientStep, GetContexts, PutContexts, PutExecutions, Associate, Log,
     GetArtifactsByUri, PutArtifacts, Attribute, PutEvents, Raise
<1>2. ~Lost(c) => UNCHANGED lost
  BY <1>1
<1>3. Lost(c) => lost' = [lost EXCEPT ![step[c]] = @ + 1] /\ step[c] \in DOMAIN lost
  BY DEF Lost
<1> QED
  BY <1>2, <1>3 DEF At, TypeInv

LEMMA RaisedGrows ==
    ASSUME TypeInv, NEW c \in Clients, ClientStep(c), NEW s \in DOMAIN raised
    PROVE  /\ raised[s] \in Nat /\ raised'[s] \in Nat /\ raised[s] <= raised'[s]
           /\ Raise(c) /\ At(c, s) => raised'[s] = raised[s] + 1
<1>1. UNCHANGED raised \/ Raise(c)
  BY DEF ClientStep, GetContexts, PutContexts, PutExecutions, Associate, Log,
     GetArtifactsByUri, PutArtifacts, Attribute, PutEvents, Lost
<1> QED
  BY <1>1 DEF Raise, At, TypeInv

(* Counting members of a set of clients that grows, or shrinks by one.     *)
LEMMA ClientsCard ==
    ASSUME NEW S, S \subseteq Clients, NEW T, T \subseteq Clients
    PROVE  /\ Cardinality(S) \in Nat /\ Cardinality(T) \in Nat
           /\ Cardinality(S) <= Cardinality(Clients) /\ Cardinality(Clients) \in Nat
           /\ S \subseteq T => Cardinality(S) <= Cardinality(T)
           /\ \A c \in T : S \subseteq T \ {c} => Cardinality(S) + 1 <= Cardinality(T)
<1>1. IsFiniteSet(S) /\ IsFiniteSet(T) /\ Cardinality(S) \in Nat /\ Cardinality(T) \in Nat
      /\ Cardinality(S) <= Cardinality(Clients) /\ Cardinality(Clients) \in Nat
  BY ClientsAssumption, SubsetCard, FS_CardinalityType
<1>2. S \subseteq T => Cardinality(S) <= Cardinality(T)
  BY <1>1, SubsetCard
<1>3. ASSUME NEW c \in T, S \subseteq T \ {c}
      PROVE  Cardinality(S) + 1 <= Cardinality(T)
  <2>1. IsFiniteSet(T \ {c}) /\ Cardinality(T \ {c}) = Cardinality(T) - 1
    BY <1>1, FS_RemoveElement
  <2>2. Cardinality(S) <= Cardinality(T \ {c})
    BY <1>3, <2>1, SubsetCard
  <2> QED
    BY <1>1, <2>1, <2>2
<1> QED
  BY <1>1, <1>2, <1>3

(* A client puts an artifact only while none of its objects has an id.     *)
WithId == {c \in Clients : \E m \in Models : id[c][m] # None}

ArtifactsCounted == artifacts <= Cardinality(WithId) + lost["put_artifacts"]

LEMMA ArtifactsStep ==
    ASSUME SdkInv, ArtifactsCounted, NEW c \in Clients, ClientStep(c)
    PROVE  ArtifactsCounted'
<1> DEFINE W == WithId
           V == WithId'
<1>0. W \subseteq Clients /\ V \subseteq Clients /\ artifacts \in Nat
  BY DEF WithId, SdkInv, TypeInv
<1>1. /\ lost["put_artifacts"] \in Nat
      /\ lost'["put_artifacts"] = IF Lost(c) /\ At(c, "put_artifacts")
                                  THEN lost["put_artifacts"] + 1 ELSE lost["put_artifacts"]
  BY LostGrows DEF SdkInv, TypeInv
<1>2. CASE PutArtifacts(c)
  <2>1. /\ step[c] = "put_artifacts" /\ artifacts' = artifacts + 1 /\ UNCHANGED lost
        /\ id' = [id EXCEPT ![c][model[c]] = artifacts'] /\ model[c] \in Models
    BY <1>2 DEF PutArtifacts, At, SdkInv, TypeInv
  <2>2. c \notin W
    BY <2>1 DEF WithId, SdkInv, IdsAreStored
  <2>3. id'[c][model[c]] # None /\ \A d \in Clients : d # c => id'[d] = id[d]
    BY <1>0, <2>1, ClientsAssumption DEF SdkInv, TypeInv
  <2>4. c \in V /\ W \subseteq V \ {c}
    BY <2>1, <2>2, <2>3 DEF WithId
  <2>5. Cardinality(W) + 1 <= Cardinality(V) /\ Cardinality(W) \in Nat /\ Cardinality(V) \in Nat
    BY <1>0, <2>4, ClientsCard
  <2> QED
    BY <1>0, <1>1, <2>1, <2>5 DEF ArtifactsCounted
<1>3. CASE ~PutArtifacts(c)
  <2>1. artifacts' = artifacts + (IF Lost(c) /\ At(c, "put_artifacts") THEN 1 ELSE 0)
    <3>1. Lost(c) => artifacts' = artifacts + (IF At(c, "put_artifacts") THEN 1 ELSE 0)
      BY DEF Lost
    <3>2. ~Lost(c) => artifacts' = artifacts
      BY <1>3 DEF ClientStep, GetContexts, PutContexts, PutExecutions, Associate, Log,
         GetArtifactsByUri, Attribute, PutEvents, Raise, storeVars
    <3> QED
      BY <1>0, <3>1, <3>2
  <2>2. UNCHANGED id \/ \E a \in 1 .. artifacts : id' = [id EXCEPT ![c][model[c]] = a]
    BY <1>3 DEF ClientStep, GetContexts, PutContexts, PutExecutions, Associate, Log,
       GetArtifactsByUri, Attribute, PutEvents, Lost, Raise, clientVars
  <2>3. W \subseteq V
    BY <2>2, ClientsAssumption DEF WithId, SdkInv, TypeInv
  <2>4. Cardinality(W) <= Cardinality(V) /\ Cardinality(W) \in Nat /\ Cardinality(V) \in Nat
    BY <1>0, <2>3, ClientsCard
  <2> QED
    BY <1>0, <1>1, <2>1, <2>4 DEF ArtifactsCounted
<1> QED
  BY <1>2, <1>3

(* A client that raises between the put of its execution and the end of    *)
(* the constructor makes another.                                          *)
WithExecution == {c \in Clients : step[c] \in Logging \cup {"associate"}}

ExecutionsCounted ==
    executions <= Cardinality(WithExecution) + lost["put_executions"] + raised["associate"]

LEMMA ExecutionsStep ==
    ASSUME SdkInv, ExecutionsCounted, NEW c \in Clients, ClientStep(c)
    PROVE  ExecutionsCounted'
<1> DEFINE W == WithExecution
           V == WithExecution'
<1>0. W \subseteq Clients /\ V \subseteq Clients /\ executions \in Nat
  BY DEF WithExecution, SdkInv, TypeInv
<1>1. /\ lost["put_executions"] \in Nat
      /\ lost'["put_executions"] = IF Lost(c) /\ At(c, "put_executions")
                                   THEN lost["put_executions"] + 1 ELSE lost["put_executions"]
  BY LostGrows DEF SdkInv, TypeInv
<1>2. /\ raised["associate"] \in Nat /\ raised'["associate"] \in Nat
      /\ raised["associate"] <= raised'["associate"]
      /\ Raise(c) /\ At(c, "associate") => raised'["associate"] = raised["associate"] + 1
  BY RaisedGrows DEF SdkInv, TypeInv
<1>3. ASSUME W \subseteq V,
             executions' = executions + (IF Lost(c) /\ At(c, "put_executions") THEN 1 ELSE 0)
      PROVE  ExecutionsCounted'
  <2>1. Cardinality(W) <= Cardinality(V) /\ Cardinality(W) \in Nat /\ Cardinality(V) \in Nat
    BY <1>0, <1>3, ClientsCard
  <2> QED
    BY <1>0, <1>1, <1>2, <1>3, <2>1 DEF ExecutionsCounted
<1>4. \A d \in Clients : d # c => step'[d] = step[d]
  BY DEF ClientStep, GetContexts, PutContexts, PutExecutions, Associate, Log,
     GetArtifactsByUri, PutArtifacts, Attribute, PutEvents, Lost, Raise, clientVars, Goes,
     SdkInv, TypeInv
<1>5. CASE PutExecutions(c)
  <2>1. /\ step[c] = "put_executions" /\ step'[c] = "associate"
        /\ executions' = executions + 1 /\ UNCHANGED <<lost, raised>>
    BY <1>5 DEF PutExecutions, At, Goes, SdkInv, TypeInv
  <2>2. c \in V /\ W \subseteq V \ {c}
    BY <1>4, <2>1 DEF WithExecution, Logging
  <2>3. Cardinality(W) + 1 <= Cardinality(V) /\ Cardinality(W) \in Nat /\ Cardinality(V) \in Nat
    BY <1>0, <2>2, ClientsCard
  <2> QED
    BY <1>0, <1>1, <1>2, <2>1, <2>3 DEF ExecutionsCounted
<1>6. CASE Raise(c) /\ At(c, "associate")
  <2>1. /\ executions' = executions /\ UNCHANGED lost
        /\ raised'["associate"] = raised["associate"] + 1
    BY <1>2, <1>6 DEF Raise, storeVars
  <2>2. c \in W /\ W \ {c} \subseteq V
    BY <1>4, <1>6 DEF WithExecution, At
  <2>3. Cardinality(W \ {c}) <= Cardinality(V) /\ Cardinality(V) \in Nat
    BY <1>0, <2>2, ClientsCard
  <2>4. Cardinality(W \ {c}) = Cardinality(W) - 1 /\ Cardinality(W) \in Nat
    BY <1>0, <2>2, ClientsAssumption, SubsetCard, FS_RemoveElement
  <2> QED
    BY <1>0, <1>1, <1>2, <2>1, <2>3, <2>4 DEF ExecutionsCounted
<1>7. CASE ~PutExecutions(c) /\ ~(Raise(c) /\ At(c, "associate"))
  <2>1. executions' = executions + (IF Lost(c) /\ At(c, "put_executions") THEN 1 ELSE 0)
    <3>1. Lost(c) => executions' = executions + (IF At(c, "put_executions") THEN 1 ELSE 0)
      BY DEF Lost
    <3>2. ~Lost(c) => executions' = executions
      BY <1>7 DEF ClientStep, GetContexts, PutContexts, Associate, Log,
         GetArtifactsByUri, PutArtifacts, Attribute, PutEvents, Raise, storeVars
    <3> QED
      BY <1>0, <3>1, <3>2
  <2>2. c \in W => c \in V
    <3>1. CASE Raise(c)
      <4>1. step'[c] = AfterRaise(step[c])
        BY <3>1 DEF Raise, Goes, SdkInv, TypeInv
      <4> QED
        BY <1>7, <3>1, <4>1 DEF AfterRaise, WithExecution, Logging, At
    <3>2. CASE ~Raise(c)
      BY <1>7, <3>2 DEF ClientStep, GetContexts, PutContexts, Associate, Log, GetArtifactsByUri,
         PutArtifacts, Attribute, PutEvents, Lost, clientVars, At, Goes, WithExecution, Logging,
         SdkInv, TypeInv
    <3> QED
      BY <3>1, <3>2
  <2>3. W \subseteq V
    BY <1>4, <2>2 DEF WithExecution
  <2> QED
    BY <1>3, <2>1, <2>3
<1> QED
  BY <1>5, <1>6, <1>7

(* Calls of log_input and log_output that have come past put_events or     *)
(* ended with an exception: all, but for the one a client is in.           *)
Settled(c) == IF step[c] \in Logging \ {"ready"} THEN logs[c] - 1 ELSE logs[c]
SettledCalls == UNION {{c} \X (1 .. Settled(c)) : c \in Clients}

EventsCounted ==
    /\ logs \in [Clients -> Nat]
    /\ \A c \in Clients : step[c] \in Logging \ {"ready"} => logs[c] > 0
    /\ \A e \in DOMAIN events : events[e] \in Nat
    /\ IsFiniteSet(EventCopies) /\ IsFiniteSet(LogCalls)
    /\ Cardinality(EventCopies) <= Cardinality(SettledCalls) + lost["put_events"]

(* An event more is one copy more.                                         *)
LEMMA CopiesAdd ==
    ASSUME \A e \in DOMAIN events : events[e] \in Nat, NEW c \in Clients, AddEvent(c)
    PROVE  /\ \A e \in DOMAIN events' : events'[e] \in Nat
           /\ \E x : EventCopies' \subseteq EventCopies \cup {x}
<1> DEFINE v == [artifact |-> Id(c), execution |-> execution[c]]
           n == IF v \in DOMAIN events THEN events[v] ELSE 0
<1>1. /\ DOMAIN events' = DOMAIN events \cup {v} /\ n \in Nat
      /\ \A e \in DOMAIN events' : events'[e] = IF e = v THEN n + 1 ELSE events[e]
  <2>1. events' = events (+) SetToBag({v})
    BY DEF AddEvent
  <2>2. DOMAIN SetToBag({v}) = {v} /\ SetToBag({v})[v] = 1
    BY DEF SetToBag
  <2>3. n \in Nat
    OBVIOUS
  <2> HIDE DEF v
  <2>4. DOMAIN events' = DOMAIN events \cup {v}
    BY <2>1, BagAdd
  <2>5. ASSUME NEW e \in DOMAIN events'
        PROVE  events'[e] = (IF e \in DOMAIN events THEN events[e] ELSE 0)
                            + (IF e = v THEN 1 ELSE 0)
    BY <2>1, <2>2, <2>4 DEF (+)
  <2>6. ASSUME NEW e \in DOMAIN events'
        PROVE  events'[e] = IF e = v THEN n + 1 ELSE events[e]
    <3>1. e # v => e \in DOMAIN events
      BY <2>4
    <3> QED
      BY <2>5, <3>1
  <2> QED
    BY <2>3, <2>4, <2>6
<1> HIDE DEF v, n
<1>2. \A e \in DOMAIN events' : events'[e] \in Nat
  BY <1>1
<1>3. EventCopies' \subseteq EventCopies \cup {<<v, n + 1>>}
  <2> SUFFICES ASSUME NEW e \in DOMAIN events', NEW i \in 1 .. events'[e]
               PROVE  <<e, i>> \in EventCopies \cup {<<v, n + 1>>}
    BY DEF EventCopies
  <2>1. CASE e = v
    <3>1. i \in 1 .. n + 1
      BY <1>1, <2>1
    <3>2. i = n + 1 \/ (i \in 1 .. n /\ n # 0)
      BY <1>1, <3>1
    <3>3. i \in 1 .. n /\ n # 0 => v \in DOMAIN events /\ i \in 1 .. events[v]
      BY DEF n
    <3> QED
      BY <2>1, <3>2, <3>3 DEF EventCopies
  <2>2. CASE e # v
    BY <1>1, <2>2 DEF EventCopies
  <2> QED
    BY <2>1, <2>2
<1> QED
  BY <1>2, <1>3

(* A client's settled calls are among its calls.                           *)
LEMMA SettledFinite ==
    ASSUME EventsCounted
    PROVE  /\ \A c \in Clients : Settled(c) \in Nat /\ Settled(c) <= logs[c]
           /\ SettledCalls \subseteq LogCalls
           /\ IsFiniteSet(SettledCalls) /\ Cardinality(SettledCalls) \in Nat
           /\ Cardinality(SettledCalls) <= Cardinality(LogCalls)
<1>1. \A c \in Clients : Settled(c) \in Nat /\ Settled(c) <= logs[c] /\ logs[c] \in Nat
  BY DEF EventsCounted, Settled
<1>2. SettledCalls \subseteq LogCalls
  <2> SUFFICES ASSUME NEW c \in Clients, NEW i \in 1 .. Settled(c) PROVE i \in 1 .. logs[c]
    BY DEF SettledCalls, LogCalls
  <2> QED
    BY <1>1
<1> QED
  BY <1>1, <1>2, SubsetCard DEF EventsCounted

(* What a step does to the calls: a call more is begun, or settled.        *)
LEMMA CallsStep ==
    ASSUME SdkInv, EventsCounted, NEW c \in Clients, ClientStep(c)
    PROVE  /\ logs' \in [Clients -> Nat]
           /\ \A d \in Clients : step'[d] \in Logging \ {"ready"} => logs'[d] > 0
           /\ \A d \in Clients : d # c => logs'[d] = logs[d] /\ Settled(d)' = Settled(d)
           /\ logs'[c] \in {logs[c], logs[c] + 1}
           /\ Settled(c)' \in {Settled(c), Settled(c) + 1}
           /\ PutEvents(c) => Settled(c)' = Settled(c) + 1
<1>1. \A d \in Clients : d # c => step'[d] = step[d] /\ logs'[d] = logs[d]
  BY DEF ClientStep, GetContexts, PutContexts, PutExecutions, Associate, Log,
     GetArtifactsByUri, PutArtifacts, Attribute, PutEvents, Lost, Raise, clientVars, Goes,
     SdkInv, TypeInv, EventsCounted
<1>2. logs[c] \in Nat /\ (step[c] \in Logging \ {"ready"} => logs[c] > 0) /\ step[c] \in Steps
  BY DEF EventsCounted, SdkInv, TypeInv
<1>3. CASE \E m \in Models : Log(c, m)
  <2>1. /\ step[c] = "ready" /\ step'[c] \in {"by_uri", "put_events"}
        /\ logs' = [logs EXCEPT ![c] = @ + 1]
    BY <1>3 DEF Log, At, Goes, SdkInv, TypeInv
  <2>2. logs' \in [Clients -> Nat] /\ logs'[c] = logs[c] + 1
    BY <2>1 DEF EventsCounted
  <2>3. Settled(c)' = logs[c] /\ Settled(c) = logs[c]
    BY <1>2, <2>1, <2>2 DEF Settled, Logging
  <2>4. ~PutEvents(c)
    BY <2>1 DEF PutEvents, At
  <2> QED
    BY <1>1, <1>2, <2>1, <2>2, <2>3, <2>4 DEF Settled, EventsCounted
<1>4. CASE ~(\E m \in Models : Log(c, m))
  <2>1. UNCHANGED logs
    BY <1>4 DEF ClientStep, GetContexts, PutContexts, PutExecutions, Associate,
       GetArtifactsByUri, PutArtifacts, Attribute, PutEvents, Lost, Raise, clientVars
  <2>2. CASE Raise(c)
    <3>1. step'[c] \in {"contexts", "put_executions", "ready"} /\ ~At(c, "ready")
          /\ (step[c] \in Logging => step'[c] = "ready")
      BY <2>2 DEF Raise, AfterRaise, Goes, SdkInv, TypeInv, Logging
    <3>2. Settled(c)' = logs[c] /\ Settled(c) \in {logs[c], logs[c] - 1}
      BY <2>1, <3>1 DEF Settled, Logging
    <3>3. ~PutEvents(c) \/ (step[c] = "put_events" /\ Settled(c) = logs[c] - 1)
      BY DEF PutEvents, At, Settled, Logging
    <3> QED
      BY <1>1, <1>2, <2>1, <3>1, <3>2, <3>3 DEF Settled, EventsCounted, Logging
  <2>3. CASE PutEvents(c)
    <3>1. step[c] = "put_events" /\ step'[c] = "ready"
      BY <2>3 DEF PutEvents, At, Goes, SdkInv, TypeInv
    <3>2. Settled(c)' = logs[c] /\ Settled(c) = logs[c] - 1
      BY <2>1, <3>1 DEF Settled, Logging
    <3> QED
      BY <1>1, <1>2, <2>1, <3>1, <3>2 DEF Settled, EventsCounted
  <2>4. CASE ~Raise(c) /\ ~PutEvents(c)
    <3>1. step'[c] \in Logging \ {"ready"} <=> step[c] \in Logging \ {"ready"}
      BY <1>4, <2>4 DEF ClientStep, GetContexts, PutContexts, PutExecutions, Associate,
         GetArtifactsByUri, PutArtifacts, Attribute, Lost, clientVars, At, Goes, Logging,
         SdkInv, TypeInv
    <3>2. Settled(c)' = Settled(c)
      BY <2>1, <3>1 DEF Settled
    <3> QED
      BY <1>1, <1>2, <2>1, <2>4, <3>1, <3>2 DEF Settled, EventsCounted
  <2> QED
    BY <2>2, <2>3, <2>4
<1> QED
  BY <1>3, <1>4

LEMMA EventsStep ==
    ASSUME SdkInv, EventsCounted, NEW c \in Clients, ClientStep(c)
    PROVE  EventsCounted'
<1> DEFINE P == SettledCalls
           Q == SettledCalls'
<1>1. /\ lost["put_events"] \in Nat
      /\ lost'["put_events"] = IF Lost(c) /\ At(c, "put_events")
                               THEN lost["put_events"] + 1 ELSE lost["put_events"]
  BY LostGrows DEF SdkInv, TypeInv
<1>2. /\ \A d \in Clients : Settled(d) \in Nat /\ logs[d] \in Nat
      /\ IsFiniteSet(P) /\ Cardinality(P) \in Nat
      /\ IsFiniteSet(EventCopies) /\ Cardinality(EventCopies) \in Nat
  BY SettledFinite, FS_CardinalityType DEF EventsCounted
<1>3. /\ \A d \in Clients : Settled(d)' \in Nat /\ logs'[d] \in Nat
      /\ \A d \in Clients : d # c => logs'[d] = logs[d] /\ Settled(d)' = Settled(d)
      /\ logs'[c] \in {logs[c], logs[c] + 1}
      /\ Settled(c)' \in {Settled(c), Settled(c) + 1}
  BY <1>2, CallsStep
<1>4. IsFiniteSet(LogCalls)'
  <2>1. LogCalls' \subseteq LogCalls \cup {<<c, logs[c] + 1>>}
    <3> SUFFICES ASSUME NEW d \in Clients, NEW i \in 1 .. logs'[d]
                 PROVE  <<d, i>> \in LogCalls \cup {<<c, logs[c] + 1>>}
      BY DEF LogCalls
    <3>1. i \in 1 .. logs[d] \/ (d = c /\ i = logs[c] + 1)
      BY <1>2, <1>3
    <3> QED
      BY <3>1 DEF LogCalls
  <2>2. IsFiniteSet(LogCalls)
    BY DEF EventsCounted
  <2> HIDE DEF P, Q
  <2> QED
    BY <2>1, <2>2, GrowCard
<1>5. P \subseteq Q /\ IsFiniteSet(Q) /\ Cardinality(Q) \in Nat
      /\ (PutEvents(c) => <<c, Settled(c) + 1>> \in Q)
  <2>1. P \subseteq Q
    <3> SUFFICES ASSUME NEW d \in Clients, NEW i \in 1 .. Settled(d) PROVE i \in 1 .. Settled(d)'
      BY DEF SettledCalls
    <3> QED
      BY <1>2, <1>3
  <2>2. Q \subseteq P \cup {<<c, Settled(c) + 1>>}
    <3> SUFFICES ASSUME NEW d \in Clients, NEW i \in 1 .. Settled(d)'
                 PROVE  <<d, i>> \in P \cup {<<c, Settled(c) + 1>>}
      BY DEF SettledCalls
    <3>1. i \in 1 .. Settled(d) \/ (d = c /\ i = Settled(c) + 1)
      BY <1>2, <1>3
    <3> QED
      BY <3>1 DEF SettledCalls
  <2>3. PutEvents(c) => <<c, Settled(c) + 1>> \in Q
    <3> SUFFICES ASSUME PutEvents(c) PROVE Settled(c) + 1 \in 1 .. Settled(c)'
      BY DEF SettledCalls
    <3>1. Settled(c)' = Settled(c) + 1
      BY CallsStep
    <3> QED
      BY <1>2, <3>1
  <2> HIDE DEF P, Q
  <2> QED
    BY <1>2, <2>1, <2>2, <2>3, GrowCard
<1>6. <<c, Settled(c) + 1>> \notin P
  BY <1>2 DEF SettledCalls
<1>7. CASE AddEvent(c) /\ (PutEvents(c) \/ (Lost(c) /\ At(c, "put_events")))
  <2>1. /\ \A e \in DOMAIN events' : events'[e] \in Nat
        /\ \E x : EventCopies' \subseteq EventCopies \cup {x}
    BY <1>7, CopiesAdd DEF EventsCounted
  <2>2. /\ IsFiniteSet(EventCopies') /\ Cardinality(EventCopies') \in Nat
        /\ Cardinality(EventCopies') <= Cardinality(EventCopies) + 1
    BY <1>2, <2>1, GrowCard
  <2> HIDE DEF P, Q
  <2>3. Cardinality(P) <= Cardinality(Q)
    BY <1>2, <1>5, SubsetCard
  <2>4. PutEvents(c) => Cardinality(P) + 1 <= Cardinality(Q)
    <3> DEFINE x == <<c, Settled(c) + 1>>
    <3> SUFFICES ASSUME PutEvents(c) PROVE Cardinality(P) + 1 <= Cardinality(Q)
      OBVIOUS
    <3>1. x \in Q /\ P \subseteq Q \ {x}
      BY <1>5, <1>6
    <3> HIDE DEF x
    <3>2. IsFiniteSet(Q \ {x}) /\ Cardinality(Q \ {x}) = Cardinality(Q) - 1
      BY <1>5, <3>1, FS_RemoveElement
    <3>3. Cardinality(P) <= Cardinality(Q \ {x})
      BY <3>1, <3>2, SubsetCard
    <3> QED
      BY <1>2, <1>5, <3>2, <3>3
  <2>5. Cardinality(EventCopies) <= Cardinality(P) + lost["put_events"]
    BY DEF EventsCounted, P
  <2>6. Cardinality(EventCopies') <= Cardinality(Q) + lost'["put_events"]
    BY <1>1, <1>2, <1>5, <1>7, <2>2, <2>3, <2>4, <2>5
  <2> QED
    BY <1>4, <2>1, <2>2, <2>6, CallsStep DEF EventsCounted, Q
<1>8. CASE UNCHANGED events
  <2>1. UNCHANGED EventCopies
    BY <1>8 DEF EventCopies
  <2>2. Cardinality(EventCopies) <= Cardinality(P) + lost["put_events"]
    BY DEF EventsCounted
  <2> HIDE DEF P, Q
  <2>3. Cardinality(P) <= Cardinality(Q)
    BY <1>2, <1>5, SubsetCard
  <2>4. Cardinality(EventCopies) <= Cardinality(Q) + lost'["put_events"]
    BY <1>1, <1>2, <1>5, <2>2, <2>3
  <2> QED
    BY <1>2, <1>4, <1>8, <2>1, <2>4, CallsStep DEF EventsCounted, Q
<1>9. UNCHANGED events \/ (AddEvent(c) /\ (PutEvents(c) \/ (Lost(c) /\ At(c, "put_events"))))
  BY DEF ClientStep, GetContexts, PutContexts, PutExecutions, Associate, Log,
     GetArtifactsByUri, PutArtifacts, Attribute, PutEvents, Lost, Raise, storeVars
<1> QED
  BY <1>7, <1>8, <1>9

LEMMA CountedInit == Init => ArtifactsCounted /\ ExecutionsCounted /\ EventsCounted
<1> SUFFICES ASSUME Init PROVE ArtifactsCounted /\ ExecutionsCounted /\ EventsCounted
  OBVIOUS
<1>1. /\ artifacts = 0 /\ executions = 0
      /\ lost["put_artifacts"] = 0 /\ lost["put_executions"] = 0 /\ lost["put_events"] = 0
      /\ raised["associate"] = 0
  BY DEF Init
<1>2. Cardinality(WithId) \in Nat /\ Cardinality(WithExecution) \in Nat
  BY ClientsCard DEF WithId, WithExecution
<1>3. EventCopies = {}
  BY DEF Init, EventCopies, EmptyBag, SetToBag
<1>4. /\ \A c \in Clients : step[c] = "contexts" /\ logs[c] = 0 /\ Settled(c) = 0
      /\ logs \in [Clients -> Nat]
  BY DEF Init, Settled, Logging
<1>5. LogCalls = {} /\ SettledCalls = {}
  BY <1>4 DEF LogCalls, SettledCalls
<1>6. EventsCounted
  <2>1. \A e \in DOMAIN events : events[e] \in Nat
    BY DEF Init, EmptyBag, SetToBag
  <2> QED
    BY <1>1, <1>3, <1>4, <1>5, <2>1, FS_EmptySet DEF EventsCounted, Logging
<1> QED
  BY <1>1, <1>2, <1>6 DEF ArtifactsCounted, ExecutionsCounted

LEMMA CountedNext ==
    SdkInv /\ ArtifactsCounted /\ ExecutionsCounted /\ EventsCounted /\ [Next]_vars
        => ArtifactsCounted' /\ ExecutionsCounted' /\ EventsCounted'
<1> SUFFICES ASSUME SdkInv, ArtifactsCounted, ExecutionsCounted, EventsCounted, [Next]_vars
             PROVE  ArtifactsCounted' /\ ExecutionsCounted' /\ EventsCounted'
  OBVIOUS
<1>1. ASSUME NEW c \in Clients, ClientStep(c)
      PROVE  ArtifactsCounted' /\ ExecutionsCounted' /\ EventsCounted'
  BY <1>1, ArtifactsStep, ExecutionsStep, EventsStep
<1>2. CASE UNCHANGED vars
  BY <1>2 DEF vars, clientVars, storeVars, ArtifactsCounted, WithId, ExecutionsCounted,
     WithExecution, EventsCounted, EventCopies, LogCalls, SettledCalls, Settled
<1> QED
  BY <1>1, <1>2 DEF Next

(* Whatever clients race, answers are lost and exceptions raised, the      *)
(* store has no artifact, execution or event that is not explained by one  *)
(* of those (_retry around put, metadata.py:286-291, 334, 352, 388-395).   *)
THEOREM DuplicatesHaveReason == Spec => []DuplicatesExplained
<1>1. TypeInv /\ ArtifactsCounted /\ ExecutionsCounted /\ EventsCounted => DuplicatesExplained
  <2> SUFFICES ASSUME TypeInv, ArtifactsCounted, ExecutionsCounted, EventsCounted
               PROVE  ArtifactsExplained /\ ExecutionsExplained /\ EventsExplained
    BY DEF DuplicatesExplained
  <2>1. /\ lost["put_artifacts"] \in Nat /\ lost["put_executions"] \in Nat
        /\ lost["put_events"] \in Nat /\ raised["associate"] \in Nat
        /\ artifacts \in Nat /\ executions \in Nat
    BY DEF TypeInv
  <2>2. /\ Cardinality(WithId) \in Nat /\ Cardinality(WithExecution) \in Nat
        /\ Cardinality(WithId) <= Cardinality(Clients)
        /\ Cardinality(WithExecution) <= Cardinality(Clients) /\ Cardinality(Clients) \in Nat
    BY ClientsCard DEF WithId, WithExecution
  <2>3. /\ Cardinality(EventCopies) \in Nat /\ Cardinality(LogCalls) \in Nat
        /\ Cardinality(SettledCalls) \in Nat
        /\ Cardinality(SettledCalls) <= Cardinality(LogCalls)
    BY SettledFinite, FS_CardinalityType DEF EventsCounted
  <2>4. ArtifactsExplained /\ ExecutionsExplained
    BY <2>1, <2>2 DEF ArtifactsCounted, ExecutionsCounted, ArtifactsExplained, ExecutionsExplained
  <2>5. EventsExplained
    BY <2>1, <2>3 DEF EventsCounted, EventsExplained
  <2> QED
    BY <2>4, <2>5
<1>2. SdkInv => TypeInv
  BY DEF SdkInv
<1> QED
  BY <1>1, <1>2, CountedInit, CountedNext, SdkInductive, PTL DEF Spec
=============================================================================
