------------------------------ MODULE SdkClient ------------------------------
(***************************************************************************)
(* Clients of the Python SDK (src/sdk/python/kubeflow/metadata/metadata.py) *)
(* that log models of one uri, name and version in one workspace.  Each    *)
(* opens the workspace, makes an execution of its own and logs artifacts   *)
(* as inputs or outputs of it.                                             *)
(*                                                                         *)
(* Every call of the store is wrapped in _retry: whatever exception it     *)
(* ends with, it is made again, for four seconds, then the exception goes  *)
(* to the caller.  An exception says nothing of whether the store executed *)
(* the call.  A call that fails without a trace and is made again leaves   *)
(* everything as it was, and is no step here.                              *)
(***************************************************************************)
EXTENDS Naturals, FiniteSets, Bags

CONSTANTS
    Clients,
    Models,     \* a client's Model objects, all with the same uri, name and version
    MaxLogs,    \* bound: log_input and log_output called by a client
    MaxLost,    \* bound: answers lost of calls that are not idempotent
    MaxRaised,  \* bound: exceptions of calls that leave something behind
    None

ASSUME ClientsAssumption == IsFiniteSet(Clients) /\ None \notin Nat

VARIABLES
    (* of each client: *)
    step,        \* the call of the store it is at, or ready
    execution,   \* the id of its execution, or None
    model,       \* the object it logs or has logged last
    id,          \* of each of its objects: artifact.id, None at first
    logs,        \* calls of log_input and log_output begun
    logged,      \* history: objects for which such a call returned
    (* of the store, which gives ids 1, 2, ...: *)
    workspace,   \* whether the workspace's context is there
    executions,  \* number of executions
    associated,  \* executions associated with the workspace
    artifacts,   \* number of artifacts of that uri, name and version
    attributed,  \* artifacts attributed to the workspace
    events,      \* bag of [artifact, execution]
    (* histories: *)
    lost,        \* answers lost, by call
    raised       \* exceptions, by call

clientVars == <<step, execution, model, id, logs, logged>>
storeVars  == <<workspace, executions, associated, artifacts, attributed, events>>
vars == <<clientVars, storeVars, lost, raised>>

Init ==
    /\ step = [c \in Clients |-> "contexts"]
    /\ execution = [c \in Clients |-> None]
    /\ model \in [Clients -> Models]
    /\ id = [c \in Clients |-> [m \in Models |-> None]]
    /\ logs = [c \in Clients |-> 0]
    /\ logged = [c \in Clients |-> {}]
    /\ workspace = FALSE /\ executions = 0 /\ associated = {}
    /\ artifacts = 0 /\ attributed = {} /\ events = EmptyBag
    /\ lost = [s \in {"put_executions", "put_artifacts", "put_events"} |-> 0]
    /\ raised = [s \in {"associate", "attribute"} |-> 0]

At(c, s)   == step[c] = s
Goes(c, s) == step' = [step EXCEPT ![c] = s]

Id(c) == id[c][model[c]]

-----------------------------------------------------------------------------
(* Workspace and Execution.                                                *)

(* _get_existing_context: get_contexts_by_type, searched by name.          *)
GetContexts(c) ==
    /\ At(c, "contexts")
    /\ Goes(c, IF workspace THEN "put_executions" ELSE "put_contexts")
    /\ UNCHANGED <<execution, model, id, logs, logged, storeVars, lost, raised>>

(* The store has one context of a name.                                    *)
PutContexts(c) ==
    /\ At(c, "put_contexts")
    /\ ~workspace /\ workspace' = TRUE
    /\ Goes(c, "put_executions") \/ UNCHANGED step
    /\ UNCHANGED <<execution, model, id, logs, logged, executions, associated, artifacts,
                   attributed, events, lost, raised>>

PutExecutions(c) ==
    /\ At(c, "put_executions")
    /\ executions' = executions + 1
    /\ execution' = [execution EXCEPT ![c] = executions']
    /\ Goes(c, "associate")
    /\ UNCHANGED <<model, id, logs, logged, workspace, associated, artifacts, attributed, events,
                   lost, raised>>

Associate(c) ==
    /\ At(c, "associate")
    /\ associated' = associated \cup {execution[c]}
    /\ Goes(c, "ready") \/ UNCHANGED step
    /\ UNCHANGED <<execution, model, id, logs, logged, workspace, executions, artifacts,
                   attributed, events, lost, raised>>

-----------------------------------------------------------------------------
(* log_input, log_output                                                   *)

(* _log: an artifact with an id is looked up by that, and is there.        *)
Log(c, m) ==
    /\ At(c, "ready") /\ logs[c] < MaxLogs
    /\ model' = [model EXCEPT ![c] = m]
    /\ logs' = [logs EXCEPT ![c] = @ + 1]
    /\ Goes(c, IF id[c][m] = None THEN "by_uri" ELSE "put_events")
    /\ UNCHANGED <<execution, id, logged, storeVars, lost, raised>>

(* Mutant: the artifacts found are not compared with this one.             *)
GetArtifactsByUriUnused(c) ==
    /\ At(c, "by_uri")
    /\ Goes(c, "put_artifacts")
    /\ UNCHANGED <<execution, model, id, logs, logged, storeVars, lost, raised>>

(* The first of the duplicates in the answer, in whatever order.           *)
GetArtifactsByUri(c) ==
    /\ At(c, "by_uri")
    /\ \/ artifacts = 0 /\ Goes(c, "put_artifacts") /\ UNCHANGED id
       \/ \E a \in 1 .. artifacts :
             id' = [id EXCEPT ![c][model[c]] = a] /\ Goes(c, "put_events")
    /\ UNCHANGED <<execution, model, logs, logged, storeVars, lost, raised>>

(* Mutant: the new artifact is not attributed to the workspace.            *)
PutArtifactsOnly(c) ==
    /\ At(c, "put_artifacts")
    /\ artifacts' = artifacts + 1
    /\ id' = [id EXCEPT ![c][model[c]] = artifacts']
    /\ Goes(c, "put_events")
    /\ UNCHANGED <<execution, model, logs, logged, workspace, executions, associated, attributed,
                   events, lost, raised>>

PutArtifacts(c) ==
    /\ At(c, "put_artifacts")
    /\ artifacts' = artifacts + 1
    /\ id' = [id EXCEPT ![c][model[c]] = artifacts']
    /\ Goes(c, "attribute")
    /\ UNCHANGED <<execution, model, logs, logged, workspace, executions, associated, attributed,
                   events, lost, raised>>

Attribute(c) ==
    /\ At(c, "attribute")
    /\ attributed' = attributed \cup {Id(c)}
    /\ Goes(c, "put_events") \/ UNCHANGED step
    /\ UNCHANGED <<execution, model, id, logs, logged, workspace, executions, associated,
                   artifacts, events, lost, raised>>

AddEvent(c) == events' = events (+) SetToBag({[artifact |-> Id(c), execution |-> execution[c]]})

(* Mutant: an event that is there already is taken for this one.           *)
PutEventsOfOther(c) ==
    /\ At(c, "put_events")
    /\ IF \E e \in DOMAIN events : e.artifact = Id(c) THEN UNCHANGED events ELSE AddEvent(c)
    /\ logged' = [logged EXCEPT ![c] = @ \cup {model[c]}]
    /\ Goes(c, "ready")
    /\ UNCHANGED <<execution, model, id, logs, workspace, executions, associated, artifacts,
                   attributed, lost, raised>>

PutEvents(c) ==
    /\ At(c, "put_events")
    /\ AddEvent(c)
    /\ logged' = [logged EXCEPT ![c] = @ \cup {model[c]}]
    /\ Goes(c, "ready")
    /\ UNCHANGED <<execution, model, id, logs, workspace, executions, associated, artifacts,
                   attributed, lost, raised>>

-----------------------------------------------------------------------------
(* _retry                                                                  *)

(* A call the store executes and answers with an exception is made again.  *)
(* Those that would change nothing a second time are above.                *)
Lost(c) ==
    /\ step[c] \in DOMAIN lost /\ lost[step[c]] < MaxLost
    /\ lost' = [lost EXCEPT ![step[c]] = @ + 1]
    /\ executions' = executions + (IF At(c, "put_executions") THEN 1 ELSE 0)
    /\ artifacts' = artifacts + (IF At(c, "put_artifacts") THEN 1 ELSE 0)
    /\ IF At(c, "put_events") THEN AddEvent(c) ELSE UNCHANGED events
    /\ UNCHANGED <<clientVars, workspace, associated, attributed, raised>>

(* Where the caller is when the exception reaches it: an object that was   *)
(* not made it makes again, a log it may call again, with the same object. *)
AfterRaise(s) == IF s \in {"contexts", "put_contexts"} THEN "contexts"
                 ELSE IF s \in {"put_executions", "associate"} THEN "put_executions"
                 ELSE "ready"

Raise(c) ==
    /\ ~At(c, "ready")
    /\ IF step[c] \in DOMAIN raised
       THEN raised[step[c]] < MaxRaised /\ raised' = [raised EXCEPT ![step[c]] = @ + 1]
       ELSE UNCHANGED raised
    /\ Goes(c, AfterRaise(step[c]))
    /\ UNCHANGED <<execution, model, id, logs, logged, storeVars, lost>>

ClientStep(c) ==
    \/ GetContexts(c) \/ PutContexts(c) \/ PutExecutions(c) \/ Associate(c)
    \/ \E m \in Models : Log(c, m)
    \/ GetArtifactsByUri(c) \/ PutArtifacts(c) \/ Attribute(c) \/ PutEvents(c)
    \/ Lost(c) \/ Raise(c)

Next == \E c \in Clients : ClientStep(c)

Spec == Init /\ [][Next]_vars

-----------------------------------------------------------------------------
(* Properties.                                                             *)

ArtifactsExplained  == artifacts <= Cardinality(Clients) + lost["put_artifacts"]
ExecutionsExplained ==
    executions <= Cardinality(Clients) + lost["put_executions"] + raised["associate"]

(* The events and the calls of log_input and log_output, one by one.       *)
EventCopies == UNION {{e} \X (1 .. events[e]) : e \in DOMAIN events}
LogCalls    == UNION {{c} \X (1 .. logs[c]) : c \in Clients}

EventsExplained == Cardinality(EventCopies) <= Cardinality(LogCalls) + lost["put_events"]

(* The store has more than was asked for only by what a lost answer, an    *)
(* exception on the way or a race explains: one artifact for each client   *)
(* that found none before another put its own (metadata.py:388-395), one   *)
(* for each put that was executed twice (line 395), and in the same way    *)
(* executions (286-291) and events (334, 352).                             *)
DuplicatesExplained == ArtifactsExplained /\ ExecutionsExplained /\ EventsExplained

(* An artifact is of its workspace (line 396) unless its put was answered  *)
(* with an exception, or its attribution is under way or given up; what is *)
(* logged again, or found by another client, is not attributed then.       *)
UnattributedExplained ==
    Cardinality((1 .. artifacts) \ attributed) <=
        lost["put_artifacts"] + raised["attribute"] + Cardinality({c \in Clients : At(c, "attribute")})

(* What log_input or log_output has returned (lines 335, 353) has its id   *)
(* set to an artifact of the store, with an event that links it to the     *)
(* client's own execution, which is of the workspace.                      *)
LoggedIsRecorded ==
    \A c \in Clients : \A m \in logged[c] :
        /\ id[c][m] \in 1 .. artifacts
        /\ [artifact |-> id[c][m], execution |-> execution[c]] \in DOMAIN events
        /\ execution[c] \in associated
=============================================================================
