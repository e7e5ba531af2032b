---------------------------- MODULE MetadataStore ----------------------------
(***************************************************************************)
(* The ML Metadata store as the rest of the system sees it through         *)
(* src/third_party/ml_metadata/metadata_store/mlmetadata: a transactional  *)
(* database of types, of artifacts and executions of those types, and of   *)
(* events between an artifact and an execution.  A type maps property      *)
(* names to value types.  Nothing is ever deleted.                         *)
(***************************************************************************)
EXTENDS Naturals, Sequences

(* PutTypeOptions; AllFieldsMustMatch is TRUE in every call of this system. *)
CreateOptionsAdding   == [canAddFields |-> TRUE, canDeleteFields |-> FALSE]  \* mutant
UpdateOptionsDeleting == [canAddFields |-> TRUE, canDeleteFields |-> TRUE]   \* mutant

CreateOptions == [canAddFields |-> FALSE, canDeleteFields |-> FALSE]
UpdateOptions == [canAddFields |-> TRUE, canDeleteFields |-> FALSE]

(* Mutant: fields of the same name need not match.                         *)
CanPutTypeUnmatched(types, name, props, opts) ==
    name \in DOMAIN types =>
        /\ opts.canDeleteFields \/ DOMAIN types[name] \subseteq DOMAIN props
        /\ opts.canAddFields \/ DOMAIN props \subseteq DOMAIN types[name]

(* PutArtifactType, PutExecutionType: whether the call succeeds, and the    *)
(* types that result.                                                      *)
CanPutType(types, name, props, opts) ==
    name \in DOMAIN types =>
        LET old == types[name] IN
        /\ \A p \in DOMAIN old \cap DOMAIN props : props[p] = old[p]
        /\ opts.canDeleteFields \/ DOMAIN old \subseteq DOMAIN props
        /\ opts.canAddFields \/ DOMAIN props \subseteq DOMAIN old

WithType(types, name, props) ==
    [n \in DOMAIN types \cup {name} |-> IF n = name THEN props ELSE types[n]]

(* PutArtifacts, PutExecutions: the properties given must be properties of *)
(* the type, with its value types.                                         *)
Conforms(given, props) ==
    \A p \in DOMAIN given : p \in DOMAIN props /\ given[p] = props[p]

CanPutEventOneEnd(artifacts, executions, event) ==  \* mutant
    event.artifact \in DOMAIN artifacts \/ event.execution \in DOMAIN executions

(* PutEvents: both ends must exist.                                        *)
CanPutEvent(artifacts, executions, event) ==
    event.artifact \in DOMAIN artifacts /\ event.execution \in DOMAIN executions
=============================================================================
