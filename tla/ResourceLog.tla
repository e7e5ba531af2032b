----------------------------- MODULE ResourceLog -----------------------------
(***************************************************************************)
(* What the resource watcher promises of the objects of one kind: an       *)
(* object it was told of is logged, once, unless the watcher dies first    *)
(* (it is then told of the object again if that still exists).             *)
(***************************************************************************)
EXTENDS Naturals

CONSTANT Objects

VARIABLES
    told,  \* objects the running watcher was told of
    log    \* artifacts logged for each object

vars == <<told, log>>

Init ==
    /\ told = {}
    /\ log = [u \in Objects |-> 0]

Tell(S) ==
    /\ told' = told \cup S
    /\ UNCHANGED log

Record(u) ==
    /\ u \in told
    /\ log[u] = 0
    /\ log' = [log EXCEPT ![u] = 1]
    /\ UNCHANGED told

Forget ==
    /\ told' = {}
    /\ UNCHANGED log

Next ==
    \/ \E S \in SUBSET Objects : Tell(S)
    \/ \E u \in Objects : Record(u)
    \/ Forget

(* What is never done, and with what is done in the end.                   *)
SafeSpec == Init /\ [][Next]_vars

Spec == SafeSpec /\ \A u \in Objects : WF_vars(Record(u))
=============================================================================
