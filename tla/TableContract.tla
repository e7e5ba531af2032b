---------------------------- MODULE TableContract ----------------------------
(***************************************************************************)
(* What a table promises the page it is in: it asks the page to reload     *)
(* only while it is mounted, for the query its header shows at that        *)
(* moment, and it shows the spinner from the moment it asks until an       *)
(* answer, any answer, comes.  Requests may overlap and are answered in    *)
(* any order.                                                              *)
(***************************************************************************)
CONSTANTS
    Queries,  \* what a table can ask for: filter, sort column and order, page size
    Slots,    \* bound: requests outstanding at one time
    None

VARIABLES
    phase,    \* new, mounted, gone
    header,   \* the query the header of the table shows
    asked,    \* of each slot: the query asked for, or None
    busy      \* the spinner

tableVars == <<phase, header, asked, busy>>

TableInit ==
    /\ phase = "new"
    /\ header \in Queries
    /\ asked = [s \in Slots |-> None]
    /\ busy = FALSE

(* reload: the header takes the query over, the spinner starts.            *)
Ask(q, s) ==
    /\ asked[s] = None
    /\ header' = q
    /\ asked' = [asked EXCEPT ![s] = q]
    /\ busy' = TRUE

Open(s) ==
    /\ phase = "new" /\ phase' = "mounted"
    /\ Ask(header, s)

Reload(q, s) ==
    /\ phase = "mounted"
    /\ Ask(q, s)
    /\ UNCHANGED phase

(* finally: the spinner stops, whether the page answered or failed.        *)
Settle(s) ==
    /\ asked[s] # None
    /\ asked' = [asked EXCEPT ![s] = None]
    /\ busy' = (busy /\ phase # "mounted")
    /\ UNCHANGED <<phase, header>>

Close ==
    /\ phase = "mounted" /\ phase' = "gone"
    /\ UNCHANGED <<header, asked, busy>>

TableNext ==
    \/ \E s \in Slots : Open(s) \/ Settle(s) \/ \E q \in Queries : Reload(q, s)
    \/ Close

TableSpec == TableInit /\ [][TableNext]_tableVars
=============================================================================
