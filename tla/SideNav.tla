------------------------------- MODULE SideNav -------------------------------
(***************************************************************************)
(* The side navigation (src/frontend/src/pages/SideNav.tsx): collapsed or  *)
(* not, by the user's choice, which the browser's local storage keeps      *)
(* (src/frontend/src/lib/LocalStorage.ts), or else by the window's width.  *)
(***************************************************************************)
CONSTANT Unset  \* of the storage: no such item

VARIABLES
    collapsed,
    manual,     \* manualCollapseState
    saved       \* the item navbarCollapsed of the storage

navVars == <<collapsed, manual, saved>>

(* getItem answers null for a missing item, and hasKey compares the answer *)
(* with undefined: every key is there.                                     *)
HasKey(item) == TRUE

IsNavbarCollapsed(item) == item = TRUE

(* The constructor, and the _maybeResize of componentDidMount at the width *)
(* the window has.                                                         *)
Opened(item) == IF HasKey(item) THEN {IsNavbarCollapsed(item)} ELSE BOOLEAN

(* The storage has what an earlier visit left.                             *)
NavInit ==
    /\ saved \in BOOLEAN \cup {Unset}
    /\ manual = HasKey(saved) /\ collapsed \in Opened(saved)

(* _toggleNavClicked: both of its setStates are of the handler's batch and *)
(* read the state before it; the callback runs after both.                 *)
ToggleNavClicked ==
    /\ collapsed' = ~collapsed /\ manual' = TRUE
    /\ saved' = collapsed'

(* Mutant: the width is looked at whatever the user has chosen.            *)
ResizeAlways(narrow) ==
    /\ collapsed' = narrow
    /\ UNCHANGED <<manual, saved>>

(* _maybeResize, when the window gets narrower than 800 pixels or wider.   *)
MaybeResize(narrow) ==
    /\ collapsed' = IF manual THEN collapsed ELSE narrow
    /\ UNCHANGED <<manual, saved>>

(* The browser loads the application again.                                *)
LoadNav == UNCHANGED saved /\ manual' = HasKey(saved) /\ collapsed' \in Opened(saved)

-----------------------------------------------------------------------------
(* What the user chose last is what is shown, over resizes of the window   *)
(* and loads of the application: _toggleNavClicked (SideNav.tsx:242) saves *)
(* the state its two setStates end in.                                     *)
ChoiceIsShown == saved # Unset => collapsed = saved
=============================================================================
