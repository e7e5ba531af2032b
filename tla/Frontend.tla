------------------------------ MODULE Frontend -------------------------------
(***************************************************************************)
(* The web frontend (src/frontend/src): the side navigation, the router,   *)
(* and in it a list page or a page of details, over a store that answers   *)
(* when it likes.  Users go where they like: links, the browser's buttons  *)
(* and the address bar.                                                    *)
(***************************************************************************)
EXTENDS ListPages, DetailPages, SideNav

vars == <<frameVars, listVars, detailVars, navVars>>

Init == FrameInit /\ ListInit /\ NavInit
        /\ shown = None /\ typesKnown = FALSE /\ named = None /\ calls = {}

(* What a list page that goes has asked for is answered all the same.      *)
LateCalls == IF OnList /\ ~AtRest THEN {Call(Current, "list", 1)} ELSE {}

(* React constructs the page that comes, then unmounts the one that goes,  *)
(* then tells the one that has come that it is mounted.                    *)
Navigate(l) ==
    /\ Mount(l)
    /\ OpenList(title')
    /\ MountDetails(title', calls \cup LateCalls)
    /\ UNCHANGED navVars

SwitchWithin(l) == Stay(l) /\ UNCHANGED <<listVars, detailVars, navVars>>

(* A reload of a list page that is gone: it may show an error, clear the   *)
(* banner, or both, more than once before it is done.                      *)
LateListStep(c) ==
    /\ c.step = "list"
    /\ calls' \in {calls, calls \ {c}}
    /\ ShowPageError(c.by) \/ ClearBanner(c.by)
    /\ UNCHANGED <<location, frame, page, title, shown, typesKnown, named>>

NavNext ==
    \/ ToggleNavClicked
    \/ \E narrow \in BOOLEAN : MaybeResize(narrow)

(* The browser loads the application at the URL it is at.                  *)
LoadAgain ==
    /\ page < MaxMounts
    /\ page' = page + 1 /\ frame' = frame + 1
    /\ UNCHANGED location
    /\ title' = Page(location, frame', page')
    /\ banner' = BannerAtMount(title')
    /\ OpenList(title')
    /\ MountDetails(title', {})
    /\ LoadNav

Next ==
    \/ ListNext /\ UNCHANGED <<detailVars, navVars>>
    \/ /\ ~Settling
       /\ \/ \E l \in Locations : Navigate(l) \/ SwitchWithin(l)
          \/ DetailNext /\ UNCHANGED <<listVars, navVars>>
          \/ \E c \in calls : LateListStep(c) /\ UNCHANGED <<listVars, navVars>>
          \/ NavNext /\ UNCHANGED <<frameVars, listVars, detailVars>>
          \/ LoadAgain

Spec == Init /\ [][Next]_vars
=============================================================================
