----------------------------- MODULE RoutedPage ------------------------------
(***************************************************************************)
(* The router and the frame it puts around every page                      *)
(* (src/frontend/src/components/Router.tsx, pages/Page.tsx): which page is *)
(* mounted where, and the banner and the title of its toolbar.             *)
(*                                                                         *)
(* A frame and a page component are told from those before them by a       *)
(* number.  What a page does to its frame through its props reaches the    *)
(* frame it was rendered in; once that is unmounted, nobody sees it.       *)
(***************************************************************************)
EXTENDS Integers

CONSTANTS
    Ids,        \* ids of artifacts and of executions that appear in URLs
    MaxMounts,  \* bound: page components mounted
    None

Routes == {"artifacts", "executions", "artifact", "execution", "notFound"}
Lists  == {"artifacts", "executions"}
Details == {"artifact", "execution"}

(* Stands for what an execution's URL may have in place of an id.          *)
NotAnId == -1

Tabs == {"overview", "lineage"}

ArtifactLocations  == [route : {"artifact"}, id : Ids, tab : Tabs]
ExecutionLocations == [route : {"execution"}, id : Ids \cup {NotAnId}, tab : {"overview"}]
OtherLocations     == [route : Lists \cup {"notFound"}, id : {0}, tab : {"overview"}]

Locations == OtherLocations \cup ExecutionLocations \cup ArtifactLocations

VARIABLES
    location,  \* the URL: route, id, tab
    frame,     \* number of the RoutedPage mounted
    page,      \* number of the page component mounted in it
    banner,    \* the page whose error the banner shows, or None
    title      \* the page whose title the toolbar shows

frameVars == <<location, frame, page, banner, title>>

(* Page components.                                                        *)
Pages == [route : Routes, id : Int, frame : Nat, page : Nat]

ASSUME RoutedAssumption == Ids \subseteq Nat \ {0} /\ None \notin Int \cup Pages

(* The one that is mounted at the location l.                              *)
Page(l, f, p) == [route |-> l.route, id |-> l.id, frame |-> f, page |-> p]
Current == Page(location, frame, page)

IsMounted(p) == p.page = page

FrameInit ==
    /\ location = [route |-> "artifacts", id |-> 0, tab |-> "overview"]
    /\ frame = 1 /\ page = 1
    /\ banner = None
    /\ title = Page(location, 1, 1)

(* updateBanner, updateToolbar, bound to the frame of the page.            *)
BannerAfter(p, new) == IF p.frame = frame THEN new ELSE banner
ShowPageError(p) == banner' = BannerAfter(p, p)
ClearBanner(p)   == banner' = BannerAfter(p, None)
SetTitle(p)      == title' = IF p.frame = frame THEN p ELSE title

-----------------------------------------------------------------------------
(* Every route has a Route with a key of its own, so another route mounts  *)
(* another RoutedPage.  Within a route the key is location.key, which hash *)
(* histories do not have: the RoutedPage stays.                            *)

(* Mutant: the Routes have no keys.                                        *)
SharesFrame(l) == TRUE

SameFrame(l) == l.route = location.route

(* Mutant: ArtifactDetails without its key.                                *)
SamePageUnkeyed(l) == l.route = location.route

(* EnhancedArtifactDetails gives ArtifactDetails its id as a key.          *)
SamePage(l) == l.route = location.route /\ (l.route = "artifact" => l.id = location.id)

(* ExecutionDetails does not ask for what is no number, and says so.       *)
HasNoId(p) == p.route = "execution" /\ p.id = NotAnId

BannerAtMount(p) == IF HasNoId(p) THEN p ELSE None

(* The page that goes clears the banner of its frame, the one that comes   *)
(* sets its title there, in its constructor.                               *)
Mount(l) ==
    /\ ~SamePage(l)
    /\ page < MaxMounts
    /\ location' = l
    /\ frame' = IF SameFrame(l) THEN frame ELSE frame + 1
    /\ page' = page + 1
    /\ title' = Page(l, frame', page')
    /\ banner' = BannerAtMount(title')

(* switchTab of ArtifactDetails; or another execution in the address bar.  *)
Stay(l) ==
    /\ l # location /\ SamePage(l)
    /\ location' = l
    /\ UNCHANGED <<frame, page, banner, title>>

-----------------------------------------------------------------------------
(* "This avoids many bugs like dangling network response handlers"         *)
(* (Router.tsx:130-132): an answer that comes after the user has left for  *)
(* a page of another route puts neither its error nor its title there.     *)
FrameIsOfRoute ==
    /\ banner # None => banner.route = location.route
    /\ title.route = location.route
=============================================================================
