--------------------------- MODULE FrontendProofs ---------------------------
(***************************************************************************)
(* Theorems about Frontend, for any ids, any number of pages mounted and   *)
(* of calls not answered, and whatever the lists do.                       *)
(*                                                                         *)
(* Calls, the banner and the title remember pages of before.  What makes   *)
(* the properties inductive is that a page that is remembered is no other  *)
(* than the frame, or the page component, that has its number.             *)
(***************************************************************************)
EXTENDS Frontend, RowGroupsProofs

Remembered(p) ==
    /\ p.frame \in Nat /\ p.frame <= frame
    /\ p.page \in Nat /\ p.page <= page
    /\ p.frame = frame => p.route = location.route
    /\ p.page = page =>
          p.route = location.route /\ (p.route = "artifact" => p.id = location.id)

(* Of the frame that is there.                                             *)
InFrame(p) == Remembered(p) /\ p.frame = frame

FrameInv ==
    /\ frame \in Nat /\ page \in Nat
    /\ InFrame(title)
    /\ banner # None => InFrame(banner)
    /\ \A c \in calls : Remembered(c.by)
    /\ ArtifactIsOfUrl

LEMMA CurrentInFrame == ASSUME frame \in Nat, page \in Nat PROVE InFrame(Current)
BY DEF InFrame, Remembered, Current, Page

LEMMA CallsAreOf ==
    ASSUME NEW p, NEW n, NEW c \in CallsOf(p, n) PROVE c.by = p
BY DEF CallsOf, Call

LEMMA FrontendInit == Init => FrameInv
<1> SUFFICES ASSUME Init PROVE FrameInv
  OBVIOUS
<1>1. frame = 1 /\ page = 1 /\ title = Current /\ banner = None /\ calls = {} /\ shown = None
  BY DEF Init, FrameInit, Current
<1>2. InFrame(title)
  BY <1>1, CurrentInFrame
<1> QED
  BY <1>1, <1>2 DEF FrameInv, ArtifactIsOfUrl

-----------------------------------------------------------------------------
(* Steps that leave the user on the page he is on.                         *)

LEMMA Stays ==
    ASSUME FrameInv, UNCHANGED <<location, frame, page>>,
           InFrame(title'),
           banner' # None => InFrame(banner'),
           \A c \in calls' : Remembered(c.by),
           ArtifactIsOfUrl'
    PROVE  FrameInv'
BY DEF FrameInv, InFrame, Remembered

(* What a page does to the banner and the title of its frame.              *)
LEMMA FramesOwn ==
    ASSUME FrameInv, NEW p, Remembered(p)
    PROVE  /\ ShowPageError(p) \/ ClearBanner(p) => (banner' # None => InFrame(banner'))
           /\ SetTitle(p) => InFrame(title')
BY DEF FrameInv, InFrame, ShowPageError, ClearBanner, SetTitle, BannerAfter

LEMMA CurrentRemembered == ASSUME FrameInv PROVE Remembered(Current)
BY CurrentInFrame DEF FrameInv, InFrame

(* A list page only ever writes to the banner of its own frame.            *)
LEMMA ListStep ==
    ASSUME FrameInv, ListNext, UNCHANGED detailVars
    PROVE  FrameInv'
<1>1. /\ UNCHANGED <<location, frame, page, title>>
      /\ UNCHANGED banner \/ ShowPageError(Current) \/ ClearBanner(Current)
  BY DEF ListNext, Body, Ask, TypesAnswered, ItemsLoaded, NoResponse, ItemsFailed, Settle,
         ToggleRowExpand, frameVars
<1>2. banner' # None => InFrame(banner')
  BY <1>1, CurrentRemembered, FramesOwn DEF FrameInv
<1>3. InFrame(title') /\ (\A c \in calls' : Remembered(c.by)) /\ ArtifactIsOfUrl'
  BY <1>1 DEF FrameInv, detailVars, ArtifactIsOfUrl
<1> QED
  BY <1>1, <1>2, <1>3, Stays

LEMMA LateStep ==
    ASSUME FrameInv, NEW c \in calls, LateListStep(c)
    PROVE  FrameInv'
<1>1. Remembered(c.by)
  BY DEF FrameInv
<1>2. banner' # None => InFrame(banner')
  BY <1>1, FramesOwn DEF LateListStep
<1>3. InFrame(title') /\ (\A d \in calls' : Remembered(d.by)) /\ ArtifactIsOfUrl'
  BY DEF FrameInv, LateListStep, ArtifactIsOfUrl
<1> QED
  BY <1>2, <1>3, Stays DEF LateListStep

(* The answer to a call: of the page that is mounted, which is then of the *)
(* id of the URL, or of one that is not.                                   *)
LEMMA AnswerStep ==
    ASSUME FrameInv, NEW c \in calls, UNCHANGED <<location, frame, page>>,
           calls' \subseteq calls \cup Sections(c),
           UNCHANGED title \/ SetTitle(c.by),
           UNCHANGED banner \/ ShowPageError(c.by),
           UNCHANGED shown \/ shown' = IfMounted(c.by, c.by.id, shown)
    PROVE  FrameInv'
<1>1. Remembered(c.by)
  BY DEF FrameInv
<1>2. InFrame(title')
  BY <1>1, FramesOwn DEF FrameInv
<1>3. banner' # None => InFrame(banner')
  BY <1>1, FramesOwn DEF FrameInv
<1>4. \A d \in calls' : Remembered(d.by)
  BY <1>1 DEF FrameInv, Sections, Call
<1>5. ArtifactIsOfUrl'
  BY <1>1 DEF FrameInv, ArtifactIsOfUrl, IfMounted, IsMounted, Remembered
<1> QED
  BY <1>2, <1>3, <1>4, <1>5, Stays

LEMMA RefreshStep ==
    ASSUME FrameInv, Refresh
    PROVE  FrameInv'
<1> DEFINE p == IF IsMounted(banner) THEN Current ELSE banner
<1>1. InFrame(p)
  BY CurrentInFrame DEF FrameInv, Refresh
<1>2. calls' = calls \cup CallsOf(p, NewLoad(p)) /\ banner' \in {p, banner}
  BY DEF Refresh
<1> HIDE DEF p
<1>3. banner' # None => InFrame(banner')
  BY <1>1, <1>2 DEF FrameInv
<1>4. \A c \in calls' : Remembered(c.by)
  BY <1>1, <1>2, CallsAreOf DEF FrameInv, InFrame
<1>5. InFrame(title') /\ ArtifactIsOfUrl'
  BY DEF Refresh, FrameInv, ArtifactIsOfUrl
<1> QED
  BY <1>3, <1>4, <1>5, Stays DEF Refresh

LEMMA DetailStep ==
    ASSUME FrameInv, DetailNext
    PROVE  FrameInv'
<1>1. CASE Refresh
  BY <1>1, RefreshStep
<1>2. CASE \E c \in calls :
              \/ ArtifactFound(c) \/ ArtifactNotFound(c)
              \/ ExecutionFound(c) \/ ExecutionNotFound(c)
              \/ TypesLoaded(c) \/ TypesFailed(c) \/ SectionAnswered(c)
  <2> PICK c \in calls :
              \/ ArtifactFound(c) \/ ArtifactNotFound(c)
              \/ ExecutionFound(c) \/ ExecutionNotFound(c)
              \/ TypesLoaded(c) \/ TypesFailed(c) \/ SectionAnswered(c)
    BY <1>2
  <2>1. UNCHANGED <<location, frame, page>> /\ calls' \subseteq calls \cup Sections(c)
    BY DEF ArtifactFound, ArtifactNotFound, ExecutionFound, ExecutionNotFound, TypesLoaded,
           TypesFailed, SectionAnswered, Answered
  <2>2. UNCHANGED title \/ SetTitle(c.by)
    BY DEF ArtifactFound, ArtifactNotFound, ExecutionFound, ExecutionNotFound, TypesLoaded,
           TypesFailed, SectionAnswered
  <2>3. UNCHANGED banner \/ ShowPageError(c.by)
    BY DEF ArtifactFound, ArtifactNotFound, ExecutionFound, ExecutionNotFound, TypesLoaded,
           TypesFailed, SectionAnswered
  <2>4. UNCHANGED shown \/ shown' = IfMounted(c.by, c.by.id, shown)
    BY DEF ArtifactFound, ArtifactNotFound, ExecutionFound, ExecutionNotFound, TypesLoaded,
           TypesFailed, SectionAnswered
  <2> QED
    BY <2>1, <2>2, <2>3, <2>4, AnswerStep
<1> QED
  BY <1>1, <1>2 DEF DetailNext

-----------------------------------------------------------------------------
(* Steps that mount another page.                                          *)

(* What was remembered before is of an earlier page, and of this frame     *)
(* only if the route is the same.                                          *)
LEMMA Mounts ==
    ASSUME FrameInv, NEW others,
           \A c \in others : Remembered(c.by),
           page' = page + 1,
           \/ frame' = frame /\ location'.route = location.route
           \/ frame' = frame + 1,
           title' = Page(location', frame', page'),
           banner' = BannerAtMount(title'),
           MountDetails(title', others)
    PROVE  FrameInv'
<1>1. frame' \in Nat /\ page' \in Nat
  BY DEF FrameInv
<1>2. /\ title'.route = location'.route /\ title'.id = location'.id
      /\ title'.frame = frame' /\ title'.page = page'
  BY DEF Page
<1>3. \A p : Remembered(p) =>
          /\ p.frame \in Nat /\ p.frame <= frame'
          /\ p.page \in Nat /\ p.page <= page' /\ p.page # page'
          /\ p.frame = frame' => p.route = location'.route
  BY DEF FrameInv, Remembered
<1>4. InFrame(title)'
  BY <1>1, <1>2 DEF InFrame, Remembered
<1>5. banner' = None \/ banner' = title'
  BY DEF BannerAtMount
<1>6. (banner # None => InFrame(banner))'
  BY <1>1, <1>2, <1>5 DEF InFrame, Remembered
<1>7. (\A c \in calls : Remembered(c.by))'
  <2> SUFFICES ASSUME NEW c \in calls' PROVE Remembered(c.by)'
    OBVIOUS
  <2>1. CASE c \in others
    BY <2>1, <1>3 DEF Remembered
  <2>2. CASE c \notin others
    <3>1. c.by = title'
      BY <2>2 DEF MountDetails, CallsOf, Call
    <3> QED
      BY <3>1, <1>1, <1>2 DEF Remembered
  <2> QED
    BY <2>1, <2>2
<1>8. ArtifactIsOfUrl'
  BY DEF ArtifactIsOfUrl, MountDetails
<1> QED
  BY <1>1, <1>4, <1>6, <1>7, <1>8 DEF FrameInv

LEMMA NavigateStep ==
    ASSUME FrameInv, NEW l, Navigate(l)
    PROVE  FrameInv'
<1>1. \A c \in calls \cup LateCalls : Remembered(c.by)
  BY CurrentRemembered DEF FrameInv, LateCalls, Call
<1>2. /\ page' = page + 1
      /\ title' = Page(location', frame', page')
      /\ banner' = BannerAtMount(title')
  BY DEF Navigate, Mount
<1>3. \/ frame' = frame /\ location'.route = location.route
      \/ frame' = frame + 1
  BY DEF Navigate, Mount, SameFrame
<1>4. MountDetails(title', calls \cup LateCalls)
  BY DEF Navigate
<1> QED
  BY <1>1, <1>2, <1>3, <1>4, Mounts

LEMMA LoadAgainStep == ASSUME FrameInv, LoadAgain PROVE FrameInv'
<1>1. MountDetails(title', {}) /\ title' = Page(location', frame', page')
  BY DEF LoadAgain
<1>2. \A c \in {} : Remembered(c.by)
  OBVIOUS
<1> QED
  BY <1>1, <1>2, Mounts DEF LoadAgain

(* Another tab, or another execution in the address bar.                   *)
LEMMA SwitchStep ==
    ASSUME FrameInv, NEW l, SwitchWithin(l)
    PROVE  FrameInv'
<1>1. /\ location'.route = location.route
      /\ location.route = "artifact" => location'.id = location.id
      /\ UNCHANGED <<frame, page, banner, title>> /\ UNCHANGED detailVars
  BY DEF SwitchWithin, Stay, SamePage
<1>2. \A p : Remembered(p) =>
          /\ p.frame \in Nat /\ p.frame <= frame'
          /\ p.page \in Nat /\ p.page <= page'
          /\ p.frame = frame' => p.route = location'.route
          /\ p.page = page' =>
                p.route = location'.route /\ (p.route = "artifact" => p.id = location'.id)
  BY <1>1 DEF Remembered
<1>3. InFrame(title)' /\ (banner # None => InFrame(banner))'
  BY <1>1, <1>2 DEF FrameInv, InFrame, Remembered
<1>4. (\A c \in calls : Remembered(c.by))'
  BY <1>1, <1>2 DEF FrameInv, Remembered, detailVars
<1> QED
  BY <1>1, <1>3, <1>4 DEF FrameInv, ArtifactIsOfUrl, detailVars

-----------------------------------------------------------------------------
LEMMA FrontendStep == FrameInv /\ [Next]_vars => FrameInv'
<1> SUFFICES ASSUME FrameInv, [Next]_vars PROVE FrameInv'
  OBVIOUS
<1>1. CASE ListNext /\ UNCHANGED <<detailVars, navVars>>
  BY <1>1, ListStep
<1>2. CASE \E l \in Locations : Navigate(l) \/ SwitchWithin(l)
  BY <1>2, NavigateStep, SwitchStep
<1>3. CASE DetailNext /\ UNCHANGED <<listVars, navVars>>
  BY <1>3, DetailStep
<1>4. CASE \E c \in calls : LateListStep(c) /\ UNCHANGED <<listVars, navVars>>
  BY <1>4, LateStep
<1>5. CASE UNCHANGED <<frameVars, listVars, detailVars>>
  <2>1. UNCHANGED <<location, frame, page, banner, title, shown, typesKnown, named, calls>>
    BY <1>5 DEF frameVars, detailVars
  <2> QED
    BY <2>1, Stays DEF FrameInv, ArtifactIsOfUrl
<1>6. CASE LoadAgain
  BY <1>6, LoadAgainStep
<1> QED
  BY <1>1, <1>2, <1>3, <1>4, <1>5, <1>6 DEF Next, vars

(* Every step of the frontend keeps what is remembered of pages apart.     *)
THEOREM FrameInvHolds == Spec => []FrameInv
BY FrontendInit, FrontendStep, PTL DEF Spec

(* However late answers come, the banner and the title are of a page of    *)
(* the route the user is on (the keys of the Routes, Router.tsx:130).      *)
THEOREM FrameIsOfRouteHolds == Spec => []FrameIsOfRoute
<1>1. FrameInv => FrameIsOfRoute
  BY DEF FrameInv, InFrame, Remembered, FrameIsOfRoute
<1> QED
  BY <1>1, FrameInvHolds, PTL

(* An artifact's page never shows another artifact than that of its URL    *)
(* (the key of ArtifactDetails, ArtifactDetails.tsx:211).                  *)
THEOREM ArtifactIsOfUrlHolds == Spec => []ArtifactIsOfUrl
<1>1. FrameInv => ArtifactIsOfUrl
  BY DEF FrameInv
<1> QED
  BY <1>1, FrameInvHolds, PTL

-----------------------------------------------------------------------------
(* A page of details that lacks something waits for it or says why.        *)

KnownCall(c) ==
    /\ c.by \in Pages
    /\ c.step = "list" => c.by.route \in Lists
    /\ c.by.page = page => c.by.frame = frame

ExplainInv ==
    /\ FrameInv
    /\ location \in Locations
    /\ banner \in Pages \cup {None}
    /\ \A c \in calls : KnownCall(c)
    /\ LoadExplained

LEMMA PageIsPage ==
    ASSUME NEW l \in Locations, NEW f \in Nat, NEW p \in Nat
    PROVE  Page(l, f, p) \in Pages
<1>1. l.route \in Routes
  BY DEF Locations, ArtifactLocations, ExecutionLocations, OtherLocations, Routes, Lists
<1>2. l.id \in Int
  <2>1. Ids \subseteq Int
    BY RoutedAssumption
  <2>2. {NotAnId, 0} \subseteq Int
    BY DEF NotAnId
  <2>3. l.id \in Ids \cup {NotAnId, 0}
    BY DEF Locations, ArtifactLocations, ExecutionLocations, OtherLocations
  <2> QED
    BY <2>1, <2>2, <2>3, Zenon
<1> QED
  BY <1>1, <1>2 DEF Page, Pages

LEMMA NoneIsNoPage == None \notin Pages /\ \A p \in Pages : p.id # None
BY RoutedAssumption DEF Pages

LEMMA ExplainInit == Init => ExplainInv
<1> SUFFICES ASSUME Init PROVE ExplainInv
  OBVIOUS
<1>1. location \in Locations /\ location.route = "artifacts" /\ banner = None /\ calls = {}
  BY DEF Init, FrameInit, Locations, OtherLocations, Lists
<1> QED
  BY <1>1, FrontendInit DEF ExplainInv, LoadExplained, ArtifactSpins, ExecutionSpins,
     SectionsUnlinked

(* A list has no details to explain.                                       *)
LEMMA ListExplained ==
    ASSUME ExplainInv, ListNext, UNCHANGED detailVars
    PROVE  ExplainInv'
<1>1. /\ UNCHANGED <<location, frame, page>> /\ OnList
      /\ UNCHANGED banner \/ ShowPageError(Current) \/ ClearBanner(Current)
  BY DEF ListNext, Body, Ask, TypesAnswered, ItemsLoaded, NoResponse, ItemsFailed, Settle,
         ToggleRowExpand, frameVars, OnArtifacts, OnList, Lists
<1>2. Current \in Pages
  BY PageIsPage DEF Current, ExplainInv, FrameInv
<1>3. banner' \in Pages \cup {None}
  BY <1>1, <1>2 DEF ExplainInv, ShowPageError, ClearBanner, BannerAfter
<1>4. LoadExplained'
  BY <1>1 DEF OnList, Lists, LoadExplained, ArtifactSpins, ExecutionSpins, SectionsUnlinked
<1>5. (\A c \in calls : KnownCall(c))'
  BY <1>1 DEF ExplainInv, KnownCall, detailVars
<1>6. FrameInv'
  BY ListStep DEF ExplainInv
<1> QED
  BY <1>1, <1>3, <1>4, <1>5, <1>6 DEF ExplainInv

(* The late answer to a list can only touch the frame of a list.           *)
LEMMA LateExplained ==
    ASSUME ExplainInv, NEW c \in calls, LateListStep(c)
    PROVE  ExplainInv'
<1>1. /\ UNCHANGED <<location, frame, page, shown, typesKnown>> /\ c.step = "list"
      /\ calls' \in {calls, calls \ {c}}
      /\ banner' \in {banner, c.by, None}
  BY DEF LateListStep, ShowPageError, ClearBanner, BannerAfter
<1>2. banner' \in Pages \cup {None}
  BY <1>1 DEF ExplainInv, KnownCall
<1>3. ASSUME location.route \in Lists PROVE LoadExplained'
  BY <1>1, <1>3 DEF Lists, LoadExplained, ArtifactSpins, ExecutionSpins, SectionsUnlinked
<1>4. ASSUME location.route \notin Lists PROVE LoadExplained'
  <2>1. c.by.frame # frame
    BY <1>1, <1>4 DEF ExplainInv, FrameInv, KnownCall, Remembered
  <2>2. UNCHANGED banner
    BY <2>1 DEF LateListStep, ShowPageError, ClearBanner, BannerAfter
  <2>3. \A d \in calls : d.step # "list" => d \in calls'
    BY <1>1
  <2> QED
    BY <1>1, <2>2, <2>3 DEF ExplainInv, LoadExplained, ArtifactSpins, ExecutionSpins,
       SectionsUnlinked, WaitsFor, IsMounted
<1>5. (\A d \in calls : KnownCall(d))'
  BY <1>1 DEF ExplainInv, KnownCall
<1>6. FrameInv'
  BY LateStep DEF ExplainInv
<1> QED
  BY <1>1, <1>2, <1>3, <1>4, <1>5, <1>6 DEF ExplainInv

LEMMA RefreshExplained ==
    ASSUME ExplainInv, Refresh
    PROVE  ExplainInv'
<1> DEFINE p == IF IsMounted(banner) THEN Current ELSE banner
<1>1. p \in Pages /\ (p.page = page => p.frame = frame) /\ p.route \in Details
  <2>1. CASE IsMounted(banner)
    <3>1. banner.route = location.route
      BY <2>1 DEF ExplainInv, FrameInv, InFrame, Remembered, Refresh
    <3> QED
      BY <2>1, <3>1, PageIsPage DEF Current, Page, ExplainInv, FrameInv, Refresh
  <2>2. CASE ~IsMounted(banner)
    BY <2>2 DEF IsMounted, ExplainInv, Refresh
  <2> QED
    BY <2>1, <2>2
<1>2. /\ calls' = calls \cup CallsOf(p, NewLoad(p)) /\ banner' \in {p, banner} /\ banner # None
      /\ UNCHANGED <<location, frame, page, shown, typesKnown>>
  BY DEF Refresh
<1> HIDE DEF p
<1>3. banner' \in Pages /\ banner' # None
  BY <1>1, <1>2, NoneIsNoPage DEF ExplainInv
<1>4. (\A c \in calls : KnownCall(c))'
  <2> SUFFICES ASSUME NEW c \in calls' PROVE KnownCall(c)'
    OBVIOUS
  <2>1. CASE c \in calls
    BY <1>2, <2>1 DEF ExplainInv, KnownCall
  <2>2. CASE c \in CallsOf(p, NewLoad(p))
    <3>1. c.by = p /\ c.step # "list"
      BY <2>2 DEF CallsOf, Call
    <3> QED
      BY <1>1, <1>2, <3>1 DEF KnownCall
  <2> QED
    BY <1>2, <2>1, <2>2
<1>5. LoadExplained'
  BY <1>3 DEF LoadExplained
<1>6. FrameInv'
  BY RefreshStep DEF ExplainInv
<1> QED
  BY <1>2, <1>3, <1>4, <1>5, <1>6 DEF ExplainInv

(* An answer to the page mounted brings what was lacking or an error; one  *)
(* to another page leaves what this page waits for.                        *)
LEMMA AnswerExplained ==
    ASSUME ExplainInv, NEW c \in calls, UNCHANGED <<location, frame, page>>, FrameInv',
           \/ ArtifactFound(c) \/ ArtifactNotFound(c)
           \/ ExecutionFound(c) \/ ExecutionNotFound(c)
           \/ TypesLoaded(c) \/ TypesFailed(c) \/ SectionAnswered(c)
    PROVE  ExplainInv'
<1> USE DEF IfMounted, IsMounted, Answered
<1>1. KnownCall(c)
  BY DEF ExplainInv
<1>2. calls' \subseteq calls \cup Sections(c) /\ calls \subseteq calls' \cup {c}
  BY DEF ArtifactFound, ArtifactNotFound, ExecutionFound, ExecutionNotFound, TypesLoaded,
         TypesFailed, SectionAnswered
<1>3. UNCHANGED banner \/ ShowPageError(c.by)
  BY DEF ArtifactFound, ArtifactNotFound, ExecutionFound, ExecutionNotFound, TypesLoaded,
         TypesFailed, SectionAnswered
<1>4. banner' \in Pages \cup {None} /\ (banner # None => banner' # None)
  BY <1>1, <1>3, NoneIsNoPage DEF ExplainInv, ShowPageError, BannerAfter, KnownCall
<1>5. (\A d \in calls : KnownCall(d))'
  BY <1>1, <1>2 DEF ExplainInv, KnownCall, Sections, Call
<1>6. shown' # None \/ shown' = shown
  BY <1>1, NoneIsNoPage DEF KnownCall, ArtifactFound, ArtifactNotFound, ExecutionFound,
     ExecutionNotFound, TypesLoaded, TypesFailed, SectionAnswered
<1>7. typesKnown => typesKnown'
  BY DEF ArtifactFound, ArtifactNotFound, ExecutionFound, ExecutionNotFound, TypesLoaded,
         TypesFailed, SectionAnswered
<1>8. ASSUME c.by.page = page, c.step = "artifact"
      PROVE  shown' # None \/ banner' # None
  BY <1>1, <1>8, NoneIsNoPage DEF KnownCall, ShowPageError, BannerAfter, ArtifactFound,
     ArtifactNotFound, ExecutionFound, ExecutionNotFound, TypesLoaded, TypesFailed,
     SectionAnswered
<1>9. ASSUME c.by.page = page, c.step = "execution"
      PROVE  shown' # None \/ banner' # None
  BY <1>1, <1>9, NoneIsNoPage DEF KnownCall, ShowPageError, BannerAfter, ArtifactFound,
     ArtifactNotFound, ExecutionFound, ExecutionNotFound, TypesLoaded, TypesFailed,
     SectionAnswered
<1>10. ASSUME c.by.page = page, c.step = "types"
       PROVE  typesKnown' \/ banner' # None
  BY <1>1, <1>10, NoneIsNoPage DEF KnownCall, ShowPageError, BannerAfter, ArtifactFound,
     ArtifactNotFound, ExecutionFound, ExecutionNotFound, TypesLoaded, TypesFailed,
     SectionAnswered
<1>11. LoadExplained'
  <2>1. (ArtifactSpins => WaitsFor("artifact") \/ banner # None)'
    BY <1>2, <1>4, <1>6, <1>8 DEF ExplainInv, LoadExplained, ArtifactSpins, WaitsFor
  <2>2. (ExecutionSpins => WaitsFor("execution") \/ banner # None)'
    BY <1>2, <1>4, <1>6, <1>9 DEF ExplainInv, LoadExplained, ExecutionSpins, WaitsFor
  <2>3. (SectionsUnlinked => WaitsFor("types") \/ banner # None)'
    BY <1>2, <1>4, <1>7, <1>10 DEF ExplainInv, LoadExplained, SectionsUnlinked, WaitsFor
  <2> QED
    BY <2>1, <2>2, <2>3 DEF LoadExplained
<1> QED
  BY <1>4, <1>5, <1>11 DEF ExplainInv

(* A page of details asks for everything when it is mounted.               *)
LEMMA MountExplained ==
    ASSUME ExplainInv, FrameInv', NEW others, location' \in Locations,
           \A c \in others : KnownCall(c) /\ Remembered(c.by),
           page' = page + 1, frame' \in {frame, frame + 1},
           title' = Page(location', frame', page'),
           banner' = BannerAtMount(title'),
           MountDetails(title', others)
    PROVE  ExplainInv'
<1>1. frame' \in Nat /\ page' \in Nat
  BY DEF ExplainInv, FrameInv
<1>2. /\ title' \in Pages /\ title' # None
      /\ title'.route = location'.route
      /\ title'.frame = frame' /\ title'.page = page'
  <2>1. title' \in Pages
    BY <1>1, PageIsPage
  <2> QED
    BY <2>1, NoneIsNoPage DEF Page
<1>3. banner' \in {None, title'} /\ (HasNoId(title') => banner' = title')
  BY DEF BannerAtMount
<1>4. (\A c \in calls : KnownCall(c))'
  <2> SUFFICES ASSUME NEW c \in calls' PROVE KnownCall(c)'
    OBVIOUS
  <2>1. CASE c \in others
    <3>1. KnownCall(c) /\ c.by.page # page'
      BY <2>1 DEF Remembered, ExplainInv, FrameInv
    <3> QED
      BY <3>1 DEF KnownCall
  <2>2. CASE c \notin others
    <3>1. c.by = title' /\ c.step # "list"
      BY <2>2 DEF MountDetails, CallsOf, Call
    <3> QED
      BY <1>2, <3>1 DEF KnownCall
  <2> QED
    BY <2>1, <2>2
<1>5. location'.route = "artifact" => Call(title', "artifact", 1) \in calls'
  BY <1>2 DEF MountDetails, CallsOf, Details
<1>6. location'.route = "execution" =>
          /\ Call(title', "types", 1) \in calls'
          /\ HasNoId(title') \/ Call(title', "execution", 1) \in calls'
  BY <1>2 DEF MountDetails, CallsOf, Details
<1>7. LoadExplained'
  BY <1>2, <1>3, <1>5, <1>6 DEF LoadExplained, ArtifactSpins, ExecutionSpins,
     SectionsUnlinked, WaitsFor, IsMounted, Call
<1> QED
  BY <1>2, <1>3, <1>4, <1>7 DEF ExplainInv

LEMMA NavigateExplained ==
    ASSUME ExplainInv, NEW l \in Locations, Navigate(l)
    PROVE  ExplainInv'
<1>1. FrameInv'
  BY NavigateStep DEF ExplainInv
<1>2. Current \in Pages /\ Current.frame = frame /\ Remembered(Current)
  BY PageIsPage, CurrentRemembered DEF Current, Page, ExplainInv, FrameInv
<1>3. \A c \in calls \cup LateCalls : KnownCall(c) /\ Remembered(c.by)
  <2>1. \A c \in calls : KnownCall(c) /\ Remembered(c.by)
    BY DEF ExplainInv, FrameInv
  <2>2. \A c \in LateCalls : c.by = Current /\ Current.route \in Lists
    BY DEF LateCalls, Call, Current, Page, OnList
  <2> QED
    BY <1>2, <2>1, <2>2 DEF KnownCall
<1>4. /\ location' = l /\ page' = page + 1 /\ frame' \in {frame, frame + 1}
      /\ title' = Page(location', frame', page')
      /\ banner' = BannerAtMount(title')
  BY DEF Navigate, Mount
<1>5. MountDetails(title', calls \cup LateCalls)
  BY DEF Navigate
<1> QED
  BY <1>1, <1>3, <1>4, <1>5, MountExplained

LEMMA LoadAgainExplained == ASSUME ExplainInv, LoadAgain PROVE ExplainInv'
<1>1. FrameInv' /\ location' \in Locations
  BY LoadAgainStep DEF ExplainInv, LoadAgain
<1>2. MountDetails(title', {}) /\ title' = Page(location', frame', page')
  BY DEF LoadAgain
<1>3. \A c \in {} : KnownCall(c) /\ Remembered(c.by)
  OBVIOUS
<1> QED
  BY <1>1, <1>2, <1>3, MountExplained DEF LoadAgain

(* Nothing changes but the tab, or the id an execution's URL has.          *)
LEMMA SameExplained ==
    ASSUME ExplainInv, FrameInv', location' \in Locations, location'.route = location.route,
           UNCHANGED <<frame, page, banner, shown, typesKnown, calls>>
    PROVE  ExplainInv'
BY DEF ExplainInv, KnownCall, LoadExplained, ArtifactSpins, ExecutionSpins,
   SectionsUnlinked, WaitsFor, IsMounted

LEMMA ExplainStep == ExplainInv /\ [Next]_vars => ExplainInv'
<1> SUFFICES ASSUME ExplainInv, [Next]_vars PROVE ExplainInv'
  OBVIOUS
<1>0. FrameInv'
  BY FrontendStep DEF ExplainInv
<1>1. CASE ListNext /\ UNCHANGED <<detailVars, navVars>>
  BY <1>1, ListExplained
<1>2. ASSUME NEW l \in Locations, Navigate(l) PROVE ExplainInv'
  BY <1>2, NavigateExplained
<1>3. ASSUME NEW l \in Locations, SwitchWithin(l) PROVE ExplainInv'
  <2>1. /\ location' = l /\ location'.route = location.route
        /\ UNCHANGED <<frame, page, banner, shown, typesKnown, calls>>
    BY <1>3 DEF SwitchWithin, Stay, SamePage, detailVars
  <2> QED
    BY <1>0, <2>1, SameExplained
<1>4. CASE Refresh
  BY <1>4, RefreshExplained
<1>5. ASSUME NEW c \in calls,
             \/ ArtifactFound(c) \/ ArtifactNotFound(c)
             \/ ExecutionFound(c) \/ ExecutionNotFound(c)
             \/ TypesLoaded(c) \/ TypesFailed(c) \/ SectionAnswered(c)
      PROVE  ExplainInv'
  <2>1. UNCHANGED <<location, frame, page>>
    BY <1>5 DEF ArtifactFound, ArtifactNotFound, ExecutionFound, ExecutionNotFound,
       TypesLoaded, TypesFailed, SectionAnswered, Answered
  <2> QED
    BY <1>0, <1>5, <2>1, AnswerExplained
<1>6. ASSUME NEW c \in calls, LateListStep(c) PROVE ExplainInv'
  BY <1>6, LateExplained
<1>7. CASE UNCHANGED <<frameVars, listVars, detailVars>>
  <2>1. UNCHANGED <<location, frame, page, banner, shown, typesKnown, calls>>
    BY <1>7 DEF frameVars, detailVars
  <2> QED
    BY <1>0, <2>1, SameExplained DEF ExplainInv
<1>8. CASE LoadAgain
  BY <1>8, LoadAgainExplained
<1> QED
  BY <1>1, <1>2, <1>3, <1>4, <1>5, <1>6, <1>7, <1>8 DEF Next, DetailNext, vars

(* However loads, refreshes and changes of page overlap, nobody looks at a *)
(* spinner, or at artifacts without links, for which nothing is asked and  *)
(* no error is shown (ArtifactDetails.tsx:171, ExecutionDetails.tsx:143).  *)
THEOREM LoadExplainedHolds == Spec => []LoadExplained
<1>1. ExplainInv => LoadExplained
  BY DEF ExplainInv
<1> QED
  BY <1>1, ExplainInit, ExplainStep, PTL DEF Spec

-----------------------------------------------------------------------------
(* The side navigation.                                                    *)

NavInv ==
    /\ manual = TRUE /\ collapsed \in BOOLEAN /\ saved \in BOOLEAN \cup {Unset}
    /\ ChoiceIsShown

LEMMA NavInitInv == Init => NavInv
BY DEF Init, NavInit, NavInv, ChoiceIsShown, HasKey, Opened, IsNavbarCollapsed

LEMMA NavStep == NavInv /\ [Next]_vars => NavInv'
<1> SUFFICES ASSUME NavInv, [Next]_vars PROVE NavInv'
  OBVIOUS
<1>1. CASE UNCHANGED navVars
  BY <1>1 DEF NavInv, ChoiceIsShown, navVars
<1>2. CASE NavNext
  BY <1>2 DEF NavNext, ToggleNavClicked, MaybeResize, NavInv, ChoiceIsShown
<1>3. CASE LoadNav
  BY <1>3 DEF LoadNav, NavInv, ChoiceIsShown, HasKey, Opened, IsNavbarCollapsed
<1> QED
  BY <1>1, <1>2, <1>3 DEF Next, Navigate, SwitchWithin, LoadAgain, vars

(* What the user chose last is what he sees, over resizes and loads of the *)
(* application (_toggleNavClicked, SideNav.tsx:242).                       *)
THEOREM ChoiceIsShownHolds == Spec => []ChoiceIsShown
<1>1. NavInv => ChoiceIsShown
  BY DEF NavInv
<1> QED
  BY <1>1, NavInitInv, NavStep, PTL DEF Spec

-----------------------------------------------------------------------------
(* The rows of the list pages.  A reload that nothing overlaps is for the  *)
(* query in the header, and once its promise is settled the rows are those *)
(* of that query; the groups are groups whatever happens.                  *)

AllItems == UNION {ToSet(list) : list \in Loads}
Answers  == Loads \cup {<<>>}

(* All of an answer that a query keeps, in the order it asks for.          *)
RowsFor(groups, list, q) ==
    /\ SortedBy(LeadersOf(groups), q.sortBy, q.asc)
    /\ ShownRows(groups) = {r \in ToSet(list) : Kept(r, q.filter)}

RowsOfItems(groups, list) == \E q \in Queries : RowsFor(groups, list, q)

(* Groups, of one query on one answer.                                     *)
Tidy(groups) ==
    /\ groups \in Seq(Group(AllItems))
    /\ WellGrouped(groups)
    /\ \E list \in Answers : RowsOfItems(groups, list)

Calmly ==
    /\ RowsOfItems(rows, items)
    /\ \A s, t \in Slots : asked[s] # None /\ asked[t] # None => s = t
    /\ \A s \in Slots : asked[s] # None => asked[s] = header /\ ~Throws(header.filter)
    /\ OnArtifacts /\ (\A s \in Slots : asked[s] # None => stage[s] = "done")
          => RowsFor(rows, items, header)

ListInv ==
    /\ header \in Queries
    /\ asked \in [Slots -> Queries \cup {None}]
    /\ stage \in [Slots -> Stages \cup {None}]
    /\ \A s \in Slots : asked[s] = None <=> stage[s] = None
    /\ items \in Answers
    /\ Tidy(rows)
    /\ calm => Calmly

LEMMA NoRows == Tidy(<<>>) /\ RowsOfItems(<<>>, <<>>)
<1>1. <<>> \in Seq(Group(AllItems)) /\ <<>> \in Answers
  BY DEF Answers
<1>2. ToSet(<<>>) = {}
  BY DEF ToSet
<1>3. DOMAIN LeadersOf(<<>>) = {}
  BY DEF LeadersOf
<1>4. RowsFor(<<>>, <<>>, FirstQuery)
  BY <1>2, <1>3, NoGroups DEF RowsFor, SortedBy
<1>5. RowsOfItems(<<>>, <<>>)
  BY <1>4, ListAssumption DEF RowsOfItems
<1> QED
  BY <1>1, <1>5, NoGroups DEF Tidy

LEMMA AnswerRows ==
    ASSUME NEW list \in Answers, NEW q \in Queries, NEW groups \in RowsAfter(list, q),
           Tidy(rows)
    PROVE  /\ Tidy(groups)
           /\ ~RowsThrow(list, q) => RowsFor(groups, list, q)
<1>1. CASE RowsThrow(list, q)
  BY <1>1 DEF RowsAfter
<1>2. CASE ~RowsThrow(list, q)
  <2>1. list \in Seq(ToSet(list)) /\ ToSet(list) \subseteq AllItems
    <3>1. CASE list = <<>>
      <4>1. ToSet(<<>>) = {}
        BY DEF ToSet
      <4> QED
        BY <3>1, <4>1
    <3>2. CASE list \in Loads
      BY <3>2, ListAssumption DEF AllItems
    <3> QED
      BY <3>1, <3>2 DEF Answers
  <2>2. groups \in GroupsFor(list, q)
    BY <1>2 DEF RowsAfter
  <2>3. /\ groups \in Seq(Group(ToSet(list)))
        /\ WellGrouped(groups)
        /\ ShownRows(groups) = {r \in ToSet(list) : Kept(r, q.filter)}
        /\ SortedBy(LeadersOf(groups), q.sortBy, q.asc)
    BY <2>1, <2>2, RowsOfAnswer
  <2>4. groups \in Seq(Group(AllItems))
    <3>1. Group(ToSet(list)) \subseteq Group(AllItems)
      <4>1. Seq(ToSet(list)) \subseteq Seq(AllItems)
        BY <2>1
      <4> QED
        BY <2>1, <4>1 DEF Group
    <3> QED
      BY <2>3, <3>1
  <2>5. RowsFor(groups, list, q)
    BY <2>3 DEF RowsFor
  <2>6. Tidy(groups)
    BY <2>3, <2>4, <2>5 DEF Tidy, RowsOfItems
  <2> QED
    BY <2>5, <2>6
<1> QED
  BY <1>1, <1>2

(* What a reload makes of the items it finds.                              *)
LEMMA CachedRows ==
    ASSUME ListInv, NEW s, NEW q \in Queries, GoOn(s, q)
    PROVE  /\ Tidy(rows)'
           /\ ~Throws(q.filter) /\ RowsOfItems(rows, items) => RowsOfItems(rows', items)
           /\ OnArtifacts /\ items # <<>> /\ ~Throws(q.filter) => RowsFor(rows', items, q)
<1>1. items \in Answers /\ Tidy(rows)
  BY DEF ListInv
<1>2. CASE rows' \in RowsAfter(items, q)
  <2>1. /\ Tidy(rows')
        /\ ~RowsThrow(items, q) => RowsFor(rows', items, q)
    BY <1>1, <1>2, AnswerRows
  <2>2. Tidy(rows)' <=> Tidy(rows')
    BY DEF Tidy, RowsOfItems, RowsFor
  <2> QED
    BY <2>1, <2>2 DEF RowsThrow, RowsOfItems
<1>3. CASE rows' = rows /\ (OnArtifacts => items = <<>>)
  <2>1. Tidy(rows)'
    BY <1>1, <1>3 DEF Tidy, RowsOfItems, RowsFor
  <2> QED
    BY <1>3, <2>1
<1> QED
  BY <1>2, <1>3 DEF GoOn, RowsOfCached

LEMMA ListInitInv == Init => ListInv
<1> SUFFICES ASSUME Init PROVE ListInv
  OBVIOUS
<1>1. /\ header = FirstQuery /\ asked = OfFirst(FirstQuery) /\ stage = OfFirst("types")
      /\ items = <<>> /\ rows = <<>>
  BY DEF Init, ListInit
<1>2. FirstQuery \in Queries /\ FirstQuery.filter = "" /\ None \notin Queries /\ None # "types"
      /\ None # "done"
  BY ListAssumption DEF Stages
<1>3. FirstSlot \in Slots
  BY ListAssumption DEF FirstSlot
<1>4. \A s \in Slots : /\ asked[s] = IF s = FirstSlot THEN FirstQuery ELSE None
                       /\ stage[s] = IF s = FirstSlot THEN "types" ELSE None
  BY <1>1 DEF OfFirst
<1>5. asked \in [Slots -> Queries \cup {None}] /\ stage \in [Slots -> Stages \cup {None}]
  BY <1>1, <1>2 DEF OfFirst, Stages
<1>6. items \in Answers /\ Tidy(rows) /\ RowsOfItems(rows, items)
  BY <1>1, NoRows DEF Answers
<1>7. Calmly
  BY <1>1, <1>2, <1>3, <1>4, <1>6 DEF Calmly, Throws
<1> QED
  BY <1>1, <1>2, <1>4, <1>5, <1>6, <1>7 DEF ListInv

(* Steps of the other pages, and within a page.                            *)
LEMMA RowsAlone ==
    ASSUME ListInv, UNCHANGED listVars, location'.route = location.route
    PROVE  ListInv'
BY DEF ListInv, listVars, Calmly, OnArtifacts, Tidy, RowsOfItems, RowsFor

(* Another page, or the same anew.                                         *)
LEMMA RowsOpened ==
    ASSUME ListInv, NEW p, OpenList(p), p.route = location'.route
    PROVE  ListInv'
<1>1. /\ header' = FirstQuery /\ items' = <<>> /\ rows' = <<>>
  BY DEF OpenList
<1>2. FirstQuery \in Queries /\ FirstQuery.filter = "" /\ None \notin Queries /\ None # "types"
      /\ None # "done"
  BY ListAssumption DEF Stages
<1>3. FirstSlot \in Slots
  BY ListAssumption DEF FirstSlot
<1>4. items' \in Answers /\ Tidy(rows)' /\ RowsOfItems(rows, items)'
  BY <1>1, NoRows DEF Answers, Tidy, RowsOfItems, RowsFor
<1>5. CASE p.route \in Lists
  <2>1. asked' = OfFirst(FirstQuery) /\ stage' = OfFirst("types")
    BY <1>5 DEF OpenList
  <2>2. \A s \in Slots : /\ asked'[s] = IF s = FirstSlot THEN FirstQuery ELSE None
                         /\ stage'[s] = IF s = FirstSlot THEN "types" ELSE None
    BY <2>1 DEF OfFirst
  <2>3. asked' \in [Slots -> Queries \cup {None}] /\ stage' \in [Slots -> Stages \cup {None}]
    BY <2>1, <1>2 DEF OfFirst, Stages
  <2>4. Calmly'
    BY <1>1, <1>2, <1>3, <1>4, <2>2 DEF Calmly, Throws
  <2> QED
    BY <1>1, <1>2, <1>4, <2>2, <2>3, <2>4 DEF ListInv
<1>6. CASE p.route \notin Lists
  <2>1. asked' = OfNone /\ stage' = OfNone
    BY <1>6 DEF OpenList
  <2>2. \A s \in Slots : asked'[s] = None /\ stage'[s] = None
    BY <2>1 DEF OfNone
  <2>3. asked' \in [Slots -> Queries \cup {None}] /\ stage' \in [Slots -> Stages \cup {None}]
    BY <2>1 DEF OfNone
  <2>4. ~OnArtifacts'
    BY <1>6 DEF OnArtifacts, Lists
  <2>5. Calmly'
    BY <1>4, <2>2, <2>4 DEF Calmly
  <2> QED
    BY <1>1, <1>2, <1>4, <2>2, <2>3, <2>5 DEF ListInv
<1> QED
  BY <1>5, <1>6

-----------------------------------------------------------------------------
(* Steps of a list page.                                                   *)

(* Where they lead, if the page stays: what is left to show of each.       *)
LEMMA ListStays ==
    ASSUME ListInv, UNCHANGED location,
           header' \in Queries,
           asked' \in [Slots -> Queries \cup {None}], stage' \in [Slots -> Stages \cup {None}],
           \A s \in Slots : asked'[s] = None <=> stage'[s] = None,
           items' \in Answers, Tidy(rows)', calm' => Calmly'
    PROVE  ListInv'
BY DEF ListInv

LEMMA AskRows ==
    ASSUME ListInv, NEW s \in Slots, NEW q \in Queries, Ask(s, q)
    PROVE  ListInv'
<1>1. /\ asked[s] = None /\ header' = q /\ asked' = [asked EXCEPT ![s] = q]
      /\ UNCHANGED <<location, items>>
      /\ calm' = (calm /\ AtRest /\ ~Throws(q.filter))
  BY DEF Ask, Table!Reload, Table!Ask, frameVars
<1>2. PICK z \in Stages : /\ stage' = [stage EXCEPT ![s] = z]
                          /\ z = "done" => typed /\ items # <<>>
  BY DEF Ask, GoOn, Stages
<1>3. None \notin Queries /\ None \notin Stages /\ q # None /\ z # None
  BY ListAssumption
<1>4. \A t \in Slots : /\ asked'[t] = IF t = s THEN q ELSE asked[t]
                       /\ stage'[t] = IF t = s THEN z ELSE stage[t]
  BY <1>1, <1>2 DEF ListInv
<1>5. /\ asked' \in [Slots -> Queries \cup {None}] /\ stage' \in [Slots -> Stages \cup {None}]
      /\ \A t \in Slots : asked'[t] = None <=> stage'[t] = None
  BY <1>1, <1>2, <1>3, <1>4 DEF ListInv
<1>6. /\ Tidy(rows)'
      /\ ~Throws(q.filter) /\ RowsOfItems(rows, items) => RowsOfItems(rows', items)
      /\ OnArtifacts /\ typed /\ items # <<>> /\ ~Throws(q.filter) => RowsFor(rows', items, q)
  <2>1. CASE typed /\ GoOn(s, q)
    BY <2>1, CachedRows
  <2>2. CASE ~typed /\ UNCHANGED rows
    BY <2>2 DEF ListInv, Tidy, RowsOfItems, RowsFor
  <2> QED
    BY <2>1, <2>2 DEF Ask
<1>7. ASSUME calm' PROVE Calmly'
  <2>1. calm /\ AtRest /\ ~Throws(q.filter) /\ Calmly
    BY <1>1, <1>7 DEF ListInv
  <2>2. RowsOfItems(rows', items')
    BY <1>1, <1>6, <2>1 DEF Calmly
  <2>3. \A t \in Slots : asked'[t] # None => t = s
    BY <1>4, <2>1 DEF AtRest
  <2>4. \A t \in Slots : asked'[t] # None => asked'[t] = header' /\ ~Throws(header'.filter)
    BY <1>1, <1>4, <2>1, <2>3
  <2>5. ASSUME OnArtifacts', \A t \in Slots : asked'[t] # None => stage'[t] = "done"
        PROVE  RowsFor(rows', items', header')
    <3>1. z = "done"
      BY <1>3, <1>4, <2>5
    <3> QED
      BY <1>1, <1>2, <1>6, <2>1, <2>5, <3>1 DEF OnArtifacts
  <2> QED
    BY <2>2, <2>3, <2>4, <2>5 DEF Calmly, RowsOfItems, RowsFor
<1> QED
  BY <1>1, <1>5, <1>6, <1>7, ListStays DEF ListInv

LEMMA TypesRows ==
    ASSUME ListInv, NEW s \in Slots, TypesAnswered(s)
    PROVE  ListInv'
<1> DEFINE q == asked[s]
<1>1. /\ stage[s] = "types" /\ GoOn(s, q)
      /\ UNCHANGED <<location, header, asked, items, calm>>
  BY DEF TypesAnswered
<1>2. PICK z \in Stages : /\ stage' = [stage EXCEPT ![s] = z]
                          /\ z = "done" => items # <<>>
  BY <1>1 DEF GoOn, Stages
<1>3. None \notin Stages /\ q # None /\ z # None /\ q \in Queries
  BY <1>1, ListAssumption DEF ListInv, Stages
<1>4. \A t \in Slots : stage'[t] = IF t = s THEN z ELSE stage[t]
  BY <1>2 DEF ListInv
<1>5. /\ stage' \in [Slots -> Stages \cup {None}]
      /\ \A t \in Slots : asked'[t] = None <=> stage'[t] = None
  BY <1>1, <1>2, <1>3, <1>4 DEF ListInv
<1>6. /\ Tidy(rows)'
      /\ ~Throws(q.filter) /\ RowsOfItems(rows, items) => RowsOfItems(rows', items)
      /\ OnArtifacts /\ items # <<>> /\ ~Throws(q.filter) => RowsFor(rows', items, q)
  BY <1>1, <1>3, CachedRows
<1>7. ASSUME calm' PROVE Calmly'
  <2>1. Calmly /\ q = header /\ ~Throws(q.filter)
    BY <1>1, <1>3, <1>7 DEF ListInv, Calmly
  <2>2. RowsOfItems(rows', items')
    BY <1>1, <1>6, <2>1 DEF Calmly
  <2>3. ASSUME OnArtifacts', \A t \in Slots : asked'[t] # None => stage'[t] = "done"
        PROVE  RowsFor(rows', items', header')
    <3>1. z = "done"
      BY <1>1, <1>3, <1>4, <2>3
    <3> QED
      BY <1>1, <1>2, <1>6, <2>1, <2>3, <3>1 DEF OnArtifacts
  <2> QED
    BY <1>1, <2>1, <2>2, <2>3 DEF Calmly, RowsOfItems, RowsFor
<1> QED
  BY <1>1, <1>5, <1>6, <1>7, ListStays DEF ListInv

(* An answer, or none, to a reload that waits for items.                   *)
LEMMA ItemsDone ==
    ASSUME ListInv, NEW s \in Slots, stage[s] = "items", stage' = [stage EXCEPT ![s] = "done"],
           UNCHANGED <<location, header, asked>>,
           items' \in Answers, Tidy(rows)',
           calm' => calm /\ RowsFor(rows', items', asked[s])
    PROVE  ListInv'
<1>1. None \notin Stages /\ "done" \in Stages /\ "items" \in Stages
  BY ListAssumption DEF Stages
<1>2. asked[s] # None /\ asked[s] \in Queries
  BY <1>1 DEF ListInv
<1>3. \A t \in Slots : stage'[t] = IF t = s THEN "done" ELSE stage[t]
  BY DEF ListInv
<1>4. /\ stage' \in [Slots -> Stages \cup {None}]
      /\ \A t \in Slots : asked'[t] = None <=> stage'[t] = None
  BY <1>1, <1>2, <1>3 DEF ListInv
<1>5. ASSUME calm' PROVE Calmly'
  <2>1. Calmly /\ asked[s] = header
    BY <1>2, <1>5 DEF ListInv, Calmly
  <2>2. RowsOfItems(rows, items)'
    BY <1>2, <1>5 DEF RowsOfItems, RowsFor
  <2> QED
    BY <1>5, <2>1, <2>2 DEF Calmly, RowsFor
<1> QED
  BY <1>4, <1>5, ListStays DEF ListInv

LEMMA LoadedRows ==
    ASSUME ListInv, NEW s \in Slots, NEW list \in Loads, ItemsLoaded(s, list)
    PROVE  ListInv'
<1>1. /\ stage[s] = "items" /\ stage' = [stage EXCEPT ![s] = "done"]
      /\ items' = list /\ rows' \in RowsAfter(list, asked[s])
      /\ calm' = (calm /\ ~RowsThrow(list, asked[s]))
      /\ UNCHANGED <<location, header, asked>>
  BY DEF ItemsLoaded
<1>2. list \in Answers /\ asked[s] \in Queries
  BY <1>1, ListAssumption DEF Answers, ListInv, Stages
<1>3. /\ Tidy(rows')
      /\ ~RowsThrow(list, asked[s]) => RowsFor(rows', list, asked[s])
  BY <1>1, <1>2, AnswerRows DEF ListInv
<1>4. Tidy(rows)' <=> Tidy(rows')
  BY DEF Tidy, RowsOfItems, RowsFor
<1> QED
  BY <1>1, <1>2, <1>3, <1>4, ItemsDone

LEMMA NoResponseRows ==
    ASSUME ListInv, NEW s \in Slots, NoResponse(s)
    PROVE  ListInv'
<1>1. /\ stage[s] = "items" /\ stage' = [stage EXCEPT ![s] = "done"]
      /\ items' = <<>> /\ rows' = <<>> /\ ~calm'
      /\ UNCHANGED <<location, header, asked>>
  BY DEF NoResponse
<1>2. items' \in Answers /\ Tidy(rows)'
  BY <1>1, NoRows DEF Answers, Tidy, RowsOfItems, RowsFor
<1> QED
  BY <1>1, <1>2, ItemsDone

LEMMA FailedRows ==
    ASSUME ListInv, NEW s \in Slots, ItemsFailed(s)
    PROVE  ListInv'
<1>1. /\ stage[s] = "items" /\ stage' = [stage EXCEPT ![s] = "done"]
      /\ UNCHANGED <<items, rows>> /\ ~calm'
      /\ UNCHANGED <<location, header, asked>>
  BY DEF ItemsFailed
<1>2. items' \in Answers /\ Tidy(rows)'
  BY <1>1 DEF ListInv, Tidy, RowsOfItems, RowsFor
<1> QED
  BY <1>1, <1>2, ItemsDone

LEMMA SettledRows ==
    ASSUME ListInv, NEW s \in Slots, Settle(s)
    PROVE  ListInv'
<1>1. /\ stage[s] = "done" /\ stage' = [stage EXCEPT ![s] = None]
      /\ asked' = [asked EXCEPT ![s] = None]
      /\ UNCHANGED <<location, header, items, rows, calm>>
  BY DEF Settle, Table!Settle, frameVars
<1>2. \A t \in Slots : /\ asked'[t] = IF t = s THEN None ELSE asked[t]
                       /\ stage'[t] = IF t = s THEN None ELSE stage[t]
  BY <1>1 DEF ListInv
<1>3. /\ asked' \in [Slots -> Queries \cup {None}] /\ stage' \in [Slots -> Stages \cup {None}]
      /\ \A t \in Slots : asked'[t] = None <=> stage'[t] = None
  BY <1>1, <1>2 DEF ListInv
<1>4. ASSUME calm' PROVE Calmly'
  <2>1. Calmly
    BY <1>1, <1>4 DEF ListInv
  <2>2. asked[s] # None
    BY <1>1, ListAssumption DEF ListInv, Stages
  <2>3. \A t \in Slots : asked[t] # None => t = s
    BY <2>1, <2>2 DEF Calmly
  <2>4. OnArtifacts => RowsFor(rows, items, header)
    BY <1>1, <2>1, <2>3 DEF Calmly
  <2> QED
    BY <1>1, <1>2, <2>1, <2>4 DEF Calmly, OnArtifacts, RowsOfItems, RowsFor
<1>5. items' \in Answers /\ Tidy(rows)' /\ header' \in Queries
  BY <1>1 DEF ListInv, Tidy, RowsOfItems, RowsFor
<1> QED
  BY <1>1, <1>3, <1>4, <1>5, ListStays

LEMMA ToggledRows ==
    ASSUME ListInv, NEW i \in DOMAIN rows, ToggleRowExpand(i)
    PROVE  ListInv'
<1>1. /\ CanToggle(rows[i]) /\ rows' = [rows EXCEPT ![i] = Toggle(@)]
      /\ UNCHANGED <<location, header, asked, stage, items, calm>>
  BY DEF ToggleRowExpand, frameVars
<1>2. rows \in Seq(Group(AllItems))
  BY DEF ListInv, Tidy
<1>3. /\ rows' \in Seq(Group(AllItems))
      /\ WellGrouped(rows) => WellGrouped(rows')
      /\ ShownRows(rows') = ShownRows(rows)
      /\ LeadersOf(rows') = LeadersOf(rows)
  BY <1>1, <1>2, ToggleFacts
<1>4. Tidy(rows)'
  BY <1>3 DEF ListInv, Tidy, RowsOfItems, RowsFor
<1>5. Calmly => Calmly'
  BY <1>1, <1>3 DEF Calmly, OnArtifacts, RowsOfItems, RowsFor
<1> QED
  BY <1>1, <1>4, <1>5, ListStays DEF ListInv

LEMMA ListRows == ASSUME ListInv, ListNext PROVE ListInv'
<1>1. ASSUME NEW s \in Slots,
             \/ \E q \in Queries : Ask(s, q)
             \/ TypesAnswered(s)
             \/ \E list \in Loads : ItemsLoaded(s, list)
             \/ NoResponse(s) \/ ItemsFailed(s) \/ Settle(s)
      PROVE  ListInv'
  BY <1>1, AskRows, TypesRows, LoadedRows, NoResponseRows, FailedRows, SettledRows
<1>2. CASE Body
  BY <1>2, ToggledRows DEF Body
<1> QED
  BY <1>1, <1>2 DEF ListNext

LEMMA RowsStep == ListInv /\ [Next]_vars => ListInv'
<1> SUFFICES ASSUME ListInv, [Next]_vars PROVE ListInv'
  OBVIOUS
<1>1. CASE ListNext
  BY <1>1, ListRows
<1>2. ASSUME NEW l \in Locations, Navigate(l) PROVE ListInv'
  <2>1. OpenList(title') /\ title'.route = location'.route
    BY <1>2 DEF Navigate, Mount, Page
  <2> QED
    BY <2>1, RowsOpened
<1>3. ASSUME NEW l \in Locations, SwitchWithin(l) PROVE ListInv'
  BY <1>3, RowsAlone DEF SwitchWithin, Stay, SamePage
<1>4. CASE DetailNext /\ UNCHANGED <<listVars, navVars>>
  <2>1. location' = location
    BY <1>4 DEF DetailNext, Refresh, ArtifactFound, ArtifactNotFound, ExecutionFound,
           ExecutionNotFound, TypesLoaded, TypesFailed, SectionAnswered, Answered
  <2> QED
    BY <1>4, <2>1, RowsAlone
<1>5. CASE \E c \in calls : LateListStep(c) /\ UNCHANGED <<listVars, navVars>>
  BY <1>5, RowsAlone DEF LateListStep
<1>6. CASE UNCHANGED <<frameVars, listVars>>
  BY <1>6, RowsAlone DEF frameVars
<1>7. CASE LoadAgain
  <2>1. OpenList(title') /\ title'.route = location'.route
    BY <1>7 DEF LoadAgain, Page
  <2> QED
    BY <2>1, RowsOpened
<1> QED
  BY <1>1, <1>2, <1>3, <1>4, <1>5, <1>6, <1>7 DEF Next, vars

(* Whatever overlaps, fails or comes late, a list page shows groups        *)
(* (groupRows, Utils.tsx:166) that are the whole ordered answer to one     *)
(* query on one answer of the store, never a mixture of two; as long as no *)
(* reload overlapped another, failed or threw, on the items it keeps.      *)
THEOREM RowsGroupedHolds == Spec => []RowsGrouped
<1>1. Leaders = LeadersOf(rows)
  BY DEF Leaders, LeadersOf
<1>2. ASSUME ListInv PROVE RowsGrouped
  <2>1. WellGrouped(rows) /\ \E list \in Answers : RowsOfItems(rows, list)
    BY <1>2 DEF ListInv, Tidy
  <2>2. calm => RowsOfItems(rows, items)
    BY <1>2 DEF ListInv, Calmly
  <2>3. PICK list \in (IF calm THEN {items} ELSE Loads \cup {<<>>}) : RowsOfItems(rows, list)
    BY <2>1, <2>2 DEF Answers
  <2> QED
    BY <1>1, <2>1, <2>3 DEF RowsGrouped, RowsOfItems, RowsFor
<1>3. ListInv => RowsGrouped
  BY <1>2
<1> QED
  BY <1>3, ListInitInv, RowsStep, PTL DEF Spec

(* At rest the page of artifacts shows what the filter in the header keeps *)
(* in the order of the header (ArtifactList.tsx:141), as long as no reload *)
(* overlapped another or failed.                                           *)
THEOREM RowsOfHeaderHolds == Spec => []RowsOfHeader
<1>1. ASSUME ListInv, OnArtifacts, AtRest, calm
      PROVE  /\ SortedBy(Leaders, header.sortBy, header.asc)
             /\ ShownRows(rows) = {r \in ToSet(items) : Kept(r, header.filter)}
  <2>1. RowsFor(rows, items, header)
    BY <1>1 DEF ListInv, Calmly, AtRest
  <2>2. Leaders = LeadersOf(rows)
    BY DEF Leaders, LeadersOf
  <2> QED
    BY <2>1, <2>2 DEF RowsFor
<1>2. ListInv => RowsOfHeader
  BY <1>1 DEF RowsOfHeader
<1> QED
  BY <1>2, ListInitInv, RowsStep, PTL DEF Spec
=============================================================================
