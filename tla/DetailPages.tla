----------------------------- MODULE DetailPages -----------------------------
(***************************************************************************)
(* The pages of one artifact and of one execution (src/frontend/src/pages/ *)
(* ArtifactDetails.tsx, ExecutionDetails.tsx).  They load what they show   *)
(* when they are mounted and when the user asks the banner for a refresh.  *)
(*                                                                         *)
(* One page component is mounted at a time; shown, typesKnown and named    *)
(* are of that page.  What is asked for is answered wherever the user has  *)
(* gone to meanwhile.                                                      *)
(***************************************************************************)
EXTENDS RoutedPage, FiniteSets

CONSTANT MaxCalls  \* bound: of the calls not answered when a refresh is asked for

ASSUME DetailAssumption == MaxCalls \in Nat \ {0}

VARIABLES
    shown,       \* id of the artifact or of the execution and its events, or None
    typesKnown,  \* artifactTypeMap is there
    named,       \* id of the execution whose artifacts the sections have data of, or None
    calls        \* what is not answered: [by: a page, step, n]

detailVars == <<shown, typesKnown, named, calls>>

(* Of a page: the call of its nth load that waits.                         *)
Call(p, step, n) == [by |-> p, step |-> step, n |-> n]

(* load: of an execution the types and, at the same time, itself.          *)
CallsOf(p, n) ==
    IF p.route = "artifact" THEN {Call(p, "artifact", n)}
    ELSE {Call(p, "types", n)} \cup (IF HasNoId(p) THEN {} ELSE {Call(p, "execution", n)})

NewLoad(p) ==
    CHOOSE n \in 1 .. MaxCalls : \A c \in calls : c.by.page = p.page => c.n # n

(* The page p is mounted; others of before are still not answered.         *)
MountDetails(p, others) ==
    /\ shown' = None /\ typesKnown' = FALSE /\ named' = None
    /\ calls' = others \cup (IF p.route \in Details THEN CallsOf(p, 1) ELSE {})

(* The Refresh button of the banner is bound to the page that set it,      *)
(* mounted or not; the id is the one the page has now.                     *)
Refresh ==
    /\ banner # None /\ banner.route \in Details
    /\ Cardinality(calls) < MaxCalls
    /\ LET p == IF IsMounted(banner) THEN Current ELSE banner IN
          /\ calls' = calls \cup CallsOf(p, NewLoad(p))
          /\ banner' = IF HasNoId(p) THEN p ELSE banner
    /\ UNCHANGED <<location, frame, page, title, shown, typesKnown, named>>

Answered(c) ==
    /\ calls' = calls \ {c}
    /\ UNCHANGED <<location, frame, page>>

IfMounted(p, new, old) == IF IsMounted(p) THEN new ELSE old

-----------------------------------------------------------------------------
(* ArtifactDetails                                                         *)

ArtifactFound(c) ==
    /\ c.step = "artifact"
    /\ Answered(c)
    /\ SetTitle(c.by)
    /\ shown' = IfMounted(c.by, c.by.id, shown)
    /\ UNCHANGED <<banner, typesKnown, named>>

(* Mutant: the failure is not shown.                                       *)
ArtifactNotFoundSilently(c) ==
    /\ c.step = "artifact"
    /\ Answered(c)
    /\ UNCHANGED <<banner, title, shown, typesKnown, named>>

(* No artifact, several, or a failure.                                     *)
ArtifactNotFound(c) ==
    /\ c.step = "artifact"
    /\ Answered(c)
    /\ ShowPageError(c.by)
    /\ UNCHANGED <<title, shown, typesKnown, named>>

-----------------------------------------------------------------------------
(* ExecutionDetails                                                        *)

(* The sections are mounted with the first events there are, and ask for   *)
(* the artifacts of those; one call stands for that of each section.       *)
Sections(c) == IF IsMounted(c.by) /\ shown = None THEN {Call(c.by, "section", c.n)} ELSE {}

(* The execution and its events.  If the store has several executions, the *)
(* first is shown and an error.                                            *)
ExecutionFound(c) ==
    /\ c.step = "execution"
    /\ UNCHANGED <<location, frame, page>>
    /\ calls' = (calls \ {c}) \cup Sections(c)
    /\ SetTitle(c.by)
    /\ shown' = IfMounted(c.by, c.by.id, shown)
    /\ UNCHANGED banner \/ ShowPageError(c.by)
    /\ UNCHANGED <<typesKnown, named>>

(* No execution, on which the code after the check throws, or a failure.   *)
ExecutionNotFound(c) ==
    /\ c.step = "execution"
    /\ Answered(c)
    /\ ShowPageError(c.by)
    /\ UNCHANGED <<title, shown, typesKnown, named>>

(* The artifact types are asked for at the same time.                      *)
TypesLoaded(c) ==
    /\ c.step = "types"
    /\ Answered(c)
    /\ typesKnown' = IfMounted(c.by, TRUE, typesKnown)
    /\ UNCHANGED <<banner, title, shown, named>>

TypesFailed(c) ==
    /\ c.step = "types"
    /\ Answered(c)
    /\ ShowPageError(c.by)
    /\ UNCHANGED <<title, shown, typesKnown, named>>

(* SectionIO: a failure is swallowed, the rows stay without names.         *)
SectionAnswered(c) ==
    /\ c.step = "section"
    /\ Answered(c)
    /\ named' \in {named, IfMounted(c.by, c.by.id, named)}
    /\ UNCHANGED <<banner, title, shown, typesKnown>>

DetailNext ==
    \/ Refresh
    \/ \E c \in calls :
          \/ ArtifactFound(c) \/ ArtifactNotFound(c)
          \/ ExecutionFound(c) \/ ExecutionNotFound(c)
          \/ TypesLoaded(c) \/ TypesFailed(c) \/ SectionAnswered(c)

-----------------------------------------------------------------------------
(* "This guarantees that each artifact renders a different                 *)
(* <ArtifactDetails /> instance" (ArtifactDetails.tsx:211): the artifact   *)
(* shown is that of the URL, however late answers come and wherever the    *)
(* links of the lineage view have led.                                     *)
ArtifactIsOfUrl == location.route = "artifact" => shown \in {None, location.id}

(* What render has instead of an artifact or an execution: a spinner.      *)
ArtifactSpins  == location.route = "artifact" /\ shown = None
ExecutionSpins == location.route = "execution" /\ shown = None

(* Rows of the sections without the types of their artifacts, and hence    *)
(* without links to them.                                                  *)
SectionsUnlinked == location.route = "execution" /\ ~typesKnown

WaitsFor(step) == \E c \in calls : IsMounted(c.by) /\ c.step = step

(* A page of details that lacks something and waits for nothing says why   *)
(* (ArtifactDetails.tsx:171, ExecutionDetails.tsx:143, 149, 165, 187): no  *)
(* user looks at a spinner that turns for ever, or at artifacts without    *)
(* links and without an error, however loads and refreshes overlap.        *)
LoadExplained ==
    /\ ArtifactSpins    => WaitsFor("artifact")  \/ banner # None
    /\ ExecutionSpins   => WaitsFor("execution") \/ banner # None
    /\ SectionsUnlinked => WaitsFor("types")     \/ banner # None
=============================================================================
