------------------------------ MODULE ListPages ------------------------------
(***************************************************************************)
(* The pages of artifacts and of executions (src/frontend/src/pages/       *)
(* ArtifactList.tsx, ExecutionList.tsx): they load everything once, keep   *)
(* it, and make the rows of the table out of it.  Their table is any that  *)
(* keeps TableContract: requests may overlap.                              *)
(*                                                                         *)
(* One list page is mounted at a time; the variables are of that page.     *)
(***************************************************************************)
EXTENDS RoutedPage, RowGroups

CONSTANTS
    Queries,     \* [sortBy, asc, filter]: what the table may ask for
    FirstQuery,  \* initialSortColumn, initialSortOrder, no filter
    Loads,       \* the lists of items the store may answer with
    Slots        \* bound: requests in flight

(* What a reload waits for, or that its promise is settled.                *)
Stages == {"types", "items", "done"}

ASSUME ListAssumption ==
    /\ FirstQuery \in Queries /\ FirstQuery.filter = ""
    /\ None \notin Queries /\ None \notin Stages
    /\ Slots # {}
    /\ \A list \in Loads :
          /\ list \in Seq(ToSet(list))
          /\ \A i, j \in DOMAIN list : i # j => list[i] # list[j]

VARIABLES
    header,  \* what the table shows in its header
    asked,   \* of each slot: the query asked for, or None
    busy,    \* the table's spinner
    stage,   \* of each slot: the stage of its reload, or None
    typed,   \* whether artifactTypes, executionTypesMap has types
    items,   \* artifacts, executions
    rows,    \* rows and expandedRows
    calm     \* history of this page: no reload overlapped another, failed or threw

listVars == <<header, asked, busy, stage, typed, items, rows, calm>>

OnList == location.route \in Lists
OnArtifacts == location.route = "artifacts"

Table == INSTANCE TableContract WITH phase <- IF OnList THEN "mounted" ELSE "gone"

AtRest == \A s \in Slots : asked[s] = None

(* A promise already settled: what awaits it runs before the next event.   *)
Settling == \E s \in Slots : stage[s] = "done"

FirstSlot == CHOOSE s \in Slots : TRUE
OfFirst(x) == [s \in Slots |-> IF s = FirstSlot THEN x ELSE None]
OfNone == [s \in Slots |-> None]

(* The constructors of page and table, and the table's first request.      *)
ListInit ==
    /\ header = FirstQuery /\ asked = OfFirst(FirstQuery) /\ busy = TRUE
    /\ stage = OfFirst("types")
    /\ typed = FALSE /\ items = <<>> /\ rows = <<>> /\ calm = TRUE

(* The same for the page that comes, p, if it is a list.                   *)
OpenList(p) ==
    /\ header' = FirstQuery /\ typed' = FALSE /\ items' = <<>> /\ rows' = <<>> /\ calm' = TRUE
    /\ busy' = (p.route \in Lists)
    /\ IF p.route \in Lists THEN asked' = OfFirst(FirstQuery) /\ stage' = OfFirst("types")
                            ELSE asked' = OfNone /\ stage' = OfNone

-----------------------------------------------------------------------------
(* rowFilterFn throws on the first row it sees.                            *)
RowsThrow(list, q) == list # <<>> /\ Throws(q.filter)

(* Mutant: a group the user expanded stays as it was when the rows change.  *)
Expanded(group) == {i \in DOMAIN rows : rows[i].row.group = group /\ rows[i].expand = "expanded"}
KeepExpanded(g) ==
    LET old == Expanded(g.row.group) IN IF old = {} THEN g ELSE rows[CHOOSE i \in old : TRUE]
RowsAfterKeepingExpanded(list, q) ==
    IF RowsThrow(list, q) THEN {rows}
    ELSE {[i \in DOMAIN gs |-> KeepExpanded(gs[i])] : gs \in GroupsFor(list, q)}

(* What the rows become with an answer: all anew, or as they were.         *)
RowsAfter(list, q) == IF RowsThrow(list, q) THEN {rows} ELSE GroupsFor(list, q)

(* Mutant: cached artifacts are not looked at again, as in ExecutionList.  *)
RowsOfCachedOnce(q) == {rows}

(* A reload that finds the items there: ArtifactList makes its rows anew,  *)
(* ExecutionList makes none.                                               *)
RowsOfCached(q) == IF OnArtifacts THEN RowsAfter(items, q) ELSE {rows}

(* From where a reload has its types on.                                   *)
GoOn(s, q) ==
    /\ stage' = [stage EXCEPT ![s] = IF items = <<>> THEN "items" ELSE "done"]
    /\ rows' \in IF items = <<>> THEN {rows} ELSE RowsOfCached(q)

(* The table asks: reload runs to its first await.  The Refresh button of  *)
(* the banner has the table ask for what is in its header.                 *)
Ask(s, q) ==
    /\ OnList /\ ~Settling
    /\ UNCHANGED frameVars
    /\ Table!Reload(q, s)
    /\ \/ typed /\ GoOn(s, q)
       \/ ~typed /\ stage' = [stage EXCEPT ![s] = "types"] /\ UNCHANGED rows
    /\ calm' = (calm /\ AtRest /\ ~Throws(q.filter))
    /\ UNCHANGED <<typed, items>>

(* getArtifactTypes, getExecutionTypes: a failure is shown in the banner   *)
(* and taken for no types; a store without types of this kind answers with *)
(* none, and no error (ArtifactList.tsx:132, ExecutionList.tsx:129).       *)
TypesAnswered(s) ==
    /\ OnList /\ stage[s] = "types" /\ ~Settling
    /\ \/ typed' \in BOOLEAN /\ UNCHANGED banner
       \/ typed' = FALSE /\ ShowPageError(Current)
    /\ GoOn(s, asked[s])
    /\ UNCHANGED <<location, frame, page, title, header, asked, busy, items, calm>>

(* getArtifacts, getExecutions: the items, the banner, the rows.           *)
ItemsLoaded(s, list) ==
    /\ OnList /\ stage[s] = "items" /\ ~Settling
    /\ stage' = [stage EXCEPT ![s] = "done"]
    /\ items' = list
    /\ rows' \in RowsAfter(list, asked[s])
    /\ IF RowsThrow(list, asked[s]) /\ ~OnArtifacts
       THEN ShowPageError(Current)
       ELSE ClearBanner(Current)
    /\ calm' = (calm /\ ~RowsThrow(list, asked[s]))
    /\ UNCHANGED <<location, frame, page, title, header, asked, busy, typed>>

(* ArtifactList gets no response: an error, and an empty list.  The error  *)
(* is put together in a microtask of its own, and the order of it and of   *)
(* clearBanner depends on what async functions are compiled to.            *)
NoResponse(s) ==
    /\ OnArtifacts /\ stage[s] = "items" /\ ~Settling
    /\ stage' = [stage EXCEPT ![s] = "done"]
    /\ items' = <<>> /\ rows' = <<>>
    /\ ShowPageError(Current) \/ ClearBanner(Current)
    /\ calm' = FALSE
    /\ UNCHANGED <<location, frame, page, title, header, asked, busy, typed>>

(* ExecutionList shows the error, in ArtifactList the reload is rejected.  *)
ItemsFailed(s) ==
    /\ OnList /\ stage[s] = "items" /\ ~Settling
    /\ stage' = [stage EXCEPT ![s] = "done"]
    /\ IF OnArtifacts THEN UNCHANGED banner ELSE ShowPageError(Current)
    /\ calm' = FALSE
    /\ UNCHANGED <<location, frame, page, title, header, asked, busy, typed, items, rows>>

(* The table gets the promise it waits for.                                *)
Settle(s) ==
    /\ OnList /\ stage[s] = "done"
    /\ UNCHANGED frameVars
    /\ Table!Settle(s)
    /\ stage' = [stage EXCEPT ![s] = None]
    /\ UNCHANGED <<typed, items, rows, calm>>

(* toggleRowExpand                                                         *)
ToggleRowExpand(i) ==
    /\ OnList /\ ~Settling
    /\ CanToggle(rows[i])
    /\ rows' = [rows EXCEPT ![i] = Toggle(@)]
    /\ UNCHANGED <<frameVars, header, asked, busy, stage, typed, items, calm>>

(* What the body of the table offers.                                      *)
Body == \E i \in DOMAIN rows : ToggleRowExpand(i)

ListNext ==
    \/ \E s \in Slots :
          \/ \E q \in Queries : Ask(s, q)
          \/ TypesAnswered(s)
          \/ \E list \in Loads : ItemsLoaded(s, list)
          \/ NoResponse(s) \/ ItemsFailed(s) \/ Settle(s)
    \/ Body

-----------------------------------------------------------------------------
(* Properties.                                                             *)

Leaders == [i \in DOMAIN rows |-> rows[i].row]

(* The rows are grouped by their first column, the pipeline or workspace   *)
(* (groupRows, Utils.tsx:166): a group is in one place, a row in one       *)
(* group, the button to expand is there just when there is something to    *)
(* see.  Whatever overlaps, fails, or is expanded meanwhile, they are the  *)
(* whole answer, in order, to ONE query on ONE answer of the store, never  *)
(* a mixture of two; as long as no reload overlapped another, failed or    *)
(* threw, on the items the page keeps.                                     *)
RowsGrouped ==
    /\ WellGrouped(rows)
    /\ \E list \in (IF calm THEN {items} ELSE Loads \cup {<<>>}), q \in Queries :
          /\ SortedBy(Leaders, q.sortBy, q.asc)
          /\ ShownRows(rows) = {r \in ToSet(list) : Kept(r, q.filter)}

(* At rest the artifacts shown, expanded or to be expanded, are all those  *)
(* rowFilterFn keeps, in the order of the header (ArtifactList.tsx:141),   *)
(* however often the user has sorted, filtered and refreshed, as long as   *)
(* no reload overlapped another or failed.                                 *)
RowsOfHeader ==
    OnArtifacts /\ AtRest /\ calm =>
        /\ SortedBy(Leaders, header.sortBy, header.asc)
        /\ ShownRows(rows) = {r \in ToSet(items) : Kept(r, header.filter)}

(* "Returns true if no filter is specified, or if the filter string        *)
(* matches any of the row's columns" (Utils.tsx:87) and "apply sorting,    *)
(* filtering, and pagination to the local list" (ArtifactList.tsx:158,     *)
(* ExecutionList.tsx:200): the same for both lists, and for the items the  *)
(* filter matches.                                                         *)
RowsAsAsked ==
    OnList /\ AtRest /\ calm =>
        /\ SortedBy(Leaders, header.sortBy, header.asc)
        /\ ShownRows(rows) = {r \in ToSet(items) : Matches(r, header.filter)}
=============================================================================
