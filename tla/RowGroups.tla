------------------------------ MODULE RowGroups ------------------------------
(***************************************************************************)
(* The rows of the list pages (src/frontend/src/lib/Utils.tsx): filtered,  *)
(* sorted, and grouped by their first column.  A row is the item it shows, *)
(* [id, group, name, match]: group is that column, the pipeline or         *)
(* workspace; match tells whether the text a user looks for is in one of   *)
(* the columns.                                                            *)
(***************************************************************************)
EXTENDS Naturals, Sequences, SequencesExt

(* What is in the filter box, by what rowFilterFn makes of it: nothing; a  *)
(* text that is no JSON object with predicates, which is not looked for; a *)
(* JSON object with a predicate; a text decodeURIComponent throws on.      *)
FilterKinds == {"", "text", "predicate", "malformed"}

Throws(filter) == filter = "malformed"

Kept(row, filter) == filter = "predicate" => row.match

(* What a user who types a filter asks for.                                *)
Matches(row, filter) == filter # "" => row.match

(* rowCompareFn compares the column of the sort key; which of two rows     *)
(* with equal cells comes first is the engine's choice.                    *)
InOrder(before, after, sortBy, asc) ==
    IF asc THEN before[sortBy] <= after[sortBy] ELSE before[sortBy] >= after[sortBy]

SortedBy(rows, sortBy, asc) ==
    \A i, j \in DOMAIN rows : i < j => InOrder(rows[i], rows[j], sortBy, asc)

Sortings(S, sortBy, asc) == {p \in SetToSeqs(S) : SortedBy(p, sortBy, asc)}

(* groupRows: otherFields[0] alone is the key, whatever the name and the   *)
(* type.  The first row of a group stands for it, the others appear when   *)
(* it is expanded, and a group of one cannot be.  The Map of the code      *)
(* keeps its keys in the order they came.                                  *)
AddRow(groups, row) ==
    IF \E i \in DOMAIN groups : groups[i].row.group = row.group
    THEN [i \in DOMAIN groups |->
             IF groups[i].row.group # row.group THEN groups[i]
             ELSE [groups[i] EXCEPT !.hidden = Append(@, row), !.expand = "collapsed"]]
    ELSE Append(groups, [row |-> row, hidden |-> <<>>, expand |-> "none"])

GroupRows(rows) ==
    LET upTo[n \in 0 .. Len(rows)] == IF n = 0 THEN <<>> ELSE AddRow(upTo[n - 1], rows[n])
    IN  upTo[Len(rows)]

(* getRowsFromArtifacts, getRowsFromExecutions: the groups an answer to    *)
(* the query may become.                                                   *)
GroupsFor(items, q) ==
    LET kept == {r \in ToSet(items) : Kept(r, q.filter)} IN
    {GroupRows(rows) : rows \in Sortings(kept, q.sortBy, q.asc)}

(* toggleRowExpand                                                         *)
Toggle(group) ==
    [group EXCEPT !.expand = IF @ = "expanded" THEN "collapsed" ELSE "expanded"]

(* BodyRowSelectionSection shows the button unless the state is NONE.      *)
CanToggle(group) == group.expand # "none"

(* The rows a user sees or can get to see, and what grouping them means.   *)
RowsOf(group)   == {group.row} \cup ToSet(group.hidden)
ShownRows(groups) == UNION {RowsOf(groups[i]) : i \in DOMAIN groups}

WellGrouped(groups) ==
    \A i \in DOMAIN groups :
        /\ \A r \in RowsOf(groups[i]) : r.group = groups[i].row.group
        /\ \A j \in DOMAIN groups : j # i => groups[j].row.group # groups[i].row.group
        /\ groups[i].row \notin ToSet(groups[i].hidden)
        /\ CanToggle(groups[i]) <=> groups[i].hidden # <<>>
=============================================================================
