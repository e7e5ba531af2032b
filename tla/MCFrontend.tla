----------------------------- MODULE MCFrontend ------------------------------
(* A small instance of Frontend: three items of two groups, in an order of  *)
(* names that has the groups alternate; two artifacts and two executions in *)
(* URLs.  The store answers with nothing, with all three, or with the first *)
(* alone as it was before it was put again in another workspace: of the two *)
(* lists neither has the rows of the other.                                 *)
EXTENDS Frontend

Item(id, group, name, match) == [id |-> id, group |-> group, name |-> name, match |-> match]
Items == <<Item(1, 1, 1, TRUE), Item(2, 2, 2, TRUE), Item(3, 1, 3, FALSE)>>
ItemLists == {<<>>, Items, <<Item(1, 2, 1, TRUE)>>}

Query(sortBy, asc, filter) == [sortBy |-> sortBy, asc |-> asc, filter |-> filter]
ByName == Query("name", TRUE, "")
Asked == {ByName, Query("group", FALSE, "predicate"), Query("name", TRUE, "malformed")}
AskedText == {ByName, Query("name", TRUE, "text")}
=============================================================================
