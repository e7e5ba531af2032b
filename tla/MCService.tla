------------------------------ MODULE MCService ------------------------------
(* Small instances of Service: one type name, and properties p and q, with *)
(* maps that extend one another and one that contradicts them.             *)
EXTENDS Service, TLC

Nothing   == <<>>
String    == [p |-> "STRING"]
Integer   == [p |-> "INT"]
StringPlus == [p |-> "STRING", q |-> "INT"]

Extending   == {String, StringPlus}
Conflicting == {String, Integer, StringPlus}
Empty       == {Nothing}

StoreOperations  == {"CreateType", "UpdateType", "GetType", "ListTypes", "CreateItem", "Delete"}
EventOperations  == {"CreateType", "CreateItem", "GetItem", "ListItems", "CreateEvent", "ListEvents"}
ListOperations   == {"CreateType", "CreateItem", "CreateEvent", "ListEvents"}

(* Nothing tells the clients apart but their identity.                      *)
Symmetry == Permutations(Clients)
=============================================================================
