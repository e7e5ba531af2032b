---------------------------- MODULE MCCustomTable ----------------------------
(* A small instance of CustomTable: the ascending, unfiltered query has two *)
(* pages, any other has one.                                                *)
EXTENDS CustomTable

Pages == [q \in Queries |-> IF q.filter = "" /\ q.asc THEN 1 ELSE 0]
=============================================================================
