---------------------------- MODULE MCSdkClient -----------------------------
(* A small instance of SdkClient: clients and objects are interchangeable.  *)
EXTENDS SdkClient, TLC

Symmetry == Permutations(Clients) \cup Permutations(Models)
=============================================================================
