------------------------------ MODULE MCWatcher ------------------------------
(* Small instances of Watcher: names n1, n2; objects a and b are created    *)
(* under the same name, one after the other, c under a name of its own.     *)
EXTENDS Watcher

CONSTANTS a, b, c, n1, n2

OneName  == [u \in Objects |-> n1]
TwoNames == [u \in Objects |-> IF u = c THEN n2 ELSE n1]
=============================================================================
