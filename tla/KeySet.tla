------------------------------- MODULE KeySet -------------------------------
(***************************************************************************)
(* What a search tree promises: a set of keys that only grows.             *)
(***************************************************************************)
CONSTANT Keys

VARIABLE keys

Init == keys = {}

put(key) == keys' = keys \cup {key}

Next == \E key \in Keys : put(key)

Spec == Init /\ [][Next]_keys
=============================================================================
