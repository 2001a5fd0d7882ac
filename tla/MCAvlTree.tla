----------------------------- MODULE MCAvlTree -----------------------------
(***************************************************************************)
(* Every sequence of puts of the keys 1 .. 9; each call of put_item is a   *)
(* step.                                                                   *)
(***************************************************************************)
EXTENDS AvlTree

MCKeys == 1 .. 9
=============================================================================
