------------------------------ MODULE MCSites -------------------------------
(***************************************************************************)
(* Two browsers, two user names, one or two ids per table.                 *)
(***************************************************************************)
EXTENDS Sites, TLC

MCMaxRows == [user |-> 2, article |-> 1, comment |-> 2, todo |-> 0,
              artist |-> 2, music |-> 2]

Symmetry == Permutations(Browsers)
=============================================================================
