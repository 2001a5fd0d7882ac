---------------------------- MODULE MCBinaryHeap ----------------------------
(***************************************************************************)
(* Seven slots and seven values: a root, two children, four grandchildren, *)
(* with every order of pushes and pops, on memory with any words in it.    *)
(* Three values that may be equal are enough for the violation.            *)
(***************************************************************************)
EXTENDS BinaryHeap

MCData == 1 .. 7
MCFewData == 1 .. 3
MCZeroed == {NULL}
MCAnyWord == {NULL, Wild}
=============================================================================
