--------------------------- MODULE PriorityQueue ---------------------------
(***************************************************************************)
(* What a priority queue promises: a bag of values, pop returns and takes  *)
(* a smallest one, or -1 from an empty bag; peek returns it and leaves it. *)
(***************************************************************************)
EXTENDS Integers

CONSTANT Data

VARIABLES
    items,      \* how many of each value are in the queue
    last        \* what the last pop or peek returned

vars == <<items, last>>

Init == items = [d \in Data |-> 0] /\ last = -1

push(d) == items' = [items EXCEPT ![d] = @ + 1] /\ UNCHANGED last

Smallest(d) == items[d] > 0 /\ \A e \in Data : items[e] > 0 => d <= e

peek(d) == Smallest(d) /\ last' = d /\ UNCHANGED items

pop(d) ==
    /\ Smallest(d)
    /\ items' = [items EXCEPT ![d] = @ - 1]
    /\ last' = d

popEmpty ==
    /\ \A d \in Data : items[d] = 0
    /\ last' = -1
    /\ UNCHANGED items

Next == popEmpty \/ \E d \in Data : push(d) \/ pop(d) \/ peek(d)

Spec == Init /\ [][Next]_vars
=============================================================================
