---------------------------- MODULE BoundedBuffer ----------------------------
(***************************************************************************)
(* What the mutex queue of the synchronisation benchmark promises, without *)
(* lock, condition variables, ring indices or threads: a FIFO of at most   *)
(* Capacity items into which every producer puts its items in order, each  *)
(* item once, and from which items leave in the order they came.           *)
(***************************************************************************)
EXTENDS Naturals, Sequences

CONSTANTS
    Producers,    \* the threads that put items
    Quota,        \* how many items each of them puts
    Capacity,     \* how many items the buffer holds
    Item(_, _)    \* Item(p, k) is the k-th item of producer p

VARIABLES
    items,        \* the buffered items, oldest first
    sent          \* sent[p] = how many items p has put so far

vars == <<items, sent>>

Init ==
    /\ items = <<>>
    /\ sent = [p \in Producers |-> 0]

Put(p) ==
    /\ Len(items) < Capacity
    /\ sent[p] < Quota
    /\ items' = Append(items, Item(p, sent[p]))
    /\ sent' = [sent EXCEPT ![p] = @ + 1]

Take ==
    /\ items # <<>>
    /\ items' = Tail(items)
    /\ UNCHANGED sent

Next == Take \/ \E p \in Producers : Put(p)

Spec == Init /\ [][Next]_vars
=============================================================================
