------------------------------ MODULE LifoStack ------------------------------
(***************************************************************************)
(* What the CAS stack of the synchronisation benchmark promises, without   *)
(* nodes, pointers or retries: every producer pushes its items in order,   *)
(* each once, and a pop takes the item that was pushed last and hands it   *)
(* to the consumer that asked.                                             *)
(***************************************************************************)
EXTENDS Naturals, Sequences

CONSTANTS
    Producers,    \* the threads that push
    Consumers,    \* the threads that pop
    Quota,        \* how many items each producer pushes
    Nothing,      \* what a consumer has before its first pop
    Item(_, _)    \* Item(p, k) is the k-th item of producer p

VARIABLES
    items,        \* the pushed items, the last one first
    sent,         \* sent[p] = how many items p has pushed so far
    got           \* got[c] = the last item c has popped

vars == <<items, sent, got>>

Init ==
    /\ items = <<>>
    /\ sent = [p \in Producers |-> 0]
    /\ got = [c \in Consumers |-> Nothing]

Push(p) ==
    /\ sent[p] < Quota
    /\ items' = <<Item(p, sent[p])>> \o items
    /\ sent' = [sent EXCEPT ![p] = @ + 1]
    /\ UNCHANGED got

Pop(c) ==
    /\ items # <<>>
    /\ items' = Tail(items)
    /\ got' = [got EXCEPT ![c] = Head(items)]
    /\ UNCHANGED sent

Next ==
    \/ \E p \in Producers : Push(p)
    \/ \E c \in Consumers : Pop(c)

Spec == Init /\ [][Next]_vars
=============================================================================
