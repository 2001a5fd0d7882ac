------------------------------ MODULE AvlTree ------------------------------
(***************************************************************************)
(* The AVL tree of avltree.py: an object with a root, and put.  put_item   *)
(* calls itself on the way down and balances the nodes of the way on its   *)
(* way back; every call and every return is a step.  The nodes of the      *)
(* calls that wait are in path, and cur is the argument of the last call   *)
(* (pc is "down") or what it has returned (pc is "up").                    *)
(***************************************************************************)
EXTENDS AvlNode, Sequences

CONSTANT Keys       \* the keys that callers put

ASSUME KeysAssumption == Keys \subseteq Int /\ None \notin Keys

VARIABLES
    root,
    nodes,          \* the nodes that exist, by their keys
    pc, key,        \* where put is, and its argument
    path, cur,
    turns           \* not in the code: how many nodes this put has turned

vars == <<root, nodes, pc, key, path, cur, turns>>

Init ==
    /\ root = None
    /\ nodes = [n \in {} |-> Node(1)]
    /\ pc = "idle" /\ key = None /\ path = <<>> /\ cur = None
    /\ turns = 0

put(k) ==
    /\ pc = "idle"
    /\ pc' = "down" /\ key' = k /\ cur' = root
    /\ UNCHANGED <<root, nodes, path, turns>>

\* The child of n on the side of key, and c put in its place.
Toward(t, n) == IF n > key THEN t[n].left ELSE t[n].right
Attached(t, n, c) ==
    IF n > key THEN [t EXCEPT ![n].left = c] ELSE [t EXCEPT ![n].right = c]

\* The end of a call: the node is measured and balanced.
MeasuresAndBalances(t, n) ==
    LET m == Measured(t, n) IN
    /\ nodes' = balance(m, n)
    /\ cur' = BalancedTop(m, n)
    /\ turns' = IF TooHighLeft(m, n) \/ TooHighRight(m, n) THEN turns + 1 ELSE turns
    /\ pc' = "up"

Descend ==
    /\ pc = "down" /\ cur \notin {None, key}
    /\ path' = Append(path, cur)
    /\ cur' = Toward(nodes, cur)
    /\ UNCHANGED <<root, nodes, pc, key, turns>>

NewNode ==
    /\ pc = "down" /\ cur = None
    /\ nodes' = [n \in DOMAIN nodes \cup {key} |-> IF n = key THEN Node(1) ELSE nodes[n]]
    /\ cur' = key
    /\ pc' = "up"
    /\ UNCHANGED <<root, key, path, turns>>

SameKey ==
    /\ pc = "down" /\ cur = key
    /\ MeasuresAndBalances(nodes, cur)
    /\ UNCHANGED <<root, key, path>>

Return ==
    /\ pc = "up" /\ path # <<>>
    /\ LET n == path[Len(path)]
       IN  MeasuresAndBalances(Attached(nodes, n, cur), n)
    /\ path' = SubSeq(path, 1, Len(path) - 1)
    /\ UNCHANGED <<root, key>>

PutReturns ==
    /\ pc = "up" /\ path = <<>>
    /\ root' = cur
    /\ pc' = "idle" /\ key' = None /\ cur' = None /\ turns' = 0
    /\ UNCHANGED <<nodes, path>>

Next ==
    \/ \E k \in Keys : put(k)
    \/ Descend \/ NewNode \/ SameKey \/ Return \/ PutReturns

Spec == Init /\ [][Next]_vars
-----------------------------------------------------------------------------
(***************************************************************************)
(* Properties.                                                             *)
(***************************************************************************)
\* The nodes of the subtree under n: those in every set of nodes that holds n
\* and the children of its members.
Below(t, n) ==
    LET closed == {S \in SUBSET DOMAIN t :
                      \A m \in S : {t[m].left, t[m].right} \subseteq S \cup {None}}
    IN  {m \in DOMAIN t : n # None /\ \A S \in closed : n \in S => m \in S}

Tree == Below(nodes, root)

\* Between two puts every subtree is in search order: the keys on the left are
\* smaller and the keys on the right larger than the key of its root, through
\* every turn (avltree.py:22-25 and 46-60).
SearchOrder ==
    pc = "idle" =>
        \A n \in Tree : /\ \A m \in Below(nodes, nodes[n].left) : m < n
                        /\ \A m \in Below(nodes, nodes[n].right) : m > n

\* The heights that the nodes store are those they have, which alone satisfy
\* this equation in the whole tree.  The turns change two nodes and must
\* measure the lower one first (avltree.py:50-51 and 58-59).
HeightsTrue ==
    pc = "idle" =>
        \A n \in Tree : nodes[n].height =
            Larger(height(nodes, nodes[n].left), height(nodes, nodes[n].right)) + 1

\* What makes it an AVL tree: the two sides of a node differ by at most one
\* (readme.md:7).
Balanced == pc = "idle" => \A n \in Tree : different(nodes, n) \in -1 .. 1

\* balance is called on every node of the way back up (avltree.py:29), but
\* one put turns at one of them at most: the turn gives the subtree the height
\* it had before the put.
OneTurnPerPut == turns <= 1

\* The tree implements a set of keys: put adds its key and loses none.  During
\* a put the set is that of the nodes that exist.
KeysIn == IF pc = "idle" THEN Tree ELSE DOMAIN nodes
Set == INSTANCE KeySet WITH keys <- KeysIn
ImplementsSet == Set!Spec
=============================================================================
