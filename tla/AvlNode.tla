------------------------------ MODULE AvlNode ------------------------------
(***************************************************************************)
(* The nodes of the AVL tree (avltree.py) and the turns that balance them. *)
(* A node is named by its key, which never changes; t maps the nodes that  *)
(* exist to their fields, and a method that changes nodes gives a new t.   *)
(***************************************************************************)
EXTENDS Integers

CONSTANT None

Node(h) == [height |-> h, left |-> None, right |-> None]

height(t, node) == IF node = None THEN 0 ELSE t[node].height

different(t, node) == height(t, t[node].left) - height(t, t[node].right)

\* The height of a node computed anew from its children.
Larger(a, b) == IF a >= b THEN a ELSE b
Measured(t, node) ==
    [t EXCEPT ![node].height =
        Larger(height(t, t[node].left), height(t, t[node].right)) + 1]

(***************************************************************************)
(* The turns; x, the child that comes up, is what they return.  Before     *)
(* some definitions stands a faulty variant: a bug that a change of the    *)
(* code could bring in.  No specification uses it, and a property of       *)
(* AvlTree finds it.                                                       *)
(***************************************************************************)

\* The middle subtree lost; the new root measured before the old one.
LeftTurnLosesMiddle(t, node) ==
    LET x == t[node].right
        linked == [t EXCEPT ![node].right = None, ![x].left = node]
    IN  Measured(Measured(linked, node), x)
LeftTurnMeasuresFirst(t, node) ==
    LET x == t[node].right
        linked == [t EXCEPT ![node].right = t[x].left, ![x].left = node]
    IN  Measured(Measured(linked, x), node)
left_turn(t, node) ==
    LET x == t[node].right
        linked == [t EXCEPT ![node].right = t[x].left, ![x].left = node]
    IN  Measured(Measured(linked, node), x)

\* The outer subtree in the place of the middle one.
RightTurnWrongChild(t, node) ==
    LET x == t[node].left
        linked == [t EXCEPT ![node].left = t[x].left, ![x].right = node]
    IN  Measured(Measured(linked, node), x)
right_turn(t, node) ==
    LET x == t[node].left
        linked == [t EXCEPT ![node].left = t[x].right, ![x].right = node]
    IN  Measured(Measured(linked, node), x)

\* The first half of a double turn: a child that leans inward is turned
\* outward; that turn left out.
NeverStraightened(t, node) == t
StraightenedLeft(t, node) ==
    LET y == t[node].left
    IN  IF different(t, y) < 0
        THEN [left_turn(t, y) EXCEPT ![node].left = t[y].right] ELSE t

StraightenedRight(t, node) ==
    LET y == t[node].right
    IN  IF different(t, y) > 0
        THEN [right_turn(t, y) EXCEPT ![node].right = t[y].left] ELSE t

\* One side is too high.
TooHighLeft(t, node) == different(t, node) > 1
TooHighRight(t, node) == different(t, node) < -1

\* What balance does to the nodes, and the node it returns.
balance(t, node) ==
    CASE TooHighLeft(t, node)  -> right_turn(StraightenedLeft(t, node), node)
      [] TooHighRight(t, node) -> left_turn(StraightenedRight(t, node), node)
      [] OTHER -> t
BalancedTop(t, node) ==
    CASE TooHighLeft(t, node)  -> StraightenedLeft(t, node)[node].left
      [] TooHighRight(t, node) -> StraightenedRight(t, node)[node].right
      [] OTHER -> node
=============================================================================
