--------------------------- MODULE AvlTreeProofs ----------------------------
(***************************************************************************)
(* The AVL tree is in search order, its stored heights are true, it is     *)
(* balanced, one put turns at most once, and no key is lost: for every set *)
(* of integers as keys and every sequence of puts.                         *)
(*                                                                         *)
(* put_item calls itself, but the proof needs no induction over trees: the *)
(* calls are steps, and the invariant says what holds between any two of   *)
(* them.  First what a turn does to the fields of the nodes and to the     *)
(* shape of the tree, then what balance makes of a node (Balance), then    *)
(* the invariant, action by action.                                        *)
(***************************************************************************)
EXTENDS AvlTree, SequenceTheorems, WellFoundedInduction, TLAPS

\* The fields of the nodes; children are nodes that exist.
IsNodes(t) ==
    /\ DOMAIN t \subseteq Keys
    /\ t \in [DOMAIN t -> [height : Nat, left : DOMAIN t \cup {None},
                                         right : DOMAIN t \cup {None}]]

-----------------------------------------------------------------------------
(***************************************************************************)
(* What the pieces of put_item do to the fields of the nodes.              *)
(***************************************************************************)
LEMMA NodeFields ==
    ASSUME NEW t, IsNodes(t), NEW n \in DOMAIN t
    PROVE  /\ n \in Int /\ n # None /\ None \notin DOMAIN t
           /\ t[n].height \in Nat
           /\ t[n].left \in DOMAIN t \cup {None} /\ t[n].right \in DOMAIN t \cup {None}
           /\ height(t, t[n].left) \in Nat /\ height(t, t[n].right) \in Nat
           /\ height(t, n) = t[n].height
<1>1. n \in Int /\ n # None /\ None \notin DOMAIN t
  BY KeysAssumption DEF IsNodes
<1>2. \A m \in DOMAIN t : /\ t[m].height \in Nat
                          /\ t[m].left \in DOMAIN t \cup {None}
                          /\ t[m].right \in DOMAIN t \cup {None}
  BY DEF IsNodes
<1> QED BY <1>1, <1>2 DEF height

LEMMA MeasuredFields ==
    ASSUME NEW t, IsNodes(t), NEW n \in DOMAIN t
    PROVE  LET u == Measured(t, n) IN
           /\ IsNodes(u) /\ DOMAIN u = DOMAIN t
           /\ \A m \in DOMAIN t : u[m].left = t[m].left /\ u[m].right = t[m].right
           /\ \A m \in DOMAIN t : m # n => u[m] = t[m]
           /\ u[n].height = Larger(height(t, t[n].left), height(t, t[n].right)) + 1
<1> DEFINE h == Larger(height(t, t[n].left), height(t, t[n].right)) + 1
<1>1. h \in Nat
  BY NodeFields DEF Larger
<1>2. Measured(t, n) = [t EXCEPT ![n].height = h]
  BY DEF Measured
<1> HIDE DEF h
<1> QED BY <1>1, <1>2 DEF IsNodes, h

\* u is t after a turn to the left at n (avltree.py:46-52).
LeftTurn(t, u, n, x) ==
    /\ IsNodes(u) /\ DOMAIN u = DOMAIN t
    /\ \A m \in DOMAIN t : m \notin {n, x} => u[m] = t[m]
    /\ u[n].left = t[n].left /\ u[n].right = t[x].left
    /\ u[x].left = n /\ u[x].right = t[x].right
    /\ u[n].height = Larger(height(t, t[n].left), height(t, t[x].left)) + 1
    /\ u[x].height = Larger(u[n].height, height(t, t[x].right)) + 1

LEMMA LeftTurnFields ==
    ASSUME NEW t, IsNodes(t), NEW n \in DOMAIN t, NEW x \in DOMAIN t, x = t[n].right,
           x # n, t[x].right \notin {n, x}
    PROVE  LeftTurn(t, left_turn(t, n), n, x)
<1> DEFINE v == [t EXCEPT ![n].right = t[x].left, ![x].left = n]
           w == Measured(v, n)
           u == Measured(w, x)
<1>1. left_turn(t, n) = u
  BY DEF left_turn
<1>2. /\ IsNodes(v) /\ DOMAIN v = DOMAIN t
      /\ \A m \in DOMAIN t : m \notin {n, x} => v[m] = t[m]
      /\ \A m \in DOMAIN t : v[m].height = t[m].height
      /\ v[n].left = t[n].left /\ v[n].right = t[x].left
      /\ v[x].left = n /\ v[x].right = t[x].right
  BY DEF IsNodes
<1>3. \A m : m \in DOMAIN t \cup {None} => height(v, m) = height(t, m)
  BY <1>2 DEF height
<1>4. t[x].left \in DOMAIN t \cup {None} /\ t[x].right \in DOMAIN t \cup {None}
      /\ t[n].left \in DOMAIN t \cup {None} /\ n # None
  BY NodeFields
<1> HIDE DEF v
<1>5. /\ IsNodes(w) /\ DOMAIN w = DOMAIN t
      /\ \A m \in DOMAIN t : w[m].left = v[m].left /\ w[m].right = v[m].right
      /\ \A m \in DOMAIN t : m # n => w[m] = v[m]
      /\ w[n].height = Larger(height(t, t[n].left), height(t, t[x].left)) + 1
  <2>1. n \in DOMAIN v
    BY <1>2
  <2>2. height(v, v[n].left) = height(t, t[n].left) /\ height(v, v[n].right) = height(t, t[x].left)
    BY <1>2, <1>3, <1>4
  <2> QED BY <1>2, <2>1, <2>2, MeasuredFields
<1> HIDE DEF w
<1>6. height(w, n) = w[n].height /\ height(w, t[x].right) = height(t, t[x].right)
  BY <1>2, <1>3, <1>4, <1>5 DEF height
<1>7. /\ IsNodes(u) /\ DOMAIN u = DOMAIN t
      /\ \A m \in DOMAIN t : u[m].left = w[m].left /\ u[m].right = w[m].right
      /\ \A m \in DOMAIN t : m # x => u[m] = w[m]
      /\ u[x].height = Larger(height(w, w[x].left), height(w, w[x].right)) + 1
  BY <1>5, MeasuredFields
<1> HIDE DEF u
<1> QED BY <1>1, <1>2, <1>5, <1>6, <1>7 DEF LeftTurn
\* u is t after a turn to the right at n (avltree.py:54-60).
RightTurn(t, u, n, x) ==
    /\ IsNodes(u) /\ DOMAIN u = DOMAIN t
    /\ \A m \in DOMAIN t : m \notin {n, x} => u[m] = t[m]
    /\ u[n].right = t[n].right /\ u[n].left = t[x].right
    /\ u[x].right = n /\ u[x].left = t[x].left
    /\ u[n].height = Larger(height(t, t[x].right), height(t, t[n].right)) + 1
    /\ u[x].height = Larger(height(t, t[x].left), u[n].height) + 1

LEMMA RightTurnFields ==
    ASSUME NEW t, IsNodes(t), NEW n \in DOMAIN t, NEW x \in DOMAIN t, x = t[n].left,
           x # n, t[x].left \notin {n, x}
    PROVE  RightTurn(t, right_turn(t, n), n, x)
<1> DEFINE v == [t EXCEPT ![n].left = t[x].right, ![x].right = n]
           w == Measured(v, n)
           u == Measured(w, x)
<1>1. right_turn(t, n) = u
  BY DEF right_turn
<1>2. /\ IsNodes(v) /\ DOMAIN v = DOMAIN t
      /\ \A m \in DOMAIN t : m \notin {n, x} => v[m] = t[m]
      /\ \A m \in DOMAIN t : v[m].height = t[m].height
      /\ v[n].right = t[n].right /\ v[n].left = t[x].right
      /\ v[x].right = n /\ v[x].left = t[x].left
  BY DEF IsNodes
<1>3. \A m : m \in DOMAIN t \cup {None} => height(v, m) = height(t, m)
  BY <1>2 DEF height
<1>4. t[x].right \in DOMAIN t \cup {None} /\ t[x].left \in DOMAIN t \cup {None}
      /\ t[n].right \in DOMAIN t \cup {None} /\ n # None
  BY NodeFields
<1> HIDE DEF v
<1>5. /\ IsNodes(w) /\ DOMAIN w = DOMAIN t
      /\ \A m \in DOMAIN t : w[m].right = v[m].right /\ w[m].left = v[m].left
      /\ \A m \in DOMAIN t : m # n => w[m] = v[m]
      /\ w[n].height = Larger(height(t, t[x].right), height(t, t[n].right)) + 1
  <2>1. n \in DOMAIN v
    BY <1>2
  <2>2. height(v, v[n].right) = height(t, t[n].right) /\ height(v, v[n].left) = height(t, t[x].right)
    BY <1>2, <1>3, <1>4
  <2> QED BY <1>2, <2>1, <2>2, MeasuredFields
<1> HIDE DEF w
<1>6. height(w, n) = w[n].height /\ height(w, t[x].left) = height(t, t[x].left)
  BY <1>2, <1>3, <1>4, <1>5 DEF height
<1>7. /\ IsNodes(u) /\ DOMAIN u = DOMAIN t
      /\ \A m \in DOMAIN t : u[m].right = w[m].right /\ u[m].left = w[m].left
      /\ \A m \in DOMAIN t : m # x => u[m] = w[m]
      /\ u[x].height = Larger(height(w, w[x].left), height(w, w[x].right)) + 1
  BY <1>5, MeasuredFields
<1> HIDE DEF u
<1> QED BY <1>1, <1>2, <1>5, <1>6, <1>7 DEF RightTurn

-----------------------------------------------------------------------------
(***************************************************************************)
(* The shape of a tree.  sub gives the keys under each node and par its    *)
(* parent; a turn exchanges x, which comes up, for n in every other node,  *)
(* and gives the middle subtree to n.                                      *)
(***************************************************************************)
Under(sub, c) == IF c = None THEN {} ELSE sub[c]

Ordered(t, sub) ==
    \A n \in DOMAIN t :
        /\ sub[n] = {n} \cup Under(sub, t[n].left) \cup Under(sub, t[n].right)
        /\ \A m \in Under(sub, t[n].left) : m < n
        /\ \A m \in Under(sub, t[n].right) : m > n

Parents(t, par) ==
    \A n \in DOMAIN t : /\ t[n].left # None => par[t[n].left] = n
                        /\ t[n].right # None => par[t[n].right] = n

Shape(t, r, sub, par) ==
    /\ sub \in [DOMAIN t -> SUBSET DOMAIN t]
    /\ par \in [DOMAIN t -> DOMAIN t \cup {None}]
    /\ r \in DOMAIN t \cup {None} /\ Under(sub, r) = DOMAIN t
    /\ r # None => par[r] = None
    /\ Ordered(t, sub) /\ Parents(t, par)

LEMMA SameShape ==
    ASSUME NEW t, NEW u, NEW r, NEW sub, NEW par, Shape(t, r, sub, par), DOMAIN u = DOMAIN t,
           \A m \in DOMAIN t : u[m].left = t[m].left /\ u[m].right = t[m].right
    PROVE  Shape(u, r, sub, par)
BY DEF Shape, Ordered, Parents

LEMMA ShapeFacts ==
    ASSUME NEW t, IsNodes(t), NEW r, NEW sub, NEW par, Shape(t, r, sub, par), NEW n \in DOMAIN t
    PROVE  /\ n \in sub[n]
           /\ t[n].left # n /\ t[n].right # n
           /\ t[n].left # None => t[n].left # t[n].right /\ t[n].left < n /\ par[t[n].left] = n
           /\ t[n].right # None => t[n].right > n /\ par[t[n].right] = n
           /\ n \notin Under(sub, t[n].left) /\ n \notin Under(sub, t[n].right)
<1>1. /\ n \in Int /\ n # None /\ None \notin DOMAIN t
      /\ t[n].left \in DOMAIN t \cup {None} /\ t[n].right \in DOMAIN t \cup {None}
  BY NodeFields
<1>2. \A m \in DOMAIN t : m \in sub[m] /\ m \in Int
  BY NodeFields DEF Shape, Ordered
<1>3. /\ t[n].left # None => t[n].left \in Under(sub, t[n].left)
      /\ t[n].right # None => t[n].right \in Under(sub, t[n].right)
  BY <1>1, <1>2 DEF Under
<1>4. /\ \A m \in Under(sub, t[n].left) : m < n
      /\ \A m \in Under(sub, t[n].right) : m > n
  BY DEF Shape, Ordered
<1>5. /\ t[n].left # None => par[t[n].left] = n
      /\ t[n].right # None => par[t[n].right] = n
  BY DEF Shape, Parents
<1>6. /\ t[n].left # None => t[n].left \in Int /\ t[n].left < n
      /\ t[n].right # None => t[n].right \in Int /\ t[n].right > n
  BY <1>1, <1>2, <1>3, <1>4
<1>7. t[n].left # n /\ t[n].right # n /\ (t[n].left # None => t[n].left # t[n].right)
  BY <1>1, <1>6
<1>8. n \notin Under(sub, t[n].left) /\ n \notin Under(sub, t[n].right)
  BY <1>1, <1>4
<1> QED BY <1>2, <1>5, <1>6, <1>7, <1>8
Swap(n, x, c) == IF c = n THEN x ELSE c

\* v is t after a turn to the left at n, with x hung up in the place of n.
TurnedLeft(t, v, n, x) ==
    /\ IsNodes(v) /\ DOMAIN v = DOMAIN t
    /\ v[n].left = t[n].left /\ v[n].right = t[x].left
    /\ v[x].left = n /\ v[x].right = t[x].right
    /\ \A q \in DOMAIN t : q \notin {n, x} =>
           /\ v[q].left = Swap(n, x, t[q].left)
           /\ v[q].right = Swap(n, x, t[q].right)

\* v is t after a turn to the right at n, with x hung up in the place of n.
TurnedRight(t, v, n, x) ==
    /\ IsNodes(v) /\ DOMAIN v = DOMAIN t
    /\ v[n].right = t[n].right /\ v[n].left = t[x].right
    /\ v[x].right = n /\ v[x].left = t[x].left
    /\ \A q \in DOMAIN t : q \notin {n, x} =>
           /\ v[q].right = Swap(n, x, t[q].right)
           /\ v[q].left = Swap(n, x, t[q].left)

\* What a turn at n leaves of the shape.
Reshaped(t, v, n, x, r, sub, par, sub2, par2) ==
    /\ Shape(v, Swap(n, x, r), sub2, par2)
    /\ sub2[x] = sub[n] /\ sub2[n] \subseteq sub[n] /\ par2[x] = par[n] /\ par2[n] = x
    /\ \A q \in DOMAIN t : q \notin {n, x} => sub2[q] = sub[q]
    /\ \A q \in DOMAIN t : q \notin {n, x} /\ par[q] \notin {n, x} => par2[q] = par[q]

LEMMA LeftTurnShape ==
    ASSUME NEW t, IsNodes(t), NEW r, NEW sub, NEW par, Shape(t, r, sub, par),
           NEW n \in DOMAIN t, NEW x \in DOMAIN t, x = t[n].right,
           NEW v, TurnedLeft(t, v, n, x)
    PROVE  \E sub2, par2 : Reshaped(t, v, n, x, r, sub, par, sub2, par2)
<1> DEFINE a == t[n].left
           b == t[x].left
           d == t[x].right
           sub2 == [q \in DOMAIN t |->
                       IF q = x THEN sub[n]
                       ELSE IF q = n THEN {n} \cup Under(sub, a) \cup Under(sub, b)
                       ELSE sub[q]]
           par2 == [q \in DOMAIN t |->
                       IF q = x THEN par[n] ELSE IF q = n THEN x
                       ELSE IF q = b THEN n ELSE par[q]]
<1>1. /\ None \notin DOMAIN t /\ n \in Int /\ x \in Int
      /\ a \in DOMAIN t \cup {None} /\ b \in DOMAIN t \cup {None} /\ d \in DOMAIN t \cup {None}
  BY NodeFields
<1>2. n # x /\ n < x /\ n \in sub[n] /\ x \in sub[x] /\ par[x] = n
  BY ShapeFacts, <1>1
<1>3. /\ a \notin {n, x} /\ (a # None => par[a] = n)
      /\ b \notin {n, x} /\ (b # None => par[b] = x)
      /\ d \notin {n, x} /\ (d # None => par[d] = x)
      /\ (b # None => b # d) /\ (a # None => a # b)
  <2>1. a \notin {n, x} /\ (a # None => par[a] = n)
    BY ShapeFacts, <1>1, <1>2
  <2>2. b # x /\ d # x /\ (b # None => par[b] = x /\ b # d) /\ (d # None => par[d] = x)
    BY ShapeFacts, <1>1, <1>2
  <2>3. b # n /\ d # n
    <3>1. n \notin sub[x]
      BY ShapeFacts, <1>1, <1>2 DEF Under
    <3>2. \A c \in DOMAIN t : c \in sub[c]
      BY ShapeFacts
    <3> QED BY <3>1, <3>2, <1>1 DEF Shape, Ordered, Under
  <2> QED BY <2>1, <2>2, <2>3, <1>2
<1>4. /\ sub[n] = {n} \cup Under(sub, a) \cup sub[x]
      /\ sub[x] = {x} \cup Under(sub, b) \cup Under(sub, d)
  BY <1>1 DEF Shape, Ordered, Under
<1>5. /\ \A m \in Under(sub, a) : m < n
      /\ \A m \in sub[x] : m > n
      /\ \A m \in Under(sub, b) : m < x
      /\ \A m \in Under(sub, d) : m > x
  BY <1>1 DEF Shape, Ordered, Under
<1>6. sub \in [DOMAIN t -> SUBSET DOMAIN t] /\ par \in [DOMAIN t -> DOMAIN t \cup {None}]
  BY DEF Shape
<1>7. \A q \in DOMAIN t : t[q].left \in DOMAIN t \cup {None} /\ t[q].right \in DOMAIN t \cup {None}
  BY NodeFields
\* Only n points to x, and only its parent to n.
<1>8. \A q \in DOMAIN t : q # n => t[q].left # x /\ t[q].right # x
  BY <1>1, <1>2 DEF Shape, Parents
<1>9. \A c \in DOMAIN t \cup {None} : c # x => Under(sub2, Swap(n, x, c)) = Under(sub, c)
  BY <1>1, <1>2, <1>3 DEF Under, Swap
<1>10. \A c \in DOMAIN t \cup {None} : c \notin {n, x} => Under(sub2, c) = Under(sub, c)
  BY <1>1, <1>2, <1>3 DEF Under
<1>11. /\ sub2[x] = sub[n] /\ sub2[n] = {n} \cup Under(sub, a) \cup Under(sub, b)
       /\ par2[x] = par[n] /\ par2[n] = x
       /\ \A q \in DOMAIN t : q \notin {n, x} => sub2[q] = sub[q]
       /\ \A q \in DOMAIN t : q \notin {n, x, b} => par2[q] = par[q]
       /\ b # None => par2[b] = n
  BY <1>1, <1>2, <1>3
<1>12. /\ sub2 \in [DOMAIN t -> SUBSET DOMAIN t]
       /\ par2 \in [DOMAIN t -> DOMAIN t \cup {None}]
  <2>1. Under(sub, a) \subseteq DOMAIN t /\ Under(sub, b) \subseteq DOMAIN t
    BY <1>1, <1>6 DEF Under
  <2> QED BY <1>1, <1>6, <2>1
<1>17. sub2[n] \subseteq sub[n]
  BY <1>4, <1>11
<1> HIDE DEF sub2, par2
<1>13. Ordered(v, sub2)
  <2> SUFFICES ASSUME NEW q \in DOMAIN t
               PROVE  /\ sub2[q] = {q} \cup Under(sub2, v[q].left) \cup Under(sub2, v[q].right)
                      /\ \A m \in Under(sub2, v[q].left) : m < q
                      /\ \A m \in Under(sub2, v[q].right) : m > q
    BY DEF Ordered, TurnedLeft
  <2>1. CASE q = n
    <3>1. Under(sub2, v[q].left) = Under(sub, a) /\ Under(sub2, v[q].right) = Under(sub, b)
      BY <2>1, <1>1, <1>3, <1>10 DEF TurnedLeft
    <3>2. Under(sub, b) \subseteq sub[x]
      BY <1>4
    <3> QED BY <2>1, <3>1, <3>2, <1>5, <1>11
  <2>2. CASE q = x
    <3>1. Under(sub2, v[q].left) = sub2[n] /\ Under(sub2, v[q].right) = Under(sub, d)
      BY <2>2, <1>1, <1>3, <1>10 DEF TurnedLeft, Under
    <3>2. sub2[n] \subseteq DOMAIN t
      BY <1>12
    <3>3. \A m \in sub2[n] : m < x
      <4> SUFFICES ASSUME NEW m \in sub2[n] PROVE m < x
        OBVIOUS
      <4>1. m \in Int
        BY <3>2, NodeFields
      <4>2. m = n \/ m < n \/ m < x
        BY <1>5, <1>11
      <4> QED BY <4>1, <4>2, <1>1, <1>2
    <3>4. sub2[x] = {x} \cup sub2[n] \cup Under(sub, d)
      BY <1>4, <1>11
    <3> QED BY <2>2, <3>1, <3>3, <3>4, <1>5
  <2>3. CASE q \notin {n, x}
    <3>1. t[q].left # x /\ t[q].right # x
      BY <2>3, <1>8
    <3>2. /\ Under(sub2, v[q].left) = Under(sub, t[q].left)
          /\ Under(sub2, v[q].right) = Under(sub, t[q].right)
      BY <2>3, <3>1, <1>7, <1>9 DEF TurnedLeft
    <3>3. sub2[q] = sub[q]
      BY <2>3, <1>11
    <3>4. /\ sub[q] = {q} \cup Under(sub, t[q].left) \cup Under(sub, t[q].right)
          /\ \A m \in Under(sub, t[q].left) : m < q
          /\ \A m \in Under(sub, t[q].right) : m > q
      BY DEF Shape, Ordered
    <3> QED BY <3>2, <3>3, <3>4
  <2> QED BY <2>1, <2>2, <2>3
<1>14. Parents(v, par2)
  <2> SUFFICES ASSUME NEW q \in DOMAIN t
               PROVE  /\ v[q].left # None => par2[v[q].left] = q
                      /\ v[q].right # None => par2[v[q].right] = q
    BY DEF Parents, TurnedLeft
  <2>1. CASE q = n
    BY <2>1, <1>3, <1>7, <1>11 DEF TurnedLeft
  <2>2. CASE q = x
    <3>1. d # None => par2[d] = x
      BY <1>1, <1>3, <1>11
    <3> QED BY <2>2, <3>1, <1>11 DEF TurnedLeft
  <2>3. CASE q \notin {n, x}
    <3>1. /\ t[q].left # None => par[t[q].left] = q
          /\ t[q].right # None => par[t[q].right] = q
      BY DEF Shape, Parents
    <3>2. t[q].left # b \/ b = None
      BY <2>3, <3>1, <1>3
    <3>3. t[q].right # b \/ b = None
      BY <2>3, <3>1, <1>3
    <3>4. t[q].left # x /\ t[q].right # x
      BY <2>3, <1>8
    <3>5. v[q].left # None => par2[v[q].left] = q
      <4>1. CASE t[q].left = n
        BY <4>1, <2>3, <3>1, <1>1, <1>11 DEF TurnedLeft, Swap
      <4>2. CASE t[q].left # n
        BY <4>2, <2>3, <3>1, <3>2, <3>4, <1>7, <1>11 DEF TurnedLeft, Swap
      <4> QED BY <4>1, <4>2
    <3>6. v[q].right # None => par2[v[q].right] = q
      <4>1. CASE t[q].right = n
        BY <4>1, <2>3, <3>1, <1>1, <1>11 DEF TurnedLeft, Swap
      <4>2. CASE t[q].right # n
        BY <4>2, <2>3, <3>1, <3>3, <3>4, <1>7, <1>11 DEF TurnedLeft, Swap
      <4> QED BY <4>1, <4>2
    <3> QED BY <3>5, <3>6
  <2> QED BY <2>1, <2>2, <2>3
<1>15. Shape(v, Swap(n, x, r), sub2, par2)
  <2>1. r \in DOMAIN t \cup {None} /\ Under(sub, r) = DOMAIN t /\ (r # None => par[r] = None)
    BY DEF Shape
  <2>2. r # x
    BY <2>1, <1>1, <1>2
  <2>3. Swap(n, x, r) \in DOMAIN t \cup {None} /\ Under(sub2, Swap(n, x, r)) = DOMAIN t
    BY <2>1, <2>2, <1>9 DEF Swap
  <2>4. Swap(n, x, r) # None => par2[Swap(n, x, r)] = None
    <3>1. CASE r = n
      BY <3>1, <2>1, <1>1, <1>11 DEF Swap
    <3>2. CASE r # n
      <4>1. r # None => r # b
        BY <2>1, <1>1, <1>3
      <4> QED BY <3>2, <4>1, <2>1, <2>2, <1>11 DEF Swap
    <3> QED BY <3>1, <3>2
  <2> QED BY <2>3, <2>4, <1>12, <1>13, <1>14 DEF Shape, TurnedLeft
<1>16. \A q \in DOMAIN t : q \notin {n, x} /\ par[q] \notin {n, x} => par2[q] = par[q]
  BY <1>1, <1>3, <1>11
<1> QED BY <1>11, <1>15, <1>16, <1>17 DEF Reshaped
LEMMA RightTurnShape ==
    ASSUME NEW t, IsNodes(t), NEW r, NEW sub, NEW par, Shape(t, r, sub, par),
           NEW n \in DOMAIN t, NEW x \in DOMAIN t, x = t[n].left,
           NEW v, TurnedRight(t, v, n, x)
    PROVE  \E sub2, par2 : Reshaped(t, v, n, x, r, sub, par, sub2, par2)
<1> DEFINE a == t[n].right
           b == t[x].right
           d == t[x].left
           sub2 == [q \in DOMAIN t |->
                       IF q = x THEN sub[n]
                       ELSE IF q = n THEN {n} \cup Under(sub, a) \cup Under(sub, b)
                       ELSE sub[q]]
           par2 == [q \in DOMAIN t |->
                       IF q = x THEN par[n] ELSE IF q = n THEN x
                       ELSE IF q = b THEN n ELSE par[q]]
<1>1. /\ None \notin DOMAIN t /\ n \in Int /\ x \in Int
      /\ a \in DOMAIN t \cup {None} /\ b \in DOMAIN t \cup {None} /\ d \in DOMAIN t \cup {None}
  BY NodeFields
<1>2. n # x /\ n > x /\ n \in sub[n] /\ x \in sub[x] /\ par[x] = n
  BY ShapeFacts, <1>1
<1>3. /\ a \notin {n, x} /\ (a # None => par[a] = n)
      /\ b \notin {n, x} /\ (b # None => par[b] = x)
      /\ d \notin {n, x} /\ (d # None => par[d] = x)
      /\ (b # None => b # d) /\ (a # None => a # b)
  <2>1. a \notin {n, x} /\ (a # None => par[a] = n)
    BY ShapeFacts, <1>1, <1>2
  <2>2. b # x /\ d # x /\ (b # None => par[b] = x /\ b # d) /\ (d # None => par[d] = x)
    BY ShapeFacts, <1>1, <1>2
  <2>3. b # n /\ d # n
    <3>1. n \notin sub[x]
      BY ShapeFacts, <1>1, <1>2 DEF Under
    <3>2. \A c \in DOMAIN t : c \in sub[c]
      BY ShapeFacts
    <3> QED BY <3>1, <3>2, <1>1 DEF Shape, Ordered, Under
  <2> QED BY <2>1, <2>2, <2>3, <1>2
<1>4. /\ sub[n] = {n} \cup Under(sub, a) \cup sub[x]
      /\ sub[x] = {x} \cup Under(sub, b) \cup Under(sub, d)
  BY <1>1 DEF Shape, Ordered, Under
<1>5. /\ \A m \in Under(sub, a) : m > n
      /\ \A m \in sub[x] : m < n
      /\ \A m \in Under(sub, b) : m > x
      /\ \A m \in Under(sub, d) : m < x
  BY <1>1 DEF Shape, Ordered, Under
<1>6. sub \in [DOMAIN t -> SUBSET DOMAIN t] /\ par \in [DOMAIN t -> DOMAIN t \cup {None}]
  BY DEF Shape
<1>7. \A q \in DOMAIN t : t[q].right \in DOMAIN t \cup {None} /\ t[q].left \in DOMAIN t \cup {None}
  BY NodeFields
\* Only n points to x, and only its parent to n.
<1>8. \A q \in DOMAIN t : q # n => t[q].right # x /\ t[q].left # x
  BY <1>1, <1>2 DEF Shape, Parents
<1>9. \A c \in DOMAIN t \cup {None} : c # x => Under(sub2, Swap(n, x, c)) = Under(sub, c)
  BY <1>1, <1>2, <1>3 DEF Under, Swap
<1>10. \A c \in DOMAIN t \cup {None} : c \notin {n, x} => Under(sub2, c) = Under(sub, c)
  BY <1>1, <1>2, <1>3 DEF Under
<1>11. /\ sub2[x] = sub[n] /\ sub2[n] = {n} \cup Under(sub, a) \cup Under(sub, b)
       /\ par2[x] = par[n] /\ par2[n] = x
       /\ \A q \in DOMAIN t : q \notin {n, x} => sub2[q] = sub[q]
       /\ \A q \in DOMAIN t : q \notin {n, x, b} => par2[q] = par[q]
       /\ b # None => par2[b] = n
  BY <1>1, <1>2, <1>3
<1>12. /\ sub2 \in [DOMAIN t -> SUBSET DOMAIN t]
       /\ par2 \in [DOMAIN t -> DOMAIN t \cup {None}]
  <2>1. Under(sub, a) \subseteq DOMAIN t /\ Under(sub, b) \subseteq DOMAIN t
    BY <1>1, <1>6 DEF Under
  <2> QED BY <1>1, <1>6, <2>1
<1>17. sub2[n] \subseteq sub[n]
  BY <1>4, <1>11
<1> HIDE DEF sub2, par2
<1>13. Ordered(v, sub2)
  <2> SUFFICES ASSUME NEW q \in DOMAIN t
               PROVE  /\ sub2[q] = {q} \cup Under(sub2, v[q].right) \cup Under(sub2, v[q].left)
                      /\ \A m \in Under(sub2, v[q].right) : m > q
                      /\ \A m \in Under(sub2, v[q].left) : m < q
    BY DEF Ordered, TurnedRight
  <2>1. CASE q = n
    <3>1. Under(sub2, v[q].right) = Under(sub, a) /\ Under(sub2, v[q].left) = Under(sub, b)
      BY <2>1, <1>1, <1>3, <1>10 DEF TurnedRight
    <3>2. Under(sub, b) \subseteq sub[x]
      BY <1>4
    <3> QED BY <2>1, <3>1, <3>2, <1>5, <1>11
  <2>2. CASE q = x
    <3>1. Under(sub2, v[q].right) = sub2[n] /\ Under(sub2, v[q].left) = Under(sub, d)
      BY <2>2, <1>1, <1>3, <1>10 DEF TurnedRight, Under
    <3>2. sub2[n] \subseteq DOMAIN t
      BY <1>12
    <3>3. \A m \in sub2[n] : m > x
      <4> SUFFICES ASSUME NEW m \in sub2[n] PROVE m > x
        OBVIOUS
      <4>1. m \in Int
        BY <3>2, NodeFields
      <4>2. m = n \/ m > n \/ m > x
        BY <1>5, <1>11
      <4> QED BY <4>1, <4>2, <1>1, <1>2
    <3>4. sub2[x] = {x} \cup sub2[n] \cup Under(sub, d)
      BY <1>4, <1>11
    <3> QED BY <2>2, <3>1, <3>3, <3>4, <1>5
  <2>3. CASE q \notin {n, x}
    <3>1. t[q].right # x /\ t[q].left # x
      BY <2>3, <1>8
    <3>2. /\ Under(sub2, v[q].right) = Under(sub, t[q].right)
          /\ Under(sub2, v[q].left) = Under(sub, t[q].left)
      BY <2>3, <3>1, <1>7, <1>9 DEF TurnedRight
    <3>3. sub2[q] = sub[q]
      BY <2>3, <1>11
    <3>4. /\ sub[q] = {q} \cup Under(sub, t[q].right) \cup Under(sub, t[q].left)
          /\ \A m \in Under(sub, t[q].right) : m > q
          /\ \A m \in Under(sub, t[q].left) : m < q
      BY DEF Shape, Ordered
    <3> QED BY <3>2, <3>3, <3>4
  <2> QED BY <2>1, <2>2, <2>3
<1>14. Parents(v, par2)
  <2> SUFFICES ASSUME NEW q \in DOMAIN t
               PROVE  /\ v[q].right # None => par2[v[q].right] = q
                      /\ v[q].left # None => par2[v[q].left] = q
    BY DEF Parents, TurnedRight
  <2>1. CASE q = n
    BY <2>1, <1>3, <1>7, <1>11 DEF TurnedRight
  <2>2. CASE q = x
    <3>1. d # None => par2[d] = x
      BY <1>1, <1>3, <1>11
    <3> QED BY <2>2, <3>1, <1>11 DEF TurnedRight
  <2>3. CASE q \notin {n, x}
    <3>1. /\ t[q].right # None => par[t[q].right] = q
          /\ t[q].left # None => par[t[q].left] = q
      BY DEF Shape, Parents
    <3>2. t[q].right # b \/ b = None
      BY <2>3, <3>1, <1>3
    <3>3. t[q].left # b \/ b = None
      BY <2>3, <3>1, <1>3
    <3>4. t[q].right # x /\ t[q].left # x
      BY <2>3, <1>8
    <3>5. v[q].right # None => par2[v[q].right] = q
      <4>1. CASE t[q].right = n
        BY <4>1, <2>3, <3>1, <1>1, <1>11 DEF TurnedRight, Swap
      <4>2. CASE t[q].right # n
        BY <4>2, <2>3, <3>1, <3>2, <3>4, <1>7, <1>11 DEF TurnedRight, Swap
      <4> QED BY <4>1, <4>2
    <3>6. v[q].left # None => par2[v[q].left] = q
      <4>1. CASE t[q].left = n
        BY <4>1, <2>3, <3>1, <1>1, <1>11 DEF TurnedRight, Swap
      <4>2. CASE t[q].left # n
        BY <4>2, <2>3, <3>1, <3>3, <3>4, <1>7, <1>11 DEF TurnedRight, Swap
      <4> QED BY <4>1, <4>2
    <3> QED BY <3>5, <3>6
  <2> QED BY <2>1, <2>2, <2>3
<1>15. Shape(v, Swap(n, x, r), sub2, par2)
  <2>1. r \in DOMAIN t \cup {None} /\ Under(sub, r) = DOMAIN t /\ (r # None => par[r] = None)
    BY DEF Shape
  <2>2. r # x
    BY <2>1, <1>1, <1>2
  <2>3. Swap(n, x, r) \in DOMAIN t \cup {None} /\ Under(sub2, Swap(n, x, r)) = DOMAIN t
    BY <2>1, <2>2, <1>9 DEF Swap
  <2>4. Swap(n, x, r) # None => par2[Swap(n, x, r)] = None
    <3>1. CASE r = n
      BY <3>1, <2>1, <1>1, <1>11 DEF Swap
    <3>2. CASE r # n
      <4>1. r # None => r # b
        BY <2>1, <1>1, <1>3
      <4> QED BY <3>2, <4>1, <2>1, <2>2, <1>11 DEF Swap
    <3> QED BY <3>1, <3>2
  <2> QED BY <2>3, <2>4, <1>12, <1>13, <1>14 DEF Shape, TurnedRight
<1>16. \A q \in DOMAIN t : q \notin {n, x} /\ par[q] \notin {n, x} => par2[q] = par[q]
  BY <1>1, <1>3, <1>11
<1> QED BY <1>11, <1>15, <1>16, <1>17 DEF Reshaped
\* n, or what has come up in its place, hung up under p.
Hung(t, p, n, c) ==
    IF p = None THEN t
    ELSE IF n < p THEN [t EXCEPT ![p].left = c] ELSE [t EXCEPT ![p].right = c]

\* v is t with c hung up under p.
HungAs(t, p, n, c, v) ==
    /\ IsNodes(v) /\ DOMAIN v = DOMAIN t
    /\ \A q \in DOMAIN t : q # p => v[q] = t[q]
    /\ \A q \in DOMAIN t : v[q].height = t[q].height
    /\ p # None /\ n < p => v[p].left = c /\ v[p].right = t[p].right
    /\ p # None /\ ~ (n < p) => v[p].left = t[p].left /\ v[p].right = c

LEMMA HungFields ==
    ASSUME NEW t, IsNodes(t), NEW n, NEW p \in DOMAIN t \cup {None},
           NEW c \in DOMAIN t \cup {None}
    PROVE  HungAs(t, p, n, c, Hung(t, p, n, c))
<1> SUFFICES LET v == Hung(t, p, n, c) IN
             /\ IsNodes(v) /\ DOMAIN v = DOMAIN t
             /\ \A q \in DOMAIN t : q # p => v[q] = t[q]
             /\ \A q \in DOMAIN t : v[q].height = t[q].height
             /\ p # None /\ n < p => v[p].left = c /\ v[p].right = t[p].right
             /\ p # None /\ ~ (n < p) => v[p].left = t[p].left /\ v[p].right = c
  BY DEF HungAs
<1>1. CASE p = None
  BY <1>1 DEF Hung
<1>2. CASE p # None /\ n < p
  <2>1. Hung(t, p, n, c) = [t EXCEPT ![p].left = c] /\ p \in DOMAIN t
    BY <1>2 DEF Hung
  <2> QED BY <1>2, <2>1 DEF IsNodes
<1>3. CASE p # None /\ ~ (n < p)
  <2>1. Hung(t, p, n, c) = [t EXCEPT ![p].right = c] /\ p \in DOMAIN t
    BY <1>3 DEF Hung
  <2> QED BY <1>3, <2>1 DEF IsNodes
<1> QED BY <1>1, <1>2, <1>3

\* p is the parent of n, and None that of the root.
IsParent(t, par, p, n) ==
    /\ p \in DOMAIN t \cup {None} /\ par[n] = p
    /\ p # None => n \in {t[p].left, t[p].right}

LEMMA HungTurnedLeft ==
    ASSUME NEW t, IsNodes(t), NEW r, NEW sub, NEW par, Shape(t, r, sub, par),
           NEW n \in DOMAIN t, NEW x \in DOMAIN t, x = t[n].right,
           NEW p, IsParent(t, par, p, n)
    PROVE  /\ TurnedLeft(t, Hung(left_turn(t, n), p, n, x), n, x)
           /\ LeftTurn(t, left_turn(t, n), n, x)
           /\ p \notin {n, x}
<1> DEFINE u == left_turn(t, n)
           v == Hung(u, p, n, x)
<1>1. /\ None \notin DOMAIN t /\ n \in Int /\ x \in Int /\ par[x] = n /\ x # n
      /\ t[x].left \in DOMAIN t \cup {None} /\ t[x].right \in DOMAIN t \cup {None}
  BY NodeFields, ShapeFacts
<1>2. t[x].left \notin {n, x} /\ t[x].right \notin {n, x} /\ p \notin {n, x}
  <2>1. n \notin sub[x]
    BY ShapeFacts, <1>1 DEF Under
  <2>2. \A c \in DOMAIN t : c \in sub[c]
    BY ShapeFacts
  <2>3. t[x].left # n /\ t[x].right # n
    BY <2>1, <2>2, <1>1 DEF Shape, Ordered, Under
  <2>4. t[x].left # x /\ t[x].right # x
    BY ShapeFacts
  <2>5. p # n /\ p # x
    <3>1. n \notin {t[n].left, t[n].right}
      BY ShapeFacts
    <3> QED BY <2>3, <3>1, <1>1 DEF IsParent
  <2> QED BY <2>3, <2>4, <2>5
<1>9. LeftTurn(t, u, n, x)
  BY <1>1, <1>2, LeftTurnFields
<1>3. /\ IsNodes(u) /\ DOMAIN u = DOMAIN t
      /\ \A m \in DOMAIN t : m \notin {n, x} => u[m] = t[m]
      /\ u[n].left = t[n].left /\ u[n].right = t[x].left
      /\ u[x].left = n /\ u[x].right = t[x].right
      /\ u[n].height = Larger(height(t, t[n].left), height(t, t[x].left)) + 1
      /\ u[x].height = Larger(u[n].height, height(t, t[x].right)) + 1
  BY <1>9 DEF LeftTurn
<1> HIDE DEF u
<1>4. /\ IsNodes(v) /\ DOMAIN v = DOMAIN t
      /\ \A q \in DOMAIN t : q # p => v[q] = u[q]
      /\ p # None /\ n < p => v[p].left = x /\ v[p].right = u[p].right
      /\ p # None /\ ~ (n < p) => v[p].left = u[p].left /\ v[p].right = x
  <2>1. p \in DOMAIN u \cup {None}
    BY <1>3 DEF IsParent
  <2>2. x \in DOMAIN u \cup {None} /\ IsNodes(u)
    BY <1>3
  <2>3. HungAs(u, p, n, x, v)
    BY <2>1, <2>2, HungFields
  <2> QED BY <1>3, <2>3 DEF HungAs
<1> HIDE DEF v
<1>5. ASSUME NEW q \in DOMAIN t, q \notin {n, x}
      PROVE  v[q].left = Swap(n, x, t[q].left) /\ v[q].right = Swap(n, x, t[q].right)
  <2>1. u[q] = t[q]
    BY <1>3, <1>5
  <2>2. CASE q = p
    <3>1. /\ t[q].left # None => t[q].left # t[q].right /\ t[q].left < q
          /\ t[q].right # None => t[q].right > q
      BY ShapeFacts
    <3>2. p # None /\ p \in Int /\ n \in {t[p].left, t[p].right} /\ n # None
      BY <2>2, <1>1, NodeFields DEF IsParent
    <3>3. CASE n = t[p].left
      BY <1>1, <1>4, <2>1, <2>2, <3>1, <3>2, <3>3 DEF Swap
    <3>4. CASE n = t[p].right
      <4>1. ~ (n < p) /\ t[p].left # n
        BY <1>1, <2>2, <3>1, <3>2, <3>4
      <4> QED BY <1>4, <2>1, <2>2, <3>2, <3>4, <4>1 DEF Swap
    <3> QED BY <3>2, <3>3, <3>4
  <2>3. CASE q # p
    <3>1. t[q].left # n /\ t[q].right # n
      BY <2>3, <1>1 DEF Shape, Parents, IsParent
    <3> QED BY <2>1, <2>3, <3>1, <1>4 DEF Swap
  <2> QED BY <2>2, <2>3
<1>6. TurnedLeft(t, v, n, x)
  BY <1>2, <1>3, <1>4, <1>5 DEF TurnedLeft
<1> QED BY <1>2, <1>6, <1>9 DEF u, v

LEMMA HungTurnedRight ==
    ASSUME NEW t, IsNodes(t), NEW r, NEW sub, NEW par, Shape(t, r, sub, par),
           NEW n \in DOMAIN t, NEW x \in DOMAIN t, x = t[n].left,
           NEW p, IsParent(t, par, p, n)
    PROVE  /\ TurnedRight(t, Hung(right_turn(t, n), p, n, x), n, x)
           /\ RightTurn(t, right_turn(t, n), n, x)
           /\ p \notin {n, x}
<1> DEFINE u == right_turn(t, n)
           v == Hung(u, p, n, x)
<1>1. /\ None \notin DOMAIN t /\ n \in Int /\ x \in Int /\ par[x] = n /\ x # n
      /\ t[x].right \in DOMAIN t \cup {None} /\ t[x].left \in DOMAIN t \cup {None}
  BY NodeFields, ShapeFacts
<1>2. t[x].right \notin {n, x} /\ t[x].left \notin {n, x} /\ p \notin {n, x}
  <2>1. n \notin sub[x]
    BY ShapeFacts, <1>1 DEF Under
  <2>2. \A c \in DOMAIN t : c \in sub[c]
    BY ShapeFacts
  <2>3. t[x].right # n /\ t[x].left # n
    BY <2>1, <2>2, <1>1 DEF Shape, Ordered, Under
  <2>4. t[x].right # x /\ t[x].left # x
    BY ShapeFacts
  <2>5. p # n /\ p # x
    <3>1. n \notin {t[n].right, t[n].left}
      BY ShapeFacts
    <3> QED BY <2>3, <3>1, <1>1 DEF IsParent
  <2> QED BY <2>3, <2>4, <2>5
<1>9. RightTurn(t, u, n, x)
  BY <1>1, <1>2, RightTurnFields
<1>3. /\ IsNodes(u) /\ DOMAIN u = DOMAIN t
      /\ \A m \in DOMAIN t : m \notin {n, x} => u[m] = t[m]
      /\ u[n].right = t[n].right /\ u[n].left = t[x].right
      /\ u[x].right = n /\ u[x].left = t[x].left
      /\ u[n].height = Larger(height(t, t[x].right), height(t, t[n].right)) + 1
      /\ u[x].height = Larger(height(t, t[x].left), u[n].height) + 1
  BY <1>9 DEF RightTurn
<1> HIDE DEF u
<1>4. /\ IsNodes(v) /\ DOMAIN v = DOMAIN t
      /\ \A q \in DOMAIN t : q # p => v[q] = u[q]
      /\ p # None /\ n < p => v[p].left = x /\ v[p].right = u[p].right
      /\ p # None /\ ~ (n < p) => v[p].left = u[p].left /\ v[p].right = x
  <2>1. p \in DOMAIN u \cup {None}
    BY <1>3 DEF IsParent
  <2>2. x \in DOMAIN u \cup {None} /\ IsNodes(u)
    BY <1>3
  <2>3. HungAs(u, p, n, x, v)
    BY <2>1, <2>2, HungFields
  <2> QED BY <1>3, <2>3 DEF HungAs
<1> HIDE DEF v
<1>5. ASSUME NEW q \in DOMAIN t, q \notin {n, x}
      PROVE  v[q].right = Swap(n, x, t[q].right) /\ v[q].left = Swap(n, x, t[q].left)
  <2>1. u[q] = t[q]
    BY <1>3, <1>5
  <2>2. CASE q = p
    <3>1. /\ t[q].left # None => t[q].left # t[q].right /\ t[q].left < q
          /\ t[q].right # None => t[q].right > q
      BY ShapeFacts
    <3>2. p # None /\ p \in Int /\ n \in {t[p].left, t[p].right} /\ n # None
      BY <2>2, <1>1, NodeFields DEF IsParent
    <3>3. CASE n = t[p].left
      BY <1>1, <1>4, <2>1, <2>2, <3>1, <3>2, <3>3 DEF Swap
    <3>4. CASE n = t[p].right
      <4>1. ~ (n < p) /\ t[p].left # n
        BY <1>1, <2>2, <3>1, <3>2, <3>4
      <4> QED BY <1>4, <2>1, <2>2, <3>2, <3>4, <4>1 DEF Swap
    <3> QED BY <3>2, <3>3, <3>4
  <2>3. CASE q # p
    <3>1. t[q].right # n /\ t[q].left # n
      BY <2>3, <1>1 DEF Shape, Parents, IsParent
    <3> QED BY <2>1, <2>3, <3>1, <1>4 DEF Swap
  <2> QED BY <2>2, <2>3
<1>6. TurnedRight(t, v, n, x)
  BY <1>2, <1>3, <1>4, <1>5 DEF TurnedRight
<1> QED BY <1>2, <1>6, <1>9 DEF u, v
-----------------------------------------------------------------------------
(***************************************************************************)
(* Balancing a node m whose sides differ by two: the nodes T under m that  *)
(* the turns change, and what they leave as it was.                        *)
(***************************************************************************)
\* A node as it should be.
Even(t, n) ==
    /\ t[n].height = Larger(height(t, t[n].left), height(t, t[n].right)) + 1
    /\ different(t, n) \in -1 .. 1

\* top has come up in the place of m, and hung up under the parent of m it
\* gives the tree v.
Rebuilt(t, u, v, m, top, r, sub, par, T, sub2, par2) ==
    /\ IsNodes(u) /\ DOMAIN u = DOMAIN t
    /\ Shape(v, Swap(m, top, r), sub2, par2)
    /\ m \in T /\ top \in T /\ T \subseteq sub[m]
    /\ \A q \in T : q = m \/ par[q] \in T
    /\ \A q \in DOMAIN t : q \notin T =>
           /\ u[q] = t[q] /\ sub2[q] = sub[q]
           /\ par[q] \notin T => par2[q] = par[q]
    /\ sub2[top] = sub[m] /\ par2[top] = par[m]
    /\ \A q \in T : Even(u, q)

LEMMA InSub ==
    ASSUME NEW t, IsNodes(t), NEW r, NEW sub, NEW par, Shape(t, r, sub, par), NEW n \in DOMAIN t
    PROVE  /\ n \in sub[n]
           /\ t[n].left # None => t[n].left \in sub[n] /\ sub[t[n].left] \subseteq sub[n]
           /\ t[n].right # None => t[n].right \in sub[n] /\ sub[t[n].right] \subseteq sub[n]
<1>1. /\ t[n].left # None => t[n].left \in DOMAIN t
      /\ t[n].right # None => t[n].right \in DOMAIN t
  BY NodeFields
<1>2. \A c \in DOMAIN t : c \in sub[c]
  BY ShapeFacts
<1>3. sub[n] = {n} \cup Under(sub, t[n].left) \cup Under(sub, t[n].right)
  BY DEF Shape, Ordered
<1> QED BY <1>1, <1>2, <1>3 DEF Under

LEMMA SingleRight ==
    ASSUME NEW t, IsNodes(t), NEW r, NEW sub, NEW par, Shape(t, r, sub, par),
           NEW m \in DOMAIN t, NEW p, IsParent(t, par, p, m),
           NEW x \in DOMAIN t, x = t[m].left, Even(t, x),
           t[m].height = Larger(height(t, t[m].left), height(t, t[m].right)) + 1,
           different(t, m) = 2, different(t, x) > 0
    PROVE  \E T, sub2, par2 :
               /\ Rebuilt(t, right_turn(t, m), Hung(right_turn(t, m), p, m, x),
                          m, x, r, sub, par, T, sub2, par2)
               /\ right_turn(t, m)[x].height = t[m].height - 1
<1> DEFINE u == right_turn(t, m)
           v == Hung(u, p, m, x)
           a == t[x].left
           b == t[x].right
           c == t[m].right
           T == {m, x}
<1>1. /\ TurnedRight(t, v, m, x) /\ IsNodes(u) /\ DOMAIN u = DOMAIN t
      /\ u[m].right = c /\ u[m].left = b /\ u[x].right = m /\ u[x].left = a
      /\ u[m].height = Larger(height(t, b), height(t, c)) + 1
      /\ u[x].height = Larger(height(t, a), u[m].height) + 1
      /\ \A q \in DOMAIN t : q \notin {m, x} => u[q] = t[q]
  <2>1. TurnedRight(t, v, m, x) /\ RightTurn(t, u, m, x)
    BY HungTurnedRight
  <2> HIDE DEF u, v
  <2> QED BY <2>1 DEF RightTurn
<1> HIDE DEF u, v
<1>2. PICK sub2, par2 : Reshaped(t, v, m, x, r, sub, par, sub2, par2)
  BY <1>1, RightTurnShape
<1>3. /\ a \in DOMAIN t \cup {None} /\ b \in DOMAIN t \cup {None} /\ c \in DOMAIN t \cup {None}
      /\ None \notin DOMAIN t
      /\ height(t, a) \in Nat /\ height(t, b) \in Nat /\ height(t, c) \in Nat
      /\ height(t, x) = t[x].height /\ t[x].height \in Nat /\ t[m].height \in Nat
      /\ height(u, m) = u[m].height
  BY <1>1, NodeFields DEF height
<1>4. par[x] = m /\ m # x /\ x \in sub[m] /\ m \in sub[m]
  BY ShapeFacts, InSub, <1>3
<1>5. a \notin {m, x} /\ b \notin {m, x} /\ c \notin {m, x}
  <2>1. a # x /\ b # x /\ c # m /\ c # x
    BY ShapeFacts, <1>3
  <2>2. m \notin sub[x]
    BY ShapeFacts, <1>3 DEF Under
  <2>3. (a # None => a \in sub[x]) /\ (b # None => b \in sub[x])
    BY InSub
  <2> QED BY <2>1, <2>2, <2>3, <1>3
<1>6. height(u, a) = height(t, a) /\ height(u, b) = height(t, b) /\ height(u, c) = height(t, c)
  BY <1>1, <1>3, <1>5 DEF height
<1>7. /\ height(t, a) = height(t, b) + 1 /\ height(t, c) = height(t, b)
      /\ t[m].height = height(t, b) + 3
  BY <1>3 DEF Even, different, Larger
<1>8. u[m].height = height(t, b) + 1 /\ u[x].height = height(t, b) + 2
  BY <1>1, <1>3, <1>7 DEF Larger
<1>9. Even(u, m) /\ Even(u, x)
  BY <1>1, <1>3, <1>6, <1>7, <1>8 DEF Even, different, Larger
<1>10. Rebuilt(t, u, v, m, x, r, sub, par, T, sub2, par2)
  BY <1>1, <1>2, <1>4, <1>9 DEF Rebuilt, Reshaped
<1> QED BY <1>3, <1>7, <1>8, <1>10 DEF u, v

\* The larger of two heights, either way round.
LEMMA LargerCommutes ==
    ASSUME NEW h1 \in Nat, NEW h2 \in Nat
    PROVE  Larger(h1, h2) = Larger(h2, h1)
BY DEF Larger

\* The heights around a double turn, by numbers: y of height hy is the too high
\* child, x its inner child; a, b, c, d are the subtrees that hang there.
LEMMA DoubleTurnHeights ==
    ASSUME NEW ha \in Nat, NEW hb \in Nat, NEW hc \in Nat, NEW hd \in Nat,
           NEW hx \in Nat, NEW hy \in Nat,
           hx = Larger(hb, hd) + 1, hb - hd \in -1 .. 1,
           hy = Larger(hx, ha) + 1, hx - ha \in -1 .. 1, hx > ha, hy = hc + 2
    PROVE  /\ hc = ha /\ hx = ha + 1 /\ hy = ha + 2
           /\ Larger(hb, hd) = ha /\ Larger(hd, hb) = ha
<1>1. hx = ha + 1
  OBVIOUS
<1>2. hy = ha + 2 /\ hc = ha
  BY <1>1 DEF Larger
<1>3. Larger(hb, hd) = ha
  BY <1>1 DEF Larger
<1>4. Larger(hd, hb) = Larger(hb, hd)
  BY LargerCommutes
<1> QED BY <1>1, <1>2, <1>3, <1>4

LEMMA DoubleRight ==
    ASSUME NEW t, IsNodes(t), NEW r, NEW sub, NEW par, Shape(t, r, sub, par),
           NEW m \in DOMAIN t, NEW p, IsParent(t, par, p, m),
           NEW y \in DOMAIN t, y = t[m].left, Even(t, y),
           NEW x \in DOMAIN t, x = t[y].right, Even(t, x),
           t[m].height = Larger(height(t, t[m].left), height(t, t[m].right)) + 1,
           different(t, m) = 2, different(t, y) < 0,
           NEW w, w = Hung(left_turn(t, y), m, y, x)
    PROVE  \E T, sub2, par2 :
               /\ Rebuilt(t, right_turn(w, m), Hung(right_turn(w, m), p, m, x),
                          m, x, r, sub, par, T, sub2, par2)
               /\ right_turn(w, m)[x].height = t[m].height - 1
               /\ w[m].left = x
<1> DEFINE s == left_turn(t, y)
           u == right_turn(w, m)
           v == Hung(u, p, m, x)
           a == t[y].left
           b == t[x].left
           d == t[x].right
           c == t[m].right
           T == {m, y, x}
<1>1. /\ par[y] = m /\ m # y /\ y \in sub[m] /\ m \in sub[m] /\ y < m
      /\ par[x] = y /\ x # y /\ x \in sub[y] /\ x \in sub[m] /\ m \notin sub[y]
      /\ y \in sub[y] /\ None \notin DOMAIN t
  BY ShapeFacts, InSub, NodeFields DEF Under
<1>2. IsParent(t, par, m, y)
  BY <1>1 DEF IsParent
<1>3. /\ TurnedLeft(t, Hung(s, m, y, x), y, x) /\ IsNodes(s) /\ DOMAIN s = DOMAIN t
      /\ s[y].left = a /\ s[y].right = b /\ s[x].left = y /\ s[x].right = d
      /\ s[y].height = Larger(height(t, a), height(t, b)) + 1
      /\ s[x].height = Larger(s[y].height, height(t, d)) + 1
      /\ \A q \in DOMAIN t : q \notin {y, x} => s[q] = t[q]
  <2>1. TurnedLeft(t, Hung(s, m, y, x), y, x) /\ LeftTurn(t, s, y, x)
    BY <1>2, HungTurnedLeft
  <2> HIDE DEF s
  <2> QED BY <2>1 DEF LeftTurn
<1>4. Hung(s, m, y, x) = w
  OBVIOUS
<1> HIDE DEF s, u, v
<1>5. PICK sub1, par1 : Reshaped(t, w, y, x, r, sub, par, sub1, par1)
  BY <1>3, <1>4, LeftTurnShape
<1>6. Swap(y, x, r) = r /\ Shape(w, r, sub1, par1)
  <2>1. r # y
    BY <1>1 DEF Shape
  <2> QED BY <2>1, <1>5 DEF Swap, Reshaped
<1>7. /\ IsNodes(w) /\ DOMAIN w = DOMAIN t
      /\ \A q \in DOMAIN t : q # m => w[q] = s[q]
      /\ \A q \in DOMAIN t : w[q].height = s[q].height
      /\ w[m].left = x /\ w[m].right = s[m].right
  <2>1. m \in DOMAIN s \cup {None} /\ x \in DOMAIN s \cup {None}
    BY <1>3
  <2>2. HungAs(s, m, y, x, w)
    BY <1>3, <1>4, <2>1, HungFields
  <2> QED BY <1>1, <1>3, <2>2 DEF HungAs
<1>8. /\ x \notin {m, y} /\ a \notin {m, y, x} /\ b \notin {m, y, x}
      /\ c \notin {m, y, x} /\ d \notin {m, y, x}
  <2>1. y # x /\ x # m
    BY <1>1
  <2>2. a # y /\ a # x /\ b # x /\ d # x /\ c # m
    BY ShapeFacts, <1>1
  <2>3. c # y
    BY ShapeFacts, <1>1
  <2>4. c # x
    <3>1. c # None => par[c] = m
      BY ShapeFacts
    <3> QED BY <3>1, <1>1
  <2>5. (a # None => a \in sub[y]) /\ (b # None => b \in sub[x]) /\ (d # None => d \in sub[x])
    BY InSub
  <2>6. sub[x] \subseteq sub[y]
    BY InSub, <1>1
  <2>7. a # m /\ b # m /\ d # m
    BY <1>1, <2>5, <2>6
  <2>8. y \notin sub[x]
    BY ShapeFacts, <1>1 DEF Under
  <2>9. b # y /\ d # y
    BY <1>1, <2>5, <2>8
  <2> QED BY <2>1, <2>2, <2>3, <2>4, <2>7, <2>9
<1>9. sub1[m] = sub[m] /\ par1[m] = par[m] /\ par1[x] = m /\ par1[y] = x
      /\ sub1[x] = sub[y] /\ sub1[y] \subseteq sub[y]
  <2>1. par[m] \notin {y, x}
    <3>1. par[m] # y /\ par[m] # x
      BY <1>1, <1>8 DEF IsParent
    <3> QED BY <3>1
  <2> QED BY <1>1, <1>5, <1>8, <2>1 DEF Reshaped
<1>10. IsParent(w, par1, p, m)
  <2>1. p \in DOMAIN w \cup {None} /\ par1[m] = p
    BY <1>7, <1>9 DEF IsParent
  <2>2. CASE p # None
    <3>1. p \notin {y, x, m}
      <4>1. m \in {t[p].left, t[p].right} /\ p \in DOMAIN t
        BY <2>2 DEF IsParent
      <4>2. p # m
        BY <4>1, ShapeFacts
      <4> QED BY <4>1, <4>2, <1>8
    <3>2. w[p] = t[p]
      BY <2>1, <2>2, <3>1, <1>3, <1>7
    <3> QED BY <2>1, <2>2, <3>2 DEF IsParent
  <2> QED BY <2>1, <2>2 DEF IsParent
<1>11. TurnedRight(w, v, m, x) /\ RightTurn(w, u, m, x)
  <2>1. m \in DOMAIN w /\ x \in DOMAIN w /\ x = w[m].left
    BY <1>7
  <2>2. IsNodes(w) /\ Shape(w, r, sub1, par1)
    BY <1>6, <1>7
  <2> QED BY <2>1, <2>2, <1>10, HungTurnedRight DEF u, v
<1>12. PICK sub2, par2 : Reshaped(w, v, m, x, r, sub1, par1, sub2, par2)
  <2>1. m \in DOMAIN w /\ x \in DOMAIN w /\ x = w[m].left
    BY <1>7
  <2>2. IsNodes(w) /\ Shape(w, r, sub1, par1) /\ TurnedRight(w, v, m, x)
    BY <1>6, <1>7, <1>11
  <2> QED BY <2>1, <2>2, RightTurnShape
\* The nodes after the first turn, and after the second.
<1>13. /\ w[m].left = x /\ w[m].right = c /\ w[y] = s[y]
       /\ w[x].left = y /\ w[x].right = d
       /\ \A q \in DOMAIN t : q \notin {m, y, x} => w[q] = t[q]
  <2>1. w[y] = s[y] /\ w[x] = s[x] /\ s[m] = t[m]
    BY <1>1, <1>3, <1>7, <1>8
  <2>2. \A q \in DOMAIN t : q \notin {m, y, x} => w[q] = t[q]
    BY <1>3, <1>7
  <2> QED BY <2>1, <2>2, <1>3, <1>7
<1>21. /\ IsNodes(u) /\ DOMAIN u = DOMAIN t
       /\ u[m].left = d /\ u[m].right = c /\ u[x].left = y /\ u[x].right = m
       /\ u[m].height = Larger(height(w, d), height(w, c)) + 1
       /\ u[x].height = Larger(height(w, y), u[m].height) + 1
       /\ \A q \in DOMAIN t : q \notin {m, x} => u[q] = w[q]
  <2>1. /\ IsNodes(u) /\ DOMAIN u = DOMAIN w
        /\ \A q \in DOMAIN w : q \notin {m, x} => u[q] = w[q]
        /\ u[m].right = w[m].right /\ u[m].left = w[x].right
        /\ u[x].right = m /\ u[x].left = w[x].left
        /\ u[m].height = Larger(height(w, w[x].right), height(w, w[m].right)) + 1
        /\ u[x].height = Larger(height(w, w[x].left), u[m].height) + 1
    BY <1>11 DEF RightTurn
  <2>2. w[m].right = c /\ w[x].left = y /\ w[x].right = d /\ DOMAIN w = DOMAIN t
    BY <1>7, <1>13
  <2> HIDE DEF a, b, c, d
  <2> QED BY <2>1, <2>2
<1>22. u[y] = s[y] /\ \A q \in DOMAIN t : q \notin {m, y, x} => u[q] = t[q]
  BY <1>1, <1>8, <1>13, <1>21
\* Their heights.
<1>14. /\ a \in DOMAIN t \cup {None} /\ b \in DOMAIN t \cup {None}
       /\ c \in DOMAIN t \cup {None} /\ d \in DOMAIN t \cup {None}
       /\ height(t, a) \in Nat /\ height(t, b) \in Nat /\ height(t, c) \in Nat /\ height(t, d) \in Nat
       /\ height(t, x) = t[x].height /\ height(t, y) = t[y].height
       /\ t[x].height \in Nat /\ t[y].height \in Nat /\ t[m].height \in Nat
  BY NodeFields
<1>23. /\ height(u, m) = u[m].height /\ height(u, y) = s[y].height
       /\ height(w, y) = s[y].height
  BY <1>1, <1>13, <1>22 DEF height
<1>15. ASSUME NEW q \in DOMAIN t \cup {None}, q \notin {m, y, x}
       PROVE  height(u, q) = height(t, q) /\ height(w, q) = height(t, q)
  <2>1. q \in DOMAIN t => u[q] = t[q] /\ w[q] = t[q]
    BY <1>13, <1>15, <1>22
  <2> QED BY <2>1, <1>1 DEF height
<1>24. /\ height(u, a) = height(t, a) /\ height(u, b) = height(t, b)
       /\ height(u, c) = height(t, c) /\ height(u, d) = height(t, d)
       /\ height(w, c) = height(t, c) /\ height(w, d) = height(t, d)
  BY <1>8, <1>14, <1>15
<1>16. /\ height(t, c) = height(t, a)
       /\ Larger(height(t, b), height(t, d)) = height(t, a)
       /\ height(t, b) - height(t, d) \in -1 .. 1
       /\ t[m].height = height(t, a) + 3
  <2>1. /\ t[x].height = Larger(height(t, b), height(t, d)) + 1
        /\ height(t, b) - height(t, d) \in -1 .. 1
        /\ t[y].height = Larger(height(t, a), height(t, x)) + 1
        /\ height(t, a) - height(t, x) \in -1 .. 1
        /\ height(t, x) > height(t, a)
    BY <1>14 DEF Even, different
  <2>2. t[m].height = Larger(height(t, y), height(t, c)) + 1 /\ height(t, y) = height(t, c) + 2
    BY <1>14 DEF different
  <2>3. /\ Larger(height(t, d), height(t, b)) = Larger(height(t, b), height(t, d))
        /\ height(t, b) - height(t, d) \in -1 .. 1
        /\ height(t, x) - height(t, a) \in -1 .. 1
        /\ t[y].height = Larger(height(t, x), height(t, a)) + 1
    <3> HIDE DEF a, b, c, d
    <3>1. height(t, x) \in Nat
      BY <1>14
    <3>2. /\ height(t, b) - height(t, d) \in -1 .. 1
          /\ height(t, x) - height(t, a) \in -1 .. 1
      BY <3>1, <2>1, <1>14
    <3> QED BY <3>1, <3>2, <2>1, <1>14, LargerCommutes
  <2>4. /\ height(t, c) = height(t, a) /\ t[y].height = height(t, a) + 2
        /\ Larger(height(t, b), height(t, d)) = height(t, a)
    <3> HIDE DEF a, b, c, d
    <3> QED BY <2>1, <2>2, <2>3, <1>14, DoubleTurnHeights
  <2>5. t[m].height = height(t, a) + 3
    BY <2>2, <2>4, <1>14 DEF Larger
  <2> QED BY <2>3, <2>4, <2>5
<1>25. /\ s[y].height = Larger(height(t, a), height(t, b)) + 1
       /\ u[m].height = Larger(height(t, d), height(t, c)) + 1
       /\ u[x].height = Larger(s[y].height, u[m].height) + 1
  BY <1>3, <1>21, <1>23, <1>24
<1>17. /\ s[y].height = height(t, a) + 1 /\ u[m].height = height(t, a) + 1
       /\ u[x].height = height(t, a) + 2
  <2>1. s[y].height = height(t, a) + 1 /\ u[m].height = height(t, a) + 1
    BY <1>14, <1>16, <1>25 DEF Larger
  <2> QED BY <2>1, <1>14, <1>25 DEF Larger
<1>18. Even(u, m) /\ Even(u, y) /\ Even(u, x)
  <2>1. Even(u, m)
    <3>1. u[m].left = d /\ u[m].right = c /\ u[m].height = Larger(height(u, d), height(u, c)) + 1
      BY <1>21, <1>24, <1>25
    <3>2. height(u, d) - height(u, c) \in -1 .. 1
      BY <1>14, <1>16, <1>24 DEF Larger
    <3> HIDE DEF a, b, c, d
    <3> QED BY <3>1, <3>2 DEF Even, different
  <2>2. Even(u, x)
    <3>1. u[x].left = y /\ u[x].right = m
          /\ height(u, y) = height(t, a) + 1 /\ height(u, m) = height(t, a) + 1
      BY <1>17, <1>21, <1>23
    <3> HIDE DEF a, b, c, d
    <3> QED BY <3>1, <1>14, <1>17 DEF Even, different, Larger
  <2>3. Even(u, y)
    <3>1. u[y].left = a /\ u[y].right = b /\ u[y].height = s[y].height
      BY <1>3, <1>22
    <3> QED BY <3>1, <1>14, <1>16, <1>24, <1>25 DEF Even, different, Larger
  <2> QED BY <2>1, <2>2, <2>3
<1>19. /\ sub2[x] = sub[m] /\ par2[x] = par[m]
       /\ \A q \in DOMAIN t : q \notin T =>
              sub2[q] = sub[q] /\ (par[q] \notin T => par2[q] = par[q])
  <2>1. sub2[x] = sub[m] /\ par2[x] = par[m]
    BY <1>9, <1>12 DEF Reshaped
  <2>2. ASSUME NEW q \in DOMAIN t, q \notin T
        PROVE  sub2[q] = sub[q] /\ (par[q] \notin T => par2[q] = par[q])
    <3>1. sub1[q] = sub[q] /\ (par[q] \notin T => par1[q] = par[q])
      BY <2>2, <1>5 DEF Reshaped
    <3>2. sub2[q] = sub1[q] /\ (par1[q] \notin T => par2[q] = par1[q])
      BY <2>2, <1>7, <1>12 DEF Reshaped
    <3> QED BY <3>1, <3>2
  <2> QED BY <2>1, <2>2
<1>20. Rebuilt(t, u, v, m, x, r, sub, par, T, sub2, par2)
  <2>1. Shape(v, Swap(m, x, r), sub2, par2)
    BY <1>12 DEF Reshaped
  <2>2. T \subseteq sub[m] /\ \A q \in T : q = m \/ par[q] \in T
    BY <1>1
  <2>3. \A q \in T : Even(u, q)
    BY <1>18
  <2>4. \A q \in DOMAIN t : q \notin T => u[q] = t[q]
    BY <1>22
  <2> QED BY <2>1, <2>2, <2>3, <2>4, <1>19, <1>21 DEF Rebuilt
<1>26. u[x].height = t[m].height - 1
  BY <1>14, <1>16, <1>17
<1> QED BY <1>13, <1>20, <1>26 DEF u, v
LEMMA SingleLeft ==
    ASSUME NEW t, IsNodes(t), NEW r, NEW sub, NEW par, Shape(t, r, sub, par),
           NEW m \in DOMAIN t, NEW p, IsParent(t, par, p, m),
           NEW x \in DOMAIN t, x = t[m].right, Even(t, x),
           t[m].height = Larger(height(t, t[m].left), height(t, t[m].right)) + 1,
           different(t, m) = -2, different(t, x) < 0
    PROVE  \E T, sub2, par2 :
               /\ Rebuilt(t, left_turn(t, m), Hung(left_turn(t, m), p, m, x),
                          m, x, r, sub, par, T, sub2, par2)
               /\ left_turn(t, m)[x].height = t[m].height - 1
<1> DEFINE u == left_turn(t, m)
           v == Hung(u, p, m, x)
           a == t[x].right
           b == t[x].left
           c == t[m].left
           T == {m, x}
<1>1. /\ TurnedLeft(t, v, m, x) /\ IsNodes(u) /\ DOMAIN u = DOMAIN t
      /\ u[m].left = c /\ u[m].right = b /\ u[x].left = m /\ u[x].right = a
      /\ u[m].height = Larger(height(t, c), height(t, b)) + 1
      /\ u[x].height = Larger(u[m].height, height(t, a)) + 1
      /\ \A q \in DOMAIN t : q \notin {m, x} => u[q] = t[q]
  <2>1. TurnedLeft(t, v, m, x) /\ LeftTurn(t, u, m, x)
    BY HungTurnedLeft
  <2> HIDE DEF u, v
  <2> QED BY <2>1 DEF LeftTurn
<1> HIDE DEF u, v
<1>2. PICK sub2, par2 : Reshaped(t, v, m, x, r, sub, par, sub2, par2)
  BY <1>1, LeftTurnShape
<1>3. /\ a \in DOMAIN t \cup {None} /\ b \in DOMAIN t \cup {None} /\ c \in DOMAIN t \cup {None}
      /\ None \notin DOMAIN t
      /\ height(t, a) \in Nat /\ height(t, b) \in Nat /\ height(t, c) \in Nat
      /\ height(t, x) = t[x].height /\ t[x].height \in Nat /\ t[m].height \in Nat
      /\ height(u, m) = u[m].height
  BY <1>1, NodeFields DEF height
<1>4. par[x] = m /\ m # x /\ x \in sub[m] /\ m \in sub[m]
  BY ShapeFacts, InSub, <1>3
<1>5. a \notin {m, x} /\ b \notin {m, x} /\ c \notin {m, x}
  <2>1. a # x /\ b # x /\ c # m /\ c # x
    BY ShapeFacts, <1>3
  <2>2. m \notin sub[x]
    BY ShapeFacts, <1>3 DEF Under
  <2>3. (a # None => a \in sub[x]) /\ (b # None => b \in sub[x])
    BY InSub
  <2> QED BY <2>1, <2>2, <2>3, <1>3
<1>6. height(u, a) = height(t, a) /\ height(u, b) = height(t, b) /\ height(u, c) = height(t, c)
  BY <1>1, <1>3, <1>5 DEF height
<1>7. /\ height(t, a) = height(t, b) + 1 /\ height(t, c) = height(t, b)
      /\ t[m].height = height(t, b) + 3
  BY <1>3 DEF Even, different, Larger
<1>8. u[m].height = height(t, b) + 1 /\ u[x].height = height(t, b) + 2
  BY <1>1, <1>3, <1>7 DEF Larger
<1>9. Even(u, m) /\ Even(u, x)
  BY <1>1, <1>3, <1>6, <1>7, <1>8 DEF Even, different, Larger
<1>10. Rebuilt(t, u, v, m, x, r, sub, par, T, sub2, par2)
  BY <1>1, <1>2, <1>4, <1>9 DEF Rebuilt, Reshaped
<1> QED BY <1>3, <1>7, <1>8, <1>10 DEF u, v

LEMMA DoubleLeft ==
    ASSUME NEW t, IsNodes(t), NEW r, NEW sub, NEW par, Shape(t, r, sub, par),
           NEW m \in DOMAIN t, NEW p, IsParent(t, par, p, m),
           NEW y \in DOMAIN t, y = t[m].right, Even(t, y),
           NEW x \in DOMAIN t, x = t[y].left, Even(t, x),
           t[m].height = Larger(height(t, t[m].left), height(t, t[m].right)) + 1,
           different(t, m) = -2, different(t, y) > 0,
           NEW w, w = Hung(right_turn(t, y), m, y, x)
    PROVE  \E T, sub2, par2 :
               /\ Rebuilt(t, left_turn(w, m), Hung(left_turn(w, m), p, m, x),
                          m, x, r, sub, par, T, sub2, par2)
               /\ left_turn(w, m)[x].height = t[m].height - 1
               /\ w[m].right = x
<1> DEFINE s == right_turn(t, y)
           u == left_turn(w, m)
           v == Hung(u, p, m, x)
           a == t[y].right
           b == t[x].right
           d == t[x].left
           c == t[m].left
           T == {m, y, x}
<1>1. /\ par[y] = m /\ m # y /\ y \in sub[m] /\ m \in sub[m] /\ y > m
      /\ par[x] = y /\ x # y /\ x \in sub[y] /\ x \in sub[m] /\ m \notin sub[y]
      /\ y \in sub[y] /\ None \notin DOMAIN t
  BY ShapeFacts, InSub, NodeFields DEF Under
<1>2. IsParent(t, par, m, y)
  BY <1>1 DEF IsParent
<1>3. /\ TurnedRight(t, Hung(s, m, y, x), y, x) /\ IsNodes(s) /\ DOMAIN s = DOMAIN t
      /\ s[y].right = a /\ s[y].left = b /\ s[x].right = y /\ s[x].left = d
      /\ s[y].height = Larger(height(t, b), height(t, a)) + 1
      /\ s[x].height = Larger(height(t, d), s[y].height) + 1
      /\ \A q \in DOMAIN t : q \notin {y, x} => s[q] = t[q]
  <2>1. TurnedRight(t, Hung(s, m, y, x), y, x) /\ RightTurn(t, s, y, x)
    BY <1>2, HungTurnedRight
  <2> HIDE DEF s
  <2> QED BY <2>1 DEF RightTurn
<1>4. Hung(s, m, y, x) = w
  OBVIOUS
<1> HIDE DEF s, u, v
<1>5. PICK sub1, par1 : Reshaped(t, w, y, x, r, sub, par, sub1, par1)
  BY <1>3, <1>4, RightTurnShape
<1>6. Swap(y, x, r) = r /\ Shape(w, r, sub1, par1)
  <2>1. r # y
    BY <1>1 DEF Shape
  <2> QED BY <2>1, <1>5 DEF Swap, Reshaped
<1>7. /\ IsNodes(w) /\ DOMAIN w = DOMAIN t
      /\ \A q \in DOMAIN t : q # m => w[q] = s[q]
      /\ \A q \in DOMAIN t : w[q].height = s[q].height
      /\ w[m].right = x /\ w[m].left = s[m].left
  <2>1. m \in DOMAIN s \cup {None} /\ x \in DOMAIN s \cup {None}
    BY <1>3
  <2>2. HungAs(s, m, y, x, w)
    BY <1>3, <1>4, <2>1, HungFields
  <2>3. ~ (y < m) /\ m # None
    BY <1>1, NodeFields
  <2> QED BY <1>1, <1>3, <2>2, <2>3 DEF HungAs
<1>8. /\ x \notin {m, y} /\ a \notin {m, y, x} /\ b \notin {m, y, x}
      /\ c \notin {m, y, x} /\ d \notin {m, y, x}
  <2>1. y # x /\ x # m
    BY <1>1
  <2>2. a # y /\ a # x /\ b # x /\ d # x /\ c # m
    BY ShapeFacts, <1>1
  <2>3. c # y
    BY ShapeFacts, <1>1
  <2>4. c # x
    <3>1. c # None => par[c] = m
      BY ShapeFacts
    <3> QED BY <3>1, <1>1
  <2>5. (a # None => a \in sub[y]) /\ (b # None => b \in sub[x]) /\ (d # None => d \in sub[x])
    BY InSub
  <2>6. sub[x] \subseteq sub[y]
    BY InSub, <1>1
  <2>7. a # m /\ b # m /\ d # m
    BY <1>1, <2>5, <2>6
  <2>8. y \notin sub[x]
    BY ShapeFacts, <1>1 DEF Under
  <2>9. b # y /\ d # y
    BY <1>1, <2>5, <2>8
  <2> QED BY <2>1, <2>2, <2>3, <2>4, <2>7, <2>9
<1>9. sub1[m] = sub[m] /\ par1[m] = par[m] /\ par1[x] = m /\ par1[y] = x
      /\ sub1[x] = sub[y] /\ sub1[y] \subseteq sub[y]
  <2>1. par[m] \notin {y, x}
    <3>1. par[m] # y /\ par[m] # x
      BY <1>1, <1>8 DEF IsParent
    <3> QED BY <3>1
  <2> QED BY <1>1, <1>5, <1>8, <2>1 DEF Reshaped
<1>10. IsParent(w, par1, p, m)
  <2>1. p \in DOMAIN w \cup {None} /\ par1[m] = p
    BY <1>7, <1>9 DEF IsParent
  <2>2. CASE p # None
    <3>1. p \notin {y, x, m}
      <4>1. m \in {t[p].right, t[p].left} /\ p \in DOMAIN t
        BY <2>2 DEF IsParent
      <4>2. p # m
        BY <4>1, ShapeFacts
      <4> QED BY <4>1, <4>2, <1>8
    <3>2. w[p] = t[p]
      BY <2>1, <2>2, <3>1, <1>3, <1>7
    <3> QED BY <2>1, <2>2, <3>2 DEF IsParent
  <2> QED BY <2>1, <2>2 DEF IsParent
<1>11. TurnedLeft(w, v, m, x) /\ LeftTurn(w, u, m, x)
  <2>1. m \in DOMAIN w /\ x \in DOMAIN w /\ x = w[m].right
    BY <1>7
  <2>2. IsNodes(w) /\ Shape(w, r, sub1, par1)
    BY <1>6, <1>7
  <2> QED BY <2>1, <2>2, <1>10, HungTurnedLeft DEF u, v
<1>12. PICK sub2, par2 : Reshaped(w, v, m, x, r, sub1, par1, sub2, par2)
  <2>1. m \in DOMAIN w /\ x \in DOMAIN w /\ x = w[m].right
    BY <1>7
  <2>2. IsNodes(w) /\ Shape(w, r, sub1, par1) /\ TurnedLeft(w, v, m, x)
    BY <1>6, <1>7, <1>11
  <2> QED BY <2>1, <2>2, LeftTurnShape
\* The nodes after the first turn, and after the second.
<1>13. /\ w[m].right = x /\ w[m].left = c /\ w[y] = s[y]
       /\ w[x].right = y /\ w[x].left = d
       /\ \A q \in DOMAIN t : q \notin {m, y, x} => w[q] = t[q]
  <2>1. w[y] = s[y] /\ w[x] = s[x] /\ s[m] = t[m]
    BY <1>1, <1>3, <1>7, <1>8
  <2>2. \A q \in DOMAIN t : q \notin {m, y, x} => w[q] = t[q]
    BY <1>3, <1>7
  <2> QED BY <2>1, <2>2, <1>3, <1>7
<1>21. /\ IsNodes(u) /\ DOMAIN u = DOMAIN t
       /\ u[m].right = d /\ u[m].left = c /\ u[x].right = y /\ u[x].left = m
       /\ u[m].height = Larger(height(w, c), height(w, d)) + 1
       /\ u[x].height = Larger(u[m].height, height(w, y)) + 1
       /\ \A q \in DOMAIN t : q \notin {m, x} => u[q] = w[q]
  <2>1. /\ IsNodes(u) /\ DOMAIN u = DOMAIN w
        /\ \A q \in DOMAIN w : q \notin {m, x} => u[q] = w[q]
        /\ u[m].left = w[m].left /\ u[m].right = w[x].left
        /\ u[x].left = m /\ u[x].right = w[x].right
        /\ u[m].height = Larger(height(w, w[m].left), height(w, w[x].left)) + 1
        /\ u[x].height = Larger(u[m].height, height(w, w[x].right)) + 1
    BY <1>11 DEF LeftTurn
  <2>2. w[m].left = c /\ w[x].right = y /\ w[x].left = d /\ DOMAIN w = DOMAIN t
    BY <1>7, <1>13
  <2> HIDE DEF a, b, c, d
  <2> QED BY <2>1, <2>2
<1>22. u[y] = s[y] /\ \A q \in DOMAIN t : q \notin {m, y, x} => u[q] = t[q]
  BY <1>1, <1>8, <1>13, <1>21
\* Their heights.
<1>14. /\ a \in DOMAIN t \cup {None} /\ b \in DOMAIN t \cup {None}
       /\ c \in DOMAIN t \cup {None} /\ d \in DOMAIN t \cup {None}
       /\ height(t, a) \in Nat /\ height(t, b) \in Nat /\ height(t, c) \in Nat /\ height(t, d) \in Nat
       /\ height(t, x) = t[x].height /\ height(t, y) = t[y].height
       /\ t[x].height \in Nat /\ t[y].height \in Nat /\ t[m].height \in Nat
  BY NodeFields
<1>23. /\ height(u, m) = u[m].height /\ height(u, y) = s[y].height
       /\ height(w, y) = s[y].height
  BY <1>1, <1>13, <1>22 DEF height
<1>15. ASSUME NEW q \in DOMAIN t \cup {None}, q \notin {m, y, x}
       PROVE  height(u, q) = height(t, q) /\ height(w, q) = height(t, q)
  <2>1. q \in DOMAIN t => u[q] = t[q] /\ w[q] = t[q]
    BY <1>13, <1>15, <1>22
  <2> QED BY <2>1, <1>1 DEF height
<1>24. /\ height(u, a) = height(t, a) /\ height(u, b) = height(t, b)
       /\ height(u, c) = height(t, c) /\ height(u, d) = height(t, d)
       /\ height(w, c) = height(t, c) /\ height(w, d) = height(t, d)
  BY <1>8, <1>14, <1>15
<1>16. /\ height(t, c) = height(t, a)
       /\ Larger(height(t, d), height(t, b)) = height(t, a)
       /\ height(t, b) - height(t, d) \in -1 .. 1
       /\ t[m].height = height(t, a) + 3
  <2>1. /\ t[x].height = Larger(height(t, d), height(t, b)) + 1
        /\ height(t, d) - height(t, b) \in -1 .. 1
        /\ t[y].height = Larger(height(t, x), height(t, a)) + 1
        /\ height(t, x) - height(t, a) \in -1 .. 1
        /\ height(t, x) > height(t, a)
    BY <1>14 DEF Even, different
  <2>2. t[m].height = Larger(height(t, c), height(t, y)) + 1 /\ height(t, y) = height(t, c) + 2
    BY <1>14 DEF different
  <2>3. /\ Larger(height(t, b), height(t, d)) = Larger(height(t, d), height(t, b))
        /\ height(t, b) - height(t, d) \in -1 .. 1
        /\ height(t, x) - height(t, a) \in -1 .. 1
        /\ t[y].height = Larger(height(t, x), height(t, a)) + 1
    <3> HIDE DEF a, b, c, d
    <3>1. height(t, x) \in Nat
      BY <1>14
    <3>2. /\ height(t, b) - height(t, d) \in -1 .. 1
          /\ height(t, x) - height(t, a) \in -1 .. 1
      BY <3>1, <2>1, <1>14
    <3> QED BY <3>1, <3>2, <2>1, <1>14, LargerCommutes
  <2>4. /\ height(t, c) = height(t, a) /\ t[y].height = height(t, a) + 2
        /\ Larger(height(t, d), height(t, b)) = height(t, a)
    <3> HIDE DEF a, b, c, d
    <3> QED BY <2>1, <2>2, <2>3, <1>14, DoubleTurnHeights
  <2>5. t[m].height = height(t, a) + 3
    BY <2>2, <2>4, <1>14 DEF Larger
  <2> QED BY <2>3, <2>4, <2>5
<1>25. /\ s[y].height = Larger(height(t, b), height(t, a)) + 1
       /\ u[m].height = Larger(height(t, c), height(t, d)) + 1
       /\ u[x].height = Larger(u[m].height, s[y].height) + 1
  BY <1>3, <1>21, <1>23, <1>24
<1>17. /\ s[y].height = height(t, a) + 1 /\ u[m].height = height(t, a) + 1
       /\ u[x].height = height(t, a) + 2
  <2>1. s[y].height = height(t, a) + 1 /\ u[m].height = height(t, a) + 1
    BY <1>14, <1>16, <1>25 DEF Larger
  <2> QED BY <2>1, <1>14, <1>25 DEF Larger
<1>18. Even(u, m) /\ Even(u, y) /\ Even(u, x)
  <2>1. Even(u, m)
    <3>1. u[m].left = c /\ u[m].right = d /\ u[m].height = Larger(height(u, c), height(u, d)) + 1
      BY <1>21, <1>24, <1>25
    <3>2. height(u, c) - height(u, d) \in -1 .. 1
      BY <1>14, <1>16, <1>24 DEF Larger
    <3> HIDE DEF a, b, c, d
    <3> QED BY <3>1, <3>2 DEF Even, different
  <2>2. Even(u, x)
    <3>1. u[x].left = m /\ u[x].right = y
          /\ height(u, y) = height(t, a) + 1 /\ height(u, m) = height(t, a) + 1
      BY <1>17, <1>21, <1>23
    <3> HIDE DEF a, b, c, d
    <3> QED BY <3>1, <1>14, <1>17 DEF Even, different, Larger
  <2>3. Even(u, y)
    <3>1. u[y].right = a /\ u[y].left = b /\ u[y].height = s[y].height
      BY <1>3, <1>22
    <3> QED BY <3>1, <1>14, <1>16, <1>24, <1>25 DEF Even, different, Larger
  <2> QED BY <2>1, <2>2, <2>3
<1>19. /\ sub2[x] = sub[m] /\ par2[x] = par[m]
       /\ \A q \in DOMAIN t : q \notin T =>
              sub2[q] = sub[q] /\ (par[q] \notin T => par2[q] = par[q])
  <2>1. sub2[x] = sub[m] /\ par2[x] = par[m]
    BY <1>9, <1>12 DEF Reshaped
  <2>2. ASSUME NEW q \in DOMAIN t, q \notin T
        PROVE  sub2[q] = sub[q] /\ (par[q] \notin T => par2[q] = par[q])
    <3>1. sub1[q] = sub[q] /\ (par[q] \notin T => par1[q] = par[q])
      BY <2>2, <1>5 DEF Reshaped
    <3>2. sub2[q] = sub1[q] /\ (par1[q] \notin T => par2[q] = par1[q])
      BY <2>2, <1>7, <1>12 DEF Reshaped
    <3> QED BY <3>1, <3>2
  <2> QED BY <2>1, <2>2
<1>20. Rebuilt(t, u, v, m, x, r, sub, par, T, sub2, par2)
  <2>1. Shape(v, Swap(m, x, r), sub2, par2)
    BY <1>12 DEF Reshaped
  <2>2. T \subseteq sub[m] /\ \A q \in T : q = m \/ par[q] \in T
    BY <1>1
  <2>3. \A q \in T : Even(u, q)
    BY <1>18
  <2>4. \A q \in DOMAIN t : q \notin T => u[q] = t[q]
    BY <1>22
  <2> QED BY <2>1, <2>2, <2>3, <2>4, <1>19, <1>21 DEF Rebuilt
<1>26. u[x].height = t[m].height - 1
  BY <1>14, <1>16, <1>17
<1> QED BY <1>13, <1>20, <1>26 DEF u, v
\* What balance makes of the node m, when nothing below m needs it.
Unbalanced(t, p, m) ==
    /\ \A q \in DOMAIN t : q \notin {m, p} => Even(t, q)
    /\ t[m].height = Larger(height(t, t[m].left), height(t, t[m].right)) + 1
    /\ different(t, m) \in -2 .. 2
    /\ different(t, m) = 2 => different(t, t[m].left) # 0
    /\ different(t, m) = -2 => different(t, t[m].right) # 0

Rebalanced(t, u, p, m, top, r, sub, par, T, sub2, par2) ==
    /\ Rebuilt(t, u, Hung(u, p, m, top), m, top, r, sub, par, T, sub2, par2)
    /\ u[top].height = IF TooHighLeft(t, m) \/ TooHighRight(t, m)
                       THEN t[m].height - 1 ELSE t[m].height
    /\ ~ (TooHighLeft(t, m) \/ TooHighRight(t, m)) => u = t /\ top = m

LEMMA BalanceLeft ==
    ASSUME NEW t, IsNodes(t), NEW r, NEW sub, NEW par, Shape(t, r, sub, par),
           NEW m \in DOMAIN t, NEW p, IsParent(t, par, p, m),
           Unbalanced(t, p, m), different(t, m) = 2
    PROVE  \E T, sub2, par2 :
               Rebalanced(t, balance(t, m), p, m, BalancedTop(t, m), r, sub, par, T, sub2, par2)
<1> DEFINE y == t[m].left
<1>1. /\ None \notin DOMAIN t /\ m \in Int /\ m # None
      /\ y \in DOMAIN t \cup {None} /\ t[m].right \in DOMAIN t \cup {None}
      /\ height(t, y) \in Nat /\ height(t, t[m].right) \in Nat
  BY NodeFields
<1>2. y \in DOMAIN t
  BY <1>1 DEF height, different
<1>3. /\ m \notin sub[y] /\ y # m /\ y < m /\ t[y].right # m /\ t[y].left # m
  <2>1. m \notin sub[y] /\ y # m /\ y < m
    BY <1>1, <1>2, ShapeFacts DEF Under
  <2>2. /\ t[y].left # None => t[y].left \in sub[y]
        /\ t[y].right # None => t[y].right \in sub[y]
    BY <1>2, InSub
  <2> QED BY <2>1, <2>2, <1>1
<1>4. p # y /\ p # m
  <2>1. m \notin {t[m].left, t[m].right}
    BY ShapeFacts
  <2> QED BY <2>1, <1>1, <1>2, <1>3 DEF IsParent
<1>5. Even(t, y)
  BY <1>2, <1>3, <1>4 DEF Unbalanced
<1>6. /\ TooHighLeft(t, m) /\ balance(t, m) = right_turn(StraightenedLeft(t, m), m)
      /\ BalancedTop(t, m) = StraightenedLeft(t, m)[m].left
  BY DEF TooHighLeft, TooHighRight, balance, BalancedTop
<1>7. different(t, y) \in Int /\ different(t, y) # 0
  BY <1>5 DEF Unbalanced, Even
<1>8. t[m].height = Larger(height(t, t[m].left), height(t, t[m].right)) + 1
  BY DEF Unbalanced
<1>9. CASE different(t, y) > 0
  <2>1. StraightenedLeft(t, m) = t
    BY <1>7, <1>9 DEF StraightenedLeft
  <2>2. PICK T, sub2, par2 :
            /\ Rebuilt(t, right_turn(t, m), Hung(right_turn(t, m), p, m, y),
                       m, y, r, sub, par, T, sub2, par2)
            /\ right_turn(t, m)[y].height = t[m].height - 1
    BY <1>2, <1>5, <1>8, <1>9, SingleRight
  <2> QED BY <2>1, <2>2, <1>6 DEF Rebalanced
<1>10. CASE different(t, y) < 0
  <2> DEFINE x == t[y].right
             w == Hung(left_turn(t, y), m, y, x)
  <2>1. x \in DOMAIN t
    <3>1. height(t, t[y].left) \in Nat /\ height(t, x) \in Nat /\ x \in DOMAIN t \cup {None}
      BY <1>2, NodeFields
    <3> QED BY <1>10, <3>1 DEF different, height
  <2>2. x # m /\ x # p
    <3>1. /\ t[x].left # None => t[x].left \in sub[x]
          /\ t[x].right # None => t[x].right \in sub[x]
      BY <2>1, InSub
    <3>2. sub[x] \subseteq sub[y]
      BY <1>1, <1>2, <2>1, InSub
    <3>3. m \notin {t[x].left, t[x].right}
      BY <1>1, <1>3, <3>1, <3>2
    <3> QED BY <3>3, <2>1, <1>1, <1>3 DEF IsParent
  <2>3. Even(t, x)
    BY <2>1, <2>2 DEF Unbalanced
  <2>4. StraightenedLeft(t, m) = w
    BY <1>1, <1>3, <1>10 DEF StraightenedLeft, Hung
  <2>5. PICK T, sub2, par2 :
            /\ Rebuilt(t, right_turn(w, m), Hung(right_turn(w, m), p, m, x),
                       m, x, r, sub, par, T, sub2, par2)
            /\ right_turn(w, m)[x].height = t[m].height - 1
            /\ w[m].left = x
    BY <1>2, <1>5, <1>8, <1>10, <2>1, <2>3, DoubleRight
  <2> HIDE DEF w
  <2> QED BY <2>4, <2>5, <1>6 DEF Rebalanced
<1> QED BY <1>7, <1>9, <1>10

LEMMA BalanceRight ==
    ASSUME NEW t, IsNodes(t), NEW r, NEW sub, NEW par, Shape(t, r, sub, par),
           NEW m \in DOMAIN t, NEW p, IsParent(t, par, p, m),
           Unbalanced(t, p, m), different(t, m) = -2
    PROVE  \E T, sub2, par2 :
               Rebalanced(t, balance(t, m), p, m, BalancedTop(t, m), r, sub, par, T, sub2, par2)
<1> DEFINE y == t[m].right
<1>1. /\ None \notin DOMAIN t /\ m \in Int /\ m # None
      /\ y \in DOMAIN t \cup {None} /\ t[m].left \in DOMAIN t \cup {None}
      /\ height(t, y) \in Nat /\ height(t, t[m].left) \in Nat
  BY NodeFields
<1>2. y \in DOMAIN t
  BY <1>1 DEF height, different
<1>3. /\ m \notin sub[y] /\ y # m /\ y > m /\ t[y].left # m /\ t[y].right # m
  <2>1. m \notin sub[y] /\ y # m /\ y > m
    BY <1>1, <1>2, ShapeFacts DEF Under
  <2>2. /\ t[y].right # None => t[y].right \in sub[y]
        /\ t[y].left # None => t[y].left \in sub[y]
    BY <1>2, InSub
  <2> QED BY <2>1, <2>2, <1>1
<1>4. p # y /\ p # m
  <2>1. m \notin {t[m].right, t[m].left}
    BY ShapeFacts
  <2> QED BY <2>1, <1>1, <1>2, <1>3 DEF IsParent
<1>5. Even(t, y)
  BY <1>2, <1>3, <1>4 DEF Unbalanced
<1>6. /\ TooHighRight(t, m) /\ balance(t, m) = left_turn(StraightenedRight(t, m), m)
      /\ BalancedTop(t, m) = StraightenedRight(t, m)[m].right
  BY DEF TooHighLeft, TooHighRight, balance, BalancedTop
<1>7. different(t, y) \in Int /\ different(t, y) # 0
  BY <1>5 DEF Unbalanced, Even
<1>8. t[m].height = Larger(height(t, t[m].left), height(t, t[m].right)) + 1
  BY DEF Unbalanced
<1>9. CASE different(t, y) < 0
  <2>1. StraightenedRight(t, m) = t
    BY <1>7, <1>9 DEF StraightenedRight
  <2>2. PICK T, sub2, par2 :
            /\ Rebuilt(t, left_turn(t, m), Hung(left_turn(t, m), p, m, y),
                       m, y, r, sub, par, T, sub2, par2)
            /\ left_turn(t, m)[y].height = t[m].height - 1
    BY <1>2, <1>5, <1>8, <1>9, SingleLeft
  <2> QED BY <2>1, <2>2, <1>6 DEF Rebalanced
<1>10. CASE different(t, y) > 0
  <2> DEFINE x == t[y].left
             w == Hung(right_turn(t, y), m, y, x)
  <2>1. x \in DOMAIN t
    <3>1. height(t, t[y].right) \in Nat /\ height(t, x) \in Nat /\ x \in DOMAIN t \cup {None}
      BY <1>2, NodeFields
    <3> QED BY <1>10, <3>1 DEF different, height
  <2>2. x # m /\ x # p
    <3>1. /\ t[x].right # None => t[x].right \in sub[x]
          /\ t[x].left # None => t[x].left \in sub[x]
      BY <2>1, InSub
    <3>2. sub[x] \subseteq sub[y]
      BY <1>1, <1>2, <2>1, InSub
    <3>3. m \notin {t[x].right, t[x].left}
      BY <1>1, <1>3, <3>1, <3>2
    <3> QED BY <3>3, <2>1, <1>1, <1>3 DEF IsParent
  <2>3. Even(t, x)
    BY <2>1, <2>2 DEF Unbalanced
  <2>4. StraightenedRight(t, m) = w
    <3>1. ~ (y < m)
      BY <1>1, <1>2, <1>3, NodeFields
    <3> QED BY <3>1, <1>1, <1>3, <1>10 DEF StraightenedRight, Hung
  <2>5. PICK T, sub2, par2 :
            /\ Rebuilt(t, left_turn(w, m), Hung(left_turn(w, m), p, m, x),
                       m, x, r, sub, par, T, sub2, par2)
            /\ left_turn(w, m)[x].height = t[m].height - 1
            /\ w[m].right = x
    BY <1>2, <1>5, <1>8, <1>10, <2>1, <2>3, DoubleLeft
  <2> HIDE DEF w
  <2> QED BY <2>4, <2>5, <1>6 DEF Rebalanced
<1> QED BY <1>7, <1>9, <1>10

LEMMA Balance ==
    ASSUME NEW t, IsNodes(t), NEW r, NEW sub, NEW par, Shape(t, r, sub, par),
           NEW m \in DOMAIN t, NEW p, IsParent(t, par, p, m), Unbalanced(t, p, m)
    PROVE  \E T, sub2, par2 :
               Rebalanced(t, balance(t, m), p, m, BalancedTop(t, m), r, sub, par, T, sub2, par2)
<1>1. CASE different(t, m) \in -1 .. 1
  <2>1. /\ ~ TooHighLeft(t, m) /\ ~ TooHighRight(t, m)
        /\ balance(t, m) = t /\ BalancedTop(t, m) = m
    BY <1>1 DEF TooHighLeft, TooHighRight, balance, BalancedTop
  <2>2. Even(t, m)
    BY <1>1 DEF Even, Unbalanced
  <2>3. m \in sub[m]
    BY ShapeFacts
  <2>4. Shape(Hung(t, p, m, m), r, sub, par)
    <3>1. p \in DOMAIN t \cup {None}
      BY DEF IsParent
    <3>2. HungAs(t, p, m, m, Hung(t, p, m, m))
      BY <3>1, HungFields
    <3>3. ASSUME NEW q \in DOMAIN t
          PROVE  /\ Hung(t, p, m, m)[q].left = t[q].left
                 /\ Hung(t, p, m, m)[q].right = t[q].right
      <4>1. CASE q # p
        BY <4>1, <3>2 DEF HungAs
      <4>2. CASE q = p
        <5>1. p # None /\ p \in Int /\ m \in Int /\ m # None /\ m \in {t[p].left, t[p].right}
          BY <4>2, NodeFields DEF IsParent
        <5>2. /\ t[p].left # None => t[p].left < p
              /\ t[p].right # None => t[p].right > p
          BY <4>2, ShapeFacts
        <5>3. CASE m = t[p].left
          BY <4>2, <5>1, <5>2, <5>3, <3>2 DEF HungAs
        <5>4. CASE m = t[p].right
          <6>1. ~ (m < p)
            BY <5>1, <5>2, <5>4
          <6> QED BY <4>2, <5>1, <5>4, <6>1, <3>2 DEF HungAs
        <5> QED BY <5>1, <5>3, <5>4
      <4> QED BY <4>1, <4>2
    <3> QED BY <3>2, <3>3, SameShape DEF HungAs
  <2>5. Swap(m, m, r) = r
    BY DEF Swap
  <2>6. Rebuilt(t, t, Hung(t, p, m, m), m, m, r, sub, par, {m}, sub, par)
    BY <2>2, <2>3, <2>4, <2>5 DEF Rebuilt
  <2> QED BY <2>1, <2>6 DEF Rebalanced
<1>2. CASE different(t, m) = 2
  BY <1>2, BalanceLeft
<1>3. CASE different(t, m) = -2
  BY <1>3, BalanceRight
<1>4. different(t, m) \in -2 .. 2
  BY DEF Unbalanced
<1> QED BY <1>1, <1>2, <1>3, <1>4
-----------------------------------------------------------------------------
(***************************************************************************)
(* The invariant.  The tree that a put is building: while it returns, what *)
(* it has returned belongs under the last node of the path, and at the end *)
(* in the root.                                                            *)
(***************************************************************************)
Last == path[Len(path)]
Waits == pc = "up" /\ path # <<>>

Whole == IF Waits THEN Attached(nodes, Last, cur) ELSE nodes
WholeRoot == IF pc = "up" /\ path = <<>> THEN cur ELSE root

Types ==
    /\ IsNodes(nodes)
    /\ root \in DOMAIN nodes \cup {None} /\ cur \in DOMAIN nodes \cup {None}
    /\ path \in Seq(DOMAIN nodes) /\ pc \in {"idle", "down", "up"} /\ turns \in 0 .. 1
    /\ pc = "idle" => path = <<>> /\ cur = None
    /\ pc # "idle" => key \in Keys
    /\ pc # "up" => turns = 0
    /\ pc = "up" => cur \in DOMAIN nodes

\* The path leads from the root to cur, always towards the key, and none of
\* its nodes is below a later one.
OnWay(t, r, sub) ==
    /\ pc # "idle" => cur = IF path = <<>> THEN r ELSE Toward(t, Last)
    /\ path # <<>> => path[1] = r
    /\ \A i \in 2 .. Len(path) : path[i] = Toward(t, path[i - 1])
    /\ \A i \in 1 .. Len(path) : path[i] \notin Under(sub, cur)
    /\ \A i, j \in 1 .. Len(path) : j < i => path[j] \notin sub[path[i]]

Searching(sub) == pc = "down" /\ key \in DOMAIN nodes => key \in Under(sub, cur)

\* The last node of the path has been measured with the height h of what was
\* in the place of cur before the put.  cur may have grown by one, but then
\* nothing has turned, and it is a new node or one side of it is higher.
Away(t, n) == IF n > key THEN t[n].right ELSE t[n].left
Risen(t, h) ==
    \/ height(t, cur) = h
    \/ height(t, cur) = h + 1 /\ turns = 0 /\ (h = 0 \/ different(t, cur) # 0)
Pending(t, n, h) ==
    /\ t[n].height = Larger(h, height(t, Away(t, n))) + 1
    /\ h - height(t, Away(t, n)) \in -1 .. 1
    /\ Risen(t, h)

Heights(t) ==
    /\ \A n \in DOMAIN nodes : ~ (Waits /\ n = Last) => Even(t, n)
    /\ Waits => \E h \in Nat : Pending(t, Last, h)

IInv ==
    /\ Types
    /\ \E sub, par : /\ Shape(Whole, WholeRoot, sub, par)
                     /\ OnWay(Whole, WholeRoot, sub) /\ Searching(sub)
    /\ Heights(Whole)

-----------------------------------------------------------------------------
(***************************************************************************)
(* Every step keeps the invariant.                                         *)
(***************************************************************************)
LEMMA InitInv == Init => IInv
<1> SUFFICES ASSUME Init PROVE IInv
  OBVIOUS
<1>1. DOMAIN nodes = {} /\ pc = "idle" /\ path = <<>> /\ root = None /\ cur = None /\ turns = 0
  BY DEF Init
<1>2. Types
  BY <1>1 DEF Types, IsNodes, Init
<1>3. Whole = nodes /\ WholeRoot = None
  BY <1>1 DEF Whole, WholeRoot, Waits
<1>4. Shape(Whole, WholeRoot, [n \in {} |-> {}], [n \in {} |-> None])
  BY <1>1, <1>3 DEF Shape, Ordered, Parents, Under
<1>5. OnWay(Whole, WholeRoot, [n \in {} |-> {}]) /\ Searching([n \in {} |-> {}])
  BY <1>1, <1>3 DEF OnWay, Searching
<1>6. Heights(Whole)
  BY <1>1, <1>3 DEF Heights, Waits
<1> QED BY <1>2, <1>4, <1>5, <1>6 DEF IInv

LEMMA PutInv ==
    ASSUME IInv, NEW k \in Keys, put(k)
    PROVE  IInv'
<1>1. /\ pc = "idle" /\ path = <<>> /\ cur = None /\ turns = 0
      /\ pc' = "down" /\ key' = k /\ cur' = root
      /\ root' = root /\ nodes' = nodes /\ path' = path /\ turns' = turns
  BY DEF put, IInv, Types
<1>2. Whole = nodes /\ WholeRoot = root /\ Whole' = nodes /\ WholeRoot' = root
  BY <1>1 DEF Whole, WholeRoot, Waits
<1>3. PICK sub, par : Shape(nodes, root, sub, par)
  BY <1>2 DEF IInv
<1>4. Types'
  BY <1>1 DEF IInv, Types
<1>5. OnWay(Whole, WholeRoot, sub)' /\ Searching(sub)'
  <2>1. Under(sub, root) = DOMAIN nodes
    BY <1>3 DEF Shape
  <2> QED BY <1>1, <1>2, <2>1 DEF OnWay, Searching
<1>6. Heights(Whole)'
  BY <1>1, <1>2 DEF IInv, Heights, Waits
<1> QED BY <1>1, <1>2, <1>3, <1>4, <1>5, <1>6 DEF IInv

LEMMA PutReturnsInv ==
    ASSUME IInv, PutReturns
    PROVE  IInv'
<1>1. /\ pc = "up" /\ path = <<>> /\ root' = cur /\ pc' = "idle" /\ cur' = None
      /\ nodes' = nodes /\ path' = path /\ turns' = 0
  BY DEF PutReturns
<1>2. Whole = nodes /\ WholeRoot = cur /\ Whole' = nodes /\ WholeRoot' = cur
  BY <1>1 DEF Whole, WholeRoot, Waits
<1>3. PICK sub, par : Shape(nodes, cur, sub, par)
  BY <1>2 DEF IInv
<1>4. Types'
  BY <1>1 DEF IInv, Types
<1>5. OnWay(Whole, WholeRoot, sub)' /\ Searching(sub)'
  BY <1>1, <1>2 DEF OnWay, Searching
<1>6. Heights(Whole)'
  BY <1>1, <1>2 DEF IInv, Heights, Waits
<1> QED BY <1>1, <1>2, <1>3, <1>4, <1>5, <1>6 DEF IInv

\* What is in the place of key under n, and what Attached changes.
LEMMA TowardFields ==
    ASSUME NEW t, IsNodes(t), NEW r, NEW sub, NEW par, Shape(t, r, sub, par), NEW n \in DOMAIN t
    PROVE  /\ Toward(t, n) \in DOMAIN t \cup {None} /\ Away(t, n) \in DOMAIN t \cup {None}
           /\ Toward(t, n) # None => Toward(t, n) # Away(t, n) /\ par[Toward(t, n)] = n
           /\ Away(t, n) # None => par[Away(t, n)] = n
           /\ sub[n] = {n} \cup Under(sub, Toward(t, n)) \cup Under(sub, Away(t, n))
           /\ n \notin Under(sub, Toward(t, n)) /\ n \notin Under(sub, Away(t, n))
           /\ {t[n].left, t[n].right} = {Toward(t, n), Away(t, n)}
<1>1. sub[n] = {n} \cup Under(sub, t[n].left) \cup Under(sub, t[n].right)
  BY DEF Shape, Ordered
<1>2. t[n].left \in DOMAIN t \cup {None} /\ t[n].right \in DOMAIN t \cup {None}
  BY NodeFields
<1>3. /\ t[n].left # None => t[n].left # t[n].right /\ par[t[n].left] = n
      /\ t[n].right # None => par[t[n].right] = n
      /\ n \notin Under(sub, t[n].left) /\ n \notin Under(sub, t[n].right)
  BY ShapeFacts
<1>4. CASE n > key
  BY <1>1, <1>2, <1>3, <1>4 DEF Toward, Away
<1>5. CASE ~ (n > key)
  BY <1>1, <1>2, <1>3, <1>5 DEF Toward, Away
<1> QED BY <1>4, <1>5

LEMMA AttachedFields ==
    ASSUME NEW t, IsNodes(t), NEW n \in DOMAIN t, NEW c \in DOMAIN t \cup {None}
    PROVE  /\ IsNodes(Attached(t, n, c)) /\ DOMAIN Attached(t, n, c) = DOMAIN t
           /\ \A q \in DOMAIN t : q # n => Attached(t, n, c)[q] = t[q]
           /\ \A q \in DOMAIN t : Attached(t, n, c)[q].height = t[q].height
           /\ Toward(Attached(t, n, c), n) = c
           /\ Away(Attached(t, n, c), n) = Away(t, n)
           /\ c = Toward(t, n) => Attached(t, n, c) = t
<1>1. CASE n > key
  <2>1. Attached(t, n, c) = [t EXCEPT ![n].left = c]
    BY <1>1 DEF Attached
  <2>2. /\ IsNodes(Attached(t, n, c)) /\ DOMAIN Attached(t, n, c) = DOMAIN t
        /\ \A q \in DOMAIN t : q # n => Attached(t, n, c)[q] = t[q]
        /\ \A q \in DOMAIN t : Attached(t, n, c)[q].height = t[q].height
    BY <2>1 DEF IsNodes
  <2>3. Attached(t, n, c)[n].left = c /\ Attached(t, n, c)[n].right = t[n].right
    BY <2>1 DEF IsNodes
  <2>4. c = t[n].left => Attached(t, n, c) = t
    BY <2>1 DEF IsNodes
  <2> QED BY <1>1, <2>2, <2>3, <2>4 DEF Toward, Away
<1>2. CASE ~ (n > key)
  <2>1. Attached(t, n, c) = [t EXCEPT ![n].right = c]
    BY <1>2 DEF Attached
  <2>2. /\ IsNodes(Attached(t, n, c)) /\ DOMAIN Attached(t, n, c) = DOMAIN t
        /\ \A q \in DOMAIN t : q # n => Attached(t, n, c)[q] = t[q]
        /\ \A q \in DOMAIN t : Attached(t, n, c)[q].height = t[q].height
    BY <2>1 DEF IsNodes
  <2>3. Attached(t, n, c)[n].right = c /\ Attached(t, n, c)[n].left = t[n].left
    BY <2>1 DEF IsNodes
  <2>4. c = t[n].right => Attached(t, n, c) = t
    BY <2>1 DEF IsNodes
  <2> QED BY <1>2, <2>2, <2>3, <2>4 DEF Toward, Away
<1> QED BY <1>1, <1>2
LEMMA DescendInv ==
    ASSUME IInv, Descend
    PROVE  IInv'
<1>1. /\ pc = "down" /\ cur # None /\ cur # key /\ cur \in DOMAIN nodes /\ key \in Keys
      /\ path' = Append(path, cur) /\ cur' = Toward(nodes, cur)
      /\ root' = root /\ nodes' = nodes /\ pc' = pc /\ key' = key /\ turns' = turns
      /\ IsNodes(nodes) /\ path \in Seq(DOMAIN nodes)
  BY DEF Descend, IInv, Types
<1>2. Whole = nodes /\ WholeRoot = root /\ Whole' = nodes /\ WholeRoot' = root
  BY <1>1 DEF Whole, WholeRoot, Waits
<1>3. PICK sub, par : Shape(nodes, root, sub, par) /\ OnWay(nodes, root, sub) /\ Searching(sub)
  BY <1>2 DEF IInv
<1> DEFINE L == Len(path)
           c == Toward(nodes, cur)
<1>4. /\ L \in Nat /\ Len(path') = L + 1 /\ path'[L + 1] = cur
      /\ \A i \in 1 .. L : path'[i] = path[i] /\ path[i] \in DOMAIN nodes
      /\ path' \in Seq(DOMAIN nodes) /\ (path # <<>> => L > 0) /\ (path = <<>> => L = 0)
      /\ path' # <<>>
  BY <1>1
<1>5. /\ c \in DOMAIN nodes \cup {None} /\ cur \notin Under(sub, c)
      /\ Under(sub, cur) = {cur} \cup Under(sub, c) \cup Under(sub, Away(nodes, cur))
  BY <1>1, <1>3, TowardFields DEF Under
<1>6. Types'
  BY <1>1, <1>4, <1>5 DEF IInv, Types
<1>7. OnWay(Whole, WholeRoot, sub)'
  <2>1. Toward(nodes, cur)' = Toward(nodes, cur') /\ \A n : Toward(nodes, n)' = Toward(nodes, n)
    BY <1>1 DEF Toward
  <2>2. (pc # "idle" => cur = IF path = <<>> THEN root ELSE Toward(nodes, Last))'
    BY <1>1, <1>4 DEF Last, Toward
  <2>3. path'[1] = root
    <3>1. CASE path = <<>>
      BY <3>1, <1>1, <1>3, <1>4 DEF OnWay
    <3>2. CASE path # <<>>
      BY <3>2, <1>3, <1>4 DEF OnWay
    <3> QED BY <3>1, <3>2
  <2>4. ASSUME NEW i \in 2 .. L + 1 PROVE path'[i] = Toward(nodes, path'[i - 1])
    <3>1. CASE i = L + 1
      <4>1. cur = Toward(nodes, path[L]) /\ path'[i - 1] = path[L]
        BY <3>1, <1>1, <1>3, <1>4 DEF OnWay, Last
      <4> QED BY <3>1, <4>1, <1>4
    <3>2. CASE i \in 2 .. L
      BY <3>2, <1>3, <1>4 DEF OnWay
    <3> QED BY <3>1, <3>2, <1>4
  <2>5. ASSUME NEW i \in 1 .. L + 1 PROVE path'[i] \notin Under(sub, c)
    BY <1>3, <1>4, <1>5 DEF OnWay
  <2>6. ASSUME NEW i \in 1 .. L + 1, NEW j \in 1 .. L + 1, j < i
        PROVE  path'[j] \notin sub[path'[i]]
    <3>1. CASE i = L + 1
      BY <2>6, <3>1, <1>1, <1>3, <1>4 DEF OnWay, Under
    <3>2. CASE i \in 1 .. L
      BY <2>6, <3>2, <1>3, <1>4 DEF OnWay
    <3> QED BY <3>1, <3>2, <1>4
  <2>7. (\A i \in 2 .. Len(path) : path[i] = Toward(nodes, path[i - 1]))'
    <3> SUFFICES ASSUME NEW i \in 2 .. L + 1 PROVE path'[i] = Toward(nodes, path[i - 1])'
      BY <1>4
    <3> QED BY <1>1, <2>4 DEF Toward
  <2>8. (\A i \in 1 .. Len(path) : path[i] \notin Under(sub, cur))'
    BY <1>1, <1>4, <2>5
  <2>9. (\A i, j \in 1 .. Len(path) : j < i => path[j] \notin sub[path[i]])'
    BY <1>4, <2>6
  <2>10. Whole' = nodes' /\ WholeRoot' = root'
    BY <1>1, <1>2
  <2>11. OnWay(nodes, root, sub)'
    BY <1>1, <2>2, <2>3, <2>7, <2>8, <2>9 DEF OnWay
  <2> QED BY <2>10, <2>11 DEF OnWay, Toward
<1>8. Searching(sub)'
  <2> SUFFICES ASSUME key \in DOMAIN nodes PROVE key \in Under(sub, c)
    BY <1>1 DEF Searching
  <2>1. key \in Under(sub, cur)
    BY <1>1, <1>3 DEF Searching
  <2>2. key \notin Under(sub, Away(nodes, cur))
    <3>1. key \in Int /\ cur \in Int
      BY <1>1, NodeFields
    <3>2. /\ \A m \in Under(sub, nodes[cur].left) : m < cur
          /\ \A m \in Under(sub, nodes[cur].right) : m > cur
      BY <1>1, <1>3 DEF Shape, Ordered
    <3>3. CASE cur > key
      BY <3>1, <3>2, <3>3 DEF Away
    <3>4. CASE ~ (cur > key)
      BY <3>1, <3>2, <3>4 DEF Away
    <3> QED BY <3>3, <3>4
  <2> QED BY <1>1, <1>5, <2>1, <2>2
<1>9. Heights(Whole)'
  BY <1>1, <1>2 DEF IInv, Heights, Waits
<1> QED BY <1>2, <1>3, <1>6, <1>7, <1>8, <1>9 DEF IInv

LEMMA SameKeyInv ==
    ASSUME IInv, SameKey
    PROVE  IInv' /\ nodes' = nodes
<1>1. /\ pc = "down" /\ cur = key /\ key \in Keys /\ cur \in DOMAIN nodes \cup {None}
      /\ MeasuresAndBalances(nodes, cur)
      /\ root' = root /\ key' = key /\ path' = path
      /\ IsNodes(nodes) /\ path \in Seq(DOMAIN nodes) /\ turns = 0
  BY DEF SameKey, IInv, Types
<1>2. cur \in DOMAIN nodes
  BY <1>1, KeysAssumption
<1>3. Whole = nodes /\ WholeRoot = root /\ \A n \in DOMAIN nodes : Even(nodes, n)
  BY <1>1 DEF Whole, WholeRoot, Waits, IInv, Heights
<1>4. Measured(nodes, cur) = nodes
  <2>1. nodes[cur].height = Larger(height(nodes, nodes[cur].left), height(nodes, nodes[cur].right)) + 1
    BY <1>2, <1>3 DEF Even
  <2>2. Measured(nodes, cur) = [nodes EXCEPT ![cur].height = nodes[cur].height]
    BY <2>1 DEF Measured
  <2> QED BY <1>1, <2>2 DEF IsNodes
<1>5. ~ TooHighLeft(nodes, cur) /\ ~ TooHighRight(nodes, cur)
  BY <1>2, <1>3 DEF Even, TooHighLeft, TooHighRight
<1>6. nodes' = nodes /\ cur' = cur /\ turns' = 0 /\ pc' = "up"
  BY <1>1, <1>4, <1>5 DEF MeasuresAndBalances, balance, BalancedTop
<1>7. PICK sub, par : Shape(nodes, root, sub, par) /\ OnWay(nodes, root, sub) /\ Searching(sub)
  BY <1>3 DEF IInv
<1>8. Types'
  BY <1>1, <1>2, <1>6 DEF IInv, Types
<1>9. path # <<>> => Last \in DOMAIN nodes /\ cur = Toward(nodes, Last)
  BY <1>1, <1>7 DEF OnWay, Last
<1>10. path = <<>> => cur = root
  BY <1>1, <1>7 DEF OnWay
<1>11. Whole' = nodes
  <2>1. CASE path = <<>>
    BY <2>1, <1>1, <1>6 DEF Whole, Waits
  <2>2. CASE path # <<>>
    <3>1. Attached(nodes, Last, cur) = nodes
      BY <2>2, <1>1, <1>2, <1>9, AttachedFields
    <3> QED BY <3>1, <1>1, <1>6 DEF Whole, Waits, Attached, Last
  <2> QED BY <2>1, <2>2
<1>12. WholeRoot' = root
  BY <1>1, <1>6, <1>10 DEF WholeRoot
<1>13. OnWay(Whole, WholeRoot, sub)' /\ Searching(sub)'
  BY <1>1, <1>6, <1>7, <1>11, <1>12 DEF OnWay, Searching, Toward, Last
<1>14. Heights(Whole)'
  <2>1. ASSUME path # <<>> PROVE \E h \in Nat : Pending(nodes, Last, h)
    <3>1. height(nodes, cur) \in Nat /\ height(nodes, Away(nodes, Last)) \in Nat
      BY <2>1, <1>1, <1>2, <1>9, NodeFields DEF Away, height
    <3>2. Even(nodes, Last)
      BY <2>1, <1>3, <1>9
    <3>3. Pending(nodes, Last, height(nodes, cur))
      <4>1. Risen(nodes, height(nodes, cur))
        BY DEF Risen
      <4>2. CASE Last > key
        BY <4>1, <4>2, <2>1, <1>9, <3>1, <3>2 DEF Pending, Away, Toward, Even, different
      <4>3. CASE ~ (Last > key)
        BY <4>1, <4>3, <2>1, <1>9, <3>1, <3>2 DEF Pending, Away, Toward, Even, different, Larger
      <4> QED BY <4>2, <4>3
    <3> QED BY <3>1, <3>3
  <2>2. \A h : Pending(nodes, Last, h)' <=> Pending(nodes, Last, h)
    BY <1>1, <1>6 DEF Pending, Away, Risen, Last
  <2> QED BY <1>1, <1>3, <1>6, <1>11, <2>1 DEF Heights, Waits, Pending, Away, Risen, Last
<1> QED BY <1>6, <1>7, <1>8, <1>11, <1>12, <1>13, <1>14 DEF IInv
\* The invariant's facts about the path.
LEMMA PathFacts ==
    ASSUME Types, NEW t, IsNodes(t), DOMAIN t = DOMAIN nodes, NEW r, NEW sub, NEW par,
           Shape(t, r, sub, par), OnWay(t, r, sub)
    PROVE  /\ Len(path) \in Nat /\ (path = <<>> <=> Len(path) = 0)
           /\ \A i \in 1 .. Len(path) : path[i] \in DOMAIN t /\ path[i] \in sub[path[i]]
           /\ \A i, j \in 1 .. Len(path) : path[i] = path[j] => i = j
           /\ path # <<>> => Last \in DOMAIN t /\ path[1] = r
           /\ \A i \in 2 .. Len(path) : path[i] = Toward(t, path[i - 1]) /\ par[path[i]] = path[i - 1]
<1>1. /\ Len(path) \in Nat /\ (path = <<>> <=> Len(path) = 0)
      /\ \A i \in 1 .. Len(path) : path[i] \in DOMAIN t
      /\ path # <<>> => Last \in DOMAIN t
  BY DEF Types, Last
<1>2. \A i \in 1 .. Len(path) : path[i] \in sub[path[i]]
  BY <1>1, ShapeFacts
<1>3. \A i, j \in 1 .. Len(path) : path[i] = path[j] => i = j
  <2> SUFFICES ASSUME NEW i \in 1 .. Len(path), NEW j \in 1 .. Len(path), path[i] = path[j], j < i
               PROVE  FALSE
    BY <1>1
  <2> QED BY <1>2 DEF OnWay
<1>4. ASSUME NEW i \in 2 .. Len(path)
      PROVE  path[i] = Toward(t, path[i - 1]) /\ par[path[i]] = path[i - 1]
  <2>1. path[i] = Toward(t, path[i - 1])
    BY DEF OnWay
  <2>2. path[i] \in DOMAIN t /\ path[i - 1] \in DOMAIN t
    BY <1>1
  <2>3. path[i] # None
    BY <2>2, NodeFields
  <2> QED BY <2>1, <2>2, <2>3, TowardFields
<1> QED BY <1>1, <1>2, <1>3, <1>4 DEF OnWay

LEMMA NewNodeInv ==
    ASSUME IInv, NewNode
    PROVE  IInv' /\ key \notin DOMAIN nodes /\ DOMAIN nodes' = DOMAIN nodes \cup {key}
<1> DEFINE w == [n \in DOMAIN nodes \cup {key} |-> IF n = key THEN Node(1) ELSE nodes[n]]
           L == Len(path)
           P == {path[i] : i \in 1 .. L}
           v == IF path = <<>> THEN w ELSE Attached(w, Last, key)
           r2 == IF path = <<>> THEN key ELSE root
<1>1. /\ pc = "down" /\ cur = None /\ key \in Keys
      /\ nodes' = w /\ cur' = key /\ pc' = "up"
      /\ root' = root /\ key' = key /\ path' = path /\ turns' = turns /\ turns = 0
      /\ IsNodes(nodes) /\ path \in Seq(DOMAIN nodes) /\ key \in Int /\ key # None
  BY KeysAssumption DEF NewNode, IInv, Types
<1>2. Whole = nodes /\ WholeRoot = root /\ \A n \in DOMAIN nodes : Even(nodes, n)
  BY <1>1 DEF Whole, WholeRoot, Waits, IInv, Heights
<1>3. PICK sub, par : Shape(nodes, root, sub, par) /\ OnWay(nodes, root, sub) /\ Searching(sub)
  BY <1>2 DEF IInv
<1>4. key \notin DOMAIN nodes
  BY <1>1, <1>3 DEF Searching, Under
<1>5. /\ IsNodes(w) /\ DOMAIN w = DOMAIN nodes \cup {key}
      /\ w[key].left = None /\ w[key].right = None /\ w[key].height = 1
      /\ \A q \in DOMAIN nodes : w[q] = nodes[q]
  BY <1>1, <1>4 DEF IsNodes, Node
<1> HIDE DEF w
<1>6. /\ L \in Nat /\ (path = <<>> <=> L = 0)
      /\ \A i \in 1 .. L : path[i] \in DOMAIN nodes
      /\ \A i, j \in 1 .. L : path[i] = path[j] => i = j
      /\ path # <<>> => Last \in DOMAIN nodes /\ path[1] = root
      /\ \A i \in 2 .. L : path[i] = Toward(nodes, path[i - 1]) /\ par[path[i]] = path[i - 1]
  <2>1. Types
    BY DEF IInv
  <2> QED BY <1>1, <1>3, <2>1, PathFacts
<1>7. /\ IsNodes(v) /\ DOMAIN v = DOMAIN nodes \cup {key}
      /\ v[key].left = None /\ v[key].right = None
      /\ \A q \in DOMAIN nodes : q \notin P => v[q] = nodes[q]
      /\ \A q \in DOMAIN nodes : path # <<>> /\ q # Last => v[q] = nodes[q]
      /\ \A q \in DOMAIN nodes : v[q].height = nodes[q].height
      /\ v[key].height = 1
      /\ path # <<>> => Toward(v, Last) = key /\ Away(v, Last) = Away(nodes, Last)
  <2>1. CASE path = <<>>
    BY <2>1, <1>5
  <2>2. CASE path # <<>>
    <3>1. Last \in DOMAIN w /\ key \in DOMAIN w \cup {None} /\ Last \in P /\ Last # key
      BY <2>2, <1>4, <1>5, <1>6 DEF Last
    <3>2. Away(w, Last) = Away(nodes, Last)
      BY <2>2, <1>5, <1>6 DEF Away
    <3>3. /\ IsNodes(v) /\ DOMAIN v = DOMAIN w
          /\ \A q \in DOMAIN w : q # Last => v[q] = w[q]
          /\ \A q \in DOMAIN w : v[q].height = w[q].height
          /\ Toward(v, Last) = key /\ Away(v, Last) = Away(w, Last)
      BY <2>2, <3>1, <1>5, AttachedFields
    <3> QED BY <2>2, <3>1, <3>2, <3>3, <1>5
  <2> QED BY <2>1, <2>2
<1>8. Whole' = v /\ WholeRoot' = r2
  BY <1>1 DEF Whole, WholeRoot, Waits, Attached, Last
<1>9. /\ path = <<>> => DOMAIN nodes = {}
      /\ path # <<>> => Toward(nodes, Last) = None /\ root \in P
      /\ P \subseteq DOMAIN nodes
  <2>1. path = <<>> => root = None
    BY <1>1, <1>3 DEF OnWay
  <2>2. path # <<>> => Toward(nodes, Last) = None
    BY <1>1, <1>3 DEF OnWay
  <2> QED BY <2>1, <2>2, <1>3, <1>6 DEF Shape, Under
<1>10. /\ root \in DOMAIN nodes \cup {None} /\ Under(sub, root) = DOMAIN nodes
       /\ (root # None => par[root] = None) /\ None \notin DOMAIN nodes
       /\ sub \in [DOMAIN nodes -> SUBSET DOMAIN nodes]
       /\ par \in [DOMAIN nodes -> DOMAIN nodes \cup {None}]
  BY <1>1, <1>3, NodeFields DEF Shape
\* Of the children of a node only the next one on the path is on the path.
<1>11. ASSUME NEW q \in DOMAIN nodes
       PROVE  /\ Away(nodes, q) \notin P
              /\ q \notin P => Toward(nodes, q) \notin P
              /\ q \in P /\ q # Last => Toward(nodes, q) \in P
  <2>0. /\ Toward(nodes, q) \in DOMAIN nodes \cup {None} /\ Away(nodes, q) \in DOMAIN nodes \cup {None}
        /\ Toward(nodes, q) # None => Toward(nodes, q) # Away(nodes, q) /\ par[Toward(nodes, q)] = q
        /\ Away(nodes, q) # None => par[Away(nodes, q)] = q
    BY <1>1, <1>3, TowardFields
  <2>1. ASSUME NEW c \in P, par[c] = q
        PROVE  q \in P /\ c = Toward(nodes, q)
    <3>1. PICK i \in 1 .. L : c = path[i]
      BY <2>1
    <3>2. i # 1
      <4> SUFFICES ASSUME i = 1 PROVE FALSE
        OBVIOUS
      <4>1. c = root /\ path # <<>>
        BY <3>1, <1>6
      <4> QED BY <4>1, <2>1, <1>6, <1>10
    <3>3. i \in 2 .. L /\ i - 1 \in 1 .. L
      BY <3>2, <1>6
    <3> QED BY <2>1, <3>1, <3>3, <1>6
  <2>2. Away(nodes, q) \notin P
    <3> SUFFICES ASSUME Away(nodes, q) \in P PROVE FALSE
      OBVIOUS
    <3>1. Away(nodes, q) # None
      BY <1>9, <1>10
    <3>2. Away(nodes, q) = Toward(nodes, q)
      BY <2>0, <2>1, <3>1
    <3> QED BY <2>0, <3>1, <3>2
  <2>3. q \notin P => Toward(nodes, q) \notin P
    BY <2>0, <2>1, <1>9, <1>10
  <2>4. ASSUME q \in P, q # Last PROVE Toward(nodes, q) \in P
    <3>1. PICK i \in 1 .. L : q = path[i]
      BY <2>4
    <3>2. i # L /\ i + 1 \in 2 .. L /\ (i + 1) - 1 = i
      BY <2>4, <3>1, <1>6 DEF Last
    <3>3. path[i + 1] = Toward(nodes, q)
      BY <3>1, <3>2, <1>6
    <3> QED BY <3>2, <3>3
  <2> QED BY <2>2, <2>3, <2>4
<1> DEFINE sub2 == [q \in DOMAIN nodes \cup {key} |->
                       IF q = key THEN {key} ELSE IF q \in P THEN sub[q] \cup {key} ELSE sub[q]]
           par2 == [q \in DOMAIN nodes \cup {key} |->
                       IF q # key THEN par[q] ELSE IF path = <<>> THEN None ELSE Last]
<1>12. /\ sub2[key] = {key}
       /\ \A q \in P : sub2[q] = sub[q] \cup {key}
       /\ \A q \in DOMAIN nodes : q \notin P => sub2[q] = sub[q]
       /\ \A q \in DOMAIN nodes : par2[q] = par[q]
       /\ par2[key] = IF path = <<>> THEN None ELSE Last
       /\ sub2 \in [DOMAIN v -> SUBSET DOMAIN v]
       /\ par2 \in [DOMAIN v -> DOMAIN v \cup {None}]
  BY <1>4, <1>6, <1>7, <1>9, <1>10
<1> HIDE DEF sub2, par2, v, P
<1>13. /\ Under(sub2, None) = {} /\ Under(sub, None) = {} /\ Under(sub2, key) = {key}
       /\ \A c \in P : Under(sub2, c) = Under(sub, c) \cup {key}
       /\ \A c \in DOMAIN nodes \cup {None} : c \notin P => Under(sub2, c) = Under(sub, c)
  BY <1>1, <1>9, <1>10, <1>12 DEF Under
<1>14. Ordered(v, sub2) /\ Parents(v, par2)
  <2> SUFFICES ASSUME NEW q \in DOMAIN v
               PROVE  /\ sub2[q] = {q} \cup Under(sub2, v[q].left) \cup Under(sub2, v[q].right)
                      /\ \A m \in Under(sub2, v[q].left) : m < q
                      /\ \A m \in Under(sub2, v[q].right) : m > q
                      /\ v[q].left # None => par2[v[q].left] = q
                      /\ v[q].right # None => par2[v[q].right] = q
    BY DEF Ordered, Parents
  <2>1. CASE q = key
    BY <2>1, <1>7, <1>12, <1>13
  <2>2. CASE q \in DOMAIN nodes
    <3> DEFINE T == Toward(nodes, q)
               A == Away(nodes, q)
    <3>1. /\ T \in DOMAIN nodes \cup {None} /\ A \in DOMAIN nodes \cup {None}
          /\ T # None => par[T] = q
          /\ A # None => par[A] = q
          /\ sub[q] = {q} \cup Under(sub, T) \cup Under(sub, A)
      BY <2>2, <1>1, <1>3, TowardFields
    <3>2. /\ \A m \in Under(sub, nodes[q].left) : m < q
          /\ \A m \in Under(sub, nodes[q].right) : m > q
      BY <2>2, <1>3 DEF Shape, Ordered
    <3>3. q \in Int /\ q # key
      BY <2>2, <1>1, <1>4, NodeFields
    <3>4. Away(v, q) = A
      BY <2>2, <1>7, <1>9 DEF Away
    <3>11. A \notin P /\ (q \notin P => T \notin P) /\ (q \in P /\ q # Last => T \in P)
      BY <2>2, <1>11
    <3> HIDE DEF T, A
    <3>5. Under(sub2, A) = Under(sub, A)
      BY <3>1, <3>11, <1>13
    <3>6. A # None => par2[A] = q
      BY <3>1, <1>12
    <3>7. /\ Under(sub2, Toward(v, q)) = IF q \in P THEN Under(sub, T) \cup {key} ELSE Under(sub, T)
          /\ Toward(v, q) # None => par2[Toward(v, q)] = q
      <4>1. CASE path # <<>> /\ q = Last
        <5>1. q \in P
          BY <4>1, <1>6 DEF P, Last
        <5> QED BY <4>1, <5>1, <1>1, <1>7, <1>9, <1>12, <1>13 DEF T
      <4>2. CASE ~ (path # <<>> /\ q = Last)
        <5>1. v[q] = nodes[q] /\ Toward(v, q) = T
          <6>1. v[q] = nodes[q]
            BY <2>2, <4>2, <1>7, <1>9
          <6> QED BY <6>1 DEF Toward, T
        <5>2. par2[T] = q \/ T = None
          BY <3>1, <1>12
        <5>3. CASE q \in P
          <6>1. path # <<>>
            BY <5>3, <1>6 DEF P
          <6>2. T \in P
            BY <5>3, <6>1, <4>2, <3>11
          <6> QED BY <5>1, <5>2, <5>3, <6>2, <1>13
        <5>4. CASE q \notin P
          BY <5>1, <5>2, <5>4, <3>1, <3>11, <1>13
        <5> QED BY <5>3, <5>4
      <4> QED BY <4>1, <4>2
    <3>8. sub2[q] = {q} \cup Under(sub2, Toward(v, q)) \cup Under(sub2, Away(v, q))
      BY <2>2, <3>1, <3>4, <3>5, <3>7, <1>12
    <3>9. CASE q > key
      <4>1. T = nodes[q].left /\ A = nodes[q].right
        BY <3>9 DEF Toward, Away, T, A
      <4>2. Toward(v, q) = v[q].left /\ Away(v, q) = v[q].right
        BY <3>9 DEF Toward, Away
      <4> QED BY <3>2, <3>4, <3>5, <3>6, <3>7, <3>8, <3>9, <4>1, <4>2, <1>1
    <3>10. CASE ~ (q > key)
      <4>1. T = nodes[q].right /\ A = nodes[q].left
        BY <3>10 DEF Toward, Away, T, A
      <4>2. Toward(v, q) = v[q].right /\ Away(v, q) = v[q].left
        BY <3>10 DEF Toward, Away
      <4>3. key > q
        BY <3>3, <3>10, <1>1
      <4> QED BY <3>2, <3>4, <3>5, <3>6, <3>7, <3>8, <4>1, <4>2, <4>3
    <3> QED BY <3>9, <3>10
  <2> QED BY <2>1, <2>2, <1>7
<1>15. Shape(v, r2, sub2, par2)
  <2>1. r2 \in DOMAIN v /\ Under(sub2, r2) = DOMAIN v /\ par2[r2] = None
    <3>1. CASE path = <<>>
      BY <3>1, <1>7, <1>9, <1>12, <1>13
    <3>2. CASE path # <<>>
      BY <3>2, <1>7, <1>9, <1>10, <1>12, <1>13
    <3> QED BY <3>1, <3>2
  <2> QED BY <2>1, <1>12, <1>14 DEF Shape
<1>16. PICK V, R, S2, P2 : V = v /\ R = r2 /\ S2 = sub2 /\ P2 = par2
  OBVIOUS
<1>17. /\ Shape(V, R, S2, P2) /\ Whole' = V /\ WholeRoot' = R
  BY <1>8, <1>15, <1>16
<1>18. /\ \A q \in DOMAIN nodes : path # <<>> /\ q # Last => V[q] = nodes[q]
       /\ \A q \in DOMAIN nodes : path = <<>> => V[q] = nodes[q]
       /\ \A q \in DOMAIN nodes : V[q].height = nodes[q].height
       /\ V[key].height = 1 /\ V[key].left = None /\ V[key].right = None
       /\ path # <<>> => Toward(V, Last) = key /\ Away(V, Last) = Away(nodes, Last)
       /\ R = IF path = <<>> THEN key ELSE root
       /\ Under(S2, key) = {key}
       /\ \A q \in P : S2[q] = sub[q] \cup {key}
  BY <1>7, <1>9, <1>12, <1>13, <1>16
<1>19. OnWay(Whole, WholeRoot, S2)'
  <2>1. \A i \in 2 .. L : path[i] = Toward(V, path[i - 1])
    <3> SUFFICES ASSUME NEW i \in 2 .. L PROVE path[i] = Toward(V, path[i - 1])
      OBVIOUS
    <3>1. path[i - 1] # Last /\ path[i - 1] \in DOMAIN nodes /\ path # <<>>
      BY <1>6 DEF Last
    <3>2. V[path[i - 1]] = nodes[path[i - 1]]
      BY <3>1, <1>18
    <3> QED BY <3>2, <1>6 DEF Toward
  <2>2. \A i \in 1 .. L : path[i] \notin Under(S2, key)
    BY <1>4, <1>6, <1>18
  <2>3. \A i, j \in 1 .. L : j < i => path[j] \notin S2[path[i]]
    <3> SUFFICES ASSUME NEW i \in 1 .. L, NEW j \in 1 .. L, j < i PROVE path[j] \notin S2[path[i]]
      OBVIOUS
    <3>1. path[j] \notin sub[path[i]]
      BY <1>3 DEF OnWay
    <3>2. path[i] \in P
      BY DEF P
    <3> QED BY <3>1, <3>2, <1>4, <1>6, <1>18
  <2>4. cur' = IF path = <<>> THEN R ELSE Toward(V, Last)
    BY <1>1, <1>18
  <2>5. path # <<>> => path[1] = R
    BY <1>6, <1>18
  <2>6. OnWay(V, R, S2)'
    BY <1>1, <2>1, <2>2, <2>3, <2>4, <2>5 DEF OnWay, Toward, Last
  <2> QED BY <1>17, <2>6 DEF OnWay, Toward
<1>20. Types'
  <2>1. path' \in Seq(DOMAIN nodes')
    <3>1. \A i \in 1 .. Len(path) : path[i] \in DOMAIN w
      BY <1>5, <1>6
    <3> QED BY <3>1, <1>1
  <2> QED BY <2>1, <1>1, <1>5, <1>10 DEF Types
<1>21. Heights(Whole)'
  <2>1. \A c \in DOMAIN nodes \cup {None} : height(V, c) = height(nodes, c)
    BY <1>18 DEF height
  <2>2. Even(V, key)
    BY <1>18 DEF Even, different, height, Larger
  <2>3. ASSUME NEW n \in DOMAIN nodes, V[n] = nodes[n] PROVE Even(V, n)
    <3>1. nodes[n].left \in DOMAIN nodes \cup {None} /\ nodes[n].right \in DOMAIN nodes \cup {None}
      BY <1>1, NodeFields
    <3> QED BY <2>1, <2>3, <3>1, <1>2 DEF Even, different
  <2>4. ASSUME path # <<>> PROVE Pending(V, Last, 0)'
    <3>1. PICK z : z = Last
      OBVIOUS
    <3>2. PICK a : a = Away(nodes, z)
      OBVIOUS
    <3>3. z \in DOMAIN nodes /\ Last' = z /\ Toward(nodes, z) = None
      BY <2>4, <3>1, <1>1, <1>6, <1>9 DEF Last
    <3>4. a \in DOMAIN nodes \cup {None} /\ Away(V, z) = a /\ V[z].height = nodes[z].height
      BY <2>4, <3>1, <3>2, <3>3, <1>1, <1>3, <1>18, TowardFields
    <3>5. height(V, a) = height(nodes, a) /\ height(nodes, a) \in Nat
      <4>1. height(nodes, Away(nodes, z)) \in Nat
        BY <3>3, <1>1, NodeFields DEF Away
      <4> QED BY <2>1, <3>2, <3>4, <4>1
    <3>6. /\ nodes[z].height = Larger(0, height(nodes, a)) + 1
          /\ 0 - height(nodes, a) \in -1 .. 1
      <4>1. Even(nodes, z) /\ height(nodes, None) = 0
        BY <3>3, <1>2 DEF height
      <4>2. CASE z > key
        BY <3>2, <3>3, <3>5, <4>1, <4>2 DEF Even, different, Toward, Away
      <4>3. CASE ~ (z > key)
        BY <3>2, <3>3, <3>5, <4>1, <4>3 DEF Even, different, Toward, Away, Larger
      <4> QED BY <4>2, <4>3
    <3>7. Risen(V, 0)'
      <4>1. cur' = key /\ turns' = 0 /\ key # None
        BY <1>1
      <4> QED BY <4>1, <1>18 DEF Risen, height
    <3>8. (Away(V, Last) = a)'
      BY <3>3, <3>4, <1>1 DEF Away
    <3> QED BY <3>3, <3>4, <3>5, <3>6, <3>7, <3>8 DEF Pending
  <2>5. \A n \in DOMAIN nodes' : ~ (Waits' /\ n = Last') => Even(V, n)
    <3> SUFFICES ASSUME NEW n \in DOMAIN nodes', ~ (Waits' /\ n = Last'), n # key PROVE Even(V, n)
      BY <2>2
    <3>1. n \in DOMAIN nodes /\ (path = <<>> \/ n # Last)
      BY <1>1, <1>5 DEF Waits, Last
    <3>2. V[n] = nodes[n]
      BY <3>1, <1>18
    <3> QED BY <3>1, <3>2, <2>3
  <2>6. Waits' => path # <<>>
    BY <1>1 DEF Waits
  <2>7. Heights(V)'
    BY <2>4, <2>5, <2>6 DEF Heights
  <2> QED BY <1>17, <2>7 DEF Heights, Pending, Risen, Away
<1>22. Searching(S2)'
  BY <1>1 DEF Searching
<1>23. Shape(Whole, WholeRoot, S2, P2)'
  BY <1>17
<1> QED BY <1>1, <1>4, <1>5, <1>19, <1>20, <1>21, <1>22, <1>23 DEF IInv
LEMMA ReturnInv ==
    ASSUME IInv, Return
    PROVE  IInv' /\ DOMAIN nodes' = DOMAIN nodes
<1>1. PICK n, t, h0, c : n = Last /\ t = Attached(nodes, Last, cur) /\ h0 = height(t, cur) /\ c = cur
  OBVIOUS
<1>30. PICK L : L = Len(path)
  OBVIOUS
<1>2. PICK p : p = IF L = 1 THEN None ELSE path[L - 1]
  OBVIOUS
<1>3. PICK m, u, top : m = Measured(t, n) /\ u = balance(m, n) /\ top = BalancedTop(m, n)
  OBVIOUS
<1>4. /\ pc = "up" /\ path # <<>> /\ path' = SubSeq(path, 1, L - 1)
      /\ root' = root /\ key' = key /\ pc' = "up"
      /\ nodes' = u /\ cur' = top
      /\ turns' = IF TooHighLeft(m, n) \/ TooHighRight(m, n) THEN turns + 1 ELSE turns
      /\ turns \in 0 .. 1 /\ c \in DOMAIN nodes /\ c = cur /\ key \in Keys
      /\ path \in Seq(DOMAIN nodes) /\ IsNodes(nodes) /\ n = path[L]
  BY <1>1, <1>3, <1>30 DEF Return, MeasuresAndBalances, Last, IInv, Types
<1>5. Whole = t /\ WholeRoot = root /\ Waits
  BY <1>1, <1>4 DEF Whole, WholeRoot, Waits
<1>6. PICK sub, par : Shape(t, root, sub, par) /\ OnWay(t, root, sub)
  BY <1>5 DEF IInv
<1>7. L \in Nat /\ L > 0 /\ n \in DOMAIN nodes /\ \A i \in 1 .. L : path[i] \in DOMAIN nodes
  BY <1>4, <1>30
<1>8. /\ IsNodes(t) /\ DOMAIN t = DOMAIN nodes
      /\ Toward(t, n) = c
  BY <1>1, <1>4, <1>7, AttachedFields
<1>9. /\ \A i \in 1 .. L : path[i] \in sub[path[i]]
      /\ \A i, j \in 1 .. L : path[i] = path[j] => i = j
      /\ path[1] = root
      /\ \A i \in 2 .. L : path[i] = Toward(t, path[i - 1]) /\ par[path[i]] = path[i - 1]
  <2>1. Types
    BY DEF IInv
  <2> QED BY <2>1, <1>4, <1>6, <1>8, <1>30, PathFacts
<1>10. /\ n \in Int /\ n # None /\ None \notin DOMAIN t
       /\ \A q \in DOMAIN t : q \in Int
  BY <1>7, <1>8, NodeFields
\* The tree as it has been measured.
<1>11. /\ IsNodes(m) /\ DOMAIN m = DOMAIN t
       /\ \A q \in DOMAIN t : m[q].left = t[q].left /\ m[q].right = t[q].right
       /\ \A q \in DOMAIN t : q # n => m[q] = t[q]
       /\ m[n].height = Larger(height(t, t[n].left), height(t, t[n].right)) + 1
  <2>1. n \in DOMAIN t /\ IsNodes(t)
    BY <1>7, <1>8
  <2>2. LET v == Measured(t, n) IN
        /\ IsNodes(v) /\ DOMAIN v = DOMAIN t
        /\ \A q \in DOMAIN t : v[q].left = t[q].left /\ v[q].right = t[q].right
        /\ \A q \in DOMAIN t : q # n => v[q] = t[q]
        /\ v[n].height = Larger(height(t, t[n].left), height(t, t[n].right)) + 1
    BY <2>1, MeasuredFields
  <2> QED BY <1>3, <2>2
<1>12. Shape(m, root, sub, par)
  BY <1>6, <1>11, SameShape
<1>13. IsParent(m, par, p, n)
  <2>1. CASE L = 1
    BY <2>1, <1>2, <1>4, <1>6, <1>9, <1>10, <1>7 DEF IsParent, Shape
  <2>2. CASE L # 1
    <3>1. L \in 2 .. L /\ p = path[L - 1] /\ p \in DOMAIN t
      <4>1. L \in 2 .. L /\ L - 1 \in 1 .. L
        BY <2>2, <1>7
      <4> QED BY <4>1, <2>2, <1>2, <1>7, <1>8
    <3>2. n = Toward(t, p) /\ par[n] = p
      BY <3>1, <1>4, <1>9
    <3>3. {t[p].left, t[p].right} = {Toward(t, p), Away(t, p)}
      BY <3>1, <1>6, <1>8, TowardFields
    <3> QED BY <3>1, <3>2, <3>3, <1>11 DEF IsParent
  <2> QED BY <2>1, <2>2
<1>14. PICK a : a = Away(t, n)
  OBVIOUS
<1>15. /\ a \in DOMAIN t \cup {None} /\ a # n /\ c # n
       /\ c # a /\ par[c] = n /\ (a # None => par[a] = n)
       /\ height(t, a) \in Nat /\ h0 = t[c].height /\ h0 \in Nat
       /\ c \in DOMAIN t /\ c # None
  <2>1. c \in DOMAIN t /\ c # None
    BY <1>4, <1>8, <1>10
  <2>2. height(t, a) \in Nat
    BY <1>7, <1>8, <1>14, NodeFields DEF Away
  <2>3. h0 = t[c].height /\ h0 \in Nat
    BY <2>1, <1>1, <1>8, NodeFields
  <2>4. /\ a \in DOMAIN t \cup {None}
        /\ c # a /\ par[c] = n /\ (a # None => par[a] = n)
        /\ {t[n].left, t[n].right} = {c, a}
    BY <2>1, <1>6, <1>7, <1>8, <1>14, TowardFields
  <2>5. t[n].left # n /\ t[n].right # n
    BY <1>6, <1>7, <1>8, ShapeFacts
  <2> QED BY <2>1, <2>2, <2>3, <2>4, <2>5
\* Heights before: every node is even but n, which knows an older height of cur.
<1>16. /\ \A q \in DOMAIN t : q # n => Even(t, q)
       /\ \E h \in Nat : Pending(t, n, h)
  BY <1>1, <1>5, <1>8 DEF IInv, Heights
<1>17. PICK h \in Nat :
          /\ t[n].height = Larger(h, height(t, a)) + 1 /\ h - height(t, a) \in -1 .. 1
          /\ h0 = h \/ (h0 = h + 1 /\ turns = 0 /\ (h = 0 \/ different(t, c) # 0))
  BY <1>1, <1>14, <1>16 DEF Pending, Risen
<1>18. m[n].height = Larger(h0, height(t, a)) + 1
  <2>1. CASE n > key
    BY <2>1, <1>1, <1>8, <1>11, <1>14 DEF Toward, Away
  <2>2. CASE ~ (n > key)
    <3>1. m[n].height = Larger(height(t, a), h0) + 1
      BY <2>2, <1>1, <1>8, <1>11, <1>14 DEF Toward, Away
    <3> QED BY <3>1, <1>15 DEF Larger
  <2> QED BY <2>1, <2>2
<1>19. \A q \in DOMAIN t \cup {None} : q # n => height(m, q) = height(t, q)
  BY <1>11 DEF height
<1>20. /\ n > key => m[n].left = c /\ m[n].right = a
       /\ ~ (n > key) => m[n].left = a /\ m[n].right = c
       /\ height(m, c) = h0 /\ height(m, a) = height(t, a)
  <2>1. n > key => c = t[n].left /\ a = t[n].right
    BY <1>8, <1>14 DEF Toward, Away
  <2>2. ~ (n > key) => c = t[n].right /\ a = t[n].left
    BY <1>8, <1>14 DEF Toward, Away
  <2>3. height(m, c) = h0 /\ height(m, a) = height(t, a)
    BY <1>1, <1>15, <1>19
  <2> QED BY <2>1, <2>2, <2>3, <1>7, <1>8, <1>11
<1>21. different(m, n) = IF n > key THEN h0 - height(t, a) ELSE height(t, a) - h0
  BY <1>20 DEF different
<1>22. ASSUME NEW q \in DOMAIN t, q \notin {n, p}
       PROVE  Even(m, q) /\ m[q] = t[q] /\ different(m, q) = different(t, q)
  <2>1. t[q].left # n /\ t[q].right # n
    <3>1. /\ t[q].left # None => par[t[q].left] = q
          /\ t[q].right # None => par[t[q].right] = q
      BY <1>6 DEF Shape, Parents
    <3>2. par[n] = p
      BY <1>13 DEF IsParent
    <3> QED BY <3>1, <3>2, <1>10, <1>22
  <2>2. t[q].left \in DOMAIN t \cup {None} /\ t[q].right \in DOMAIN t \cup {None}
    BY <1>8, NodeFields
  <2>3. m[q] = t[q]
    BY <1>11, <1>22
  <2>4. height(m, t[q].left) = height(t, t[q].left) /\ height(m, t[q].right) = height(t, t[q].right)
    BY <1>19, <2>1, <2>2
  <2>5. different(m, q) = different(t, q)
    BY <2>3, <2>4 DEF different
  <2>6. Even(t, q)
    BY <1>16, <1>22
  <2> QED BY <2>3, <2>4, <2>5, <2>6 DEF Even
<1>23. c # p
  <2> SUFFICES ASSUME c = p PROVE FALSE
    OBVIOUS
  <2>1. n \in {t[c].left, t[c].right}
    BY <1>11, <1>13, <1>15 DEF IsParent
  <2>2. n \in sub[c]
    BY <2>1, <1>6, <1>8, <1>10, <1>15, InSub, <1>7, ShapeFacts
  <2>3. n \notin Under(sub, Toward(t, n))
    BY <1>6, <1>7, <1>8, TowardFields
  <2> QED BY <2>2, <2>3, <1>8, <1>15 DEF Under
<1>24. Unbalanced(m, p, n)
  <2>1. different(m, n) \in -2 .. 2
    BY <1>15, <1>17, <1>21
  <2>2. ASSUME different(m, n) = 2 PROVE n > key /\ different(m, m[n].left) # 0
    <3>1. n > key /\ h0 = h + 1 /\ h # 0
      BY <2>2, <1>15, <1>17, <1>21
    <3> QED BY <3>1, <1>15, <1>17, <1>20, <1>22, <1>23
  <2>3. ASSUME different(m, n) = -2 PROVE different(m, m[n].right) # 0
    <3>1. ~ (n > key) /\ h0 = h + 1 /\ h # 0
      BY <2>3, <1>15, <1>17, <1>21
    <3> QED BY <3>1, <1>15, <1>17, <1>20, <1>22, <1>23
  <2>4. m[n].height = Larger(height(m, m[n].left), height(m, m[n].right)) + 1
    <3>1. CASE n > key
      BY <3>1, <1>18, <1>20
    <3>2. CASE ~ (n > key)
      BY <3>2, <1>15, <1>18, <1>20 DEF Larger
    <3> QED BY <3>1, <3>2
  <2> QED BY <2>1, <2>2, <2>3, <2>4, <1>11, <1>22 DEF Unbalanced
<1>25. PICK T, sub2, par2 : Rebalanced(m, u, p, n, top, root, sub, par, T, sub2, par2)
  BY <1>3, <1>7, <1>8, <1>11, <1>12, <1>13, <1>24, Balance
<1>26. PICK v : v = Hung(u, p, n, top)
  OBVIOUS
<1>27. /\ IsNodes(u) /\ DOMAIN u = DOMAIN t
       /\ Shape(v, Swap(n, top, root), sub2, par2)
       /\ n \in T /\ top \in T /\ T \subseteq sub[n]
       /\ \A q \in T : q = n \/ par[q] \in T
       /\ \A q \in DOMAIN t : q \notin T =>
              /\ u[q] = m[q] /\ sub2[q] = sub[q]
              /\ par[q] \notin T => par2[q] = par[q]
       /\ sub2[top] = sub[n]
       /\ \A q \in T : Even(u, q)
  BY <1>11, <1>25, <1>26 DEF Rebalanced, Rebuilt
<1>28. top \in DOMAIN t /\ T \subseteq DOMAIN t /\ top # None
  BY <1>6, <1>7, <1>8, <1>10, <1>27 DEF Shape
<1>29. p \in DOMAIN t \cup {None} /\ (p = None <=> L = 1)
  BY <1>2, <1>7, <1>8, <1>10, <1>11, <1>13 DEF IsParent
<1>31. HungAs(u, p, n, top, v)
  BY <1>26, <1>27, <1>28, <1>29, HungFields
\* The nodes further up the path are none of those that changed.
<1>32. ASSUME NEW i \in 1 .. L - 1
       PROVE  path[i] \notin T /\ path[i] # n /\ path[i] \in DOMAIN t
  <2>1. i \in 1 .. L /\ L \in 1 .. L /\ i < L
    BY <1>7
  <2>2. path[i] \notin sub[path[L]]
    BY <2>1, <1>6, <1>30 DEF OnWay
  <2> QED BY <2>1, <2>2, <1>4, <1>7, <1>8, <1>27
<1>33. /\ Len(path') = L - 1 /\ (path' = <<>> <=> L = 1)
       /\ \A i \in 1 .. L - 1 : path'[i] = path[i]
       /\ path' \in Seq(DOMAIN nodes)
       /\ L # 1 => Last' = p /\ p \notin T /\ p # n /\ p \in DOMAIN t
  <2>1. /\ Len(path') = L - 1 /\ (path' = <<>> <=> L = 1)
        /\ \A i \in 1 .. L - 1 : path'[i] = path[i]
        /\ path' \in Seq(DOMAIN nodes)
    <3>1. \A i \in 1 .. L - 1 : path[i] \in DOMAIN nodes
      BY <1>7
    <3>2. /\ path' \in Seq(DOMAIN nodes) /\ Len(path') = L - 1
          /\ \A i \in 1 .. L - 1 : path'[i] = path[i]
      <4>1. /\ SubSeq(path, 1, L - 1) \in Seq(DOMAIN nodes)
            /\ Len(SubSeq(path, 1, L - 1)) = IF 1 <= L - 1 THEN L - 1 - 1 + 1 ELSE 0
            /\ \A i \in 1 .. L - 1 - 1 + 1 : SubSeq(path, 1, L - 1)[i] = path[1 + i - 1]
        BY <3>1, <1>7, SubSeqProperties
      <4> QED BY <4>1, <1>4, <1>7
    <3> QED BY <3>2, <1>7
  <2>2. L # 1 => L - 1 \in 1 .. L - 1 /\ p = path[L - 1]
    BY <1>2, <1>7
  <2> QED BY <2>1, <2>2, <1>32 DEF Last
<1>34. L # 1 => n = Toward(t, p)
  <2> SUFFICES ASSUME L # 1 PROVE n = Toward(t, p)
    OBVIOUS
  <2>1. L \in 2 .. L
    BY <1>7
  <2> QED BY <2>1, <1>2, <1>4, <1>9
<1>35. L # 1 => (n < p <=> p > key) /\ (n < p => t[p].left = n) /\ (~ (n < p) => t[p].right = n)
  <2> SUFFICES ASSUME L # 1
               PROVE  (n < p <=> p > key) /\ (n < p => t[p].left = n) /\ (~ (n < p) => t[p].right = n)
    OBVIOUS
  <2>1. p \in DOMAIN t /\ p \in Int
    BY <1>10, <1>33
  <2>2. /\ t[p].left # None => t[p].left < p
        /\ t[p].right # None => t[p].right > p
    BY <2>1, <1>6, <1>8, ShapeFacts
  <2>3. CASE p > key
    <3>1. n = t[p].left
      BY <2>3, <1>34 DEF Toward
    <3> QED BY <2>2, <2>3, <3>1, <1>10
  <2>4. CASE ~ (p > key)
    <3>1. n = t[p].right
      BY <2>4, <1>34 DEF Toward
    <3>2. ~ (n < p)
      BY <2>1, <2>2, <3>1, <1>10
    <3> QED BY <2>4, <3>1, <3>2
  <2> QED BY <2>3, <2>4
<1>36. Whole' = v
  <2>1. CASE L = 1
    BY <2>1, <1>4, <1>26, <1>29, <1>33 DEF Whole, Waits, Hung
  <2>2. CASE L # 1
    <3>1. Whole' = Attached(nodes, Last, cur)'
      BY <2>2, <1>4, <1>33 DEF Whole, Waits
    <3>2. Attached(nodes, Last, cur)' =
              IF p > key THEN [u EXCEPT ![p].left = top] ELSE [u EXCEPT ![p].right = top]
      BY <2>2, <1>4, <1>33 DEF Attached
    <3> QED BY <2>2, <3>1, <3>2, <1>26, <1>29, <1>35 DEF Hung
  <2> QED BY <2>1, <2>2
<1>37. WholeRoot' = Swap(n, top, root)
  <2>1. CASE L = 1
    BY <2>1, <1>4, <1>9, <1>33 DEF WholeRoot, Swap
  <2>2. CASE L # 1
    <3>1. root # n
      <4>1. 1 \in 1 .. L - 1
        BY <2>2, <1>7
      <4> QED BY <4>1, <1>9, <1>32
    <3> QED BY <2>2, <3>1, <1>4, <1>33 DEF WholeRoot, Swap
  <2> QED BY <2>1, <2>2
<1>38. \A q \in DOMAIN t \cup {None} : height(v, q) = height(u, q)
  BY <1>27, <1>31 DEF HungAs, height
<1>39. \A q \in DOMAIN t \cup {None} : q \notin T => height(v, q) = height(t, q)
  <2> SUFFICES ASSUME NEW q \in DOMAIN t \cup {None}, q \notin T PROVE height(u, q) = height(t, q)
    BY <1>38
  <2>1. q \in DOMAIN t => u[q] = t[q]
    BY <1>11, <1>27
  <2> QED BY <2>1, <1>10 DEF height
\* A node outside T has no child in T but n.
<1>40. ASSUME NEW q \in DOMAIN t, q \notin T, NEW k \in {t[q].left, t[q].right}, k # n
       PROVE  k \in DOMAIN t \cup {None} /\ k \notin T /\ height(v, k) = height(t, k)
  <2>1. k \in DOMAIN t \cup {None} /\ (k # None => par[k] = q)
    BY <1>6, <1>8, NodeFields DEF Shape, Parents
  <2>2. k \notin T
    BY <2>1, <1>10, <1>27, <1>28, <1>40
  <2> QED BY <2>1, <2>2, <1>39
<1>51. PICK R : R = Swap(n, top, root) /\ WholeRoot' = R /\ R = IF root = n THEN top ELSE root
  BY <1>37 DEF Swap
<1>41. OnWay(Whole, WholeRoot, sub2)'
  <2>1. L # 1 => Toward(v, p) = top
    BY <1>29, <1>31, <1>33, <1>35 DEF Toward, HungAs
  <2>2. (pc # "idle" => cur = IF path = <<>> THEN R ELSE Toward(v, Last))'
    <3>1. CASE L = 1
      BY <3>1, <1>4, <1>9, <1>33, <1>51
    <3>2. CASE L # 1
      BY <3>2, <2>1, <1>4, <1>33 DEF Toward
    <3> QED BY <3>1, <3>2
  <2>3. (path # <<>> => path[1] = R)'
    <3> SUFFICES ASSUME L # 1 PROVE path'[1] = R
      BY <1>33
    <3>1. 1 \in 1 .. L - 1
      BY <1>7
    <3> QED BY <3>1, <1>9, <1>32, <1>33, <1>51
  <2>4. (\A i \in 2 .. Len(path) : path[i] = Toward(v, path[i - 1]))'
    <3> SUFFICES ASSUME NEW i \in 2 .. L - 1 PROVE path[i] = Toward(v, path[i - 1])
      BY <1>4, <1>7, <1>33 DEF Toward
    <3>1. i \in 2 .. L /\ i - 1 \in 1 .. L - 1 /\ i - 1 # L - 1 /\ i \in 1 .. L /\ i - 1 \in 1 .. L /\ L - 1 \in 1 .. L
      BY <1>7
    <3>2. path[i - 1] # path[L - 1]
      BY <3>1, <1>9
    <3>3. path[i - 1] # p
      BY <3>1, <3>2, <1>2
    <3>4. path[i - 1] \notin T /\ path[i - 1] # n /\ path[i - 1] \in DOMAIN t
      BY <3>1, <1>32
    <3>5. v[path[i - 1]] = u[path[i - 1]] /\ u[path[i - 1]] = t[path[i - 1]]
      BY <3>3, <3>4, <1>11, <1>27, <1>31 DEF HungAs
    <3>6. path[i] = Toward(t, path[i - 1])
      BY <3>1, <1>9
    <3> QED BY <3>5, <3>6 DEF Toward
  <2>5. (\A i \in 1 .. Len(path) : path[i] \notin Under(sub2, cur))'
    <3> SUFFICES ASSUME NEW i \in 1 .. L - 1 PROVE path[i] \notin Under(sub2, top)
      BY <1>4, <1>33
    <3>1. i \in 1 .. L /\ L \in 1 .. L /\ i < L
      BY <1>7
    <3>2. path[i] \notin sub[n]
      BY <3>1, <1>4, <1>6, <1>30 DEF OnWay
    <3> QED BY <3>2, <1>27, <1>28 DEF Under
  <2>6. (\A i, j \in 1 .. Len(path) : j < i => path[j] \notin sub2[path[i]])'
    <3> SUFFICES ASSUME NEW i \in 1 .. L - 1, NEW j \in 1 .. L - 1, j < i
                 PROVE  path[j] \notin sub2[path[i]]
      BY <1>33
    <3>1. i \in 1 .. L /\ j \in 1 .. L
      BY <1>7
    <3>2. path[j] \notin sub[path[i]]
      BY <3>1, <1>6, <1>30 DEF OnWay
    <3> QED BY <3>2, <1>27, <1>32
  <2>7. OnWay(v, R, sub2)'
    BY <1>4, <2>2, <2>3, <2>4, <2>5, <2>6 DEF OnWay
  <2> QED BY <1>36, <1>51, <2>7 DEF OnWay, Toward
<1>42. turns' \in 0 .. 1
  <2>1. CASE TooHighLeft(m, n) \/ TooHighRight(m, n)
    <3>1. h0 = h + 1
      BY <2>1, <1>15, <1>17, <1>21 DEF TooHighLeft, TooHighRight
    <3> QED BY <2>1, <3>1, <1>4, <1>17
  <2>2. CASE ~ (TooHighLeft(m, n) \/ TooHighRight(m, n))
    BY <2>2, <1>4
  <2> QED BY <2>1, <2>2
<1>43. Types'
  <2>1. root' \in DOMAIN nodes' \cup {None}
    BY <1>4, <1>8, <1>27 DEF IInv, Types
  <2>2. IsNodes(nodes)' /\ DOMAIN nodes' = DOMAIN nodes
    BY <1>4, <1>8, <1>27 DEF IsNodes
  <2> QED BY <2>1, <2>2, <1>4, <1>8, <1>28, <1>33, <1>42 DEF Types
\* What top has grown by, compared with n before the put.
<1>44. PICK old : old = t[n].height
  OBVIOUS
<1>45. /\ old \in Nat
       /\ \/ height(v, top) = old
          \/ height(v, top) = old + 1 /\ turns' = 0 /\ different(v, top) # 0
  <2>1. height(v, top) = u[top].height /\ old \in Nat /\ m[n].height \in Nat
    BY <1>7, <1>8, <1>11, <1>28, <1>38, <1>44, NodeFields DEF height
  <2>2. CASE TooHighLeft(m, n) \/ TooHighRight(m, n)
    <3>1. u[top].height = m[n].height - 1
      BY <2>2, <1>25 DEF Rebalanced
    <3>2. h0 = h + 1 /\ (h0 - height(t, a) = 2)
      BY <2>2, <1>15, <1>17, <1>21 DEF TooHighLeft, TooHighRight
    <3> QED BY <2>1, <3>1, <3>2, <1>15, <1>17, <1>18, <1>44 DEF Larger
  <2>3. CASE ~ (TooHighLeft(m, n) \/ TooHighRight(m, n))
    <3>1. u[top].height = m[n].height /\ u = m /\ top = n /\ turns' = turns
      BY <2>3, <1>4, <1>25 DEF Rebalanced
    <3>2. n # p
      BY <1>2, <1>7, <1>10, <1>29, <1>33
    <3>3. different(v, top) = different(m, n)
      <4>1. v[n] = m[n]
        BY <3>1, <3>2, <1>7, <1>8, <1>27, <1>31 DEF HungAs
      <4>2. m[n].left \in DOMAIN t \cup {None} /\ m[n].right \in DOMAIN t \cup {None}
        BY <1>7, <1>8, <1>11, NodeFields
      <4> QED BY <3>1, <4>1, <4>2, <1>38 DEF different
    <3>4. CASE h0 = h
      BY <2>1, <3>1, <3>4, <1>17, <1>18, <1>44
    <3>5. CASE h0 = h + 1 /\ turns = 0
      <4>1. CASE h >= height(t, a)
        BY <2>1, <3>1, <3>3, <3>5, <4>1, <1>15, <1>17, <1>18, <1>21, <1>44 DEF Larger
      <4>2. CASE ~ (h >= height(t, a))
        BY <2>1, <3>1, <3>5, <4>2, <1>15, <1>17, <1>18, <1>44 DEF Larger
      <4> QED BY <4>1, <4>2
    <3> QED BY <3>4, <3>5, <1>17
  <2> QED BY <2>2, <2>3, <2>1
<1>46. ASSUME NEW q \in DOMAIN t, q # p
       PROVE  Even(v, q)
  <2>1. v[q] = u[q]
    BY <1>27, <1>31, <1>46 DEF HungAs
  <2>2. u[q].left \in DOMAIN t \cup {None} /\ u[q].right \in DOMAIN t \cup {None}
    BY <1>27, NodeFields
  <2>3. CASE q \in T
    BY <2>1, <2>2, <2>3, <1>27, <1>38 DEF Even, different
  <2>4. CASE q \notin T
    <3>1. u[q] = t[q] /\ q # n
      BY <2>4, <1>11, <1>27
    <3>2. t[q].left # n /\ t[q].right # n
      <4>1. /\ t[q].left # None => par[t[q].left] = q
            /\ t[q].right # None => par[t[q].right] = q
        BY <1>6 DEF Shape, Parents
      <4>2. par[n] = p
        BY <1>13 DEF IsParent
      <4> QED BY <4>1, <4>2, <1>10, <1>46
    <3>3. height(v, t[q].left) = height(t, t[q].left) /\ height(v, t[q].right) = height(t, t[q].right)
      BY <2>4, <3>2, <1>40
    <3>4. Even(t, q)
      BY <3>1, <1>16
    <3> QED BY <2>1, <3>1, <3>3, <3>4 DEF Even, different
  <2> QED BY <2>3, <2>4
<1>47. L # 1 => Pending(v, p, old)'
  <2> SUFFICES ASSUME L # 1 PROVE Pending(v, p, old)'
    OBVIOUS
  <2>1. p \in DOMAIN t /\ p \notin T /\ p # n /\ Even(t, p) /\ p # None
    BY <1>10, <1>16, <1>33
  <2>2. PICK b : b = Away(t, p)
    OBVIOUS
  <2>3. b \in DOMAIN t \cup {None} /\ b # n /\ b \in {t[p].left, t[p].right}
    <3>1. /\ b \in DOMAIN t \cup {None} /\ Toward(t, p) # b
          /\ {t[p].left, t[p].right} = {Toward(t, p), b}
      BY <2>1, <2>2, <1>6, <1>8, <1>10, <1>34, TowardFields
    <3> QED BY <3>1, <1>34
  <2>4. height(v, b) = height(t, b) /\ height(t, b) \in Nat
    <3>1. height(t, b) \in Nat
      BY <2>1, <2>3, <1>8, NodeFields
    <3> QED BY <2>1, <2>3, <3>1, <1>40
  <2>5. v[p].height = t[p].height
    BY <2>1, <1>11, <1>27, <1>31 DEF HungAs
  <2>6. Away(v, p) = b
    <3>1. u[p] = t[p]
      BY <2>1, <1>11, <1>27
    <3>2. CASE n < p
      BY <2>1, <2>2, <3>1, <3>2, <1>31, <1>35 DEF HungAs, Away
    <3>3. CASE ~ (n < p)
      BY <2>1, <2>2, <3>1, <3>3, <1>31, <1>35 DEF HungAs, Away
    <3> QED BY <3>2, <3>3
  <2>7. height(t, n) = old
    BY <1>10, <1>44 DEF height
  <2>8. t[p].height = Larger(old, height(t, b)) + 1 /\ old - height(t, b) \in -1 .. 1
    <3>1. CASE p > key
      <4>1. t[p].left = n /\ t[p].right = b
        BY <2>2, <3>1, <1>34 DEF Toward, Away
      <4> QED BY <2>1, <2>7, <4>1 DEF Even, different
    <3>2. CASE ~ (p > key)
      <4>1. t[p].right = n /\ t[p].left = b
        BY <2>2, <3>2, <1>34 DEF Toward, Away
      <4> QED BY <2>1, <2>4, <2>7, <4>1, <1>45 DEF Even, different, Larger
    <3> QED BY <3>1, <3>2
  <2>9. Risen(v, old)'
    BY <1>4, <1>45 DEF Risen
  <2>10. (Away(v, p) = b)'
    BY <2>6, <1>4 DEF Away
  <2> QED BY <2>4, <2>5, <2>8, <2>9, <2>10 DEF Pending
<1>48. Heights(Whole)'
  <2>1. Heights(v)'
    <3>1. \A q \in DOMAIN nodes' : ~ (Waits' /\ q = Last') => Even(v, q)
      <4> SUFFICES ASSUME NEW q \in DOMAIN t, ~ (Waits' /\ q = Last') PROVE Even(v, q)
        BY <1>4, <1>27
      <4>1. q # p
        BY <1>4, <1>10, <1>29, <1>33 DEF Waits
      <4> QED BY <4>1, <1>46
    <3>2. Waits' => L # 1
      BY <1>33 DEF Waits
    <3>3. L # 1 => Pending(v, Last, old)'
      BY <1>33, <1>47 DEF Pending, Away
    <3> QED BY <3>1, <3>2, <3>3, <1>45 DEF Heights
  <2> QED BY <1>36, <2>1 DEF Heights, Pending, Risen, Away
<1>49. Searching(sub2)'
  BY <1>4 DEF Searching
<1>50. Shape(Whole, WholeRoot, sub2, par2)'
  BY <1>27, <1>36, <1>37
<1> QED BY <1>4, <1>8, <1>27, <1>41, <1>43, <1>48, <1>49, <1>50 DEF IInv
LEMMA StepInv ==
    ASSUME IInv, [Next]_vars
    PROVE  IInv'
<1>1. CASE Next
  BY <1>1, PutInv, DescendInv, NewNodeInv, SameKeyInv, ReturnInv, PutReturnsInv DEF Next
<1>2. CASE UNCHANGED vars
  <2>1. /\ root' = root /\ nodes' = nodes /\ pc' = pc /\ key' = key
        /\ path' = path /\ cur' = cur /\ turns' = turns
    BY <1>2 DEF vars
  <2>2. Whole' = Whole /\ WholeRoot' = WholeRoot
    BY <2>1 DEF Whole, WholeRoot, Waits, Attached, Last
  <2>3. Types'
    BY <2>1 DEF IInv, Types
  <2>4. PICK sub, par : Shape(Whole, WholeRoot, sub, par) /\ OnWay(Whole, WholeRoot, sub) /\ Searching(sub)
    BY DEF IInv
  <2>5. Searching(sub)'
    BY <2>1, <2>4 DEF Searching
  <2>6. OnWay(Whole, WholeRoot, sub)'
    BY <2>1, <2>2, <2>4 DEF OnWay, Toward, Last
  <2>7. \A t, n, h : Pending(t, n, h)' <=> Pending(t, n, h)
    BY <2>1 DEF Pending, Risen, Away
  <2>8. Heights(Whole)'
    BY <2>1, <2>2, <2>7 DEF IInv, Heights, Waits, Last
  <2> QED BY <2>2, <2>3, <2>4, <2>5, <2>6, <2>8 DEF IInv
<1> QED BY <1>1, <1>2

\* The invariant holds in every state, whatever keys are put and in whatever
\* order.
THEOREM Invariance == Spec => []IInv
<1>1. Init => IInv
  BY InitInv
<1>2. IInv /\ [Next]_vars => IInv'
  BY StepInv
<1> QED BY <1>1, <1>2, PTL DEF Spec

-----------------------------------------------------------------------------
(***************************************************************************)
(* What the invariant says between two puts.                               *)
(***************************************************************************)

\* A set of naturals has a smallest member.
LEMMA NatMin ==
    ASSUME NEW T, T \subseteq Nat, T # {}
    PROVE  \E x \in T : \A y \in T : x <= y
<1>1. PICK x \in T : \A y \in T : ~(<<y, x>> \in OpToRel(<, Nat))
  BY NatLessThanWellFounded, WFMin
<1>2. \A y \in T : ~(y < x)
  BY <1>1 DEF OpToRel
<1> QED BY <1>2

\* The nodes that can be reached from c are among the keys under c.
LEMMA BelowInSub ==
    ASSUME NEW t, IsNodes(t), NEW r, NEW sub, NEW par, Shape(t, r, sub, par),
           NEW c \in DOMAIN t \cup {None}
    PROVE  Below(t, c) \subseteq Under(sub, c)
<1> SUFFICES ASSUME NEW m \in Below(t, c) PROVE m \in Under(sub, c)
  OBVIOUS
<1>1. c # None /\ c \in DOMAIN t /\ m \in DOMAIN t
  BY DEF Below
<1> DEFINE S == {q \in DOMAIN t : sub[q] \subseteq sub[c]}
<1>2. \A q \in S : {t[q].left, t[q].right} \subseteq S \cup {None}
  <2> SUFFICES ASSUME NEW q \in S PROVE {t[q].left, t[q].right} \subseteq S \cup {None}
    OBVIOUS
  <2>1. t[q].left \in DOMAIN t \cup {None} /\ t[q].right \in DOMAIN t \cup {None}
    BY NodeFields
  <2>2. /\ t[q].left # None => sub[t[q].left] \subseteq sub[q]
        /\ t[q].right # None => sub[t[q].right] \subseteq sub[q]
    BY InSub
  <2> QED BY <2>1, <2>2
<1>3. S \in SUBSET DOMAIN t /\ c \in S
  BY <1>1
<1>4. m \in S
  BY <1>2, <1>3 DEF Below
<1>5. m \in sub[m]
  BY <1>1, ShapeFacts
<1> QED BY <1>1, <1>4, <1>5 DEF Under

\* Every node can be reached from the root: of the nodes in a closed set whose
\* keys are not all in it, the lowest would have a lower one among its children.
LEMMA AllBelow ==
    ASSUME NEW t, IsNodes(t), NEW r, NEW sub, NEW par, Shape(t, r, sub, par),
           \A n \in DOMAIN t : Even(t, n)
    PROVE  Below(t, r) = DOMAIN t
<1>1. r \in DOMAIN t \cup {None} /\ Under(sub, r) = DOMAIN t
  BY DEF Shape
<1>2. CASE r = None
  BY <1>1, <1>2 DEF Under, Below
<1>3. CASE r \in DOMAIN t /\ r # None
  <2> SUFFICES ASSUME NEW S \in SUBSET DOMAIN t, r \in S,
                      \A m \in S : {t[m].left, t[m].right} \subseteq S \cup {None}
               PROVE  DOMAIN t \subseteq S
    BY <1>3 DEF Below
  <2> DEFINE Bad == {n \in S : ~ (sub[n] \subseteq S)}
             T == {t[n].height : n \in Bad}
  <2> SUFFICES ASSUME Bad # {} PROVE FALSE
    BY <1>1, <1>3 DEF Under
  <2>1. T \subseteq Nat /\ T # {}
    BY NodeFields
  <2> HIDE DEF T
  <2>2. PICK h \in T : \A k \in T : h <= k
    BY <2>1, NatMin
  <2>3. PICK n \in Bad : h = t[n].height
    BY <2>2 DEF T
  <2>4. n \in DOMAIN t /\ n \in S /\ None \notin DOMAIN t
    BY <2>3, NodeFields
  <2>5. ASSUME NEW c \in {t[n].left, t[n].right}, c # None
        PROVE  sub[c] \subseteq S
    <3>1. c \in S /\ c \in DOMAIN t
      BY <2>4, <2>5
    <3>2. t[c].height < t[n].height
      <4>1. /\ height(t, t[n].left) \in Nat /\ height(t, t[n].right) \in Nat
            /\ height(t, c) = t[c].height
        BY <2>4, <3>1, NodeFields
      <4>2. t[n].height = Larger(height(t, t[n].left), height(t, t[n].right)) + 1
        BY <2>4 DEF Even
      <4>3. height(t, c) <= Larger(height(t, t[n].left), height(t, t[n].right))
        BY <2>5, <4>1 DEF Larger
      <4>4. Larger(height(t, t[n].left), height(t, t[n].right)) \in Nat
        BY <4>1 DEF Larger
      <4> QED BY <4>1, <4>2, <4>3, <4>4
    <3>3. t[c].height \in Nat /\ t[n].height \in Nat
      BY <2>4, <3>1, NodeFields
    <3>4. c \notin Bad
      <4> SUFFICES ASSUME c \in Bad PROVE FALSE
        OBVIOUS
      <4>1. t[c].height \in T
        BY DEF T
      <4>2. t[n].height <= t[c].height
        BY <2>2, <2>3, <4>1
      <4> QED BY <3>2, <3>3, <4>2
    <3> QED BY <3>1, <3>4
  <2>6. sub[n] = {n} \cup Under(sub, t[n].left) \cup Under(sub, t[n].right)
    BY <2>4 DEF Shape, Ordered
  <2>7. sub[n] \subseteq S
    BY <2>4, <2>5, <2>6 DEF Under
  <2> QED BY <2>3, <2>7
<1> QED BY <1>1, <1>2, <1>3

\* No node is lost, between two puts or in one.
TreeIsAll == KeysIn = DOMAIN nodes

LEMMA Idle ==
    ASSUME IInv, pc = "idle"
    PROVE  /\ IsNodes(nodes) /\ \A n \in DOMAIN nodes : Even(nodes, n)
           /\ \E sub, par : Shape(nodes, root, sub, par)
<1>1. Whole = nodes /\ WholeRoot = root /\ ~ Waits
  BY DEF Whole, WholeRoot, Waits
<1> QED BY <1>1 DEF IInv, Types, Heights

LEMMA AllInTree == IInv => TreeIsAll
<1> SUFFICES ASSUME IInv PROVE TreeIsAll
  OBVIOUS
<1>1. CASE pc = "idle"
  BY <1>1, Idle, AllBelow DEF TreeIsAll, KeysIn, Tree
<1>2. CASE pc # "idle"
  BY <1>2 DEF TreeIsAll, KeysIn
<1> QED BY <1>1, <1>2

LEMMA IdleOrder == IInv => SearchOrder
<1> SUFFICES ASSUME IInv, pc = "idle", NEW n \in Tree
             PROVE  /\ \A m \in Below(nodes, nodes[n].left) : m < n
                    /\ \A m \in Below(nodes, nodes[n].right) : m > n
  BY DEF SearchOrder
<1>1. PICK sub, par : Shape(nodes, root, sub, par)
  BY Idle
<1>2. n \in DOMAIN nodes /\ IsNodes(nodes)
  BY Idle DEF Tree, Below
<1>3. nodes[n].left \in DOMAIN nodes \cup {None} /\ nodes[n].right \in DOMAIN nodes \cup {None}
  BY <1>2, NodeFields
<1>4. /\ Below(nodes, nodes[n].left) \subseteq Under(sub, nodes[n].left)
      /\ Below(nodes, nodes[n].right) \subseteq Under(sub, nodes[n].right)
  BY <1>1, <1>2, <1>3, BelowInSub
<1> QED BY <1>1, <1>2, <1>4 DEF Shape, Ordered

LEMMA IdleHeights == IInv => HeightsTrue /\ Balanced
<1> SUFFICES ASSUME IInv, pc = "idle", NEW n \in Tree
             PROVE  /\ nodes[n].height =
                           Larger(height(nodes, nodes[n].left), height(nodes, nodes[n].right)) + 1
                    /\ different(nodes, n) \in -1 .. 1
  BY DEF HeightsTrue, Balanced
<1>1. n \in DOMAIN nodes
  BY DEF Tree, Below
<1> QED BY <1>1, Idle DEF Even

-----------------------------------------------------------------------------
(***************************************************************************)
(* The theorems.                                                           *)
(***************************************************************************)

\* Between two puts the tree is in search order (avltree.py:22-25, 46-60).
THEOREM KeepsSearchOrder == Spec => []SearchOrder
BY Invariance, IdleOrder, PTL

\* The stored heights are the true ones (avltree.py:28, 50-51 and 58-59).
THEOREM KeepsHeights == Spec => []HeightsTrue
<1>1. IInv => HeightsTrue
  BY IdleHeights
<1> QED BY <1>1, Invariance, PTL

\* The two sides of every node differ by at most one (readme.md:7).
THEOREM StaysBalanced == Spec => []Balanced
<1>1. IInv => Balanced
  BY IdleHeights
<1> QED BY <1>1, Invariance, PTL

\* One put turns at one node at most, however high the tree is
\* (avltree.py:29): this is what Pending is for.
THEOREM TurnsOnce == Spec => []OneTurnPerPut
<1>1. IInv => OneTurnPerPut
  BY DEF IInv, Types, OneTurnPerPut
<1> QED BY <1>1, Invariance, PTL

\* put adds its key, once, and no turn loses one: the tree is a set that only
\* grows (avltree.py:16-29).
THEOREM TreeIsSet == Spec => ImplementsSet
<1>1. Init => Set!Init
  BY DEF Init, Set!Init, KeysIn, Tree, Below
<1>2. IInv /\ TreeIsAll /\ TreeIsAll' /\ [Next]_vars => [Set!Next]_KeysIn
  <2> SUFFICES ASSUME IInv, TreeIsAll, TreeIsAll', [Next]_vars, KeysIn' # KeysIn
               PROVE  Set!Next
    OBVIOUS
  <2>1. DOMAIN nodes' # DOMAIN nodes /\ KeysIn = DOMAIN nodes /\ KeysIn' = DOMAIN nodes'
    BY DEF TreeIsAll
  <2>2. NewNode
    <3>1. nodes' # nodes
      BY <2>1
    <3>2. \A k \in Keys : ~ put(k)
      BY <3>1 DEF put
    <3>3. ~ Descend /\ ~ PutReturns
      BY <3>1 DEF Descend, PutReturns
    <3>4. ~ SameKey /\ ~ Return
      BY <2>1, SameKeyInv, ReturnInv
    <3>5. ~ UNCHANGED vars
      BY <3>1 DEF vars
    <3> QED BY <3>2, <3>3, <3>4, <3>5 DEF Next
  <2>3. DOMAIN nodes' = DOMAIN nodes \cup {key} /\ key \in Keys
    BY <2>2, NewNodeInv DEF NewNode, IInv, Types
  <2> QED BY <2>1, <2>3 DEF Set!Next, Set!put
<1>3. IInv => TreeIsAll
  BY AllInTree
<1> QED BY <1>1, <1>2, <1>3, Invariance, PTL DEF Spec, ImplementsSet, Set!Spec
=============================================================================
