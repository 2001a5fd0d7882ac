-------------------------- MODULE BinaryHeapProofs --------------------------
(***************************************************************************)
(* Heap order, for every size of the array and every set of values that    *)
(* fit an int, when callers push no value that is in the heap.  Without    *)
(* the first of them it does not hold (run heap_equal), and the second is  *)
(* what the children, compared as ints, need.                              *)
(***************************************************************************)
EXTENDS BinaryHeap, FiniteSetTheorems, WellFoundedInduction, TLAPS

\* What callers have to keep to.
Callers ==
    /\ EqualAllowed = FALSE
    /\ Data \subseteq (-INT_MAX - 1) .. INT_MAX

\* The tree in the array.
LEMMA Tree ==
    ASSUME NEW k \in Nat, k >= 2
    PROVE  /\ Parent(k) \in Nat /\ Parent(k) >= 1 /\ Parent(k) < k
           /\ k = 2 * Parent(k) \/ k = 2 * Parent(k) + 1
  BY DEF Parent

LEMMA Children ==
    ASSUME NEW k \in Nat, NEW p \in Nat, k = 2 * p \/ k = 2 * p + 1
    PROVE  Parent(k) = p
  BY DEF Parent

\* A value that fits an int is not changed by the conversion.
LEMMA IntKept ==
    ASSUME Callers, NEW d \in Data
    PROVE  d \in Int /\ d <= INT_MAX /\ ToInt(d) = d
<1>1. d \in Int /\ -INT_MAX - 1 <= d /\ d <= INT_MAX /\ INT_MAX \in Nat
  BY HeapAssumption DEF Callers
<1>2. d + INT_MAX + 1 \in 0 .. (2 * INT_MAX + 2) - 1
  BY <1>1
<1>3. \A a \in Nat, m \in Nat \ {0} : a < m => a % m = a
  OBVIOUS
<1>4. (d + INT_MAX + 1) % (2 * INT_MAX + 2) = d + INT_MAX + 1
  BY <1>1, <1>2, <1>3
<1> QED BY <1>1, <1>4 DEF ToInt

LEMMA Words ==
    ASSUME TypeOK
    PROVE  /\ MAX \in Nat /\ MAX >= 2 /\ cnt \in Nat /\ cnt <= MAX /\ cnt >= 1
           /\ \A k \in Used : k \in Slots /\ arr[k] \in Data /\ arr[k] \in Int
                              /\ arr[k] # NULL /\ arr[k] # Wild
           /\ \A k \in Slots \ Used : arr[k] = NULL \/ arr[k] = Wild
           /\ \A k \in Slots : Present(k) /\ arr[k] # Wild => k \in Used
<1>1. /\ MAX \in Nat /\ MAX >= 2 /\ cnt \in Nat /\ cnt <= MAX /\ cnt >= 1
      /\ NULL \notin Data /\ Wild \notin Data /\ Data \subseteq Int
      /\ MallocWords \subseteq {NULL, Wild}
  BY HeapAssumption DEF TypeOK
<1>2. \A k \in Used : k \in Slots /\ arr[k] \in Data
  BY <1>1 DEF TypeOK, Used, Slots
<1>3. \A k \in Slots \ Used : arr[k] = NULL \/ arr[k] = Wild
  BY <1>1 DEF TypeOK
<1> QED BY <1>1, <1>2, <1>3 DEF Present

\* A swap of two used slots changes only these two, and neither which slots
\* are used nor that all values are different.
LEMMA Swap ==
    ASSUME TypeOK, Distinct, NEW a \in Used, NEW b \in Used, a # b,
           arr' = Swapped(a, b), cnt' = cnt
    PROVE  /\ Used' = Used
           /\ arr'[a] = arr[b] /\ arr'[b] = arr[a]
           /\ \A k \in Slots : k # a /\ k # b => arr'[k] = arr[k]
           /\ DOMAIN arr' = Slots
           /\ \A k \in Used : arr'[k] \in Data
           /\ \A k \in Slots \ Used : arr'[k] \in MallocWords \cup {NULL}
           /\ Distinct'
<1>1. Used' = Used
  BY DEF Used
<1>2. DOMAIN arr = Slots /\ a \in Slots /\ b \in Slots
  BY Words DEF TypeOK
<1>3. /\ arr'[a] = arr[b] /\ arr'[b] = arr[a]
      /\ \A k \in Slots : k # a /\ k # b => arr'[k] = arr[k]
      /\ DOMAIN arr' = Slots
  BY <1>2 DEF Swapped
<1>4. /\ \A k \in Used : arr'[k] \in Data
      /\ \A k \in Slots \ Used : arr'[k] \in MallocWords \cup {NULL}
  BY <1>2, <1>3, Words DEF TypeOK
<1>5. Distinct'
  <2>1. SUFFICES ASSUME ~EqualAllowed, NEW j \in Used, NEW k \in Used,
                        arr'[j] = arr'[k]
                 PROVE  j = k
    BY <1>1 DEF Distinct
  <2>2. \A l \in Used : l \in Slots
    BY Words
  <2> QED BY <2>1, <2>2, <1>3 DEF Distinct
<1> QED BY <1>1, <1>3, <1>4, <1>5

-----------------------------------------------------------------------------
(***************************************************************************)
(* IInv is inductive.                                                      *)
(***************************************************************************)
LEMMA InitIInv == Init => IInv
<1> SUFFICES ASSUME Init PROVE IInv
  OBVIOUS
<1>1. Used = {}
  BY DEF Init, Used
<1>2. TypeOK
  BY <1>1, HeapAssumption DEF Init, TypeOK
<1> QED BY <1>1, <1>2 DEF Init, IInv, HeapOrder, SiftOrder, Distinct

LEMMA PushStep ==
    ASSUME Callers, IInv, NEW data \in Data, heappush(data)
    PROVE  IInv'
<1>1. /\ pc = "idle" /\ cnt < MAX /\ arr' = [arr EXCEPT ![cnt] = data]
      /\ cnt' = cnt + 1 /\ pc' = "up" /\ at' = cnt /\ res' = res
      /\ \A k \in Used : arr[k] # data
  BY DEF heappush, Callers
<1>2. /\ TypeOK /\ DOMAIN arr = Slots /\ cnt \in Slots /\ cnt \notin Used
      /\ cnt \in Nat /\ MAX \in Nat /\ cnt >= 1
  BY <1>1, Words DEF IInv, TypeOK, Slots, Used
<1>3. Used' = Used \cup {cnt}
  BY <1>1, <1>2 DEF Used
<1>4. /\ arr'[cnt] = data /\ DOMAIN arr' = Slots
      /\ \A k \in Slots : k # cnt => arr'[k] = arr[k]
  BY <1>1, <1>2
<1>5. TypeOK'
  <2>1. \A k \in Used' : arr'[k] \in Data
    BY <1>2, <1>3, <1>4, Words
  <2>2. \A k \in Slots \ Used' : arr'[k] \in MallocWords \cup {NULL}
    BY <1>2, <1>3, <1>4 DEF TypeOK
  <2>3. cnt' \in 1 .. MAX /\ at' \in 1 .. MAX
    BY <1>1, <1>2
  <2> QED BY <1>1, <1>2, <1>4, <2>1, <2>2, <2>3 DEF TypeOK
<1>6. \A k \in Used : Parent(k) # cnt
  <2> SUFFICES ASSUME NEW k \in Used, Parent(k) = cnt PROVE FALSE
    OBVIOUS
  <2>1. k \in Nat /\ k >= 1 /\ k < cnt
    BY <1>2 DEF Used
  <2>2. CASE k = 1
    BY <2>2, <1>2 DEF Parent
  <2>3. CASE k >= 2
    BY <2>1, <2>3, <1>2, Tree
  <2> QED BY <2>1, <2>2, <2>3
<1>7. SiftOrder'
  <2> SUFFICES ASSUME NEW k \in Used', k # 1
               PROVE  /\ k # cnt => arr'[Parent(k)] <= arr'[k]
                      /\ Parent(k) # cnt \/ cnt = 1
    BY <1>1, <1>3 DEF SiftOrder, InOrder
  <2>1. k \in Nat /\ k >= 2
    BY <1>2, <1>3 DEF Used
  <2>2. Parent(k) \in Nat /\ Parent(k) < k /\ Parent(k) >= 1
    BY <2>1, Tree
  <2>3. CASE k = cnt
    BY <2>2, <2>3
  <2>4. CASE k # cnt
    <3>1. k \in Used /\ Parent(k) \in Used
      BY <1>3, <2>1, <2>2, <2>4, <1>2 DEF Used
    <3>2. k \in Slots /\ Parent(k) \in Slots /\ Parent(k) # cnt
      BY <3>1, <1>2, Words
    <3>3. arr[Parent(k)] <= arr[k]
      BY <3>1, <1>1 DEF IInv, HeapOrder, InOrder
    <3> QED BY <3>2, <3>3, <1>4, <2>4
  <2> QED BY <2>3, <2>4
<1>8. Distinct'
  BY <1>1, <1>2, <1>3, <1>4, Words DEF IInv, Distinct
<1>9. HeapOrder'
  BY <1>1 DEF HeapOrder
<1> QED BY <1>1, <1>2, <1>5, <1>7, <1>8, <1>9 DEF IInv

LEMMA SiftUpStep ==
    ASSUME IInv, SiftUp
    PROVE  IInv'
<1> DEFINE p == Parent(at)
<1>1. /\ pc = "up" /\ at # 1 /\ arr[p] >= arr[at]
      /\ arr' = Swapped(p, at) /\ at' = p
      /\ cnt' = cnt /\ pc' = pc /\ res' = res
  BY DEF SiftUp, Rises
<1>2. /\ TypeOK /\ Distinct /\ SiftOrder /\ at < cnt
      /\ at \in Nat /\ at >= 2 /\ cnt \in Nat /\ cnt <= MAX
  BY <1>1, Words DEF IInv, TypeOK
<1>3. p \in Nat /\ p >= 1 /\ p < at
  BY <1>2, Tree
<1>4. at \in Used /\ p \in Used /\ p # at
  BY <1>2, <1>3 DEF Used
<1>5. /\ Used' = Used
      /\ arr'[p] = arr[at] /\ arr'[at] = arr[p]
      /\ \A k \in Slots : k # p /\ k # at => arr'[k] = arr[k]
      /\ DOMAIN arr' = Slots
      /\ \A k \in Used : arr'[k] \in Data
      /\ \A k \in Slots \ Used : arr'[k] \in MallocWords \cup {NULL}
      /\ Distinct'
  <2> HIDE DEF p
  <2> QED BY <1>1, <1>2, <1>4, Swap
<1>6. /\ \A k \in Used : k \in Slots /\ arr[k] \in Int
      /\ Used \subseteq Nat
  BY <1>2, Words DEF Used
<1>7. SiftOrder'
  <2> SUFFICES ASSUME NEW k \in Used, k # 1
               PROVE  /\ k # p => arr'[Parent(k)] <= arr'[k]
                      /\ p # 1 /\ Parent(k) = p => arr'[Parent(p)] <= arr'[k]
    BY <1>1, <1>5 DEF SiftOrder, InOrder
  <2>1. k \in Nat /\ k >= 2 /\ k < cnt
    BY <1>2 DEF Used
  <2>2. Parent(k) \in Nat /\ Parent(k) < k /\ Parent(k) >= 1
    BY <2>1, Tree
  <2>3. Parent(k) \in Used
    BY <2>1, <2>2, <1>2 DEF Used
  <2>4. ASSUME k # p PROVE arr'[Parent(k)] <= arr'[k]
    <3>1. CASE k = at
      BY <3>1, <1>1, <1>5, <1>4, <1>6
    <3>2. CASE k # at
      <4>1. arr'[k] = arr[k] /\ arr[Parent(k)] <= arr[k]
        BY <3>2, <2>4, <1>1, <1>2, <1>5, <1>6 DEF SiftOrder, InOrder
      <4>2. CASE Parent(k) = at
        <5>1. arr[p] <= arr[k]
          BY <4>2, <1>1, <1>2 DEF SiftOrder
        <5> QED BY <4>1, <4>2, <5>1, <1>5
      <4>3. CASE Parent(k) = p
        <5>1. arr'[Parent(k)] = arr[at] /\ arr[p] <= arr[k]
          BY <4>1, <4>3, <1>5
        <5>2. arr[p] \in Int /\ arr[at] \in Int /\ arr[k] \in Int
          BY <1>4, <1>6
        <5> HIDE DEF p
        <5> QED BY <4>1, <5>1, <5>2, <1>1
      <4>4. CASE Parent(k) # at /\ Parent(k) # p
        BY <4>1, <4>4, <2>3, <1>5, <1>6
      <4> QED BY <4>2, <4>3, <4>4
    <3> QED BY <3>1, <3>2
  <2>5. ASSUME p # 1, Parent(k) = p PROVE arr'[Parent(p)] <= arr'[k]
    <3>1. Parent(p) \in Nat /\ Parent(p) >= 1 /\ Parent(p) < p
      BY <2>5, <1>3, Tree
    <3>2. Parent(p) \in Used /\ Parent(p) # p /\ Parent(p) # at
      BY <3>1, <1>2, <1>3 DEF Used
    <3>3. arr'[Parent(p)] = arr[Parent(p)]
      BY <3>2, <1>5, <1>6
    <3>4. arr[Parent(p)] <= arr[p]
      BY <1>1, <1>2, <1>4, <2>5 DEF SiftOrder, InOrder
    <3>5. k # p
      BY <2>2, <2>5
    <3>6. CASE k = at
      BY <3>3, <3>4, <3>6, <1>5
    <3>7. CASE k # at
      <4>1. arr[p] <= arr[k]
        BY <3>7, <2>5, <1>1, <1>2 DEF SiftOrder, InOrder
      <4>2. arr'[k] = arr[k]
        BY <3>5, <3>7, <1>5, <1>6
      <4>3. arr[p] \in Int /\ arr[Parent(p)] \in Int /\ arr[k] \in Int
        BY <1>4, <1>6, <3>2
      <4> HIDE DEF p
      <4> QED BY <4>1, <4>2, <4>3, <3>3, <3>4
    <3> QED BY <3>6, <3>7
  <2> QED BY <2>4, <2>5
<1>8. TypeOK'
  <2>1. cnt' \in 1 .. MAX
    BY <1>1, <1>2 DEF TypeOK
  <2>2. MAX \in Nat
    BY HeapAssumption
  <2> HIDE DEF p
  <2>3. at' \in 1 .. MAX
    BY <2>2, <1>1, <1>2, <1>3
  <2> QED BY <2>1, <2>3, <1>1, <1>2, <1>5 DEF TypeOK
<1>9. HeapOrder' /\ pc' # "astray"
  BY <1>1 DEF HeapOrder
<1>10. at' < cnt'
  BY <1>1, <1>2, <1>3
<1> QED BY <1>5, <1>7, <1>8, <1>9, <1>10 DEF IInv

\* Once the node rests, the order is whole.
LEMMA PushReturnsStep ==
    ASSUME IInv, PushReturns
    PROVE  IInv'
<1>1. pc = "up" /\ ~Rises(at) /\ pc' = "idle" /\ UNCHANGED <<arr, cnt, at, res>>
  BY DEF PushReturns, heapVars
<1>2. TypeOK /\ SiftOrder /\ at < cnt /\ at \in Nat
  BY <1>1, Words DEF IInv, TypeOK
<1>3. \A k \in Used \ {1} : InOrder(k)
  <2> SUFFICES ASSUME NEW k \in Used, k # 1 PROVE InOrder(k)
    OBVIOUS
  <2>1. CASE k # at
    BY <2>1, <1>1, <1>2 DEF SiftOrder
  <2>2. CASE k = at
    <3>1. k \in Nat /\ k >= 2 /\ k < cnt /\ cnt \in Nat
      BY <1>2, Words DEF Used
    <3>2. Parent(k) \in Used
      BY <3>1, Tree DEF Used
    <3>3. arr[k] \in Int /\ arr[Parent(k)] \in Int
      BY <3>2, <1>2, Words
    <3> QED BY <2>2, <3>3, <1>1 DEF Rises, InOrder
  <2> QED BY <2>1, <2>2
<1>4. TypeOK' /\ Distinct'
  BY <1>1, <1>2 DEF IInv, TypeOK, Distinct, Used
<1>5. HeapOrder' /\ SiftOrder'
  BY <1>1, <1>3 DEF HeapOrder, SiftOrder, InOrder, Used
<1> QED BY <1>1, <1>4, <1>5 DEF IInv

LEMMA PopRootStep ==
    ASSUME IInv, PopRoot
    PROVE  IInv'
<1> DEFINE r == cnt - 1
<1>1. /\ pc = "idle" /\ arr[1] # NULL /\ arr[1] # Wild
      /\ arr' = [arr EXCEPT ![1] = arr[r], ![r] = NULL]
      /\ cnt' = r /\ pc' = "down" /\ at' = 1 /\ res' = arr[1]
  BY DEF PopRoot, WithoutRoot
<1>2. TypeOK /\ HeapOrder /\ Distinct /\ DOMAIN arr = Slots
  BY DEF IInv, TypeOK
<1>3. 1 \in Used
  BY <1>1, <1>2, Words DEF Slots
<1>4. /\ cnt \in Nat /\ cnt >= 2 /\ cnt <= MAX /\ MAX \in Nat
      /\ r \in Used /\ 1 \in Slots /\ r \in Slots
  BY <1>2, <1>3, Words DEF Used
<1>5. Used' = Used \ {r}
  BY <1>1, <1>4 DEF Used
<1>6. /\ DOMAIN arr' = Slots /\ arr'[r] = NULL
      /\ r # 1 => arr'[1] = arr[r]
      /\ \A k \in Slots : k # 1 /\ k # r => arr'[k] = arr[k]
  BY <1>1, <1>2, <1>4
<1>7. TypeOK'
  <2>1. \A k \in Used' : arr'[k] \in Data
    BY <1>2, <1>4, <1>5, <1>6, Words
  <2>2. \A k \in Slots \ Used' : arr'[k] \in MallocWords \cup {NULL}
    BY <1>2, <1>3, <1>4, <1>5, <1>6 DEF TypeOK
  <2>3. res' \in Data
    BY <1>1, <1>2, <1>3, Words
  <2>4. cnt' \in 1 .. MAX /\ at' \in 1 .. MAX
    BY <1>1, <1>4
  <2> QED BY <1>1, <1>6, <2>1, <2>2, <2>3, <2>4 DEF TypeOK
<1>8. SiftOrder'
  <2> SUFFICES ASSUME NEW k \in Used', k # 1, Parent(k) # 1
               PROVE  arr'[Parent(k)] <= arr'[k]
    BY <1>1 DEF SiftOrder, InOrder
  <2>1. k \in Used /\ k # r /\ k \in Nat /\ k >= 2 /\ k < r
    BY <1>4, <1>5 DEF Used
  <2>2. Parent(k) \in Nat /\ Parent(k) >= 1 /\ Parent(k) < k
    BY <2>1, Tree
  <2>3. Parent(k) \in Used /\ Parent(k) # r
    BY <2>1, <2>2, <1>4 DEF Used
  <2>4. arr[Parent(k)] <= arr[k]
    BY <2>1, <1>1, <1>2 DEF HeapOrder, InOrder
  <2> QED BY <2>1, <2>3, <2>4, <1>2, <1>6, Words
<1>9. Distinct'
  <2> SUFFICES ASSUME ~EqualAllowed, NEW j \in Used', NEW k \in Used',
                      arr'[j] = arr'[k]
               PROVE  j = k
    BY DEF Distinct
  <2>1. j \in Used /\ k \in Used /\ j # r /\ k # r
    BY <1>5
  <2>2. j \in Slots /\ k \in Slots
    BY <2>1, <1>2, Words
  <2> QED BY <2>1, <2>2, <1>2, <1>4, <1>6 DEF Distinct
<1>10. HeapOrder'
  BY <1>1 DEF HeapOrder
<1> QED BY <1>1, <1>7, <1>8, <1>9, <1>10 DEF IInv

\* What a step of heappop's loop knows about the two children it compares: the
\* one it takes is smaller than the node and not larger than its sibling.
LEMMA Chosen ==
    ASSUME Callers, TypeOK, at \in Used, ~Unsafe,
           NEW c, NEW o, {c, o} = {2 * at, 2 * at + 1},
           Candidate(c) < Candidate(o)
    PROVE  /\ c \in Used /\ arr[c] < arr[at]
           /\ o \in Used => arr[c] <= arr[o]
<1>0. /\ at \in Nat /\ at >= 1 /\ c \in Nat /\ o \in Nat /\ c \in {2 * at, 2 * at + 1}
      /\ o \in {2 * at, 2 * at + 1} /\ INT_MAX \in Nat /\ MAX \in Nat
  <2>1. at \in Nat /\ at >= 1
    BY Words DEF Used
  <2> QED BY <2>1, HeapAssumption
<1>1. \A k \in {c, o} : Present(k) => k \in Used /\ arr[k] \in Data
  <2> SUFFICES ASSUME NEW k \in {c, o}, Present(k) PROVE k \in Used
    BY Words
  <2>1. k \in Slots
    BY <1>0 DEF Present, Slots
  <2>2. arr[k] # Wild
    BY <1>0 DEF Unsafe
  <2> QED BY <2>1, <2>2, Words
<1>2. \A k \in {c, o} : k \in Used => Present(k)
  BY <1>0, Words DEF Present, Slots
<1>3. \A k \in {c, o} : Candidate(k) \in Int /\ Candidate(k) <= INT_MAX
  <2> SUFFICES ASSUME NEW k \in {c, o}
               PROVE  Candidate(k) \in Int /\ Candidate(k) <= INT_MAX
    OBVIOUS
  <2>1. CASE Present(k) /\ arr[at] > arr[k]
    BY <2>1, <1>1, IntKept DEF Candidate
  <2>2. CASE ~(Present(k) /\ arr[at] > arr[k])
    BY <2>2, <1>0 DEF Candidate
  <2> QED BY <2>1, <2>2
<1>4. Candidate(c) # INT_MAX
  BY <1>0, <1>3
<1>5. Present(c) /\ arr[at] > arr[c]
  BY <1>4 DEF Candidate
<1>6. c \in Used /\ arr[c] \in Data /\ arr[at] \in Int /\ arr[c] \in Int
  BY <1>1, <1>5, Words
<1>7. Candidate(c) = arr[c]
  BY <1>5, <1>6, IntKept DEF Candidate
<1>8. ASSUME o \in Used PROVE arr[c] <= arr[o]
  <2>1. Present(o) /\ arr[o] \in Data /\ arr[o] \in Int
    BY <1>8, <1>2, Words
  <2>2. CASE arr[at] > arr[o]
    <3>1. Candidate(o) = arr[o]
      BY <2>1, <2>2, IntKept DEF Candidate
    <3> QED BY <3>1, <1>6, <1>7, <2>1
  <2>3. CASE ~(arr[at] > arr[o])
    BY <2>1, <2>3, <1>5, <1>6
  <2> QED BY <2>2, <2>3
<1> QED BY <1>5, <1>6, <1>8

LEMMA SiftDownStep ==
    ASSUME Callers, IInv, NEW c, NEW o, {c, o} = {2 * at, 2 * at + 1},
           SiftDown(c, o)
    PROVE  IInv'
<1>1. /\ pc = "down" /\ at < cnt /\ ~Unsafe /\ Candidate(c) < Candidate(o)
      /\ arr' = Swapped(at, c) /\ at' = c
      /\ cnt' = cnt /\ pc' = pc /\ res' = res
  BY DEF SiftDown, NextIndex
<1>2. /\ TypeOK /\ Distinct /\ SiftOrder
      /\ cnt \in Nat /\ MAX \in Nat /\ at \in Nat /\ at >= 1 /\ cnt <= MAX
  BY <1>1, Words DEF IInv, TypeOK
<1>3. at \in Used /\ c \in {2 * at, 2 * at + 1} /\ o \in {2 * at, 2 * at + 1}
  BY <1>1, <1>2 DEF Used
<1>4. c \in Used /\ arr[c] < arr[at] /\ (o \in Used => arr[c] <= arr[o])
  BY <1>1, <1>2, <1>3, Chosen
<1>5. c # at /\ Parent(c) = at
  BY <1>2, <1>3, Children
<1>6. /\ Used' = Used
      /\ arr'[at] = arr[c] /\ arr'[c] = arr[at]
      /\ \A k \in Slots : k # at /\ k # c => arr'[k] = arr[k]
      /\ DOMAIN arr' = Slots
      /\ \A k \in Used : arr'[k] \in Data
      /\ \A k \in Slots \ Used : arr'[k] \in MallocWords \cup {NULL}
      /\ Distinct'
  BY <1>1, <1>2, <1>3, <1>4, <1>5, Swap
<1>7. \A k \in Used : k \in Slots /\ arr[k] \in Int
  BY <1>2, Words
<1>8. SiftOrder'
  <2> SUFFICES ASSUME NEW k \in Used, k # 1
               PROVE  /\ Parent(k) # c => arr'[Parent(k)] <= arr'[k]
                      /\ Parent(k) = c => arr'[Parent(c)] <= arr'[k]
    BY <1>1, <1>6 DEF SiftOrder, InOrder
  <2>1. k \in Nat /\ k >= 2 /\ k < cnt
    BY <1>2 DEF Used
  <2>2. /\ Parent(k) \in Nat /\ Parent(k) < k /\ Parent(k) >= 1
        /\ k = 2 * Parent(k) \/ k = 2 * Parent(k) + 1
    BY <2>1, Tree
  <2>3. Parent(k) \in Used
    BY <2>1, <2>2, <1>2 DEF Used
  <2>4. ASSUME Parent(k) # c PROVE arr'[Parent(k)] <= arr'[k]
    <3>1. CASE Parent(k) = at
      <4>1. k \in {c, o}
        BY <3>1, <2>2
      <4>2. CASE k = c
        BY <3>1, <4>2, <1>3, <1>4, <1>6, <1>7
      <4>3. CASE k = o /\ k # c
        <5>1. k # at
          BY <2>2, <3>1
        <5> QED BY <3>1, <4>3, <5>1, <1>4, <1>6, <1>7
      <4> QED BY <4>1, <4>2, <4>3
    <3>2. CASE Parent(k) # at /\ k = at
      <4>1. at # 1
        BY <3>2
      <4>2. arr[Parent(at)] <= arr[c]
        BY <4>1, <1>1, <1>2, <1>4, <1>5 DEF SiftOrder, Used
      <4>3. arr'[Parent(k)] = arr[Parent(k)]
        BY <2>3, <2>4, <3>2, <1>6, <1>7
      <4> QED BY <3>2, <4>2, <4>3, <1>6
    <3>3. CASE Parent(k) # at /\ k # at
      <4>1. k # c
        BY <3>3, <1>5
      <4>2. arr'[k] = arr[k] /\ arr'[Parent(k)] = arr[Parent(k)]
        BY <2>3, <2>4, <3>3, <4>1, <1>6, <1>7
      <4>3. arr[Parent(k)] <= arr[k]
        BY <3>3, <1>1, <1>2 DEF SiftOrder, InOrder
      <4> QED BY <4>2, <4>3
    <3> QED BY <3>1, <3>2, <3>3
  <2>5. ASSUME Parent(k) = c PROVE arr'[Parent(c)] <= arr'[k]
    <3>1. k # at /\ k # c /\ Parent(k) # at
      BY <2>2, <2>5, <1>2, <1>3, <1>5
    <3>2. arr[c] <= arr[k]
      BY <3>1, <2>5, <1>1, <1>2 DEF SiftOrder, InOrder
    <3>3. arr'[k] = arr[k] /\ arr'[Parent(c)] = arr[c]
      BY <3>1, <1>5, <1>6, <1>7
    <3> QED BY <3>2, <3>3
  <2> QED BY <2>4, <2>5
<1>9. TypeOK'
  <2>1. at' \in 1 .. MAX
    BY <1>1, <1>2, <1>4 DEF Used
  <2> QED BY <2>1, <1>1, <1>2, <1>6 DEF TypeOK
<1>10. HeapOrder' /\ pc' \notin {"up", "astray"}
  BY <1>1 DEF HeapOrder
<1> QED BY <1>6, <1>8, <1>9, <1>10 DEF IInv

\* heappop leaves its loop at a node that is not larger than its children:
\* equal candidates are none, since no two values are equal.
LEMMA PopReturnsStep ==
    ASSUME Callers, IInv, PopReturns
    PROVE  IInv'
<1>1. /\ pc = "down" /\ pc' = "idle" /\ UNCHANGED <<arr, cnt, at, res>>
      /\ at < cnt => ~Unsafe /\ Candidate(2 * at) = Candidate(2 * at + 1)
  BY DEF PopReturns, heapVars
<1>2. /\ TypeOK /\ Distinct /\ SiftOrder
      /\ cnt \in Nat /\ MAX \in Nat /\ at \in Nat /\ at >= 1 /\ cnt <= MAX
  BY <1>1, Words DEF IInv, TypeOK
<1>3. \A k \in Used \ {1} : InOrder(k)
  <2> SUFFICES ASSUME NEW k \in Used, k # 1, Parent(k) = at PROVE arr[at] <= arr[k]
    BY <1>1, <1>2 DEF SiftOrder, InOrder
  <2>1. k \in Nat /\ k >= 2 /\ k < cnt
    BY <1>2 DEF Used
  <2>2. at < k /\ k \in {2 * at, 2 * at + 1}
    BY <2>1, Tree
  <2>3. at \in Used /\ ~Unsafe /\ Candidate(2 * at) = Candidate(2 * at + 1)
    BY <2>1, <2>2, <1>1, <1>2 DEF Used
  <2>4. arr[at] \in Data /\ arr[at] \in Int /\ arr[k] \in Data /\ arr[k] \in Int
    BY <2>3, <1>2, Words
  <2>5. SUFFICES ASSUME arr[at] > arr[k] PROVE FALSE
    BY <2>4
  <2>6. Present(k)
    BY <1>2, Words DEF Present, Slots
  <2>7. Candidate(k) = arr[k] /\ arr[k] # INT_MAX
    <3>1. ToInt(arr[k]) = arr[k] /\ arr[at] <= INT_MAX /\ INT_MAX \in Int
      BY <2>4, IntKept, HeapAssumption
    <3> QED BY <2>4, <2>5, <2>6, <3>1 DEF Candidate
  <2>8. PICK o \in {2 * at, 2 * at + 1} : o # k
    BY <1>2
  <2>9. Candidate(o) = arr[k]
    BY <2>2, <2>3, <2>7, <2>8
  <2>10. Present(o) /\ arr[at] > arr[o]
    BY <2>7, <2>9 DEF Candidate
  <2>11. o \in Used
    <3>1. o \in Slots
      BY <2>10, <1>2 DEF Present, Slots
    <3>2. arr[o] # Wild
      BY <2>3, <2>10 DEF Unsafe
    <3> QED BY <2>10, <3>1, <3>2, <1>2, Words
  <2>12. Candidate(o) = arr[o]
    BY <2>10, <2>11, <1>2, IntKept, Words DEF Candidate
  <2> QED BY <2>8, <2>9, <2>11, <2>12, <1>2 DEF Distinct, Callers
<1>4. TypeOK' /\ Distinct'
  BY <1>1, <1>2 DEF TypeOK, Distinct, Used
<1>5. HeapOrder' /\ SiftOrder'
  BY <1>1, <1>3 DEF HeapOrder, SiftOrder, InOrder, Used
<1> QED BY <1>1, <1>4, <1>5 DEF IInv

\* The root leads somewhere when it is one of the heap.
LEMMA RootUsed ==
    ASSUME TypeOK, arr[1] \notin {NULL, Wild}
    PROVE  1 \in Used
<1>1. 1 \in Slots
  BY HeapAssumption DEF Slots
<1> QED BY <1>1, Words

LEMMA StepIInv ==
    ASSUME Callers, IInv, [Next]_vars
    PROVE  IInv'
<1>1. CASE UNCHANGED vars
  BY <1>1 DEF vars, heapVars, IInv, TypeOK, HeapOrder, SiftOrder, InOrder,
              Distinct, Used, heapcnt
<1>2. CASE PopEmpty
  BY <1>2 DEF PopEmpty, heapVars, IInv, TypeOK, HeapOrder, SiftOrder, InOrder,
              Distinct, Used
<1>3. CASE PopCrashes \/ SiftCrashes \/ heap_free \/ FreeCrashes
  <2>1. /\ UNCHANGED <<arr, cnt, at, res>>
        /\ pc' \in {"crashed", "overrun", "freed"}
    BY <1>3 DEF PopCrashes, SiftCrashes, heap_free, FreeCrashes, heapVars
  <2> QED
    BY <2>1 DEF IInv, TypeOK, HeapOrder, SiftOrder, InOrder, Distinct, Used
<1>4. CASE heappeak
  <2>1. UNCHANGED <<arr, cnt, pc, at>> /\ res' = ToInt(arr[1]) /\ 1 \in Used
    BY <1>4, RootUsed DEF heappeak, heapVars, IInv
  <2>2. res' \in Data
    BY <2>1, Words, IntKept DEF IInv
  <2> QED
    BY <2>1, <2>2
       DEF IInv, TypeOK, HeapOrder, SiftOrder, InOrder, Distinct, Used, heapcnt
<1>5. CASE PeekAstray
  <2>1. UNCHANGED <<arr, cnt, at, res>> /\ pc' = "astray" /\ 1 \notin Used
    BY <1>5, Words DEF PeekAstray, heapVars, IInv
  <2>2. cnt \in 1 .. MAX /\ MAX \in Nat
    BY HeapAssumption DEF IInv, TypeOK
  <2>3. heapcnt' = 0
    BY <2>1, <2>2 DEF heapcnt, Used
  <2> QED
    BY <2>1, <2>3 DEF IInv, TypeOK, HeapOrder, SiftOrder, InOrder, Distinct, Used
<1> QED BY <1>1, <1>2, <1>3, <1>4, <1>5, PushStep, SiftUpStep, PushReturnsStep, PopRootStep,
           SiftDownStep, PopReturnsStep DEF Next, Sift

\* IInv holds in every reachable state (heap.c:39-95).
THEOREM Invariance == ASSUME Callers PROVE Spec => []IInv
<1>1. Init => IInv
  BY InitIInv
<1>2. IInv /\ [Next]_vars => IInv'
  BY StepIInv
<1> QED BY <1>1, <1>2, PTL DEF Spec

\* Between two calls the array is in heap order, however the calls came.
THEOREM HeapOrdered == ASSUME Callers PROVE Spec => []HeapOrder
<1>1. IInv => HeapOrder
  BY DEF IInv
<1> QED BY <1>1, Invariance, PTL

\* The data fills the slots 1 .. cnt - 1 and nothing else.
THEOREM TypeCorrect == ASSUME Callers PROVE Spec => []TypeOK
<1>1. IInv => TypeOK
  BY DEF IInv
<1> QED BY <1>1, Invariance, PTL

-----------------------------------------------------------------------------
(***************************************************************************)
(* The heap is a priority queue.                                           *)
(***************************************************************************)

\* A set of naturals has a smallest member.
LEMMA NatMin ==
    ASSUME NEW T, T \subseteq Nat, T # {}
    PROVE  \E x \in T : \A y \in T : x <= y
<1>1. PICK x \in T : \A y \in T : ~(<<y, x>> \in OpToRel(<, Nat))
  BY NatLessThanWellFounded, WFMin
<1>2. \A y \in T : ~(y < x)
  BY <1>1 DEF OpToRel
<1> QED BY <1>2

\* The smallest value is at the root: the first slot with a smaller one would
\* have a parent that is not smaller than the root.
LEMMA RootSmallest ==
    ASSUME TypeOK, HeapOrder, pc = "idle", NEW k \in Used
    PROVE  arr[1] <= arr[k]
<1> DEFINE T == {j \in Used : ~(arr[1] <= arr[j])}
<1>1. /\ \A j \in Used : arr[j] \in Int /\ j \in Nat /\ j >= 1 /\ j < cnt
      /\ cnt \in Nat
  BY Words DEF Used
<1>2. SUFFICES ASSUME T # {} PROVE FALSE
  BY <1>2
<1>3. PICK j \in T : \A i \in T : j <= i
  <2>1. T \subseteq Nat
    BY <1>1
  <2> HIDE DEF T
  <2> QED BY <1>2, <2>1, NatMin
<1>4. j \in Used /\ ~(arr[1] <= arr[j])
  BY <1>3
<1>5. 1 \in Used /\ j # 1
  BY <1>1, <1>4 DEF Used
<1>6. Parent(j) \in Nat /\ Parent(j) >= 1 /\ Parent(j) < j
  BY <1>1, <1>4, <1>5, Tree
<1>7. Parent(j) \in Used
  BY <1>1, <1>4, <1>6 DEF Used
<1>8. arr[1] <= arr[Parent(j)]
  BY <1>1, <1>3, <1>4, <1>6, <1>7
<1>9. arr[Parent(j)] <= arr[j]
  BY <1>4, <1>5 DEF HeapOrder, InOrder
<1> QED BY <1>1, <1>4, <1>5, <1>7, <1>8, <1>9

\* The values in the heap; when no two are equal, there is one copy of each.
Held == {arr[k] : k \in Used}

LEMMA OneCopy ==
    ASSUME NEW S, NEW a, NEW d, \A j, k \in S : a[j] = a[k] => j = k
    PROVE  Cardinality({k \in S : a[k] = d}) =
               IF d \in {a[k] : k \in S} THEN 1 ELSE 0
<1>1. CASE \E k \in S : a[k] = d
  <2>1. PICK k \in S : a[k] = d
    BY <1>1
  <2>2. {j \in S : a[j] = d} = {k}
    BY <2>1
  <2> QED BY <2>1, <2>2, FS_Singleton
<1>2. CASE ~\E k \in S : a[k] = d
  <2>1. {j \in S : a[j] = d} = {}
    BY <1>2
  <2> QED BY <1>2, <2>1, FS_EmptySet
<1> QED BY <1>1, <1>2

LEMMA CopiesHeld ==
    ASSUME Callers, IInv
    PROVE  Copies = [d \in Data |-> IF d \in Held THEN 1 ELSE 0]
<1>1. \A j, k \in Used : arr[j] = arr[k] => j = k
  BY DEF IInv, Distinct, Callers
<1>2. \A d : Cardinality({k \in Used : arr[k] = d}) = IF d \in Held THEN 1 ELSE 0
  BY <1>1, OneCopy DEF Held
<1> QED BY <1>2 DEF Copies

LEMMA NextCopiesHeld ==
    ASSUME Callers, IInv'
    PROVE  Copies' = [d \in Data |-> IF d \in Held' THEN 1 ELSE 0]
<1>1. \A j, k \in Used' : arr'[j] = arr'[k] => j = k
  BY DEF IInv, Distinct, Callers
<1>2. \A d : Cardinality({k \in Used' : arr'[k] = d}) = IF d \in Held' THEN 1 ELSE 0
  BY <1>1, OneCopy DEF Held
<1> QED BY <1>2 DEF Copies

LEMMA HeldUnmoved ==
    ASSUME UNCHANGED heapVars
    PROVE  Held' = Held
BY DEF Held, Used, heapVars

\* What pop, peek and an empty pop need to know of the root.
LEMMA RootIsSmallest ==
    ASSUME Callers, IInv, pc = "idle", 1 \in Used
    PROVE  Queue!Smallest(arr[1]) /\ arr[1] \in Data /\ Copies[arr[1]] = 1
<1>1. /\ Copies = [d \in Data |-> IF d \in Held THEN 1 ELSE 0]
      /\ arr[1] \in Data /\ arr[1] \in Held
  BY CopiesHeld, Words DEF IInv, Held
<1>2. \A e \in Data : Copies[e] > 0 => arr[1] <= e
  <2> SUFFICES ASSUME NEW e \in Data, Copies[e] > 0 PROVE arr[1] <= e
    OBVIOUS
  <2>1. e \in Held
    BY <1>1
  <2>2. PICK k \in Used : arr[k] = e
    BY <2>1 DEF Held
  <2> QED BY <2>2, RootSmallest DEF IInv
<1> QED BY <1>1, <1>2 DEF Queue!Smallest

\* heappop returns the smallest of what is in the heap (heap.c:60-95).
THEOREM PopReturnsSmallest == ASSUME Callers PROVE Spec => PopsSmallest
<1>1. IInv => (PopRoot => \A k \in Used : arr[1] <= arr[k])
  BY RootSmallest DEF IInv, PopRoot
<1> QED BY <1>1, Invariance, PTL DEF PopsSmallest

LEMMA QueueInit == ASSUME Callers, Init PROVE Queue!Init
<1>1. Held = {}
  BY DEF Init, Held, Used
<1> QED BY <1>1, InitIInv, CopiesHeld DEF Init, Queue!Init

\* A swap in a loop leaves the bag as it is.
LEMMA HeldSwapped ==
    ASSUME TypeOK, Distinct, NEW a \in Used, NEW b \in Used, a # b,
           arr' = Swapped(a, b), cnt' = cnt
    PROVE  Held' = Held
<1>1. /\ Used' = Used /\ arr'[a] = arr[b] /\ arr'[b] = arr[a]
      /\ \A k \in Used : k # a /\ k # b => arr'[k] = arr[k]
  BY Swap, Words
<1>2. \A k \in Used : arr'[k] \in Held /\ arr[k] \in Held'
  BY <1>1 DEF Held
<1> QED BY <1>1, <1>2 DEF Held

\* A step of the heap is a step of the queue: a push, a pop, a peek or an
\* empty pop where the call takes effect; none in the loops.
LEMMA QueueStep ==
    ASSUME Callers, IInv, [Next]_vars
    PROVE  [Queue!Next]_Queue!vars
<1>0. /\ IInv' /\ TypeOK /\ Distinct
      /\ Copies = [d \in Data |-> IF d \in Held THEN 1 ELSE 0]
      /\ Copies' = [d \in Data |-> IF d \in Held' THEN 1 ELSE 0]
  BY StepIInv, CopiesHeld, NextCopiesHeld DEF IInv
<1>1. ASSUME Held' = Held, res' = res PROVE UNCHANGED Queue!vars
  BY <1>0, <1>1 DEF Queue!vars
<1>2. CASE \/ UNCHANGED vars \/ PushReturns \/ PopReturns \/ SiftCrashes
           \/ PopCrashes \/ PeekAstray \/ FreeCrashes \/ heap_free
  <2>1. UNCHANGED <<heapVars, res>>
    BY <1>2 DEF vars, PushReturns, PopReturns, SiftCrashes, PopCrashes,
                PeekAstray, FreeCrashes, heap_free
  <2> QED BY <2>1, <1>1, HeldUnmoved
<1>3. CASE SiftUp
  <2>1. /\ pc = "up" /\ at # 1 /\ arr' = Swapped(Parent(at), at)
        /\ cnt' = cnt /\ res' = res
    BY <1>3 DEF SiftUp, Rises
  <2>2. at \in Nat /\ at >= 2 /\ at < cnt /\ cnt \in Nat
    BY <2>1, Words DEF IInv, TypeOK
  <2>3. at \in Used /\ Parent(at) \in Used /\ at # Parent(at)
    BY <2>2, Tree DEF Used
  <2> QED BY <2>1, <2>3, <1>0, <1>1, HeldSwapped
<1>4. ASSUME NEW c, NEW o, {c, o} = {2 * at, 2 * at + 1}, SiftDown(c, o)
      PROVE  UNCHANGED Queue!vars
  <2>1. /\ at < cnt /\ ~Unsafe /\ Candidate(c) < Candidate(o)
        /\ arr' = Swapped(at, c) /\ cnt' = cnt /\ res' = res
    BY <1>4 DEF SiftDown
  <2>2. at \in Nat /\ at >= 1 /\ cnt \in Nat
    BY Words DEF IInv, TypeOK
  <2>3. at \in Used /\ c \in {2 * at, 2 * at + 1} /\ c # at
    BY <2>1, <2>2, <1>4 DEF Used
  <2>4. c \in Used
    BY <2>1, <2>3, <1>0, <1>4, Chosen
  <2> QED BY <2>1, <2>3, <2>4, <1>0, <1>1, HeldSwapped
<1>5. ASSUME NEW data \in Data, heappush(data) PROVE Queue!push(data)
  <2>1. /\ cnt < MAX /\ arr' = [arr EXCEPT ![cnt] = data]
        /\ cnt' = cnt + 1 /\ res' = res
        /\ \A k \in Used : arr[k] # data
    BY <1>5 DEF heappush, Callers
  <2>2. /\ cnt \in Nat /\ cnt >= 1 /\ MAX \in Nat /\ DOMAIN arr = Slots
        /\ \A k \in Used : k \in Slots
    BY Words DEF IInv, TypeOK
  <2>3. cnt \in Slots /\ cnt \notin Used /\ Used' = Used \cup {cnt}
    BY <2>1, <2>2 DEF Used, Slots
  <2>4. arr'[cnt] = data /\ \A k \in Used : arr'[k] = arr[k]
    BY <2>1, <2>2, <2>3
  <2>5. Held' = Held \cup {data} /\ data \notin Held
    BY <2>1, <2>3, <2>4 DEF Held
  <2>6. Copies' = [Copies EXCEPT ![data] = Copies[data] + 1]
    BY <2>5, <1>0
  <2> QED BY <2>1, <2>6 DEF Queue!push
<1>6. CASE PopRoot
  <2>1. /\ pc = "idle" /\ arr[1] # NULL /\ arr[1] # Wild /\ res' = arr[1]
        /\ arr' = WithoutRoot /\ cnt' = cnt - 1
    BY <1>6 DEF PopRoot
  <2>2. 1 \in Used
    BY <2>1, Words DEF Slots, IInv
  <2>3. /\ cnt \in Nat /\ cnt >= 2 /\ DOMAIN arr = Slots
        /\ \A k \in Used : k \in Slots
    BY <2>2, Words DEF IInv, TypeOK, Used
  <2>4. cnt - 1 \in Used /\ Used' = Used \ {cnt - 1}
    BY <2>1, <2>3 DEF Used
  <2>5. /\ cnt - 1 # 1 => arr'[1] = arr[cnt - 1]
        /\ \A k \in Used' : k # 1 => arr'[k] = arr[k]
    BY <2>1, <2>3, <2>2, <2>4 DEF WithoutRoot
  <2>6. Held' = Held \ {arr[1]}
    <3>1. \A k \in Used' : arr'[k] \in Held \ {arr[1]}
      BY <2>2, <2>4, <2>5, <1>0 DEF Held, Distinct, Callers
    <3>2. \A k \in Used : k # 1 => arr[k] \in Held'
      <4> SUFFICES ASSUME NEW k \in Used, k # 1 PROVE arr[k] \in Held'
        OBVIOUS
      <4>1. CASE k = cnt - 1
        <5>1. 1 \in Used' /\ arr'[1] = arr[k]
          BY <4>1, <2>2, <2>4, <2>5
        <5> QED BY <5>1 DEF Held
      <4>2. CASE k # cnt - 1
        BY <4>2, <2>4, <2>5 DEF Held
      <4> QED BY <4>1, <4>2
    <3> QED BY <3>1, <3>2 DEF Held
  <2>7. Queue!Smallest(arr[1]) /\ arr[1] \in Data /\ Copies[arr[1]] = 1
    BY <2>1, <2>2, RootIsSmallest
  <2>8. Copies' = [Copies EXCEPT ![arr[1]] = Copies[arr[1]] - 1]
    BY <2>6, <2>7, <1>0
  <2> QED BY <2>1, <2>7, <2>8 DEF Queue!pop, Queue!Next
<1>7. CASE PopEmpty
  <2>1. arr[1] = NULL /\ res' = -1 /\ UNCHANGED heapVars
    BY <1>7 DEF PopEmpty
  <2>2. Held = {}
    BY <2>1, Words DEF Held, Used, IInv
  <2>3. \A d \in Data : Copies[d] = 0
    BY <2>2, <1>0
  <2>4. Copies' = Copies
    BY <2>1, <1>0, HeldUnmoved
  <2> QED BY <2>1, <2>3, <2>4 DEF Queue!popEmpty, Queue!Next
<1>8. CASE heappeak
  <2>1. pc = "idle" /\ res' = ToInt(arr[1]) /\ UNCHANGED heapVars
    BY <1>8 DEF heappeak
  <2>2. 1 \in Used
    BY <1>8, RootUsed DEF heappeak, IInv
  <2>3. Queue!Smallest(arr[1]) /\ arr[1] \in Data
    BY <2>1, <2>2, RootIsSmallest
  <2>4. res' = arr[1] /\ Copies' = Copies
    BY <2>1, <2>3, <1>0, IntKept, HeldUnmoved
  <2> QED BY <2>3, <2>4 DEF Queue!peek, Queue!Next
<1>9. ASSUME NEW data \in Data, heappush(data) PROVE Queue!Next
  BY <1>5, <1>9 DEF Queue!Next
<1> QED
  BY <1>2, <1>3, <1>4, <1>6, <1>7, <1>8, <1>9 DEF Next, Sift

\* The array heap is a priority queue, whatever was swapped on the way.
THEOREM HeapIsPriorityQueue ==
    ASSUME Callers PROVE Spec => ImplementsPriorityQueue
<1>1. Init => Queue!Init
  BY QueueInit
<1>2. IInv /\ [Next]_vars => [Queue!Next]_Queue!vars
  BY QueueStep
<1> QED BY <1>1, <1>2, Invariance, PTL DEF Spec, ImplementsPriorityQueue, Queue!Spec

-----------------------------------------------------------------------------
(***************************************************************************)
(* Crashes, whatever callers push: no hypothesis on them is needed.        *)
(***************************************************************************)

\* Which slots hold data, which do not; a node that rises is in the heap.
Shape ==
    /\ cnt \in 1 .. MAX /\ at \in 1 .. MAX
    /\ DOMAIN arr = Slots
    /\ \A k \in Used : arr[k] \in Data
    /\ \A k \in Slots \ Used : arr[k] \in MallocWords \cup {NULL}
    /\ pc = "up" => at < cnt

ShapeOrCrash == Shape /\ CrashOnlyIfWild

\* A long, put into an int, is at most INT_MAX.
LEMMA ToIntBounded ==
    ASSUME NEW d \in Int
    PROVE  ToInt(d) \in Int /\ ToInt(d) <= INT_MAX
<1>1. INT_MAX \in Nat
  BY HeapAssumption
<1> DEFINE a == d + INT_MAX + 1
           n == 2 * INT_MAX + 2
<1>2. a \in Int /\ n \in Nat \ {0}
  BY <1>1
<1>3. \A x \in Int, m \in Nat \ {0} : x % m \in 0 .. m - 1
  OBVIOUS
<1>4. a % n \in 0 .. n - 1
  BY <1>2, <1>3
<1>5. ToInt(d) = (a % n) - INT_MAX - 1
  BY DEF ToInt
<1>6. n = 2 * INT_MAX + 2
  OBVIOUS
<1> HIDE DEF a, n
<1> QED BY <1>1, <1>4, <1>5, <1>6

LEMMA ShapeWords ==
    ASSUME Shape
    PROVE  /\ MAX \in Nat /\ MAX >= 2 /\ cnt \in Nat /\ at \in Nat /\ at >= 1
           /\ Used \subseteq Slots
           /\ \A k \in Used : arr[k] \in Int /\ arr[k] # NULL /\ arr[k] # Wild
           /\ \A k \in Slots : Present(k) /\ arr[k] # Wild => k \in Used
<1>1. /\ MAX \in Nat /\ MAX >= 2 /\ cnt \in Nat /\ cnt <= MAX /\ at \in Nat /\ at >= 1
      /\ NULL \notin Data /\ Wild \notin Data /\ Data \subseteq Int
      /\ MallocWords \subseteq {NULL, Wild}
  BY HeapAssumption DEF Shape
<1>2. Used \subseteq Slots
  BY <1>1 DEF Used, Slots
<1>3. \A k \in Slots \ Used : arr[k] = NULL \/ arr[k] = Wild
  BY <1>1 DEF Shape
<1> QED BY <1>1, <1>2, <1>3 DEF Present, Shape

\* A swap of two slots of the heap.
LEMMA ShapeSwap ==
    ASSUME Shape, NEW a \in Used, NEW b \in Used, arr' = Swapped(a, b),
           cnt' = cnt, at' \in 1 .. MAX, pc' = "up" => at' < cnt'
    PROVE  Shape'
<1>1. Used' = Used
  BY DEF Used
<1>2. DOMAIN arr = Slots /\ a \in Slots /\ b \in Slots
  BY ShapeWords DEF Shape
<1>3. /\ arr'[a] = arr[b] /\ arr'[b] = arr[a]
      /\ \A k \in Slots : k # a /\ k # b => arr'[k] = arr[k]
      /\ DOMAIN arr' = Slots
  BY <1>2 DEF Swapped
<1>4. /\ \A k \in Used : arr'[k] \in Data
      /\ \A k \in Slots \ Used : arr'[k] \in MallocWords \cup {NULL}
  BY <1>2, <1>3, ShapeWords DEF Shape
<1> QED BY <1>1, <1>3, <1>4 DEF Shape

\* A child that heappop moves up is one of the heap.
LEMMA ChildUsed ==
    ASSUME Shape, at < cnt, ~Unsafe, NEW c, NEW o,
           {c, o} = {2 * at, 2 * at + 1}, Candidate(c) < Candidate(o)
    PROVE  at \in Used /\ c \in Used
<1>1. /\ at \in Used /\ at \in Nat /\ INT_MAX \in Nat /\ c \in Nat /\ MAX \in Nat
      /\ c \in {2 * at, 2 * at + 1} /\ o \in {2 * at, 2 * at + 1}
  BY ShapeWords, HeapAssumption DEF Used
<1>2. \A k \in {2 * at, 2 * at + 1} : Present(k) => k \in Used
  BY <1>1, ShapeWords DEF Present, Slots, Unsafe
<1>3. Candidate(o) \in Int /\ Candidate(o) <= INT_MAX
  <2>1. CASE Present(o) /\ arr[at] > arr[o]
    BY <2>1, <1>1, <1>2, ShapeWords, ToIntBounded DEF Candidate
  <2>2. CASE ~(Present(o) /\ arr[at] > arr[o])
    BY <2>2, <1>1 DEF Candidate
  <2> QED BY <2>1, <2>2
<1>4. Candidate(c) # INT_MAX
  BY <1>1, <1>3
<1> QED BY <1>1, <1>2, <1>4 DEF Candidate

\* Shape holds initially and after every step; a step that crashes has met
\* a Wild slot.
LEMMA ShapeInit == Init => ShapeOrCrash
<1> SUFFICES ASSUME Init PROVE ShapeOrCrash
  OBVIOUS
<1>1. Used = {}
  BY DEF Init, Used
<1> QED BY <1>1, HeapAssumption DEF Init, ShapeOrCrash, Shape, CrashOnlyIfWild

LEMMA ShapeStep ==
    ASSUME ShapeOrCrash, [Next]_vars
    PROVE  ShapeOrCrash'
<1>0. /\ Shape /\ DOMAIN arr = Slots
      /\ MAX \in Nat /\ cnt \in Nat /\ cnt >= 1 /\ cnt <= MAX /\ at \in Nat /\ at >= 1
  BY ShapeWords DEF ShapeOrCrash, Shape
<1>1. CASE UNCHANGED vars
  BY <1>1 DEF vars, heapVars, ShapeOrCrash, Shape, CrashOnlyIfWild, Used
<1>2. CASE PopEmpty \/ heappeak \/ PeekAstray \/ PushReturns \/ PopReturns \/ heap_free
  <2>1. /\ UNCHANGED <<arr, cnt, at>>
        /\ pc' \in {"idle", "astray", "freed", "overrun"}
    BY <1>2 DEF PopEmpty, heappeak, PeekAstray, PushReturns, PopReturns, heap_free, heapVars
  <2> QED BY <2>1, <1>0 DEF ShapeOrCrash, Shape, CrashOnlyIfWild, Used
<1>3. CASE PopCrashes \/ FreeCrashes \/ SiftCrashes
  <2>1. UNCHANGED <<arr, cnt, at>> /\ pc' = "crashed"
    BY <1>3 DEF PopCrashes, FreeCrashes, SiftCrashes, heapVars
  <2>2. \E k \in Slots : arr[k] = Wild
    <3>1. CASE PopCrashes
      BY <3>1, <1>0, HeapAssumption DEF PopCrashes, Slots
    <3>2. CASE FreeCrashes
      BY <3>2 DEF FreeCrashes
    <3>3. CASE SiftCrashes
      <4>1. at \in Used /\ arr[at] \notin {NULL, Wild}
        BY <3>3, <1>0, ShapeWords DEF SiftCrashes, Used
      <4>2. PICK k \in {2 * at, 2 * at + 1} : Present(k) /\ arr[k] = Wild
        BY <3>3, <4>1 DEF SiftCrashes, Unsafe
      <4> QED BY <4>2, <1>0 DEF Present, Slots
    <3> QED BY <1>3, <3>1, <3>2, <3>3
  <2> QED BY <2>1, <2>2, <1>0 DEF ShapeOrCrash, Shape, CrashOnlyIfWild, Used
<1>4. ASSUME NEW data \in Data, heappush(data) PROVE ShapeOrCrash'
  <2>1. /\ cnt < MAX /\ arr' = [arr EXCEPT ![cnt] = data]
        /\ cnt' = cnt + 1 /\ pc' = "up" /\ at' = cnt
    BY <1>4 DEF heappush
  <2>2. /\ Used' = Used \cup {cnt} /\ cnt \in Slots /\ DOMAIN arr' = Slots
        /\ arr'[cnt] = data /\ \A k \in Slots : k # cnt => arr'[k] = arr[k]
    BY <2>1, <1>0 DEF Used, Slots
  <2>3. /\ \A k \in Used' : arr'[k] \in Data
        /\ \A k \in Slots \ Used' : arr'[k] \in MallocWords \cup {NULL}
    BY <2>2, <1>0, ShapeWords DEF Shape
  <2> QED BY <2>1, <2>2, <2>3, <1>0 DEF ShapeOrCrash, Shape, CrashOnlyIfWild
<1>5. CASE PopRoot
  <2>1. /\ arr[1] \notin {NULL, Wild} /\ arr' = WithoutRoot
        /\ cnt' = cnt - 1 /\ pc' = "down" /\ at' = 1
    BY <1>5 DEF PopRoot
  <2>2. 1 \in Used
    BY <2>1, <1>0, HeapAssumption DEF Shape, Slots
  <2>3. /\ cnt >= 2 /\ cnt - 1 \in Slots /\ 1 \in Slots
        /\ Used' = Used \ {cnt - 1} /\ cnt - 1 \in Used
    BY <2>1, <2>2, <1>0, ShapeWords DEF Used, Slots
  <2>4. /\ DOMAIN arr' = Slots /\ arr'[cnt - 1] = NULL
        /\ cnt - 1 # 1 => arr'[1] = arr[cnt - 1]
        /\ \A k \in Slots : k # 1 /\ k # cnt - 1 => arr'[k] = arr[k]
    BY <2>1, <2>3, <1>0 DEF WithoutRoot
  <2>5. /\ \A k \in Used' : arr'[k] \in Data
        /\ \A k \in Slots \ Used' : arr'[k] \in MallocWords \cup {NULL}
    BY <2>2, <2>3, <2>4, <1>0, ShapeWords DEF Shape
  <2> QED BY <2>1, <2>3, <2>4, <2>5, <1>0 DEF ShapeOrCrash, Shape, CrashOnlyIfWild
<1>6. CASE SiftUp
  <2>1. /\ pc = "up" /\ at # 1 /\ arr' = Swapped(Parent(at), at)
        /\ at' = Parent(at) /\ cnt' = cnt /\ pc' = "up"
    BY <1>6 DEF SiftUp, Rises
  <2>2. Parent(at) \in Nat /\ Parent(at) >= 1 /\ Parent(at) < at /\ at < cnt
    BY <2>1, <1>0, Tree DEF Shape
  <2>3. Parent(at) \in Used /\ at \in Used /\ at' \in 1 .. MAX /\ at' < cnt'
    BY <2>1, <2>2, <1>0 DEF Used
  <2>4. Shape'
    BY <2>1, <2>3, <1>0, ShapeSwap
  <2> QED BY <2>1, <2>4 DEF ShapeOrCrash, CrashOnlyIfWild
<1>7. ASSUME NEW c, NEW o, {c, o} = {2 * at, 2 * at + 1}, SiftDown(c, o)
      PROVE  ShapeOrCrash'
  <2>1. /\ pc = "down" /\ at < cnt /\ ~Unsafe /\ Candidate(c) < Candidate(o)
        /\ arr' = Swapped(at, c) /\ at' = c /\ cnt' = cnt /\ pc' = "down"
    BY <1>7 DEF SiftDown, NextIndex
  <2>2. at \in Used /\ c \in Used
    BY <2>1, <1>0, <1>7, ChildUsed
  <2>3. at' \in 1 .. MAX
    BY <2>1, <2>2, <1>0 DEF Used
  <2>4. Shape'
    BY <2>1, <2>2, <2>3, <1>0, ShapeSwap
  <2> QED BY <2>1, <2>4 DEF ShapeOrCrash, CrashOnlyIfWild
<1> QED BY <1>1, <1>2, <1>3, <1>4, <1>5, <1>6, <1>7 DEF Next, Sift

\* heap.c crashes only on a word that fresh memory held: it makes no wild
\* pointer itself and reads no data through NULL (heap.c:60-72 and 78-79).
THEOREM CrashNeedsWild == Spec => []CrashOnlyIfWild
<1>1. Init => ShapeOrCrash
  BY ShapeInit
<1>2. ShapeOrCrash /\ [Next]_vars => ShapeOrCrash'
  BY ShapeStep
<1>3. ShapeOrCrash => CrashOnlyIfWild
  BY DEF ShapeOrCrash
<1> QED BY <1>1, <1>2, <1>3, PTL DEF Spec
=============================================================================
