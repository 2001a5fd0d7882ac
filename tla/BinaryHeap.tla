----------------------------- MODULE BinaryHeap -----------------------------
(***************************************************************************)
(* The array heap of heap.c.  One caller pushes and pops; each turn of a   *)
(* sift loop is a step, so that the loops need no recursion.  A node is    *)
(* allocated once and its data never changes: a slot holds the data, or    *)
(* NULL, or Wild, a word that malloc returned and nobody wrote.            *)
(*                                                                         *)
(* At "up" heappush is in its loop with target = at; at "down" heappop is  *)
(* in its loop with index = at; at "crashed" a pointer was followed that   *)
(* leads nowhere, at "astray" by heappeak, at "overrun" memory after the   *)
(* array was read, and what comes then is undefined; at "freed" the heap   *)
(* is gone.                                                                *)
(***************************************************************************)
EXTENDS Integers, FiniteSets

CONSTANTS
    MAX,            \* slots of arr; slot 0 is never used; the file leaves
                    \* its value open: it defines MAX nowhere
    Data,           \* what callers push
    INT_MAX,        \* __INT_MAX__
    EqualAllowed,   \* whether callers push a value that is in the heap
    MallocWords,    \* what fresh memory may hold
    NULL, Wild

ASSUME HeapAssumption ==
    /\ MAX \in Nat \ {0, 1}
    /\ INT_MAX \in Nat
    /\ Data \subseteq Int
    /\ EqualAllowed \in BOOLEAN
    /\ MallocWords \subseteq {NULL, Wild}
    /\ NULL \notin Data /\ Wild \notin Data

VARIABLES
    arr, cnt,       \* the fields of struct Heap
    pc, at,         \* the loop the caller is in, and its index
    res             \* what the last heappop returned or will return

heapVars == <<arr, cnt>>
vars == <<heapVars, pc, at, res>>

Slots == 0 .. MAX - 1
Used == 1 .. cnt - 1

\* heap_init: its loop compares (arr[i] == NULL) and sets nothing, so the
\* slots keep what malloc returned.
Init ==
    /\ arr \in [Slots -> MallocWords]
    /\ cnt = 1
    /\ pc = "idle" /\ at = 1
    /\ res = -1

(***************************************************************************)
(* The pieces of the loops, with faulty variants that no specification     *)
(* uses and that a property below finds.                                   *)
(***************************************************************************)

\* A long put into an int.
ToInt(d) == ((d + INT_MAX + 1) % (2 * INT_MAX + 2)) - INT_MAX - 1

Swapped(a, b) == [arr EXCEPT ![a] = arr[b], ![b] = arr[a]]

\* The index of the parent; the index that is not halved.
SameSlot(k) == k
Parent(k) == k \div 2

\* heappush moves the new node up past parents that are not smaller.
Rises(k) == k # 1 /\ arr[Parent(k)] >= arr[k]

\* What is left in the array when the root is taken; the hole at the root
\* not filled.
HoleAtRoot == [arr EXCEPT ![1] = NULL]
WithoutRoot == [arr EXCEPT ![1] = arr[cnt - 1], ![cnt - 1] = NULL]

\* A child that heappop looks at, and the int by which it compares the
\* children that it could move up; by which the larger one would win.
Present(k) == k < MAX /\ arr[k] # NULL
LargerFirst(k) ==
    IF Present(k) /\ arr[at] > arr[k] THEN -ToInt(arr[k]) ELSE INT_MAX
Candidate(k) ==
    IF Present(k) /\ arr[at] > arr[k] THEN ToInt(arr[k]) ELSE INT_MAX

\* Where heappop goes on after a swap; where it was.
StaysAt(child) == at
NextIndex(child) == child

(***************************************************************************)
(* heappush.  The code does not look whether a slot is left: callers must. *)
(***************************************************************************)
heappush(data) ==
    /\ pc = "idle"
    /\ cnt < MAX
    /\ EqualAllowed \/ \A k \in Used : arr[k] # data
    /\ arr' = [arr EXCEPT ![cnt] = data]
    /\ cnt' = cnt + 1
    /\ pc' = "up" /\ at' = cnt
    /\ UNCHANGED res

SiftUp ==
    /\ pc = "up"
    /\ Rises(at)
    /\ arr' = Swapped(Parent(at), at)
    /\ at' = Parent(at)
    /\ UNCHANGED <<cnt, pc, res>>

PushReturns ==
    /\ pc = "up"
    /\ ~Rises(at)
    /\ pc' = "idle"
    /\ UNCHANGED <<heapVars, at, res>>

(***************************************************************************)
(* heappop.                                                                *)
(***************************************************************************)
PopEmpty ==
    /\ pc = "idle"
    /\ arr[1] = NULL
    /\ res' = -1
    /\ UNCHANGED <<heapVars, pc, at>>

PopRoot ==
    /\ pc = "idle"
    /\ arr[1] \notin {NULL, Wild}
    /\ res' = arr[1]
    /\ arr' = WithoutRoot
    /\ cnt' = cnt - 1
    /\ pc' = "down" /\ at' = 1

\* A pointer that leads nowhere would be followed: a child that is Wild, or the
\* node itself when there is a child to compare it with.
Unsafe ==
    \E k \in {2 * at, 2 * at + 1} :
        Present(k) /\ (arr[k] = Wild \/ arr[at] \in {NULL, Wild})

SiftDown(child, other) ==
    /\ pc = "down"
    /\ at < cnt /\ ~Unsafe
    /\ Candidate(child) < Candidate(other)
    /\ arr' = Swapped(at, child)
    /\ at' = NextIndex(child)
    /\ UNCHANGED <<cnt, pc, res>>

\* The loop is over, or neither child is to be moved up.
PopReturns ==
    /\ pc = "down"
    /\ at < cnt => ~Unsafe /\ Candidate(2 * at) = Candidate(2 * at + 1)
    /\ pc' = "idle"
    /\ UNCHANGED <<heapVars, at, res>>

SiftCrashes ==
    /\ pc = "down"
    /\ at < cnt /\ Unsafe
    /\ pc' = "crashed"
    /\ UNCHANGED <<heapVars, at, res>>

PopCrashes ==
    /\ pc = "idle"
    /\ arr[1] = Wild
    /\ pc' = "crashed"
    /\ UNCHANGED <<heapVars, at, res>>

(***************************************************************************)
(* heappeak and heap_free.  heappeak follows arr[1] whatever is there.     *)
(***************************************************************************)
heapcnt == cnt - 1

heappeak ==
    /\ pc = "idle"
    /\ arr[1] \notin {NULL, Wild}
    /\ res' = ToInt(arr[1])
    /\ UNCHANGED <<heapVars, pc, at>>

PeekAstray ==
    /\ pc = "idle"
    /\ arr[1] \in {NULL, Wild}
    /\ pc' = "astray"
    /\ UNCHANGED <<heapVars, at, res>>

\* What node_free_post visits: the root, and both children of every node,
\* whether they are inside the array or not.
Visited == {1} \cup UNION {{2 * k, 2 * k + 1} : k \in Used}

heap_free ==
    /\ pc = "idle"
    /\ \/ Visited \subseteq Slots /\ pc' = "freed"
       \/ ~(Visited \subseteq Slots) /\ pc' = "overrun"
    /\ \A k \in Visited \cap Slots : arr[k] # Wild
    /\ UNCHANGED <<heapVars, at, res>>

FreeCrashes ==
    /\ pc = "idle"
    /\ \E k \in Visited \cap Slots : arr[k] = Wild
    /\ pc' = "crashed"
    /\ UNCHANGED <<heapVars, at, res>>

Sift ==
    \/ SiftUp \/ PushReturns
    \/ SiftDown(2 * at, 2 * at + 1) \/ SiftDown(2 * at + 1, 2 * at)
    \/ PopReturns \/ SiftCrashes

Next ==
    \/ \E data \in Data : heappush(data)
    \/ PopEmpty \/ PopRoot \/ PopCrashes
    \/ heappeak \/ PeekAstray \/ heap_free \/ FreeCrashes
    \/ Sift

Spec == Init /\ [][Next]_vars

\* A call that has begun goes on.
FairSpec == Spec /\ WF_vars(Sift)
-----------------------------------------------------------------------------
(***************************************************************************)
(* Properties.                                                             *)
(***************************************************************************)

\* The data stands in the slots 1 .. cnt - 1 without a gap, and every slot
\* after them is as fresh or cleared: heappop relies on that NULL to know
\* which children exist (heap.c:71-72 and 78-79).
TypeOK ==
    /\ cnt \in 1 .. MAX
    /\ DOMAIN arr = Slots
    /\ \A k \in Used : arr[k] \in Data
    /\ \A k \in Slots \ Used : arr[k] \in MallocWords \cup {NULL}
    /\ pc \in {"idle", "up", "down", "crashed", "astray", "overrun", "freed"}
    /\ at \in 1 .. MAX
    /\ res \in Data \cup {-1}

\* Heap order: between two calls no node is smaller than its parent.
InOrder(k) == arr[Parent(k)] <= arr[k]
HeapOrder == pc = "idle" => \A k \in Used \ {1} : InOrder(k)

\* In the loops the order holds but around the node that is being moved, and
\* what stands below that node is not smaller than what stands above it, so
\* that each swap leaves order behind (heap.c:48-57 and 74-93).
SiftOrder ==
    /\ pc = "up" => \A k \in Used \ {1} :
         /\ k # at => InOrder(k)
         /\ at # 1 /\ Parent(k) = at => arr[Parent(at)] <= arr[k]
    /\ pc = "down" => \A k \in Used \ {1} :
         /\ Parent(k) # at => InOrder(k)
         /\ at # 1 /\ Parent(k) = at => arr[Parent(at)] <= arr[k]

\* The whole of it is inductive (heap.c:39-95), if callers push no value twice:
\* the node on its way up has a slot, and no two slots hold the same value.
\* heappeak goes astray only in a heap that is empty: callers who have asked
\* heapcnt are safe (heap.c:96-97).
Distinct == ~EqualAllowed => \A j, k \in Used : arr[j] = arr[k] => j = k
IInv ==
    /\ TypeOK /\ HeapOrder /\ SiftOrder /\ Distinct
    /\ pc = "up" => at < cnt
    /\ pc = "astray" => heapcnt = 0

\* heappop and heap_free follow a pointer that leads nowhere only when fresh
\* memory held one: the code itself makes none, and they never read data through
\* NULL (heap.c:30, 60-72 and 78-79).
CrashOnlyIfWild == pc = "crashed" => \E k \in Slots : arr[k] = Wild

\* What heappop returns is the smallest of what is in the heap: "not in fifo
\* order but highest priority first" (2022/0824.md:7).
PopsSmallest == [][PopRoot => \A k \in Used : arr[1] <= arr[k]]_vars

\* Every call returns, or follows a pointer that leads nowhere: each turn of a
\* loop moves the node on (heap.c:48-57 and 74-93).
CallsReturn == pc \in {"up", "down"} ~> pc \in {"idle", "crashed"}

\* The heap implements the priority queue, whatever was swapped on the way.
Copies == [d \in Data |-> Cardinality({k \in Used : arr[k] = d})]
Queue == INSTANCE PriorityQueue WITH items <- Copies, last <- res
ImplementsPriorityQueue == Queue!Spec
=============================================================================
