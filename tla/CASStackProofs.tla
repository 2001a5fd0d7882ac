--------------------------- MODULE CASStackProofs ---------------------------
(***************************************************************************)
(* Proofs about CASStack, for every number of producers, consumers and     *)
(* items and every pool that has a node per item: IInv is an inductive     *)
(* invariant, with it every safety property of that module holds, and the  *)
(* nodes and pointers implement the LIFO stack.                            *)
(*                                                                         *)
(* The conjuncts of IInv are proved a group at a time, each group from the *)
(* ones before it.                                                         *)
(***************************************************************************)
EXTENDS CASStack, FiniteSetTheorems, TLAPS

\* The conditions and small steps are expanded everywhere.
USE DEF FreshNode, Unchanged, MoreItems, AfterPop, AfterEmpty, ProducersReturned, Returned

(***************************************************************************)
(* Types and control; the pool has a node for every item that is begun.    *)
(***************************************************************************)
LocalTypes ==
    /\ i \in [Producers -> 0 .. ITEMS_PER_PRODUCER]
    /\ pc \in [Threads -> ProducerLabels \cup ConsumerLabels \cup MainLabels]
    /\ \A p \in Producers : pc[p] \in ProducerLabels
    /\ \A c \in Consumers : pc[c] \in ConsumerLabels
    /\ pc[Main] \in MainLabels

LEMMA Constants ==
    /\ NUM_PRODUCERS \in Nat \ {0} /\ ITEMS_PER_PRODUCER \in Nat \ {0}
    /\ NUM_PRODUCERS * ITEMS_PER_PRODUCER \in Nat
    /\ POOL_SIZE \in Nat /\ POOL_SIZE >= NUM_PRODUCERS * ITEMS_PER_PRODUCER
    /\ Threads = Producers \cup Consumers \cup {Main}
    /\ Main \notin Producers /\ Main \notin Consumers
    /\ Consumers \cap Producers = {}
    /\ Producers \subseteq Nat
    /\ NULL \notin Nat /\ NULL \notin Nodes
  BY StackAssumption DEF Threads, Producers, Nodes

LEMMA Intervals ==
    ASSUME NEW n \in Nat
    PROVE  IsFiniteSet(0 .. n - 1) /\ Cardinality(0 .. n - 1) = n
  BY FS_Interval

\* While an item is left to begin, the pool has a node left for it.
LEMMA PoolRoom ==
    ASSUME LocalTypes, LoopsCount, PoolCount, NEW p \in Producers, pc[p] = "alloc"
    PROVE  pool_idx < NUM_PRODUCERS * ITEMS_PER_PRODUCER
  <1> DEFINE All == Producers \X (0 .. ITEMS_PER_PRODUCER - 1)
  <1>1. IsFiniteSet(All) /\ Cardinality(All) = NUM_PRODUCERS * ITEMS_PER_PRODUCER
    <2>2. /\ IsFiniteSet(Producers) /\ Cardinality(Producers) = NUM_PRODUCERS
          /\ IsFiniteSet(0 .. ITEMS_PER_PRODUCER - 1)
          /\ Cardinality(0 .. ITEMS_PER_PRODUCER - 1) = ITEMS_PER_PRODUCER
      BY Intervals, Constants DEF Producers
    <2> QED BY <2>2, FS_Product
  <1>2. /\ Begun[p] < ITEMS_PER_PRODUCER
        /\ \A q \in Producers : Begun[q] \in 0 .. ITEMS_PER_PRODUCER
        /\ DOMAIN Begun = Producers
    BY Constants DEF LocalTypes, LoopsCount, Begun
  <1>3. Tokens(Begun) \in SUBSET All /\ Tokens(Begun) # All
    <2>1. <<p, ITEMS_PER_PRODUCER - 1>> \in All
      BY Constants
    <2>2. <<p, ITEMS_PER_PRODUCER - 1>> \notin Tokens(Begun)
      BY <1>2, Constants DEF Tokens
    <2>3. Tokens(Begun) \subseteq All
      BY <1>2, Constants DEF Tokens
    <2> QED BY <2>1, <2>2, <2>3
  <1> HIDE DEF All
  <1>4. /\ Cardinality(Tokens(Begun)) <= Cardinality(All)
        /\ Cardinality(Tokens(Begun)) # Cardinality(All)
        /\ Cardinality(Tokens(Begun)) \in Nat
    BY <1>1, <1>3, FS_Subset, FS_CardinalityType DEF PoolCount
  <1> QED BY <1>1, <1>4, Constants DEF PoolCount, SumOf

Control ==
    /\ TypeOK /\ LoopsCount /\ DoneAfterProducers
    /\ \A p \in Writing : node[p] \in Nodes
    /\ \A c \in Reading : old[c] \in Nodes

LEMMA ControlInit == Init => Control
  <1> SUFFICES ASSUME Init PROVE Control
    OBVIOUS
  <1> USE Constants DEF Init
  <1>1. TypeOK
    <2>1. pc \in [Threads -> ProducerLabels \cup ConsumerLabels \cup MainLabels]
      BY DEF ProducerLabels, ConsumerLabels, MainLabels
    <2>2. /\ \A p \in Producers : pc[p] \in ProducerLabels
          /\ \A c \in Consumers : pc[c] \in ConsumerLabels
          /\ pc[Main] \in MainLabels
      BY DEF ProducerLabels, ConsumerLabels, MainLabels
    <2>3. spurious \in 0 .. MaxSpurious
      BY StackAssumption
    <2> QED BY <2>1, <2>2, <2>3 DEF TypeOK
  <1>2. LoopsCount /\ DoneAfterProducers
    BY DEF LoopsCount, DoneAfterProducers
  <1>3. Writing = {} /\ Reading = {}
    BY DEF Writing, Reading
  <1> QED BY <1>1, <1>2, <1>3 DEF Control

\* A pop whose compare-exchange succeeds finds the stack not empty.
LEMMA PopFromNonempty ==
    ASSUME Control, ChainIsStack, NEW c \in Consumers, PopCas(c)
    PROVE  stack # <<>> /\ stack \in Seq(Nodes) /\ stack[1] = old[c] /\ top = old[c]
  <1>1. old[c] \in Nodes /\ top = old[c] /\ stack \in Seq(Nodes)
    BY DEF Control, TypeOK, Reading, PopCas
  <1>2. At(1) # NULL /\ At(1) = old[c]
    BY <1>1, Constants DEF ChainIsStack
  <1> QED BY <1>1, <1>2 DEF At

LEMMA ControlStep == Control /\ PoolCount /\ ChainIsStack /\ [Next]_vars => Control'
  <1> SUFFICES ASSUME Control, PoolCount, ChainIsStack, [Next]_vars PROVE Control'
    OBVIOUS
  <1> USE Constants DEF Control, TypeOK, LoopsCount, DoneAfterProducers, Writing,
          Reading, GoTo, producerVars, consumerVars, mainVars
  <1>1. ASSUME NEW p \in Producers, PoolAlloc(p) PROVE Control'
    <2>1. pool_idx < NUM_PRODUCERS * ITEMS_PER_PRODUCER
      BY <1>1, PoolRoom DEF PoolAlloc, LocalTypes
    <2>2. pool_idx \in Nodes /\ Item(p, i[p]) \in Nat
      BY <2>1 DEF Nodes, Item
    <2> QED
      <3>1. /\ node' = [node EXCEPT ![p] = pool_idx]
            /\ val' = [val EXCEPT ![pool_idx] = Item(p, i[p])]
            /\ pool_idx' = pool_idx + 1
        BY <1>1 DEF PoolAlloc
      <3>2. TypeOK'
        <4>1. /\ pc' \in [Threads -> ProducerLabels \cup ConsumerLabels \cup MainLabels]
              /\ \A q \in Producers : pc'[q] \in ProducerLabels
              /\ \A c \in Consumers : pc'[c] \in ConsumerLabels
              /\ pc'[Main] \in MainLabels
          BY <1>1 DEF PoolAlloc, ProducerLabels, ConsumerLabels, MainLabels
        <4>2. /\ node' \in [Producers -> Nodes \cup {NULL}]
              /\ val' \in [Nodes -> Nat]
              /\ pool_idx' \in 0 .. NUM_PRODUCERS * ITEMS_PER_PRODUCER
          BY <2>1, <2>2, <3>1
        <4> QED BY <1>1, <4>1, <4>2 DEF PoolAlloc
      <3>3. LoopsCount' /\ DoneAfterProducers'
        BY <1>1 DEF PoolAlloc
      <3>4. \A q \in Writing' : node'[q] \in Nodes
        BY <1>1, <2>2, <3>1 DEF PoolAlloc
      <3>5. \A c \in Reading' : old'[c] \in Nodes
        BY <1>1, <3>1 DEF PoolAlloc
      <3> QED BY <3>2, <3>3, <3>4, <3>5
  <1>2. ASSUME NEW p \in Producers, PushLoad(p) PROVE Control'
    <2>1. TypeOK'
      <3>1. /\ pc' \in [Threads -> ProducerLabels \cup ConsumerLabels \cup MainLabels]
            /\ \A q \in Producers : pc'[q] \in ProducerLabels
            /\ \A c \in Consumers : pc'[c] \in ConsumerLabels
            /\ pc'[Main] \in MainLabels
        BY <1>2 DEF PushLoad, ProducerLabels, ConsumerLabels, MainLabels
      <3>2. /\ old' \in [Producers \cup Consumers -> Nodes \cup {NULL}]
            /\ next' \in [Nodes -> Nodes \cup {NULL}]
        BY <1>2 DEF PushLoad
      <3> QED BY <1>2, <3>1, <3>2 DEF PushLoad
    <2>2. LoopsCount' /\ DoneAfterProducers'
      BY <1>2 DEF PushLoad, ProducerLabels
    <2>3. \A q \in Writing' : node'[q] \in Nodes
      BY <1>2 DEF PushLoad
    <2>4. \A d \in Reading' : old'[d] \in Nodes
      BY <1>2 DEF PushLoad
    <2> QED BY <2>1, <2>2, <2>3, <2>4
  <1>3. ASSUME NEW p \in Producers, PushCas(p) PROVE Control'
    <2>0. <<node[p]>> \o stack \in Seq(Nodes)
      BY <1>3 DEF PushCas
    <2>1. TypeOK'
      BY <1>3, <2>0 DEF PushCas, ProducerLabels, ConsumerLabels, MainLabels
    <2>2. LoopsCount' /\ DoneAfterProducers'
      BY <1>3 DEF PushCas, ProducerLabels
    <2>3. \A q \in Writing' : node'[q] \in Nodes
      BY <1>3 DEF PushCas
    <2>4. \A d \in Reading' : old'[d] \in Nodes
      BY <1>3 DEF PushCas
    <2> QED BY <2>1, <2>2, <2>3, <2>4
  <1>4. ASSUME NEW p \in Producers, PushCount(p) PROVE Control'
    BY <1>4 DEF PushCount, ProducerLabels, ConsumerLabels, MainLabels
  <1>5. ASSUME NEW t \in Producers \cup Consumers, CasFails(t) PROVE Control'
    <2>0. spurious' \in 0 .. MaxSpurious
      BY <1>5, StackAssumption DEF CasFails
    <2>01. /\ pc' \in [Threads -> ProducerLabels \cup ConsumerLabels \cup MainLabels]
           /\ \A p \in Producers : pc'[p] \in ProducerLabels
           /\ \A c \in Consumers : pc'[c] \in ConsumerLabels
           /\ pc'[Main] \in MainLabels
      BY <1>5 DEF CasFails, ProducerLabels, ConsumerLabels
    <2>1. TypeOK'
      BY <1>5, <2>0, <2>01 DEF CasFails
    <2>2. LoopsCount' /\ DoneAfterProducers'
      BY <1>5 DEF CasFails, ProducerLabels
    <2>3. \A q \in Writing' : node'[q] \in Nodes
      BY <1>5 DEF CasFails
    <2>4. \A d \in Reading' : old'[d] \in Nodes
      BY <1>5 DEF CasFails
    <2> QED BY <2>1, <2>2, <2>3, <2>4
  <1>6. ASSUME NEW c \in Consumers, PopLoad(c) PROVE Control'
    BY <1>6 DEF PopLoad, ProducerLabels, ConsumerLabels, MainLabels
  <1>7. ASSUME NEW c \in Consumers, PopNext(c) PROVE Control'
    <2>1. TypeOK'
      BY <1>7 DEF PopNext, ProducerLabels, ConsumerLabels, MainLabels
    <2>2. LoopsCount' /\ DoneAfterProducers'
      BY <1>7 DEF PopNext, ProducerLabels
    <2>3. \A q \in Writing' : node'[q] \in Nodes
      BY <1>7 DEF PopNext
    <2>4. \A d \in Reading' : old'[d] \in Nodes
      BY <1>7 DEF PopNext
    <2> QED BY <2>1, <2>2, <2>3, <2>4
  <1>8. ASSUME NEW c \in Consumers, PopCas(c) PROVE Control'
    <2>0. Tail(stack) \in Seq(Nodes)
      BY <1>8, PopFromNonempty
    <2>1. TypeOK'
      BY <1>8, <2>0 DEF PopCas, ProducerLabels, ConsumerLabels, MainLabels
    <2>2. LoopsCount' /\ DoneAfterProducers'
      BY <1>8 DEF PopCas, ProducerLabels
    <2>3. \A q \in Writing' : node'[q] \in Nodes
      BY <1>8 DEF PopCas
    <2>4. \A d \in Reading' : old'[d] \in Nodes
      BY <1>8 DEF PopCas
    <2> QED BY <2>1, <2>2, <2>3, <2>4
  <1>9. ASSUME NEW c \in Consumers, PopCount(c) PROVE Control'
    <2>1. TypeOK'
      BY <1>9 DEF PopCount, ProducerLabels, ConsumerLabels, MainLabels
    <2>2. LoopsCount' /\ DoneAfterProducers'
      BY <1>9 DEF PopCount, ProducerLabels
    <2>3. \A q \in Writing' : node'[q] \in Nodes
      BY <1>9 DEF PopCount
    <2>4. \A d \in Reading' : old'[d] \in Nodes
      BY <1>9 DEF PopCount
    <2> QED BY <2>1, <2>2, <2>3, <2>4
  <1>10. ASSUME NEW c \in Consumers, CheckDone(c) PROVE Control'
    BY <1>10 DEF CheckDone, ProducerLabels, ConsumerLabels, MainLabels
  <1>11. CASE MainJoinProducers
    BY <1>11 DEF MainJoinProducers, ProducerLabels, ConsumerLabels, MainLabels
  <1>12. CASE MainSetDone
    BY <1>12 DEF MainSetDone, ProducerLabels, ConsumerLabels, MainLabels
  <1>13. ASSUME NEW c \in Consumers, MainJoinConsumer(c) PROVE Control'
    BY <1>13 DEF MainJoinConsumer
  <1>14. CASE MainReport
    BY <1>14 DEF MainReport, ProducerLabels, ConsumerLabels, MainLabels
  <1>15. CASE UNCHANGED vars
    BY <1>15 DEF vars
  <1> QED
    BY <1>1, <1>2, <1>3, <1>4, <1>5, <1>6, <1>7, <1>8, <1>9, <1>10, <1>11,
       <1>12, <1>13, <1>14, <1>15
       DEF Next, Producer, Consumer, MainThread, Terminated

(***************************************************************************)
(* Sums.  A sum grows by one when one value of the function does.          *)
(***************************************************************************)
LEMMA SumOfZeros ==
    ASSUME NEW f, \A x \in DOMAIN f : f[x] = 0
    PROVE  IsFiniteSet(Tokens(f)) /\ SumOf(f) = 0
  <1>1. Tokens(f) = {}
    BY DEF Tokens
  <1> QED BY <1>1, FS_EmptySet DEF SumOf

LEMMA SumIncrement ==
    ASSUME NEW S, NEW f \in [S -> Nat], NEW x \in S, IsFiniteSet(Tokens(f)),
           NEW g, g = [f EXCEPT ![x] = @ + 1]
    PROVE  /\ IsFiniteSet(Tokens(g))
           /\ SumOf(g) = SumOf(f) + 1
           /\ SumOf(f) \in Nat
  <1>1. Tokens(g) = Tokens(f) \cup {<<x, f[x]>>} /\ <<x, f[x]>> \notin Tokens(f)
    BY DEF Tokens
  <1>2. /\ IsFiniteSet(Tokens(g))
        /\ Cardinality(Tokens(g)) = Cardinality(Tokens(f)) + 1
    <2> DEFINE T == Tokens(f)
               e == <<x, f[x]>>
    <2>1. IsFiniteSet(T) /\ e \notin T /\ Tokens(g) = T \cup {e}
      BY <1>1
    <2> HIDE DEF T, e
    <2>2. IsFiniteSet(T \cup {e}) /\ Cardinality(T \cup {e}) = Cardinality(T) + 1
      BY <2>1, FS_AddElement
    <2> QED BY <2>1, <2>2 DEF T
  <1> QED BY <1>2, FS_CardinalityType DEF SumOf

\* A sum over one argument more.
LEMMA SumExtension ==
    ASSUME NEW f, NEW g, NEW x, x \notin DOMAIN f, DOMAIN g = DOMAIN f \cup {x},
           \A y \in DOMAIN f : g[y] = f[y],
           g[x] \in Nat, IsFiniteSet(Tokens(f))
    PROVE  IsFiniteSet(Tokens(g)) /\ SumOf(g) = SumOf(f) + g[x]
  <1> DEFINE Before == Tokens(f)
             Brought == {x} \X (0 .. g[x] - 1)
  <1>1. Tokens(g) \subseteq Before \cup Brought
    BY DEF Tokens
  <1>2. Before \subseteq Tokens(g)
    BY DEF Tokens
  <1>3. Brought \subseteq Tokens(g)
    BY DEF Tokens
  <1>4. Before \cap Brought = {}
    BY DEF Tokens
  <1>5. IsFiniteSet(Brought) /\ Cardinality(Brought) = g[x]
    <2> DEFINE Numbers == 0 .. g[x] - 1
    <2>1. IsFiniteSet(Numbers) /\ Cardinality(Numbers) = g[x]
      BY Intervals
    <2>2. IsFiniteSet({x}) /\ Cardinality({x}) = 1
      BY FS_Singleton
    <2> HIDE DEF Numbers
    <2>3. /\ IsFiniteSet({x} \X Numbers)
          /\ Cardinality({x} \X Numbers) = Cardinality({x}) * Cardinality(Numbers)
      BY <2>1, <2>2, FS_Product
    <2>4. Cardinality({x} \X Numbers) = g[x]
      BY <2>1, <2>2, <2>3
    <2> QED BY <2>3, <2>4 DEF Numbers
  <1>6. IsFiniteSet(Before) /\ Cardinality(Before) \in Nat
    BY FS_CardinalityType
  <1>7. Cardinality(Before \cap Brought) = 0
    BY <1>4, FS_EmptySet
  <1>8. Tokens(g) = Before \cup Brought
    BY <1>1, <1>2, <1>3
  <1> HIDE DEF Before, Brought
  <1>9. /\ IsFiniteSet(Before \cup Brought)
        /\ Cardinality(Before \cup Brought)
             = Cardinality(Before) + Cardinality(Brought)
               - Cardinality(Before \cap Brought)
    BY <1>5, <1>6, FS_Union
  <1> QED BY <1>5, <1>6, <1>7, <1>8, <1>9 DEF SumOf, Before

LEMMA CountTypes ==
    ASSUME Control
    PROVE  /\ Begun \in [Producers -> Nat] /\ Pushed \in [Producers -> Nat]
           /\ Popped \in [Consumers -> Nat]
           /\ i \in [Producers -> Nat] /\ consumed \in [Consumers -> Nat]
  BY Constants DEF Control, TypeOK, Begun, Pushed, Popped

\* What a step does to the numbers of items begun, pushed and popped: only
\* pool_alloc and the two successful compare-exchanges change one of them,
\* each by one and for the thread that takes the step.
LEMMA CountStep ==
    ASSUME Control, [Next]_vars
    PROVE  \/ UNCHANGED <<pool_idx, stack, Begun, Pushed, Popped>>
           \/ \E p \in Producers :
                 /\ PoolAlloc(p) /\ Begun' = [Begun EXCEPT ![p] = @ + 1]
                 /\ UNCHANGED <<stack, Pushed, Popped>>
           \/ \E p \in Producers :
                 /\ PushCas(p) /\ Pushed' = [Pushed EXCEPT ![p] = @ + 1]
                 /\ UNCHANGED <<pool_idx, Begun, Popped>>
           \/ \E c \in Consumers :
                 /\ PopCas(c) /\ Popped' = [Popped EXCEPT ![c] = @ + 1]
                 /\ UNCHANGED <<pool_idx, Begun, Pushed>>
  <1> USE Constants DEF GoTo, producerVars, consumerVars, mainVars
  <1>0. /\ pc \in [Threads -> ProducerLabels \cup ConsumerLabels \cup MainLabels]
        /\ i \in [Producers -> Nat] /\ consumed \in [Consumers -> Nat]
    BY DEF Control, TypeOK
  <1> DEFINE Same == UNCHANGED <<pool_idx, stack, Begun, Pushed, Popped>>
             b(q) == i[q] + (IF pc[q] \in {"load", "cas", "count"} THEN 1 ELSE 0)
             u(q) == i[q] + (IF pc[q] = "count" THEN 1 ELSE 0)
             o(d) == consumed[d] + (IF pc[d] = "count" THEN 1 ELSE 0)
  <1>00. /\ Begun = [q \in Producers |-> b(q)] /\ Begun' = [q \in Producers |-> b(q)']
         /\ Pushed = [q \in Producers |-> u(q)] /\ Pushed' = [q \in Producers |-> u(q)']
         /\ Popped = [d \in Consumers |-> o(d)] /\ Popped' = [d \in Consumers |-> o(d)']
    BY DEF Begun, Pushed, Popped
  <1>1. ASSUME NEW p \in Producers, PoolAlloc(p)
        PROVE  /\ Begun' = [Begun EXCEPT ![p] = @ + 1]
               /\ UNCHANGED <<stack, Pushed, Popped>>
    <2>1. /\ \A q \in Producers : b(q)' = (IF q = p THEN b(q) + 1 ELSE b(q))
          /\ \A q \in Producers : u(q)' = u(q)
          /\ \A d \in Consumers : o(d)' = o(d)
          /\ stack' = stack
      BY <1>0, <1>1 DEF PoolAlloc
    <2> HIDE DEF b, u, o
    <2> QED BY <1>00, <2>1
  <1>2. ASSUME NEW p \in Producers, PushCas(p)
        PROVE  /\ Pushed' = [Pushed EXCEPT ![p] = @ + 1]
               /\ UNCHANGED <<pool_idx, Begun, Popped>>
    <2>1. /\ \A q \in Producers : b(q)' = b(q)
          /\ \A q \in Producers : u(q)' = (IF q = p THEN u(q) + 1 ELSE u(q))
          /\ \A d \in Consumers : o(d)' = o(d)
          /\ pool_idx' = pool_idx
      BY <1>0, <1>2 DEF PushCas
    <2> HIDE DEF b, u, o
    <2> QED BY <1>00, <2>1
  <1>3. ASSUME NEW c \in Consumers, PopCas(c)
        PROVE  /\ Popped' = [Popped EXCEPT ![c] = @ + 1]
               /\ UNCHANGED <<pool_idx, Begun, Pushed>>
    <2>1. /\ \A q \in Producers : b(q)' = b(q)
          /\ \A q \in Producers : u(q)' = u(q)
          /\ \A d \in Consumers : o(d)' = (IF d = c THEN o(d) + 1 ELSE o(d))
          /\ pool_idx' = pool_idx
      BY <1>0, <1>3 DEF PopCas
    <2> HIDE DEF b, u, o
    <2> QED BY <1>00, <2>1
  <1>4. ASSUME UNCHANGED <<pool_idx, stack>>,
               \A q \in Producers : b(q)' = b(q) /\ u(q)' = u(q),
               \A d \in Consumers : o(d)' = o(d)
        PROVE  Same
    <2> HIDE DEF b, u, o
    <2> QED BY <1>00, <1>4
  <1>5. ASSUME NEW p \in Producers, PushLoad(p) \/ PushCount(p) PROVE Same
    <2>1. CASE PushLoad(p)
      BY <1>0, <1>4, <2>1 DEF PushLoad
    <2>2. CASE PushCount(p)
      <3>1. \A q \in Producers : b(q)' = b(q) /\ u(q)' = u(q)
        BY <1>0, <2>2 DEF PushCount
      <3>2. UNCHANGED <<pool_idx, stack>> /\ \A d \in Consumers : o(d)' = o(d)
        BY <1>0, <2>2 DEF PushCount
      <3> QED BY <1>4, <3>1, <3>2
    <2> QED BY <1>5, <2>1, <2>2
  <1>6. ASSUME NEW t \in Producers \cup Consumers, CasFails(t) PROVE Same
    BY <1>0, <1>4, <1>6 DEF CasFails
  <1>7. ASSUME NEW c \in Consumers,
               PopLoad(c) \/ PopNext(c) \/ PopCount(c) \/ CheckDone(c)
        PROVE  Same
    <2>1. UNCHANGED <<pool_idx, stack>>
      BY <1>7 DEF PopLoad, PopNext, PopCount, CheckDone
    <2>2. \A q \in Producers : b(q)' = b(q) /\ u(q)' = u(q)
      BY <1>0, <1>7 DEF PopLoad, PopNext, PopCount, CheckDone
    <2>3. \A d \in Consumers : o(d)' = o(d)
      <3>1. CASE PopLoad(c)
        BY <1>0, <3>1 DEF PopLoad
      <3>2. CASE PopNext(c)
        BY <1>0, <3>2 DEF PopNext
      <3>3. CASE PopCount(c)
        BY <1>0, <3>3 DEF PopCount
      <3>4. CASE CheckDone(c)
        BY <1>0, <3>4 DEF CheckDone
      <3> QED BY <1>7, <3>1, <3>2, <3>3, <3>4
    <2> QED BY <1>4, <2>1, <2>2, <2>3
  <1>8. CASE MainThread
    <2>1. Same
      BY <1>0, <1>4, <1>8
         DEF MainThread, MainJoinProducers, MainSetDone, MainJoinConsumer, MainReport
    <2> QED BY <2>1
  <1>9. CASE UNCHANGED vars
    <2>1. Same
      BY <1>4, <1>9 DEF vars
    <2> QED BY <2>1
  <1> QED
    BY <1>1, <1>2, <1>3, <1>5, <1>6, <1>7, <1>8, <1>9
       DEF Next, Producer, Consumer, Terminated

LEMMA PoolCountInit == Init => PoolCount
  <1> SUFFICES ASSUME Init PROVE PoolCount
    OBVIOUS
  <1>1. \A p \in DOMAIN Begun : Begun[p] = 0
    BY Constants DEF Init, Begun
  <1>2. pool_idx = 0
    BY DEF Init
  <1> QED BY <1>1, <1>2, SumOfZeros DEF PoolCount

LEMMA PoolCountStep == Control /\ PoolCount /\ [Next]_vars => PoolCount'
  <1> SUFFICES ASSUME Control, PoolCount, [Next]_vars PROVE PoolCount'
    OBVIOUS
  <1>1. ASSUME UNCHANGED <<pool_idx, Begun>> PROVE PoolCount'
    BY <1>1 DEF PoolCount, SumOf, Tokens
  <1>2. ASSUME NEW p \in Producers, PoolAlloc(p), Begun' = [Begun EXCEPT ![p] = @ + 1]
        PROVE  PoolCount'
    <2>1. Begun \in [Producers -> Nat]
      BY CountTypes
    <2>2. IsFiniteSet(Tokens(Begun')) /\ SumOf(Begun') = SumOf(Begun) + 1
      BY <1>2, <2>1, SumIncrement, Zenon DEF PoolCount
    <2>3. pool_idx' = pool_idx + 1
      BY <1>2 DEF PoolAlloc
    <2> QED BY <2>2, <2>3 DEF PoolCount, SumOf, Tokens
  <1> QED BY <1>1, <1>2, CountStep

(***************************************************************************)
(* The pointers.  A push puts a node in front, a pop takes the first one   *)
(* away, and no step writes to a node that another thread can see.         *)
(***************************************************************************)
LEMMA PushedSequence ==
    ASSUME NEW s \in Seq(Nodes), NEW n \in Nodes
    PROVE  /\ Len(<<n>> \o s) = Len(s) + 1 /\ Len(s) \in Nat
           /\ (<<n>> \o s)[1] = n
           /\ \A k \in 1 .. Len(s) : (<<n>> \o s)[k + 1] = s[k]
  OBVIOUS

LEMMA PoppedSequence ==
    ASSUME NEW s \in Seq(Nodes), s # <<>>
    PROVE  /\ Len(Tail(s)) = Len(s) - 1 /\ Len(s) \in Nat \ {0}
           /\ \A k \in 1 .. Len(s) - 1 : Tail(s)[k] = s[k + 1]
  OBVIOUS

Heap == ChainIsStack /\ PrivateNodes /\ LocalsCurrent

LEMMA HeapInit == Init => Heap
  <1> SUFFICES ASSUME Init PROVE Heap
    OBVIOUS
  <1>1. stack = <<>> /\ top = NULL
    BY DEF Init
  <1>2. OnStack = {}
    BY <1>1 DEF OnStack
  <1>3. Writing = {} /\ Reading = {}
    BY Constants DEF Init, Writing, Reading
  <1> QED
    BY <1>1, <1>2, <1>3 DEF Heap, ChainIsStack, At, PrivateNodes, LocalsCurrent

LEMMA HeapStep ==
    Control /\ Control' /\ Heap /\ [Next]_vars => Heap'
  <1> SUFFICES ASSUME Control, Control', Heap, [Next]_vars PROVE Heap'
    OBVIOUS
  <1> USE Constants DEF GoTo, producerVars, consumerVars, mainVars
  <1>0. /\ stack \in Seq(Nodes) /\ Len(stack) \in Nat
        /\ next \in [Nodes -> Nodes \cup {NULL}] /\ val \in [Nodes -> Nat]
        /\ node \in [Producers -> Nodes \cup {NULL}]
        /\ old \in [Producers \cup Consumers -> Nodes \cup {NULL}]
        /\ nxt \in [Consumers -> Nodes \cup {NULL}]
        /\ pc \in [Threads -> ProducerLabels \cup ConsumerLabels \cup MainLabels]
        /\ i \in [Producers -> 0 .. ITEMS_PER_PRODUCER]
        /\ pool_idx \in Nat
        /\ \A p \in Writing : node[p] \in Nodes
        /\ \A c \in Reading : old[c] \in Nodes
        /\ OnStack \subseteq Nodes
        /\ Writing \subseteq Producers /\ Reading \subseteq Consumers
    <2>1. /\ stack \in Seq(Nodes) /\ pool_idx \in 0 .. NUM_PRODUCERS * ITEMS_PER_PRODUCER
          /\ next \in [Nodes -> Nodes \cup {NULL}] /\ val \in [Nodes -> Nat]
          /\ node \in [Producers -> Nodes \cup {NULL}]
          /\ old \in [Producers \cup Consumers -> Nodes \cup {NULL}]
          /\ nxt \in [Consumers -> Nodes \cup {NULL}]
          /\ pc \in [Threads -> ProducerLabels \cup ConsumerLabels \cup MainLabels]
          /\ i \in [Producers -> 0 .. ITEMS_PER_PRODUCER]
      BY DEF Control, TypeOK
    <2>2. Len(stack) \in Nat /\ OnStack \subseteq Nodes
      BY <2>1 DEF OnStack
    <2>3. pool_idx \in Nat
      BY <2>1
    <2>4. /\ \A p \in Writing : node[p] \in Nodes
          /\ \A c \in Reading : old[c] \in Nodes
      BY DEF Control
    <2>5. Writing \subseteq Producers /\ Reading \subseteq Consumers
      BY DEF Writing, Reading
    <2> QED BY <2>1, <2>2, <2>3, <2>4, <2>5
  <1>1. ASSUME NEW p \in Producers, PoolAlloc(p) PROVE Heap'
    <2>1. /\ node' = [node EXCEPT ![p] = pool_idx]
          /\ val' = [val EXCEPT ![pool_idx] = Item(p, i[p])]
          /\ pool_idx' = pool_idx + 1
          /\ UNCHANGED <<top, next, old, nxt, stack, i>>
          /\ Writing' = Writing \cup {p} /\ p \notin Writing
          /\ Reading' = Reading
          /\ pc' = [pc EXCEPT ![p] = "load"]
      BY <1>0, <1>1 DEF PoolAlloc, Writing, Reading
    <2>2. pool_idx \notin Allocated /\ Allocated \subseteq Allocated' /\ pool_idx \in Allocated'
      BY <1>0, <2>1 DEF Allocated
    <2>3. ChainIsStack'
      BY <2>1 DEF Heap, ChainIsStack, At
    <2>4. PrivateNodes'
      BY <1>0, <2>1, <2>2 DEF Heap, PrivateNodes, LocalsCurrent, OnStack
    <2>5. pool_idx \in Nodes
      BY <1>0, <2>1 DEF Control
    <2>6. LocalsCurrent'
      <3>1. OnStack' \subseteq Allocated'
        BY <2>1, <2>2 DEF Heap, LocalsCurrent, OnStack
      <3>2. ASSUME NEW q \in Writing'
            PROVE  /\ node'[q] \in Allocated' /\ val'[node'[q]] = Item(q, i'[q])
                   /\ pc'[q] = "cas" => next'[node'[q]] = old'[q]
        <4>1. CASE q = p
          <5>1. node'[q] = pool_idx /\ val'[node'[q]] = Item(q, i'[q]) /\ pc'[q] # "cas"
            BY <1>0, <2>1, <2>5, <4>1
          <5> QED BY <2>2, <5>1
        <4>2. CASE q # p
          <5>1. q \in Writing /\ node'[q] = node[q] /\ pc'[q] = pc[q]
            BY <1>0, <2>1, <4>2
          <5>2. node[q] \in Allocated /\ node[q] # pool_idx /\ node[q] \in Nodes
            BY <1>0, <2>2, <5>1 DEF Heap, LocalsCurrent
          <5>3. val'[node[q]] = val[node[q]] /\ val[node[q]] = Item(q, i[q])
            BY <1>0, <2>1, <5>1, <5>2 DEF Heap, LocalsCurrent
          <5> QED BY <2>1, <2>2, <5>1, <5>2, <5>3 DEF Heap, LocalsCurrent
        <4> QED BY <4>1, <4>2
      <3>3. ASSUME NEW c \in Reading'
            PROVE  /\ old'[c] \in Allocated'
                   /\ pc'[c] = "cas" => nxt'[c] = next'[old'[c]]
        BY <1>0, <2>1, <2>2 DEF Heap, LocalsCurrent
      <3> QED BY <3>1, <3>2, <3>3 DEF LocalsCurrent
    <2> QED BY <2>3, <2>4, <2>6 DEF Heap
  <1>2. ASSUME NEW p \in Producers, PushLoad(p) PROVE Heap'
    <2>1. /\ old' = [old EXCEPT ![p] = top]
          /\ next' = [next EXCEPT ![node[p]] = top]
          /\ UNCHANGED <<top, node, val, pool_idx, nxt, stack, i>>
          /\ Writing' = Writing /\ p \in Writing /\ Reading' = Reading
          /\ pc' = [pc EXCEPT ![p] = "cas"]
      BY <1>0, <1>2 DEF PushLoad, Writing, Reading
    <2>2. \A n \in Nodes : n # node[p] => next'[n] = next[n]
      BY <1>0, <2>1
    <2>3. \A k \in 1 .. Len(stack) : stack[k] # node[p] /\ stack[k] \in Nodes
      BY <1>0, <2>1 DEF Heap, PrivateNodes, OnStack
    <2>4. ChainIsStack'
      BY <2>1, <2>2, <2>3 DEF Heap, ChainIsStack, At
    <2>5. PrivateNodes'
      BY <1>0, <2>1 DEF Heap, PrivateNodes, OnStack
    <2>6. LocalsCurrent'
      <3>1. OnStack' \subseteq Allocated' /\ Allocated' = Allocated
        BY <2>1 DEF Heap, LocalsCurrent, OnStack, Allocated
      <3>2. ASSUME NEW q \in Writing'
            PROVE  /\ node'[q] \in Allocated' /\ val'[node'[q]] = Item(q, i'[q])
                   /\ pc'[q] = "cas" => next'[node'[q]] = old'[q]
        BY <1>0, <2>1, <2>2, <3>1 DEF Heap, LocalsCurrent, PrivateNodes
      <3>3. ASSUME NEW c \in Reading'
            PROVE  /\ old'[c] \in Allocated'
                   /\ pc'[c] = "cas" => nxt'[c] = next'[old'[c]]
        BY <1>0, <2>1, <2>2, <3>1 DEF Heap, LocalsCurrent, PrivateNodes
      <3> QED BY <3>1, <3>2, <3>3 DEF LocalsCurrent
    <2> QED BY <2>4, <2>5, <2>6 DEF Heap
  <1>3. ASSUME NEW p \in Producers, PushCas(p) PROVE Heap'
    <2>1. /\ top' = node[p] /\ top = old[p] /\ stack' = <<node[p]>> \o stack
          /\ UNCHANGED <<next, val, node, pool_idx, nxt, old, i>>
          /\ Writing' = Writing \ {p} /\ p \in Writing /\ Reading' = Reading
          /\ pc[p] = "cas" /\ \A t \in Threads \ {p} : pc'[t] = pc[t]
      BY <1>0, <1>3 DEF PushCas, Writing, Reading
    <2>2. /\ Len(stack') = Len(stack) + 1 /\ stack'[1] = node[p]
          /\ \A k \in 1 .. Len(stack) : stack'[k + 1] = stack[k]
      BY <1>0, <2>1, PushedSequence
    <2>3. OnStack' = OnStack \cup {node[p]}
      <3>1. ASSUME NEW k \in 1 .. Len(stack') PROVE stack'[k] \in OnStack \cup {node[p]}
        <4>1. CASE k = 1
          BY <2>2, <4>1
        <4>2. CASE k # 1
          <5>1. k - 1 \in 1 .. Len(stack) /\ (k - 1) + 1 = k
            BY <1>0, <2>2, <4>2
          <5>2. stack'[k] = stack[k - 1]
            BY <2>2, <5>1
          <5> QED BY <5>1, <5>2 DEF OnStack
        <4> QED BY <4>1, <4>2
      <3>2. ASSUME NEW k \in 1 .. Len(stack) PROVE stack[k] \in OnStack'
        <4>1. k + 1 \in 1 .. Len(stack') /\ stack'[k + 1] = stack[k]
          BY <1>0, <2>2
        <4> QED BY <4>1 DEF OnStack
      <3>3. 1 \in 1 .. Len(stack') /\ stack'[1] = node[p]
        BY <1>0, <2>2
      <3>4. node[p] \in OnStack'
        BY <3>3 DEF OnStack
      <3> QED BY <3>1, <3>2, <3>4 DEF OnStack
    <2>4. node[p] \notin OnStack /\ next[node[p]] = At(1) /\ node[p] \in Allocated
      BY <2>1 DEF Heap, PrivateNodes, LocalsCurrent, ChainIsStack
    <2>5. At(1)' = node[p] /\ \A k \in 1 .. Len(stack) + 1 : At(k + 1)' = At(k)
      BY <1>0, <2>2 DEF At
    <2>6. ChainIsStack'
      <3>1. ASSUME NEW k \in 1 .. Len(stack') PROVE next'[stack'[k]] = At(k + 1)'
        <4>1. CASE k = 1
          BY <1>0, <2>1, <2>2, <2>4, <2>5, <4>1
        <4>2. CASE k # 1
          <5>1. k - 1 \in 1 .. Len(stack) /\ (k - 1) + 1 = k
            BY <1>0, <2>2, <4>2
          <5>2. stack'[k] = stack[k - 1] /\ next[stack[k - 1]] = At(k)
            BY <2>2, <5>1 DEF Heap, ChainIsStack
          <5>3. At(k + 1)' = At(k)
            BY <2>2, <2>5
          <5> QED BY <2>1, <5>2, <5>3
        <4> QED BY <4>1, <4>2
      <3>2. ASSUME NEW k \in 1 .. Len(stack'), NEW l \in 1 .. Len(stack'),
                   stack'[k] = stack'[l]
            PROVE  k = l
        <4>1. \A m \in 1 .. Len(stack') : m # 1 =>
                m - 1 \in 1 .. Len(stack) /\ stack'[m] = stack[m - 1]
          BY <1>0, <2>2
        <4>2. \A m \in 1 .. Len(stack) : stack[m] # node[p]
          BY <2>4 DEF OnStack
        <4>3. CASE k = 1 \/ l = 1
          BY <2>2, <3>2, <4>1, <4>2, <4>3
        <4>4. CASE k # 1 /\ l # 1
          <5>0. \A m, n \in 1 .. Len(stack) : stack[m] = stack[n] => m = n
            BY DEF Heap, ChainIsStack
          <5>1. k - 1 = l - 1
            BY <3>2, <4>1, <4>4, <5>0
          <5> QED BY <1>0, <2>2, <5>1
        <4> QED BY <4>3, <4>4
      <3> QED BY <2>1, <2>5, <3>1, <3>2 DEF ChainIsStack
    <2>7. PrivateNodes'
      BY <1>0, <2>1, <2>3 DEF Heap, PrivateNodes
    <2>8. LocalsCurrent'
      <3>1. Allocated' = Allocated /\ OnStack' \subseteq Allocated
        BY <2>1, <2>3, <2>4 DEF Heap, LocalsCurrent, Allocated
      <3>2. ASSUME NEW q \in Writing'
            PROVE  /\ node'[q] \in Allocated' /\ val'[node'[q]] = Item(q, i'[q])
                   /\ pc'[q] = "cas" => next'[node'[q]] = old'[q]
        <4>1. q \in Writing /\ pc'[q] = pc[q]
          BY <1>0, <2>1, Constants
        <4> QED BY <2>1, <3>1, <4>1 DEF Heap, LocalsCurrent
      <3>3. ASSUME NEW c \in Reading'
            PROVE  /\ old'[c] \in Allocated'
                   /\ pc'[c] = "cas" => nxt'[c] = next'[old'[c]]
        <4>1. c \in Reading /\ pc'[c] = pc[c]
          BY <1>0, <2>1, Constants
        <4> QED BY <2>1, <3>1, <4>1 DEF Heap, LocalsCurrent
      <3> QED BY <3>1, <3>2, <3>3 DEF LocalsCurrent
    <2> QED BY <2>6, <2>7, <2>8 DEF Heap
  <1>4. ASSUME UNCHANGED <<top, next, val, node, pool_idx, nxt, old, i, stack>>,
               Writing' = Writing, Reading' \subseteq Reading,
               \A t \in Writing' \cup Reading' : pc'[t] = "cas" => pc[t] = "cas"
        PROVE  Heap'
    <2>1. ChainIsStack'
      BY <1>4 DEF Heap, ChainIsStack, At
    <2>2. PrivateNodes'
      BY <1>4 DEF Heap, PrivateNodes, OnStack
    <2>3. LocalsCurrent'
      BY <1>4 DEF Heap, LocalsCurrent, OnStack, Allocated
    <2> QED BY <2>1, <2>2, <2>3 DEF Heap
  <1>5. ASSUME NEW p \in Producers, PushCount(p) PROVE Heap'
    <2>1. /\ UNCHANGED <<top, next, val, node, pool_idx, nxt, old, stack>>
          /\ Writing' = Writing /\ Reading' = Reading
          /\ \A q \in Writing : i'[q] = i[q]
          /\ \A t \in Writing \cup Reading : pc'[t] = pc[t]
      BY <1>0, <1>5 DEF PushCount, Writing, Reading
    <2>2. ChainIsStack'
      BY <2>1 DEF Heap, ChainIsStack, At
    <2>3. PrivateNodes'
      BY <2>1 DEF Heap, PrivateNodes, OnStack
    <2>4. LocalsCurrent'
      <3>1. OnStack' \subseteq Allocated' /\ Allocated' = Allocated
        BY <2>1 DEF Heap, LocalsCurrent, OnStack, Allocated
      <3>2. ASSUME NEW q \in Writing'
            PROVE  /\ node'[q] \in Allocated' /\ val'[node'[q]] = Item(q, i'[q])
                   /\ pc'[q] = "cas" => next'[node'[q]] = old'[q]
        BY <2>1, <3>1 DEF Heap, LocalsCurrent
      <3>3. ASSUME NEW d \in Reading'
            PROVE  /\ old'[d] \in Allocated'
                   /\ pc'[d] = "cas" => nxt'[d] = next'[old'[d]]
        BY <2>1, <3>1 DEF Heap, LocalsCurrent
      <3> QED BY <3>1, <3>2, <3>3 DEF LocalsCurrent
    <2> QED BY <2>2, <2>3, <2>4 DEF Heap
  <1>6. ASSUME NEW t \in Producers \cup Consumers, CasFails(t) PROVE Heap'
    <2>1. UNCHANGED <<top, next, val, node, pool_idx, nxt, old, i, stack>>
      BY <1>6 DEF CasFails
    <2>2. Writing' = Writing /\ Reading' \subseteq Reading
      BY <1>0, <1>6 DEF CasFails, Writing, Reading
    <2>3. \A u \in Writing' \cup Reading' : pc'[u] = "cas" => pc[u] = "cas"
      BY <1>0, <1>6, <2>2 DEF CasFails
    <2> QED BY <1>4, <2>1, <2>2, <2>3
  <1>7. ASSUME NEW c \in Consumers, PopLoad(c) PROVE Heap'
    <2>1. /\ UNCHANGED <<top, next, val, node, pool_idx, nxt, i, stack>>
          /\ old' = [old EXCEPT ![c] = top]
          /\ Writing' = Writing
          /\ Reading' = IF top = NULL THEN Reading ELSE Reading \cup {c}
          /\ c \notin Reading
          /\ \A t \in Threads \ {c} : pc'[t] = pc[t] /\ pc'[c] # "cas"
      BY <1>0, <1>7 DEF PopLoad, Writing, Reading
    <2>2. top # NULL => top \in OnStack
      BY <1>0 DEF Heap, ChainIsStack, At, OnStack
    <2>3. ChainIsStack'
      BY <2>1 DEF Heap, ChainIsStack, At
    <2>4. PrivateNodes'
      BY <1>0, <2>1, <2>2 DEF Heap, PrivateNodes, OnStack
    <2>5. LocalsCurrent'
      <3>1. OnStack' \subseteq Allocated' /\ Allocated' = Allocated /\ OnStack' = OnStack
        BY <2>1 DEF Heap, LocalsCurrent, OnStack, Allocated
      <3>2. ASSUME NEW q \in Writing'
            PROVE  /\ node'[q] \in Allocated' /\ val'[node'[q]] = Item(q, i'[q])
                   /\ pc'[q] = "cas" => next'[node'[q]] = old'[q]
        BY <1>0, <2>1, <3>1 DEF Heap, LocalsCurrent
      <3>3. ASSUME NEW d \in Reading'
            PROVE  /\ old'[d] \in Allocated'
                   /\ pc'[d] = "cas" => nxt'[d] = next'[old'[d]]
        <4>1. CASE d = c
          BY <1>0, <2>1, <2>2, <3>1, <4>1 DEF Heap, LocalsCurrent
        <4>2. CASE d # c
          <5>1. d \in Reading /\ pc'[d] = pc[d] /\ old'[d] = old[d]
            BY <1>0, <2>1, <4>2
          <5> QED BY <2>1, <3>1, <5>1 DEF Heap, LocalsCurrent
        <4> QED BY <4>1, <4>2
      <3> QED BY <3>1, <3>2, <3>3 DEF LocalsCurrent
    <2> QED BY <2>3, <2>4, <2>5 DEF Heap
  <1>8. ASSUME NEW c \in Consumers, PopNext(c) PROVE Heap'
    <2>1. /\ UNCHANGED <<top, next, val, node, pool_idx, old, i, stack>>
          /\ nxt' = [nxt EXCEPT ![c] = next[old[c]]]
          /\ Writing' = Writing /\ Reading' = Reading
          /\ \A t \in Threads \ {c} : pc'[t] = pc[t]
      BY <1>0, <1>8 DEF PopNext, Writing, Reading
    <2>2. ChainIsStack'
      BY <2>1 DEF Heap, ChainIsStack, At
    <2>3. PrivateNodes'
      BY <2>1 DEF Heap, PrivateNodes, OnStack
    <2>4. LocalsCurrent'
      <3>1. OnStack' \subseteq Allocated' /\ Allocated' = Allocated
        BY <2>1 DEF Heap, LocalsCurrent, OnStack, Allocated
      <3>2. ASSUME NEW q \in Writing'
            PROVE  /\ node'[q] \in Allocated' /\ val'[node'[q]] = Item(q, i'[q])
                   /\ pc'[q] = "cas" => next'[node'[q]] = old'[q]
        BY <1>0, <2>1, <3>1 DEF Heap, LocalsCurrent
      <3>3. ASSUME NEW d \in Reading'
            PROVE  /\ old'[d] \in Allocated'
                   /\ pc'[d] = "cas" => nxt'[d] = next'[old'[d]]
        BY <1>0, <2>1, <3>1 DEF Heap, LocalsCurrent
      <3> QED BY <3>1, <3>2, <3>3 DEF LocalsCurrent
    <2> QED BY <2>2, <2>3, <2>4 DEF Heap
  <1>9. ASSUME NEW c \in Consumers, PopCas(c) PROVE Heap'
    <2>1. /\ top' = nxt[c] /\ stack' = Tail(stack)
          /\ UNCHANGED <<next, val, node, pool_idx, nxt, old, i>>
          /\ Writing' = Writing /\ Reading' = Reading /\ c \in Reading
          /\ pc[c] = "cas" /\ pc'[c] = "count"
          /\ \A t \in Threads \ {c} : pc'[t] = pc[t]
      BY <1>0, <1>9 DEF PopCas, Writing, Reading
    <2>2. stack # <<>> /\ stack[1] = old[c]
      BY <1>9, PopFromNonempty DEF Heap
    <2>3. /\ Len(stack') = Len(stack) - 1 /\ Len(stack) \in Nat \ {0}
          /\ \A k \in 1 .. Len(stack) - 1 : stack'[k] = stack[k + 1]
      BY <1>0, <2>1, <2>2, PoppedSequence
    <2>4. \A k \in 1 .. Len(stack) : At(k)' = At(k + 1)
      BY <1>0, <2>3 DEF At
    <2>5. top' = At(1)'
      BY <1>0, <2>1, <2>2, <2>3, <2>4 DEF Heap, LocalsCurrent, ChainIsStack
    <2>6. OnStack' \subseteq OnStack
      <3>1. ASSUME NEW k \in 1 .. Len(stack') PROVE stack'[k] \in OnStack
        <4>1. k + 1 \in 1 .. Len(stack) /\ stack'[k] = stack[k + 1]
          BY <1>0, <2>3
        <4> QED BY <4>1 DEF OnStack
      <3> QED BY <3>1 DEF OnStack
    <2>7. ChainIsStack'
      <3>1. ASSUME NEW k \in 1 .. Len(stack') PROVE next'[stack'[k]] = At(k + 1)'
        <4>1. k + 1 \in 1 .. Len(stack) /\ stack'[k] = stack[k + 1]
          BY <1>0, <2>3
        <4> QED BY <2>1, <2>4, <4>1 DEF Heap, ChainIsStack
      <3>2. ASSUME NEW k \in 1 .. Len(stack'), NEW l \in 1 .. Len(stack'),
                   stack'[k] = stack'[l]
            PROVE  k = l
        <4>1. /\ k + 1 \in 1 .. Len(stack) /\ stack'[k] = stack[k + 1]
              /\ l + 1 \in 1 .. Len(stack) /\ stack'[l] = stack[l + 1]
          BY <1>0, <2>3
        <4>2. k + 1 = l + 1
          BY <3>2, <4>1 DEF Heap, ChainIsStack
        <4> QED BY <2>3, <4>2
      <3> QED BY <2>5, <3>1, <3>2 DEF ChainIsStack
    <2>8. PrivateNodes'
      BY <2>1, <2>6 DEF Heap, PrivateNodes
    <2>9. LocalsCurrent'
      BY <1>0, <2>1, <2>6 DEF Heap, LocalsCurrent, Allocated
    <2> QED BY <2>7, <2>8, <2>9 DEF Heap
  <1>10. ASSUME NEW c \in Consumers, PopCount(c) \/ CheckDone(c) PROVE Heap'
    <2>1. UNCHANGED <<top, next, val, node, pool_idx, nxt, old, i, stack>>
      BY <1>10 DEF PopCount, CheckDone
    <2>2. /\ \A t \in Threads \ {c} : pc'[t] = pc[t]
          /\ pc'[c] \in {"load", "done"}
      <3>1. CASE PopCount(c)
        BY <1>0, <3>1 DEF PopCount
      <3>2. CASE CheckDone(c)
        BY <1>0, <3>2 DEF CheckDone
      <3> QED BY <1>10, <3>1, <3>2
    <2>3. Writing' = Writing /\ Reading' \subseteq Reading
      <3>1. \A p \in Producers : pc'[p] = pc[p]
        BY <2>2
      <3>2. \A d \in Consumers : pc'[d] = pc[d] \/ d = c
        BY <2>2
      <3>3. Writing' = Writing
        BY <3>1 DEF Writing
      <3>4. c \notin Reading'
        BY <2>2 DEF Reading
      <3>5. Reading' \subseteq Reading
        BY <3>2, <3>4 DEF Reading
      <3> QED BY <3>3, <3>5
    <2>4. \A u \in Writing' \cup Reading' : pc'[u] = "cas" => pc[u] = "cas"
      BY <1>0, <2>2, <2>3
    <2> QED BY <1>4, <2>1, <2>3, <2>4
  <1>11. CASE MainThread
    <2>1. UNCHANGED <<top, next, val, node, pool_idx, nxt, old, i, stack>>
      BY <1>11
         DEF MainThread, MainJoinProducers, MainSetDone, MainJoinConsumer, MainReport
    <2>2. \A t \in Producers \cup Consumers : pc'[t] = pc[t]
      BY <1>0, <1>11
         DEF MainThread, MainJoinProducers, MainSetDone, MainJoinConsumer, MainReport
    <2>3. Writing' = Writing /\ Reading' = Reading
      BY <2>2 DEF Writing, Reading
    <2> QED BY <1>0, <1>4, <2>1, <2>2, <2>3
  <1>12. CASE UNCHANGED vars
    <2>1. Writing' = Writing /\ Reading' = Reading
      BY <1>12 DEF vars, Writing, Reading
    <2> QED BY <1>4, <1>12, <2>1 DEF vars
  <1> QED
    BY <1>1, <1>2, <1>3, <1>5, <1>6, <1>7, <1>8, <1>9, <1>10, <1>11, <1>12
       DEF Next, Producer, Consumer, Terminated

(***************************************************************************)
(* Conservation and the counters.                                          *)
(***************************************************************************)
Conserved ==
    IsFiniteSet(Tokens(Pushed)) /\ IsFiniteSet(Tokens(Popped)) /\ Conservation

LEMMA ConservedInit == Init => Conserved
  <1> SUFFICES ASSUME Init PROVE Conserved
    OBVIOUS
  <1>1. /\ \A p \in DOMAIN Pushed : Pushed[p] = 0
        /\ \A c \in DOMAIN Popped : Popped[c] = 0
    BY Constants DEF Init, Pushed, Popped
  <1>2. Len(stack) = 0
    BY DEF Init
  <1> QED BY <1>1, <1>2, SumOfZeros DEF Conserved, Conservation

LEMMA ConservedStep ==
    Control /\ Heap /\ Conserved /\ [Next]_vars => Conserved'
  <1> SUFFICES ASSUME Control, Heap, Conserved, [Next]_vars PROVE Conserved'
    OBVIOUS
  <1>0. /\ stack \in Seq(Nodes) /\ Len(stack) \in Nat
        /\ Pushed \in [Producers -> Nat] /\ Popped \in [Consumers -> Nat]
    BY CountTypes DEF Control, TypeOK
  <1>1. ASSUME UNCHANGED <<stack, Pushed, Popped>> PROVE Conserved'
    BY <1>1 DEF Conserved, Conservation, SumOf, Tokens
  <1>2. ASSUME NEW p \in Producers, PushCas(p), Pushed' = [Pushed EXCEPT ![p] = @ + 1],
               Popped' = Popped
        PROVE  Conserved'
    <2>1. /\ IsFiniteSet(Tokens(Pushed')) /\ SumOf(Pushed') = SumOf(Pushed) + 1
          /\ SumOf(Pushed) \in Nat
      BY <1>0, <1>2, SumIncrement, Zenon DEF Conserved
    <2>2. Len(stack') = Len(stack) + 1
      <3>1. node[p] \in Nodes /\ stack' = <<node[p]>> \o stack
        BY <1>2 DEF PushCas, Control, Writing
      <3> QED BY <1>0, <3>1, PushedSequence
    <2>3. SumOf(Popped) \in Nat
      BY FS_CardinalityType DEF Conserved, SumOf
    <2>4. SumOf(Pushed') = SumOf(Popped') + Len(stack')
      BY <1>0, <1>2, <2>1, <2>2, <2>3 DEF Conserved, Conservation
    <2> QED BY <1>2, <2>1, <2>4 DEF Conserved, Conservation, SumOf, Tokens
  <1>3. ASSUME NEW c \in Consumers, PopCas(c), Popped' = [Popped EXCEPT ![c] = @ + 1],
               Pushed' = Pushed
        PROVE  Conserved'
    <2>1. /\ IsFiniteSet(Tokens(Popped')) /\ SumOf(Popped') = SumOf(Popped) + 1
          /\ SumOf(Popped) \in Nat
      BY <1>0, <1>3, SumIncrement, Zenon DEF Conserved
    <2>2. Len(stack') = Len(stack) - 1
      <3>1. stack # <<>> /\ stack' = Tail(stack)
        BY <1>3, PopFromNonempty DEF Heap, PopCas
      <3> QED BY <1>0, <3>1, PoppedSequence
    <2>3. SumOf(Pushed') = SumOf(Popped') + Len(stack')
      BY <1>0, <1>3, <2>1, <2>2 DEF Conserved, Conservation
    <2> QED BY <1>3, <2>1, <2>3 DEF Conserved, Conservation, SumOf, Tokens
  <1> QED BY <1>1, <1>2, <1>3, CountStep

LEMMA CountersInit == Init => CountersExact
  <1> SUFFICES ASSUME Init PROVE CountersExact
    OBVIOUS
  <1>1. /\ \A p \in DOMAIN i : i[p] = 0
        /\ \A c \in DOMAIN consumed : consumed[c] = 0
        /\ push_count = 0 /\ pop_count = 0
    BY DEF Init
  <1> QED BY <1>1, SumOfZeros DEF CountersExact

LEMMA CountersStep == Control /\ CountersExact /\ [Next]_vars => CountersExact'
  <1> SUFFICES ASSUME Control, CountersExact, [Next]_vars PROVE CountersExact'
    OBVIOUS
  <1>0. i \in [Producers -> Nat] /\ consumed \in [Consumers -> Nat]
    BY CountTypes
  <1>1. ASSUME UNCHANGED <<push_count, pop_count, i, consumed>> PROVE CountersExact'
    BY <1>1 DEF CountersExact, SumOf, Tokens
  <1>2. ASSUME NEW p \in Producers, PushCount(p) PROVE CountersExact'
    <2>1. /\ i' = [i EXCEPT ![p] = @ + 1] /\ push_count' = push_count + 1
          /\ UNCHANGED <<consumed, pop_count>>
      BY <1>2 DEF PushCount, consumerVars
    <2>2. IsFiniteSet(Tokens(i')) /\ SumOf(i') = SumOf(i) + 1
      BY <1>0, <2>1, SumIncrement, Zenon DEF CountersExact
    <2> QED BY <2>1, <2>2 DEF CountersExact, SumOf, Tokens
  <1>3. ASSUME NEW c \in Consumers, PopCount(c) PROVE CountersExact'
    <2>1. /\ consumed' = [consumed EXCEPT ![c] = @ + 1] /\ pop_count' = pop_count + 1
          /\ UNCHANGED <<i, push_count>>
      BY <1>3 DEF PopCount, producerVars
    <2>2. IsFiniteSet(Tokens(consumed')) /\ SumOf(consumed') = SumOf(consumed) + 1
      BY <1>0, <2>1, SumIncrement, Zenon DEF CountersExact
    <2> QED BY <2>1, <2>2 DEF CountersExact, SumOf, Tokens
  <1> QED
    BY <1>1, <1>2, <1>3
       DEF Next, Producer, Consumer, MainThread, Terminated, vars, producerVars,
           consumerVars, PoolAlloc, PushLoad, PushCas, CasFails, PopLoad, PopNext,
           PopCas, CheckDone, MainJoinProducers, MainSetDone, MainJoinConsumer,
           MainReport

LEMMA TotalInit == Init => TotalOfJoined
  <1> SUFFICES ASSUME Init PROVE TotalOfJoined
    OBVIOUS
  <1>1. joined = {} /\ total = 0 /\ pc[Main] = "join_producers"
    BY Constants DEF Init
  <1>2. DOMAIN JoinedCounts = {}
    BY <1>1 DEF JoinedCounts
  <1> QED BY <1>1, <1>2, SumOfZeros DEF TotalOfJoined

LEMMA TotalStep == Control /\ TotalOfJoined /\ [Next]_vars => TotalOfJoined'
  <1> SUFFICES ASSUME Control, TotalOfJoined, [Next]_vars PROVE TotalOfJoined'
    OBVIOUS
  <1> USE Constants DEF GoTo, producerVars, consumerVars, mainVars
  <1>0. /\ joined \subseteq Consumers /\ \A c \in joined : pc[c] = "done"
        /\ pc \in [Threads -> ProducerLabels \cup ConsumerLabels \cup MainLabels]
        /\ consumed \in [Consumers -> Nat] /\ total \in Nat
        /\ IsFiniteSet(Tokens(JoinedCounts)) /\ total = SumOf(JoinedCounts)
        /\ pc[Main] = "done" => joined = Consumers
    BY DEF Control, TypeOK, TotalOfJoined
  <1>1. ASSUME NEW c \in Consumers, MainJoinConsumer(c) PROVE TotalOfJoined'
    <2>1. /\ joined' = joined \cup {c} /\ total' = total + consumed[c]
          /\ pc' = pc /\ consumed' = consumed /\ c \notin joined
          /\ pc[c] = "done" /\ pc[Main] = "join_consumers"
      BY <1>1 DEF MainJoinConsumer
    <2>2. /\ c \notin DOMAIN JoinedCounts
          /\ DOMAIN JoinedCounts' = DOMAIN JoinedCounts \cup {c}
          /\ \A d \in DOMAIN JoinedCounts : JoinedCounts'[d] = JoinedCounts[d]
          /\ JoinedCounts'[c] = consumed[c] /\ consumed[c] \in Nat
      BY <1>0, <2>1 DEF JoinedCounts
    <2>3. /\ IsFiniteSet(Tokens(JoinedCounts'))
          /\ SumOf(JoinedCounts') = SumOf(JoinedCounts) + consumed[c]
      <3> DEFINE f == JoinedCounts
                 g == JoinedCounts'
      <3>1. /\ c \notin DOMAIN f /\ DOMAIN g = DOMAIN f \cup {c}
            /\ \A d \in DOMAIN f : g[d] = f[d]
            /\ g[c] = consumed[c] /\ g[c] \in Nat /\ IsFiniteSet(Tokens(f))
        BY <1>0, <2>2
      <3> HIDE DEF f, g
      <3>2. IsFiniteSet(Tokens(g)) /\ SumOf(g) = SumOf(f) + g[c]
        BY <3>1, SumExtension
      <3> QED BY <3>1, <3>2 DEF f, g
    <2>4. IsFiniteSet(Tokens(JoinedCounts))' /\ total' = SumOf(JoinedCounts)'
      BY <1>0, <2>1, <2>3 DEF SumOf, Tokens
    <2>5. /\ \A d \in joined' : pc'[d] = "done"
          /\ pc'[Main] = "done" => joined' = Consumers
      BY <1>0, <2>1
    <2> QED BY <2>4, <2>5 DEF TotalOfJoined
  <1>2. ASSUME joined' = joined, total' = total,
               \A c \in joined : pc'[c] = "done" /\ consumed'[c] = consumed[c],
               pc'[Main] = "done" => joined = Consumers
        PROVE  TotalOfJoined'
    <2>1. JoinedCounts' = JoinedCounts
      BY <1>2 DEF JoinedCounts
    <2> QED BY <1>0, <1>2, <2>1 DEF TotalOfJoined, SumOf, Tokens
  <1>3. ASSUME NEW t \in Producers \cup Consumers, CasFails(t) PROVE TotalOfJoined'
    BY <1>0, <1>2, <1>3 DEF CasFails
  <1>4. ASSUME NEW p \in Producers,
               PoolAlloc(p) \/ PushLoad(p) \/ PushCas(p) \/ PushCount(p)
        PROVE  TotalOfJoined'
    BY <1>0, <1>2, <1>4 DEF PoolAlloc, PushLoad, PushCas, PushCount
  <1>5. ASSUME NEW c \in Consumers,
               PopLoad(c) \/ PopNext(c) \/ PopCas(c) \/ PopCount(c) \/ CheckDone(c)
        PROVE  TotalOfJoined'
    BY <1>0, <1>2, <1>5 DEF PopLoad, PopNext, PopCas, PopCount, CheckDone
  <1>6. CASE MainJoinProducers \/ MainSetDone \/ MainReport
    BY <1>0, <1>2, <1>6 DEF MainJoinProducers, MainSetDone, MainReport
  <1>7. CASE UNCHANGED vars
    BY <1>0, <1>2, <1>7 DEF vars
  <1> QED
    BY <1>1, <1>3, <1>4, <1>5, <1>6, <1>7
       DEF Next, Producer, Consumer, MainThread, Terminated
(***************************************************************************)
(* The inductive invariant and the properties.                             *)
(***************************************************************************)
LEMMA GroupsAreIInv ==
    IInv <=> Control /\ PoolCount /\ Heap /\ Conserved /\ CountersExact /\ TotalOfJoined
  <1>1. ASSUME IInv PROVE Control
    <2>1. Allocated \subseteq Nodes
      BY <1>1, Constants DEF IInv, TypeOK, Allocated, Nodes
    <2> QED BY <1>1, <2>1 DEF IInv, LocalsCurrent, Control
  <1> QED BY <1>1 DEF IInv, Control, Heap, Conserved

\* IInv holds initially: nothing is allocated, pushed or counted yet.
THEOREM InitIInv == Init => IInv
  BY ControlInit, PoolCountInit, HeapInit, ConservedInit, CountersInit, TotalInit,
     GroupsAreIInv

\* Every step of every thread of bench.c's lock-free half preserves IInv.
THEOREM StepIInv == IInv /\ [Next]_vars => IInv'
  <1> SUFFICES ASSUME IInv, [Next]_vars PROVE IInv'
    OBVIOUS
  <1>1. Control /\ PoolCount /\ Heap /\ Conserved /\ CountersExact /\ TotalOfJoined
    BY GroupsAreIInv
  <1>2. Control' /\ PoolCount'
    BY <1>1, ControlStep, PoolCountStep DEF Heap
  <1>3. Heap' /\ Conserved' /\ CountersExact' /\ TotalOfJoined'
    BY <1>1, <1>2, HeapStep, ConservedStep, CountersStep, TotalStep
  <1> QED BY <1>2, <1>3 DEF IInv, Control, Heap, Conserved

\* The inductive invariant holds in every reachable state.
THEOREM Invariance == Spec => []IInv
  BY InitIInv, StepIInv, PTL DEF Spec

\* Every value stays in its range; pool_idx never runs past the pool, so
\* pool_alloc (bench.c:93-96), which does not check, never has to.
THEOREM TypeCorrect == Spec => []TypeOK
  BY Invariance, PTL DEF IInv

\* top and the next fields always are the stack (bench.c:98-119).
THEOREM PointersAreStack == Spec => []ChainIsStack
  BY Invariance, PTL DEF IInv

\* Nobody sees a node before the compare-exchange of cas_push publishes it.
THEOREM NodesArePrivate == Spec => []PrivateNodes
  BY Invariance, PTL DEF IInv

\* A compare-exchange of cas_pop that succeeds installs the true successor,
\* however long ago it was read (bench.c:109-119).
THEOREM NoAbaEver == Spec => []NoAba
  <1>1. IInv => NoAba
    <2> SUFFICES ASSUME IInv, NEW c \in Consumers, pc[c] = "cas", top = old[c]
                 PROVE  nxt[c] = At(2)
      BY DEF NoAba
    <2>1. Control /\ c \in Reading
      BY GroupsAreIInv DEF Reading
    <2>2. nxt[c] = next[old[c]] /\ old[c] \in Nodes
      BY <2>1 DEF IInv, LocalsCurrent, Control
    <2>3. At(1) = old[c] /\ At(1) # NULL
      BY <2>2, Constants DEF IInv, ChainIsStack
    <2>4. 1 \in 1 .. Len(stack) /\ stack[1] = old[c]
      BY <2>3 DEF At, IInv, TypeOK
    <2>5. next[stack[1]] = At(1 + 1)
      BY <2>4 DEF IInv, ChainIsStack
    <2> QED BY <2>2, <2>4, <2>5
  <1> QED BY <1>1, Invariance, PTL

\* What was pushed has been popped, once, or is on the stack.
THEOREM NothingLost == Spec => []Conservation
  BY Invariance, PTL DEF IInv

\* What run_cas prints (bench.c:211-221): push_count is the number of items,
\* total is pop_count, and what they differ by is still on the stack.
THEOREM ReportCorrect == Spec => []ReportAddsUp
  <1>1. IInv => ReportAddsUp
    <2> SUFFICES ASSUME IInv, pc[Main] = "done"
                 PROVE  /\ push_count = NUM_PRODUCERS * ITEMS_PER_PRODUCER
                        /\ total = pop_count
                        /\ total + Len(stack) = push_count
      BY DEF ReportAddsUp
    <2>1. /\ \A p \in Producers : pc[p] = "done"
          /\ joined = Consumers /\ \A c \in Consumers : pc[c] = "done"
      BY DEF IInv, DoneAfterProducers, TotalOfJoined
    <2>2. i = [p \in Producers |-> ITEMS_PER_PRODUCER]
      BY <2>1, Constants DEF IInv, TypeOK, LoopsCount
    <2>3. SumOf(i) = NUM_PRODUCERS * ITEMS_PER_PRODUCER
      <3> DEFINE Indices == 0 .. ITEMS_PER_PRODUCER - 1
      <3>2. /\ IsFiniteSet(Producers) /\ Cardinality(Producers) = NUM_PRODUCERS
            /\ IsFiniteSet(Indices) /\ Cardinality(Indices) = ITEMS_PER_PRODUCER
        BY Intervals, Constants DEF Producers
      <3>3. Tokens(i) = Producers \X Indices
        BY <2>2 DEF Tokens
      <3> HIDE DEF Indices
      <3> QED BY <3>2, <3>3, FS_Product DEF SumOf
    <2>4. Pushed = i /\ Popped = consumed /\ JoinedCounts = consumed
      <3>1. i \in [Producers -> Nat] /\ consumed \in [Consumers -> Nat]
        BY CountTypes, GroupsAreIInv
      <3> QED BY <2>1, <3>1 DEF Pushed, Popped, JoinedCounts
    <2>5. push_count = SumOf(i) /\ pop_count = SumOf(consumed) /\ total = SumOf(consumed)
      BY <2>4, Zenon DEF IInv, CountersExact, TotalOfJoined
    <2>6. SumOf(i) = SumOf(consumed) + Len(stack)
      BY <2>4, Zenon DEF IInv, Conservation
    <2> QED BY <2>3, <2>5, <2>6
  <1> QED BY <1>1, Invariance, PTL

(***************************************************************************)
(* Refinement: the values along the chain are the LIFO stack.  No step but *)
(* the two compare-exchanges changes what the mapping shows.               *)
(***************************************************************************)
Got == [c \in Consumers |-> IF pc[c] = "count" THEN val[old[c]] ELSE out[c]]

\* A node that has left the pool keeps its value for ever.
LEMMA ValuesKept ==
    ASSUME IInv, [Next]_vars
    PROVE  \A n \in Allocated : val'[n] = val[n]
  <1>1. ASSUME NEW p \in Producers, PoolAlloc(p)
        PROVE  \A n \in Allocated : val'[n] = val[n]
    BY <1>1 DEF PoolAlloc, Allocated, IInv, TypeOK
  <1> QED
    BY <1>1
       DEF Next, Producer, Consumer, MainThread, Terminated, vars, producerVars,
           PushLoad, PushCas, PushCount, CasFails, PopLoad, PopNext, PopCas, PopCount,
           CheckDone, MainJoinProducers, MainSetDone, MainJoinConsumer, MainReport

LEMMA ContentKept ==
    ASSUME IInv, [Next]_vars, stack' = stack
    PROVE  Content' = Content
  <1>1. \A k \in 1 .. Len(stack) : val'[stack[k]] = val[stack[k]]
    BY ValuesKept DEF IInv, LocalsCurrent, OnStack
  <1> QED BY <1>1 DEF Content

\* What every consumer has: changed by a pop, by nothing else.
LEMMA GotStep ==
    ASSUME IInv, [Next]_vars
    PROVE  /\ stack' = stack => Got' = Got
           /\ \A p \in Producers : PushCas(p) => Got' = Got
           /\ \A c \in Consumers :
                 PopCas(c) => Got' = [Got EXCEPT ![c] = val[old[c]]]
  <1> USE Constants DEF GoTo, producerVars, consumerVars, mainVars
  <1>0. /\ pc \in [Threads -> ProducerLabels \cup ConsumerLabels \cup MainLabels]
        /\ old \in [Producers \cup Consumers -> Nodes \cup {NULL}]
        /\ out \in [Consumers -> Nat \cup {NULL}]
        /\ \A d \in Consumers : pc[d] = "count" => old[d] \in Allocated
    BY DEF IInv, TypeOK, LocalsCurrent, Reading
  <1>1. ASSUME \A d \in Consumers : /\ pc'[d] = "count" <=> pc[d] = "count"
                                    /\ pc[d] = "count" => old'[d] = old[d]
                                    /\ out'[d] = out[d]
        PROVE  Got' = Got
    <2>1. \A d \in Consumers : pc[d] = "count" => val'[old'[d]] = val[old[d]]
      BY <1>0, <1>1, ValuesKept
    <2> QED BY <1>1, <2>1 DEF Got
  <1>2. ASSUME NEW p \in Producers,
               PoolAlloc(p) \/ PushLoad(p) \/ PushCas(p) \/ PushCount(p)
        PROVE  Got' = Got
    <2>1. \A d \in Consumers : pc'[d] = pc[d] /\ old'[d] = old[d] /\ out'[d] = out[d]
      <3>1. CASE PoolAlloc(p)
        BY <1>0, <3>1 DEF PoolAlloc
      <3>2. CASE PushLoad(p)
        BY <1>0, <3>2 DEF PushLoad
      <3>3. CASE PushCas(p)
        BY <1>0, <3>3 DEF PushCas
      <3>4. CASE PushCount(p)
        BY <1>0, <3>4 DEF PushCount
      <3> QED BY <1>2, <3>1, <3>2, <3>3, <3>4
    <2> QED BY <1>1, <2>1
  <1>3. ASSUME NEW t \in Producers \cup Consumers, CasFails(t) PROVE Got' = Got
    BY <1>0, <1>1, <1>3 DEF CasFails
  <1>4. ASSUME NEW c \in Consumers, PopLoad(c) \/ PopNext(c) \/ CheckDone(c)
        PROVE  Got' = Got
    <2>1. CASE PopLoad(c)
      BY <1>0, <1>1, <2>1 DEF PopLoad
    <2>2. CASE PopNext(c)
      BY <1>0, <1>1, <2>2 DEF PopNext
    <2>3. CASE CheckDone(c)
      BY <1>0, <1>1, <2>3 DEF CheckDone
    <2> QED BY <1>4, <2>1, <2>2, <2>3
  <1>5. ASSUME NEW c \in Consumers, PopCount(c) PROVE Got' = Got
    <2>1. /\ pc[c] = "count" /\ pc'[c] = "load" /\ out'[c] = val[old[c]]
          /\ val' = val /\ old' = old
          /\ \A d \in Consumers \ {c} : pc'[d] = pc[d] /\ out'[d] = out[d]
      BY <1>0, <1>5 DEF PopCount
    <2> QED BY <2>1 DEF Got
  <1>6. ASSUME NEW c \in Consumers, PopCas(c)
        PROVE  Got' = [Got EXCEPT ![c] = val[old[c]]] /\ stack' # stack
    <2>1. /\ pc'[c] = "count" /\ val' = val /\ old' = old /\ out' = out
          /\ \A d \in Consumers \ {c} : pc'[d] = pc[d]
      BY <1>0, <1>6 DEF PopCas
    <2>2. Got' = [Got EXCEPT ![c] = val[old[c]]]
      BY <2>1 DEF Got
    <2>3. stack # <<>> /\ stack \in Seq(Nodes) /\ stack' = Tail(stack)
      BY <1>6, PopFromNonempty, GroupsAreIInv DEF IInv, PopCas
    <2>4. Len(stack') = Len(stack) - 1 /\ Len(stack) \in Nat
      BY <2>3, PoppedSequence
    <2> QED BY <2>2, <2>4
  <1>7. CASE MainThread
    <2>1. /\ \A d \in Consumers : pc'[d] = pc[d]
          /\ old' = old /\ out' = out
      BY <1>0, <1>7
         DEF MainThread, MainJoinProducers, MainSetDone, MainJoinConsumer, MainReport
    <2> QED BY <1>1, <1>6, <1>2, <2>1
  <1>8. CASE UNCHANGED vars
    <2>1. Got' = Got
      BY <1>1, <1>8 DEF vars
    <2> QED BY <1>6, <2>1
  <1> QED
    BY <1>2, <1>3, <1>4, <1>5, <1>6, <1>7, <1>8
       DEF Next, Producer, Consumer, Terminated

\* The sequence s of length n with e before it, as a function of the index.
InFront(e, n, s) == [k \in 1 .. n + 1 |-> IF k = 1 THEN e ELSE s[k - 1]]

\* A sequence that is given as a function of the index: one more in front, the
\* first one taken away.
LEMMA SequenceAsFunction ==
    ASSUME NEW n \in Nat, NEW s, s = [k \in 1 .. n |-> s[k]], NEW e
    PROVE  /\ Len(s) = n
           /\ <<e>> \o s = InFront(e, n, s)
           /\ n > 0 => /\ Tail(s) = [k \in 1 .. n - 1 |-> s[k + 1]]
                       /\ Head(s) = s[1] /\ s # <<>>
  BY DEF InFront

LEMMA PushInFront ==
    ASSUME IInv, NEW p \in Producers, PushCas(p)
    PROVE  /\ Content' = <<Item(p, Pushed[p])>> \o Content
           /\ Pushed[p] < ITEMS_PER_PRODUCER
  <1>1. /\ stack \in Seq(Nodes) /\ Len(stack) \in Nat
        /\ p \in Writing /\ pc[p] = "cas" /\ i[p] \in Nat
        /\ stack' = <<node[p]>> \o stack /\ val' = val
    BY DEF IInv, TypeOK, Writing, PushCas, producerVars
  <1>2. Pushed[p] = i[p] /\ i[p] < ITEMS_PER_PRODUCER
    BY <1>1 DEF IInv, LoopsCount, Pushed
  <1>3. node[p] \in Nodes /\ val[node[p]] = Item(p, i[p])
    BY <1>1, GroupsAreIInv DEF IInv, LocalsCurrent, Control
  <1>4. /\ Len(stack') = Len(stack) + 1 /\ stack'[1] = node[p]
        /\ \A k \in 1 .. Len(stack) : stack'[k + 1] = stack[k]
    BY <1>1, <1>3, PushedSequence
  <1> DEFINE e == Item(p, i[p])
             n == Len(stack)
  <1>5. Content' = InFront(e, n, Content)
    <2>1. Content' = [k \in 1 .. n + 1 |-> val[stack'[k]]]
      BY <1>1, <1>4 DEF Content
    <2>2. ASSUME NEW k \in 1 .. n + 1
          PROVE  val[stack'[k]] = IF k = 1 THEN e ELSE Content[k - 1]
      <3>1. CASE k = 1
        BY <1>3, <1>4, <3>1
      <3>2. CASE k # 1
        <4>1. k - 1 \in 1 .. n /\ (k - 1) + 1 = k
          BY <1>1, <3>2
        <4>2. stack'[k] = stack[k - 1]
          BY <1>4, <4>1
        <4> QED BY <3>2, <4>1, <4>2 DEF Content
      <3> QED BY <3>1, <3>2
    <2> QED BY <2>1, <2>2, Zenon DEF InFront
  <1>6. Content = [k \in 1 .. n |-> Content[k]] /\ n \in Nat
    BY <1>1 DEF Content
  <1> HIDE DEF e, n
  <1>7. <<e>> \o Content = InFront(e, n, Content)
    BY <1>6, SequenceAsFunction, Zenon
  <1> QED BY <1>2, <1>5, <1>7 DEF e

LEMMA PopTheFirst ==
    ASSUME IInv, NEW c \in Consumers, PopCas(c)
    PROVE  /\ Content # <<>> /\ Content' = Tail(Content)
           /\ val[old[c]] = Head(Content)
  <1>1. /\ stack # <<>> /\ stack \in Seq(Nodes) /\ stack[1] = old[c]
        /\ stack' = Tail(stack) /\ val' = val
    BY PopFromNonempty, GroupsAreIInv DEF IInv, PopCas, producerVars
  <1>2. /\ Len(stack') = Len(stack) - 1 /\ Len(stack) \in Nat \ {0}
        /\ \A k \in 1 .. Len(stack) - 1 : stack'[k] = stack[k + 1]
    BY <1>1, PoppedSequence
  <1> DEFINE n == Len(stack)
  <1>3. /\ Content = [k \in 1 .. n |-> Content[k]] /\ n \in Nat /\ n > 0
        /\ Content[1] = val[old[c]]
    BY <1>1, <1>2 DEF Content
  <1>4. Content' = [k \in 1 .. n - 1 |-> Content[k + 1]]
    <2>1. Content' = [k \in 1 .. n - 1 |-> val[stack'[k]]]
      BY <1>1, <1>2 DEF Content
    <2>2. ASSUME NEW k \in 1 .. n - 1 PROVE val[stack'[k]] = Content[k + 1]
      <3>1. k + 1 \in 1 .. n /\ stack'[k] = stack[k + 1]
        BY <1>2
      <3> QED BY <3>1 DEF Content
    <2> QED BY <2>1, <2>2, Zenon
  <1> HIDE DEF n
  <1>5. /\ Tail(Content) = [k \in 1 .. n - 1 |-> Content[k + 1]]
        /\ Head(Content) = Content[1] /\ Content # <<>>
    BY <1>3, SequenceAsFunction, Zenon
  <1> QED BY <1>3, <1>4, <1>5

LEMMA LifoInit == Init => LIFO!Init
  <1> SUFFICES ASSUME Init PROVE LIFO!Init
    OBVIOUS
  <1>1. stack = <<>>
    BY DEF Init
  <1>2. Content = <<>>
    BY <1>1 DEF Content
  <1>3. Pushed = [p \in Producers |-> 0]
    BY Constants DEF Init, Pushed
  <1>4. Got = [c \in Consumers |-> NULL]
    BY Constants DEF Init, Got
  <1> QED BY <1>2, <1>3, <1>4 DEF LIFO!Init, Got

LEMMA LifoStep == IInv /\ [Next]_vars => [LIFO!Next]_LIFO!vars
  <1> SUFFICES ASSUME IInv, [Next]_vars PROVE [LIFO!Next]_LIFO!vars
    OBVIOUS
  <1>1. ASSUME stack' = stack, Pushed' = Pushed PROVE UNCHANGED LIFO!vars
    <2>1. Content' = Content /\ Got' = Got
      BY <1>1, ContentKept, GotStep
    <2> QED BY <1>1, <2>1 DEF LIFO!vars, Got
  <1>2. ASSUME NEW p \in Producers, PushCas(p), Pushed' = [Pushed EXCEPT ![p] = @ + 1]
        PROVE  LIFO!Next
    <2>1. Got' = Got
      BY <1>2, GotStep
    <2>2. LIFO!Push(p)
      BY <1>2, <2>1, PushInFront DEF LIFO!Push, Got
    <2> QED BY <2>2 DEF LIFO!Next
  <1>3. ASSUME NEW c \in Consumers, PopCas(c), Pushed' = Pushed PROVE LIFO!Next
    <2>1. Got' = [Got EXCEPT ![c] = val[old[c]]]
      BY <1>3, GotStep
    <2>2. LIFO!Pop(c)
      BY <1>3, <2>1, PopTheFirst DEF LIFO!Pop, Got
    <2> QED BY <2>2 DEF LIFO!Next
  <1> QED BY <1>1, <1>2, <1>3, CountStep, GroupsAreIInv

\* The Treiber stack of bench.c implements the LIFO stack, linearised at the
\* successful compare-exchanges.
THEOREM StackIsLifo == Spec => ImplementsLifo
  BY Invariance, LifoInit, LifoStep, PTL DEF Spec, ImplementsLifo, LIFO!Spec
=============================================================================
