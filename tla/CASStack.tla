------------------------------ MODULE CASStack ------------------------------
(***************************************************************************)
(* The lock-free half of the benchmark (bench.c): producers and consumers  *)
(* around a Treiber stack whose nodes come from a pool and are never used  *)
(* twice, and the main thread that joins the producers, sets cas_done,     *)
(* joins the consumers and reports.                                        *)
(*                                                                         *)
(* Every access to shared memory is a step of its own.  A thread at "load" *)
(* is about to load top, at "next" to read old->next, at "cas" to try the  *)
(* compare-exchange, at "count" to add to the counter, at "check_done" to  *)
(* load cas_done.  A producer's writes to its own node are part of the     *)
(* step before them: nobody else can see the node yet (PrivateNodes).      *)
(***************************************************************************)
EXTENDS Integers, Sequences, FiniteSets

CONSTANTS
    NUM_PRODUCERS,       \* producer ids are 0 .. NUM_PRODUCERS - 1
    Consumers,           \* the consumer threads
    ITEMS_PER_PRODUCER,
    POOL_SIZE,
    MaxSpurious,         \* bound: spurious failures of a weak CAS
    Main,                \* the thread that runs run_cas
    NULL

Producers == 0 .. NUM_PRODUCERS - 1
Threads == Producers \cup Consumers \cup {Main}
Nodes == 0 .. POOL_SIZE - 1

ASSUME StackAssumption ==
    /\ NUM_PRODUCERS \in Nat \ {0}
    /\ ITEMS_PER_PRODUCER \in Nat \ {0}
    /\ POOL_SIZE \in Nat
    /\ POOL_SIZE >= NUM_PRODUCERS * ITEMS_PER_PRODUCER
    /\ MaxSpurious \in Nat
    /\ IsFiniteSet(Consumers)
    /\ Consumers \cap Producers = {}
    /\ Main \notin Producers \cup Consumers
    /\ NULL \notin Nat

VARIABLES
    top, push_count, pop_count,     \* the fields of CASStack
    next, val,                      \* node_pool[n].next and .val
    pool_idx, cas_done,
    pc,                             \* where every thread is
    i, node,                        \* locals of the producers
    old,                            \* local of cas_push and of cas_pop
    nxt, out, consumed,             \* locals of the consumers
    joined, total,                  \* consumers main has joined, their sum
    spurious,                       \* spurious failures so far
    stack                           \* history: the nodes pushed, not popped

producerVars == <<i, node, next, val, pool_idx, push_count>>
consumerVars == <<nxt, out, consumed, pop_count>>
mainVars == <<joined, total>>
vars == <<top, producerVars, consumerVars, mainVars, cas_done, pc, old,
          spurious, stack>>

Item(p, k) == p * 1000 + k

\* run_cas resets the globals and starts the threads.
Init ==
    /\ top = NULL /\ push_count = 0 /\ pop_count = 0
    /\ next = [n \in Nodes |-> NULL]
    /\ val = [n \in Nodes |-> 0]
    /\ pool_idx = 0 /\ cas_done = 0
    /\ pc = [t \in Threads |->
               IF t = Main THEN "join_producers"
               ELSE IF t \in Producers THEN "alloc" ELSE "load"]
    /\ i = [p \in Producers |-> 0]
    /\ node = [p \in Producers |-> NULL]
    /\ old = [t \in Producers \cup Consumers |-> NULL]
    /\ nxt = [c \in Consumers |-> NULL]
    /\ out = [c \in Consumers |-> NULL]
    /\ consumed = [c \in Consumers |-> 0]
    /\ joined = {} /\ total = 0
    /\ spurious = 0
    /\ stack = <<>>

(***************************************************************************)
(* The conditions and small steps the threads are built from.  A faulty    *)
(* variant stands before the ones that have one: a bug that a change of    *)
(* the code could bring in, or one that its notes report; no specification *)
(* uses them, and some property below finds each.                          *)
(***************************************************************************)
GoTo(t, label) == pc' = [pc EXCEPT ![t] = label]

OnStack == {stack[k] : k \in 1 .. Len(stack)}

\* Which node pool_alloc may return; malloc and free in its place, which may
\* return one that was popped and is in nobody's hands any more.
InHand ==
    {node[p] : p \in {q \in Producers : pc[q] \in {"load", "cas"}}}
        \cup {old[c] : c \in {d \in Consumers : pc[d] = "count"}}
AnyFreeNode == {n \in 0 .. pool_idx : n \notin OnStack \cup InHand}
FreshNode == {pool_idx}

\* The comparison of a compare-exchange; a plain store.
PlainStore(t) == TRUE
Unchanged(t) == top = old[t]

\* The condition of the producer's loop.
MoreItems(p) == i[p] + 1 < ITEMS_PER_PRODUCER

\* Where a successful pop goes.
AfterPop == "count"

\* What main joins; a consumer that still runs.
ProducersReturned == \A p \in Producers : pc[p] = "done"
Started(c) == c \in Consumers
Returned(c) == pc[c] = "done"

\* The exit of a consumer that found the stack empty; the exit left out.
NeverExits == "load"
AfterEmpty == IF cas_done = 0 THEN "load" ELSE "done"

(***************************************************************************)
(* cas_producer: cas_push for every item.                                  *)
(***************************************************************************)

\* pool_alloc and node->val = val.
PoolAlloc(p) ==
    /\ pc[p] = "alloc"
    /\ \E n \in FreshNode :
          /\ node' = [node EXCEPT ![p] = n]
          /\ val' = [val EXCEPT ![n] = Item(p, i[p])]
    /\ pool_idx' = pool_idx + 1
    /\ GoTo(p, "load")
    /\ UNCHANGED <<top, i, next, push_count, consumerVars, mainVars, cas_done,
                   old, spurious, stack>>

\* old = top and node->next = old.
PushLoad(p) ==
    /\ pc[p] = "load"
    /\ old' = [old EXCEPT ![p] = top]
    /\ next' = [next EXCEPT ![node[p]] = top]
    /\ GoTo(p, "cas")
    /\ UNCHANGED <<top, i, node, val, pool_idx, push_count, consumerVars,
                   mainVars, cas_done, spurious, stack>>

PushCas(p) ==
    /\ pc[p] = "cas"
    /\ Unchanged(p)
    /\ top' = node[p]
    /\ stack' = <<node[p]>> \o stack
    /\ GoTo(p, "count")
    /\ UNCHANGED <<producerVars, consumerVars, mainVars, cas_done, old, spurious>>

PushCount(p) ==
    /\ pc[p] = "count"
    /\ push_count' = push_count + 1
    /\ i' = [i EXCEPT ![p] = @ + 1]
    /\ GoTo(p, IF MoreItems(p) THEN "alloc" ELSE "done")
    /\ UNCHANGED <<top, node, next, val, pool_idx, consumerVars, mainVars,
                   cas_done, old, spurious, stack>>

(***************************************************************************)
(* Both loops: the compare-exchange fails and the loop begins again.  The  *)
(* weak one may also fail although top is unchanged.                       *)
(***************************************************************************)
CasFails(t) ==
    /\ pc[t] = "cas"
    /\ \/ ~Unchanged(t) /\ UNCHANGED spurious
       \/ Unchanged(t) /\ spurious < MaxSpurious /\ spurious' = spurious + 1
    /\ GoTo(t, "load")
    /\ UNCHANGED <<top, producerVars, consumerVars, mainVars, cas_done, old, stack>>

(***************************************************************************)
(* cas_consumer: cas_pop, and a look at cas_done when it found nothing.    *)
(***************************************************************************)
PopLoad(c) ==
    /\ pc[c] = "load"
    /\ old' = [old EXCEPT ![c] = top]
    /\ GoTo(c, IF top = NULL THEN "check_done" ELSE "next")
    /\ UNCHANGED <<top, producerVars, consumerVars, mainVars, cas_done,
                   spurious, stack>>

PopNext(c) ==
    /\ pc[c] = "next"
    /\ nxt' = [nxt EXCEPT ![c] = next[old[c]]]
    /\ GoTo(c, "cas")
    /\ UNCHANGED <<top, producerVars, out, consumed, pop_count, mainVars,
                   cas_done, old, spurious, stack>>

PopCas(c) ==
    /\ pc[c] = "cas"
    /\ Unchanged(c)
    /\ top' = nxt[c]
    /\ stack' = Tail(stack)
    /\ GoTo(c, AfterPop)
    /\ UNCHANGED <<producerVars, consumerVars, mainVars, cas_done, old, spurious>>

\* *out = old->val, pop_count and the consumer's own counter.
PopCount(c) ==
    /\ pc[c] = "count"
    /\ out' = [out EXCEPT ![c] = val[old[c]]]
    /\ pop_count' = pop_count + 1
    /\ consumed' = [consumed EXCEPT ![c] = @ + 1]
    /\ GoTo(c, "load")
    /\ UNCHANGED <<top, producerVars, nxt, mainVars, cas_done, old, spurious, stack>>

\* The stack was empty when top was loaded; it need not be empty any more.
CheckDone(c) ==
    /\ pc[c] = "check_done"
    /\ GoTo(c, AfterEmpty)
    /\ UNCHANGED <<top, producerVars, consumerVars, mainVars, cas_done, old,
                   spurious, stack>>

(***************************************************************************)
(* run_cas, the main thread.  It joins one thread after the other; only    *)
(* the moment the last join returns can be told apart.                     *)
(***************************************************************************)
MainJoinProducers ==
    /\ pc[Main] = "join_producers"
    /\ ProducersReturned
    /\ GoTo(Main, "set_done")
    /\ UNCHANGED <<top, producerVars, consumerVars, mainVars, cas_done, old,
                   spurious, stack>>

MainSetDone ==
    /\ pc[Main] = "set_done"
    /\ cas_done' = 1
    /\ GoTo(Main, "join_consumers")
    /\ UNCHANGED <<top, producerVars, consumerVars, mainVars, old, spurious, stack>>

MainJoinConsumer(c) ==
    /\ pc[Main] = "join_consumers"
    /\ c \notin joined
    /\ Returned(c)
    /\ joined' = joined \cup {c}
    /\ total' = total + consumed[c]
    /\ UNCHANGED <<top, producerVars, consumerVars, cas_done, pc, old, spurious, stack>>

MainReport ==
    /\ pc[Main] = "join_consumers"
    /\ joined = Consumers
    /\ GoTo(Main, "done")
    /\ UNCHANGED <<top, producerVars, consumerVars, mainVars, cas_done, old,
                   spurious, stack>>

(***************************************************************************)
(* The next-state relation and the specification.                          *)
(***************************************************************************)
Producer(p) ==
    PoolAlloc(p) \/ PushLoad(p) \/ PushCas(p) \/ CasFails(p) \/ PushCount(p)

Consumer(c) ==
    \/ PopLoad(c) \/ PopNext(c) \/ PopCas(c) \/ CasFails(c)
    \/ PopCount(c) \/ CheckDone(c)

MainThread ==
    \/ MainJoinProducers \/ MainSetDone
    \/ \E c \in Consumers : MainJoinConsumer(c)
    \/ MainReport

\* The process has ended; nothing else may stand still.
Terminated ==
    /\ \A t \in Threads : pc[t] = "done"
    /\ UNCHANGED vars

Next ==
    \/ \E p \in Producers : Producer(p)
    \/ \E c \in Consumers : Consumer(c)
    \/ MainThread
    \/ Terminated

Spec == Init /\ [][Next]_vars

\* Every thread is eventually run; nothing is promised to a single CAS.
Fairness ==
    /\ \A p \in Producers : WF_vars(Producer(p))
    /\ \A c \in Consumers : WF_vars(Consumer(c))
    /\ WF_vars(MainThread)

FairSpec == Spec /\ Fairness
-----------------------------------------------------------------------------
(***************************************************************************)
(* Properties.                                                             *)
(***************************************************************************)
ProducerLabels == {"alloc", "load", "cas", "count", "done"}
ConsumerLabels == {"load", "next", "cas", "count", "check_done", "done"}
MainLabels == {"join_producers", "set_done", "join_consumers", "done"}

\* Types and ranges: every pointer is a node of the pool or NULL, and pool_idx
\* never runs past the nodes that the items need (bench.c:75-96).
TypeOK ==
    /\ top \in Nodes \cup {NULL}
    /\ push_count \in Nat /\ pop_count \in Nat
    /\ next \in [Nodes -> Nodes \cup {NULL}]
    /\ val \in [Nodes -> Nat]
    /\ pool_idx \in 0 .. NUM_PRODUCERS * ITEMS_PER_PRODUCER
    /\ cas_done \in {0, 1}
    /\ pc \in [Threads -> ProducerLabels \cup ConsumerLabels \cup MainLabels]
    /\ \A p \in Producers : pc[p] \in ProducerLabels
    /\ \A c \in Consumers : pc[c] \in ConsumerLabels
    /\ pc[Main] \in MainLabels
    /\ i \in [Producers -> 0 .. ITEMS_PER_PRODUCER]
    /\ node \in [Producers -> Nodes \cup {NULL}]
    /\ old \in [Producers \cup Consumers -> Nodes \cup {NULL}]
    /\ nxt \in [Consumers -> Nodes \cup {NULL}]
    /\ out \in [Consumers -> Nat \cup {NULL}]
    /\ consumed \in [Consumers -> Nat]
    /\ joined \subseteq Consumers
    /\ total \in Nat
    /\ spurious \in 0 .. MaxSpurious
    /\ stack \in Seq(Nodes)

\* The node at position k of the history stack, NULL below the last one.
At(k) == IF k <= Len(stack) THEN stack[k] ELSE NULL

\* The pointers are the stack: top and the next fields lead through the nodes
\* that were pushed and not popped, the last push first, each node once.
ChainIsStack ==
    /\ top = At(1)
    /\ \A k \in 1 .. Len(stack) : next[stack[k]] = At(k + 1)
    /\ \A k, l \in 1 .. Len(stack) : stack[k] = stack[l] => k = l

\* No ABA: a consumer whose compare-exchange would succeed holds the true
\* successor of the top node, however long ago it read it.
NoAba ==
    \A c \in Consumers : pc[c] = "cas" /\ top = old[c] => nxt[c] = At(2)

\* Producers that have a node nobody may see yet; consumers that use a node
\* they found on the stack.
Writing == {p \in Producers : pc[p] \in {"load", "cas"}}
Reading == {c \in Consumers : pc[c] \in {"next", "cas", "count"}}

\* The node a producer still writes to is its own: it is not on the stack, no
\* other producer writes to it, and no consumer can be reading it
\* (bench.c:93-105, what the node pool is for: mutex_cas_summary.md:67-93).
PrivateNodes ==
    \A p \in Writing :
        /\ node[p] \notin OnStack
        /\ \A q \in Writing \ {p} : node[q] # node[p]
        /\ \A c \in Reading : old[c] # node[p]

\* The sum of a function with natural values, as the number of pairs of an
\* argument and a number below its value.
Tokens(f) == UNION {{x} \X (0 .. f[x] - 1) : x \in DOMAIN f}
SumOf(f) == Cardinality(Tokens(f))

\* How many items each producer has pushed and each consumer has popped: the
\* counters follow after the compare-exchange.
Pushed == [p \in Producers |-> i[p] + (IF pc[p] = "count" THEN 1 ELSE 0)]
Popped == [c \in Consumers |-> consumed[c] + (IF pc[c] = "count" THEN 1 ELSE 0)]

\* Nothing lost, nothing popped twice: what was pushed has been popped or is
\* still on the stack (the two pops of one node of mutex_cas_summary.md:44-63).
Conservation == SumOf(Pushed) = SumOf(Popped) + Len(stack)

\* The report (bench.c:211-221): push_count is the number of items of all
\* producers, total and pop_count agree, and whatever they miss is still on
\* the stack.
ReportAddsUp ==
    pc[Main] = "done" =>
        /\ push_count = NUM_PRODUCERS * ITEMS_PER_PRODUCER
        /\ total = pop_count
        /\ total + Len(stack) = push_count

(***************************************************************************)
(* The inductive invariant behind the properties above.                    *)
(***************************************************************************)

\* The pool hands out one node per item that was begun, the next one unused.
Begun ==
    [p \in Producers |->
        i[p] + (IF pc[p] \in {"load", "cas", "count"} THEN 1 ELSE 0)]
PoolCount == IsFiniteSet(Tokens(Begun)) /\ pool_idx = SumOf(Begun)
LoopsCount == \A p \in Producers : i[p] < ITEMS_PER_PRODUCER <=> pc[p] # "done"

\* Every node in use came from the pool before; the locals of a thread that
\* is inside cas_push or cas_pop say what the node's fields still say.
Allocated == 0 .. pool_idx - 1
LocalsCurrent ==
    /\ OnStack \subseteq Allocated
    /\ \A p \in Writing : /\ node[p] \in Allocated
                          /\ val[node[p]] = Item(p, i[p])
                          /\ pc[p] = "cas" => next[node[p]] = old[p]
    /\ \A c \in Reading : /\ old[c] \in Allocated
                          /\ pc[c] = "cas" => nxt[c] = next[old[c]]

\* The order at the end: producers, cas_done, consumers, the sum.
DoneAfterProducers ==
    /\ cas_done = 1 <=> pc[Main] \in {"join_consumers", "done"}
    /\ pc[Main] # "join_producers" => \A p \in Producers : pc[p] = "done"

\* The atomic counters and main's sum, as what was counted.
CountersExact ==
    /\ IsFiniteSet(Tokens(i)) /\ push_count = SumOf(i)
    /\ IsFiniteSet(Tokens(consumed)) /\ pop_count = SumOf(consumed)
JoinedCounts == [c \in joined |-> consumed[c]]
TotalOfJoined ==
    /\ \A c \in joined : pc[c] = "done"
    /\ IsFiniteSet(Tokens(JoinedCounts)) /\ total = SumOf(JoinedCounts)
    /\ pc[Main] = "done" => joined = Consumers

\* The whole of it: preserved by every step of the threads of bench.c:93-222,
\* and enough for each property (NoAba follows from ChainIsStack and
\* LocalsCurrent).
IInv ==
    /\ TypeOK /\ PoolCount /\ LoopsCount
    /\ ChainIsStack /\ PrivateNodes /\ LocalsCurrent
    /\ IsFiniteSet(Tokens(Pushed)) /\ IsFiniteSet(Tokens(Popped)) /\ Conservation
    /\ DoneAfterProducers /\ CountersExact /\ TotalOfJoined

\* What strace_result.md:32-33 shows of a run, "push: 8000000 pop: 8000000":
\* the consumers consume all that the producers produce.  The code does not
\* see to it: cas_done may be set between a consumer's load of an empty top
\* and its load of cas_done, with items pushed in between.
EverythingConsumed ==
    pc[Main] = "done" => total = NUM_PRODUCERS * ITEMS_PER_PRODUCER

\* Every run ends: the retry loops do not keep each other from finishing, and
\* every consumer sees cas_done (bench.c:102-105, 111-115 and 132-138).
Termination == <>(\A t \in Threads : pc[t] = "done")

\* The values of the nodes on the stack.  In the mapping a consumer has its
\* item from the compare-exchange on, although it reads it from the node later.
Content == [k \in 1 .. Len(stack) |-> val[stack[k]]]
LIFO == INSTANCE LifoStack WITH
    Quota <- ITEMS_PER_PRODUCER, Nothing <- NULL, items <- Content,
    sent <- Pushed,
    got <- [c \in Consumers |-> IF pc[c] = "count" THEN val[old[c]] ELSE out[c]]

\* The nodes and pointers implement the LIFO stack: a successful
\* compare-exchange of cas_push or cas_pop is the whole push or pop, and no
\* other step is visible (bench.c:98-119).
ImplementsLifo == LIFO!Spec
=============================================================================
