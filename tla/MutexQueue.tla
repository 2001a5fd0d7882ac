----------------------------- MODULE MutexQueue -----------------------------
(***************************************************************************)
(* The mutex half of the benchmark (bench.c): producers and consumers      *)
(* around a ring buffer that a mutex and two condition variables protect,  *)
(* and the main thread that joins the producers, sets done, broadcasts,    *)
(* joins the consumers and adds up what they consumed.                     *)
(*                                                                         *)
(* A thread at "lock" is inside pthread_mutex_lock; at "check" it holds    *)
(* the mutex and evaluates its while condition; at "waiting" it is inside  *)
(* pthread_cond_wait, asleep while it is in not_full or not_empty and on   *)
(* its way back to the mutex once it is not; at "unlock" it is about to    *)
(* release the mutex.  Everything the threads share is read and written    *)
(* between lock and unlock, so a critical section needs no finer steps.    *)
(***************************************************************************)
EXTENDS Integers, FiniteSets

CONSTANTS
    NUM_PRODUCERS,       \* producer ids are 0 .. NUM_PRODUCERS - 1
    Consumers,           \* the consumer threads
    ITEMS_PER_PRODUCER,
    BUFFER_SIZE,
    MaxSpurious,         \* bound: spurious wakeups in one behaviour
    Main,                \* the thread that runs run_mutex
    NoThread             \* owner of a free mutex

Producers == 0 .. NUM_PRODUCERS - 1
Threads == Producers \cup Consumers \cup {Main}

ASSUME QueueAssumption ==
    /\ NUM_PRODUCERS \in Nat \ {0}
    /\ ITEMS_PER_PRODUCER \in Nat \ {0}
    /\ BUFFER_SIZE \in Nat \ {0}
    /\ MaxSpurious \in Nat
    /\ IsFiniteSet(Consumers) /\ Consumers # {}
    /\ Consumers \cap Producers = {}
    /\ Main \notin Producers \cup Consumers
    /\ NoThread \notin Threads

VARIABLES
    buf, head, tail, count, done,   \* the fields of MutexQueue
    lock,                           \* the thread that holds mq.lock
    not_full, not_empty,            \* threads asleep on each condition
    pc,                             \* where every thread is
    i,                              \* loop index of every producer
    consumed,                       \* local counter of every consumer
    joined, total,                  \* consumers main has joined, their sum
    spurious                        \* spurious wakeups so far

queueVars == <<buf, head, tail, count, done>>
mainVars == <<joined, total>>
vars == <<queueVars, lock, not_full, not_empty, pc, i, consumed, mainVars,
          spurious>>

Item(p, k) == p * 1000 + k

mq_init ==
    /\ head = 0 /\ tail = 0 /\ count = 0 /\ done = 0
    /\ lock = NoThread
    /\ not_full = {} /\ not_empty = {}

\* run_mutex has called mq_init and started the threads.
Init ==
    /\ buf = [s \in 0 .. BUFFER_SIZE - 1 |-> 0]
    /\ mq_init
    /\ pc = [t \in Threads |-> IF t = Main THEN "join_producers" ELSE "lock"]
    /\ i = [p \in Producers |-> 0]
    /\ consumed = [c \in Consumers |-> 0]
    /\ joined = {} /\ total = 0
    /\ spurious = 0

(***************************************************************************)
(* The conditions and small steps the threads are built from.  Before each *)
(* stands a faulty variant: a bug that a change of the code could bring    *)
(* in, used by no specification, which some property below finds.          *)
(***************************************************************************)
GoTo(t, label) == pc' = [pc EXCEPT ![t] = label]

\* The mutex can be taken.
Free == lock = NoThread

\* pthread_cond_signal: one sleeper, whichever, is taken off the condition;
\* the signal left out.
NotSignalled(waiters) == {waiters}
Signalled(waiters) ==
    IF waiters = {} THEN {{}} ELSE {waiters \ {t} : t \in waiters}

\* pthread_cond_broadcast: all of them; a signal in its place.
BroadcastToOne(waiters) == Signalled(waiters)
Broadcast(waiters) == {{}}

\* The while condition of the producer.
Full == count = BUFFER_SIZE

\* The exit condition of the consumer; leaving as soon as done is set.
DoneSet == done # 0
Drained == count = 0 /\ done # 0

\* The next ring index; the index that is not moved on.
SameIndex(s) == s
NextIndex(s) == (s + 1) % BUFFER_SIZE

\* consumed++.
Counted(c) == consumed[c] + 1

\* What main joins; one producer for all, a consumer that still runs.
SomeProducerReturned == \E p \in Producers : pc[p] = "done"
ProducersReturned == \A p \in Producers : pc[p] = "done"
Started(c) == c \in Consumers
Returned(c) == pc[c] = "done"

(***************************************************************************)
(* pthread_mutex_lock and pthread_cond_wait.                               *)
(***************************************************************************)
Lock(t) ==
    /\ pc[t] = "lock"
    /\ Free
    /\ lock' = t
    /\ GoTo(t, IF t = Main THEN "set_done" ELSE "check")
    /\ UNCHANGED <<queueVars, not_full, not_empty, i, consumed, mainVars, spurious>>

\* The end of pthread_cond_wait: the woken thread takes the mutex again and
\* goes back to its while condition.
Reacquire(t) ==
    /\ pc[t] = "waiting"
    /\ t \notin not_full \cup not_empty
    /\ Free
    /\ lock' = t
    /\ GoTo(t, "check")
    /\ UNCHANGED <<queueVars, not_full, not_empty, i, consumed, mainVars, spurious>>

\* POSIX lets pthread_cond_wait return without a signal.
SpuriousWakeup(t) ==
    /\ t \in not_full \cup not_empty
    /\ spurious < MaxSpurious
    /\ spurious' = spurious + 1
    /\ not_full' = not_full \ {t}
    /\ not_empty' = not_empty \ {t}
    /\ UNCHANGED <<queueVars, lock, pc, i, consumed, mainVars>>

(***************************************************************************)
(* mutex_producer.                                                         *)
(***************************************************************************)
ProducerWait(p) ==
    /\ pc[p] = "check"
    /\ Full
    /\ not_full' = not_full \cup {p}
    /\ lock' = NoThread
    /\ GoTo(p, "waiting")
    /\ UNCHANGED <<queueVars, not_empty, i, consumed, mainVars, spurious>>

ProducerPut(p) ==
    /\ pc[p] = "check"
    /\ ~Full
    /\ buf' = [buf EXCEPT ![tail] = Item(p, i[p])]
    /\ tail' = NextIndex(tail)
    /\ count' = count + 1
    /\ not_empty' \in Signalled(not_empty)
    /\ GoTo(p, "unlock")
    /\ UNCHANGED <<head, done, lock, not_full, i, consumed, mainVars, spurious>>

ProducerUnlock(p) ==
    /\ pc[p] = "unlock"
    /\ lock' = NoThread
    /\ i' = [i EXCEPT ![p] = @ + 1]
    /\ GoTo(p, IF i[p] + 1 < ITEMS_PER_PRODUCER THEN "lock" ELSE "done")
    /\ UNCHANGED <<queueVars, not_full, not_empty, consumed, mainVars, spurious>>

(***************************************************************************)
(* mutex_consumer.                                                         *)
(***************************************************************************)
ConsumerWait(c) ==
    /\ pc[c] = "check"
    /\ count = 0 /\ done = 0
    /\ not_empty' = not_empty \cup {c}
    /\ lock' = NoThread
    /\ GoTo(c, "waiting")
    /\ UNCHANGED <<queueVars, not_full, i, consumed, mainVars, spurious>>

ConsumerExit(c) ==
    /\ pc[c] = "check"
    /\ Drained
    /\ lock' = NoThread
    /\ GoTo(c, "done")
    /\ UNCHANGED <<queueVars, not_full, not_empty, i, consumed, mainVars, spurious>>

ConsumerTake(c) ==
    /\ pc[c] = "check"
    /\ count # 0
    /\ head' = NextIndex(head)
    /\ count' = count - 1
    /\ not_full' \in Signalled(not_full)
    /\ GoTo(c, "unlock")
    /\ UNCHANGED <<buf, tail, done, lock, not_empty, i, consumed, mainVars, spurious>>

ConsumerUnlock(c) ==
    /\ pc[c] = "unlock"
    /\ lock' = NoThread
    /\ consumed' = [consumed EXCEPT ![c] = Counted(c)]
    /\ GoTo(c, "lock")
    /\ UNCHANGED <<queueVars, not_full, not_empty, i, mainVars, spurious>>

(***************************************************************************)
(* run_mutex, the main thread.  It joins one thread after the other; only  *)
(* the moment the last join returns can be told apart.                     *)
(***************************************************************************)
MainJoinProducers ==
    /\ pc[Main] = "join_producers"
    /\ ProducersReturned
    /\ GoTo(Main, "lock")
    /\ UNCHANGED <<queueVars, lock, not_full, not_empty, i, consumed, mainVars, spurious>>

\* mq.done = 1 and pthread_cond_broadcast(&mq.not_empty).
MainSetDone ==
    /\ pc[Main] = "set_done"
    /\ done' = 1
    /\ not_empty' \in Broadcast(not_empty)
    /\ GoTo(Main, "unlock")
    /\ UNCHANGED <<buf, head, tail, count, lock, not_full, i, consumed, mainVars, spurious>>

MainUnlock ==
    /\ pc[Main] = "unlock"
    /\ lock' = NoThread
    /\ GoTo(Main, "join_consumers")
    /\ UNCHANGED <<queueVars, not_full, not_empty, i, consumed, mainVars, spurious>>

MainJoinConsumer(c) ==
    /\ pc[Main] = "join_consumers"
    /\ c \notin joined
    /\ Returned(c)
    /\ joined' = joined \cup {c}
    /\ total' = total + consumed[c]
    /\ UNCHANGED <<queueVars, lock, not_full, not_empty, pc, i, consumed, spurious>>

MainReport ==
    /\ pc[Main] = "join_consumers"
    /\ joined = Consumers
    /\ GoTo(Main, "done")
    /\ UNCHANGED <<queueVars, lock, not_full, not_empty, i, consumed, mainVars, spurious>>

(***************************************************************************)
(* The next-state relation and the specification.                          *)
(***************************************************************************)
Producer(p) ==
    Lock(p) \/ Reacquire(p) \/ ProducerWait(p) \/ ProducerPut(p) \/ ProducerUnlock(p)

Consumer(c) ==
    \/ Lock(c) \/ Reacquire(c)
    \/ ConsumerWait(c) \/ ConsumerExit(c) \/ ConsumerTake(c) \/ ConsumerUnlock(c)

MainThread ==
    \/ MainJoinProducers \/ Lock(Main) \/ MainSetDone \/ MainUnlock
    \/ \E c \in Consumers : MainJoinConsumer(c)
    \/ MainReport

\* The process has ended; nothing else may stand still.
Terminated ==
    /\ \A t \in Threads : pc[t] = "done"
    /\ UNCHANGED vars

Next ==
    \/ \E p \in Producers : Producer(p)
    \/ \E c \in Consumers : Consumer(c)
    \/ MainThread
    \/ \E t \in Producers \cup Consumers : SpuriousWakeup(t)
    \/ Terminated

Spec == Init /\ [][Next]_vars

\* Every thread that can run is eventually run.  No thread is promised the
\* mutex while others keep taking it.
Fairness ==
    /\ \A p \in Producers : WF_vars(Producer(p))
    /\ \A c \in Consumers : WF_vars(Consumer(c))
    /\ WF_vars(MainThread)

FairSpec == Spec /\ Fairness
-----------------------------------------------------------------------------
(***************************************************************************)
(* Properties.                                                             *)
(***************************************************************************)

\* How many items a producer has put, a consumer has taken: the loop counters
\* are incremented only after the unlock.
Put(p) == i[p] + (IF pc[p] = "unlock" THEN 1 ELSE 0)
Taken(c) == consumed[c] + (IF pc[c] = "unlock" THEN 1 ELSE 0)

\* Producers that will still look at the queue, consumers that will.
AwakeProducers ==
    {p \in Producers : p \notin not_full /\ Put(p) < ITEMS_PER_PRODUCER}
AwakeConsumers == {c \in Consumers : c \notin not_empty /\ pc[c] # "done"}

ThreadLabels == {"lock", "check", "waiting", "unlock", "done"}
MainLabels ==
    {"join_producers", "lock", "set_done", "unlock", "join_consumers", "done"}

\* Types and ranges: head and tail index the ring, count never exceeds
\* BUFFER_SIZE, only producers sleep on not_full and only consumers on
\* not_empty, no producer puts more than its items (bench.c:18-25).
TypeOK ==
    /\ buf \in [0 .. BUFFER_SIZE - 1 -> Nat]
    /\ head \in 0 .. BUFFER_SIZE - 1
    /\ tail \in 0 .. BUFFER_SIZE - 1
    /\ count \in 0 .. BUFFER_SIZE
    /\ done \in {0, 1}
    /\ lock \in Threads \cup {NoThread}
    /\ not_full \subseteq Producers
    /\ not_empty \subseteq Consumers
    /\ pc \in [Threads -> ThreadLabels \cup MainLabels]
    /\ \A t \in Producers \cup Consumers : pc[t] \in ThreadLabels
    /\ pc[Main] \in MainLabels
    /\ i \in [Producers -> 0 .. ITEMS_PER_PRODUCER]
    /\ consumed \in [Consumers -> Nat]
    /\ joined \subseteq Consumers
    /\ total \in Nat
    /\ spurious \in 0 .. MaxSpurious

\* The ring: the tail is always count slots after the head, around the end of
\* the array (bench.c:43-45 and 63-64 move them separately).
RingConsistent == tail = (head + count) % BUFFER_SIZE

\* The mutex is held by exactly the thread that is between lock and unlock, so
\* no two threads are inside, pthread_cond_wait included (bench.c:40-47 and
\* 56-66).
LockHeldInside ==
    \A t \in Threads : (pc[t] \in {"check", "set_done", "unlock"}) <=> (lock = t)

\* No lost wakeup: while a consumer sleeps on not_empty, every buffered item
\* has a consumer that is awake and will come for it.  This is why one signal
\* per put is enough, although the signalled thread may find the queue empty
\* again and another consumer may have taken the item first.
ItemsHaveAwakeConsumers ==
    not_empty # {} => count <= Cardinality(AwakeConsumers)

\* The same for free slots and producers asleep on not_full: every free slot
\* has a producer that is awake and still has something to put, although
\* producers leave for good after their last item without signalling not_full.
SlotsHaveAwakeProducers ==
    not_full # {} => BUFFER_SIZE - count <= Cardinality(AwakeProducers)

\* A consumer gives up only when there is nothing left to come: the producers
\* have finished and the queue is empty, now and for ever (bench.c:59-62).
ExitOnlyWhenDrained ==
    \A c \in Consumers : pc[c] = "done" =>
        done = 1 /\ count = 0 /\ \A p \in Producers : pc[p] = "done"

\* One token per item that has been put, one per item that has been taken.
PutTokens == UNION {{p} \X (0 .. Put(p) - 1) : p \in Producers}
TakenTokens == UNION {{c} \X (0 .. Taken(c) - 1) : c \in Consumers}

\* Nothing lost, nothing taken twice: what has been put is what has been taken
\* plus what the ring holds, although put, take and the threads' own counters
\* are updated apart (bench.c:43-48 and 63-67).
Conservation == Cardinality(PutTokens) = Cardinality(TakenTokens) + count

\* The total that run_mutex prints counts every item of every producer
\* (8000000 for the constants of bench.c, as in strace_result.md).
TotalIsComplete ==
    pc[Main] = "done" => total = NUM_PRODUCERS * ITEMS_PER_PRODUCER

(***************************************************************************)
(* The inductive invariant behind the properties above: what ties the      *)
(* program counters to the wait sets, the loop counters, done and total.   *)
(***************************************************************************)

\* A thread asleep on a condition is inside pthread_cond_wait, and a producer
\* leaves its loop exactly when it has put all its items.
SleepersWait == \A t \in not_full \cup not_empty : pc[t] = "waiting"
LoopsCount == \A p \in Producers : i[p] < ITEMS_PER_PRODUCER <=> pc[p] # "done"

\* Main sets done after the last producer has returned and never earlier.
DoneAfterProducers ==
    /\ done = 1 <=> pc[Main] \in {"unlock", "join_consumers", "done"}
    /\ pc[Main] # "join_producers" => \A p \in Producers : pc[p] = "done"

\* total is what the joined consumers, and they alone, have returned.
JoinedTokens == UNION {{c} \X (0 .. consumed[c] - 1) : c \in joined}
TotalOfJoined ==
    /\ \A c \in joined : pc[c] = "done"
    /\ IsFiniteSet(JoinedTokens)
    /\ total = Cardinality(JoinedTokens)
    /\ pc[Main] = "done" => joined = Consumers

\* The whole of it: preserved by every step of the threads of bench.c:36-185,
\* and enough for each property.
IInv ==
    /\ TypeOK /\ RingConsistent /\ LockHeldInside
    /\ SleepersWait /\ LoopsCount /\ DoneAfterProducers
    /\ ItemsHaveAwakeConsumers /\ SlotsHaveAwakeProducers
    /\ ExitOnlyWhenDrained
    /\ IsFiniteSet(PutTokens) /\ IsFiniteSet(TakenTokens) /\ Conservation
    /\ TotalOfJoined

\* Every run ends: no thread is left asleep once the producers are through,
\* because the broadcast after done wakes all consumers (bench.c:172-175).
Termination == <>(\A t \in Threads : pc[t] = "done")

\* The ring, read from the head.
RingItems == [k \in 1 .. count |-> buf[(head + k - 1) % BUFFER_SIZE]]
FIFO == INSTANCE BoundedBuffer WITH
    Quota <- ITEMS_PER_PRODUCER, Capacity <- BUFFER_SIZE,
    items <- RingItems, sent <- [p \in Producers |-> Put(p)]

\* The ring buffer implements the bounded FIFO: every put appends and every
\* take drops the oldest item, around the end of the array (bench.c:43-45 and
\* 63-64).
ImplementsFifo == FIFO!Spec
=============================================================================
