-------------------------- MODULE MutexQueueProofs --------------------------
(***************************************************************************)
(* Proofs about MutexQueue, for every number of producers, consumers,      *)
(* items and slots: IInv is an inductive invariant, and with it every      *)
(* safety property of that module.                                         *)
(*                                                                         *)
(* The conjuncts of IInv are proved a group at a time, each group from the *)
(* ones before it.                                                         *)
(***************************************************************************)
EXTENDS MutexQueue, Sequences, FiniteSetTheorems, TLAPS

\* The conditions and small steps are expanded everywhere.
USE DEF mq_init, Free, Broadcast, Full, Drained, NextIndex, Counted, ProducersReturned, Returned

(***************************************************************************)
(* Types and control: which thread is where, who holds the mutex, how far  *)
(* the loops are.                                                          *)
(***************************************************************************)
Control == TypeOK /\ LockHeldInside /\ SleepersWait /\ LoopsCount

LEMMA Intervals ==
    ASSUME NEW n \in Nat
    PROVE  IsFiniteSet(0 .. n - 1) /\ Cardinality(0 .. n - 1) = n
  BY FS_Interval

\* A ring index stays a ring index.
LEMMA RingIndex == \A x \in Int : x % BUFFER_SIZE \in 0 .. BUFFER_SIZE - 1
  BY QueueAssumption

\* A signal adds nobody to a wait set, and it takes somebody off one that is
\* not empty.
LEMMA SignalledWakes ==
    ASSUME NEW waiters, NEW left \in Signalled(waiters)
    PROVE  /\ left \subseteq waiters
           /\ waiters # {} => \E t \in waiters : left = waiters \ {t}
  BY DEF Signalled

LEMMA ControlInit == Init => Control
  <1> SUFFICES ASSUME Init PROVE Control
    OBVIOUS
  <1> USE QueueAssumption DEF Init, Producers
  <1>1. TypeOK
    BY DEF TypeOK, Threads, ThreadLabels, MainLabels
  <1>2. LockHeldInside
    BY DEF LockHeldInside, Threads
  <1>3. SleepersWait /\ LoopsCount
    BY DEF SleepersWait, LoopsCount, Threads
  <1> QED BY <1>1, <1>2, <1>3 DEF Control

LEMMA ControlStep == Control /\ [Next]_vars => Control'
  <1> SUFFICES ASSUME Control, [Next]_vars PROVE Control'
    OBVIOUS
  <1> USE QueueAssumption DEF Control, TypeOK, LockHeldInside, SleepersWait,
          LoopsCount, Threads, GoTo, queueVars, mainVars
  <1>1. ASSUME NEW t \in Threads, Lock(t) PROVE Control'
    BY <1>1 DEF Lock, ThreadLabels, MainLabels
  <1>2. ASSUME NEW t \in Producers \cup Consumers, Reacquire(t) PROVE Control'
    BY <1>2 DEF Reacquire, ThreadLabels, MainLabels
  <1>3. ASSUME NEW t \in Producers \cup Consumers, SpuriousWakeup(t) PROVE Control'
    BY <1>3 DEF SpuriousWakeup
  <1>4. ASSUME NEW p \in Producers, ProducerWait(p) PROVE Control'
    BY <1>4 DEF ProducerWait, ThreadLabels, MainLabels
  <1>5. ASSUME NEW p \in Producers, ProducerPut(p) PROVE Control'
    <2>1. not_empty' \subseteq not_empty
      BY <1>5, SignalledWakes DEF ProducerPut
    <2>2. tail' \in 0 .. BUFFER_SIZE - 1
      <3>1. tail + 1 \in Int
        OBVIOUS
      <3> QED BY <1>5, <3>1, RingIndex, Zenon DEF ProducerPut
    <2>3. buf' \in [0 .. BUFFER_SIZE - 1 -> Nat]
      BY <1>5 DEF ProducerPut, Item, Producers
    <2> QED
      BY <1>5, <2>1, <2>2, <2>3 DEF ProducerPut, ThreadLabels, MainLabels
  <1>6. ASSUME NEW p \in Producers, ProducerUnlock(p) PROVE Control'
    BY <1>6 DEF ProducerUnlock, ThreadLabels, MainLabels
  <1>7. ASSUME NEW c \in Consumers, ConsumerWait(c) PROVE Control'
    BY <1>7 DEF ConsumerWait, ThreadLabels, MainLabels
  <1>8. ASSUME NEW c \in Consumers, ConsumerExit(c) PROVE Control'
    BY <1>8 DEF ConsumerExit, ThreadLabels, MainLabels
  <1>9. ASSUME NEW c \in Consumers, ConsumerTake(c) PROVE Control'
    <2>1. not_full' \subseteq not_full
      BY <1>9, SignalledWakes DEF ConsumerTake
    <2>2. head' \in 0 .. BUFFER_SIZE - 1
      <3>1. head + 1 \in Int
        OBVIOUS
      <3> QED BY <1>9, <3>1, RingIndex, Zenon DEF ConsumerTake
    <2> QED
      BY <1>9, <2>1, <2>2 DEF ConsumerTake, ThreadLabels, MainLabels
  <1>10. ASSUME NEW c \in Consumers, ConsumerUnlock(c) PROVE Control'
    BY <1>10 DEF ConsumerUnlock, ThreadLabels, MainLabels
  <1>11. CASE MainJoinProducers
    BY <1>11 DEF MainJoinProducers, ThreadLabels, MainLabels
  <1>12. CASE MainSetDone
    BY <1>12 DEF MainSetDone, ThreadLabels, MainLabels
  <1>13. CASE MainUnlock
    BY <1>13 DEF MainUnlock, ThreadLabels, MainLabels
  <1>14. ASSUME NEW c \in Consumers, MainJoinConsumer(c) PROVE Control'
    BY <1>14 DEF MainJoinConsumer
  <1>15. CASE MainReport
    BY <1>15 DEF MainReport, ThreadLabels, MainLabels
  <1>16. CASE UNCHANGED vars
    BY <1>16 DEF vars
  <1> QED
    BY <1>1, <1>2, <1>3, <1>4, <1>5, <1>6, <1>7, <1>8, <1>9, <1>10, <1>11,
       <1>12, <1>13, <1>14, <1>15, <1>16
       DEF Next, Producer, Consumer, MainThread, Terminated

(***************************************************************************)
(* The ring indices.                                                       *)
(***************************************************************************)

\* An index that passes the end of the array by less than its length.
Wrap(x) == IF x < BUFFER_SIZE THEN x ELSE x - BUFFER_SIZE

LEMMA ModWrap ==
    ASSUME NEW x \in 0 .. 2 * BUFFER_SIZE - 1
    PROVE  x % BUFFER_SIZE = Wrap(x)
  BY QueueAssumption DEF Wrap

LEMMA RingInit == Init => RingConsistent
  BY QueueAssumption DEF Init, RingConsistent

LEMMA RingStep == Control /\ RingConsistent /\ [Next]_vars => RingConsistent'
  <1> SUFFICES ASSUME Control, RingConsistent, [Next]_vars PROVE RingConsistent'
    OBVIOUS
  <1>0. /\ BUFFER_SIZE \in Nat \ {0}
        /\ head \in 0 .. BUFFER_SIZE - 1 /\ tail \in 0 .. BUFFER_SIZE - 1
        /\ count \in 0 .. BUFFER_SIZE
        /\ tail = (head + count) % BUFFER_SIZE
    BY QueueAssumption DEF Control, TypeOK, RingConsistent
  <1>1. ASSUME NEW p \in Producers, ProducerPut(p) PROVE RingConsistent'
    <2>1. /\ tail' = (tail + 1) % BUFFER_SIZE
          /\ count' = count + 1 /\ count < BUFFER_SIZE /\ head' = head
      BY <1>0, <1>1 DEF ProducerPut
    <2>2. /\ head + count \in 0 .. 2 * BUFFER_SIZE - 1
          /\ tail + 1 \in 0 .. 2 * BUFFER_SIZE - 1
          /\ head + count + 1 \in 0 .. 2 * BUFFER_SIZE - 1
      BY <1>0, <2>1
    <2>3. /\ tail = Wrap(head + count) /\ tail' = Wrap(tail + 1)
          /\ (head + count + 1) % BUFFER_SIZE = Wrap(head + count + 1)
      BY <1>0, <2>1, <2>2, ModWrap, Zenon
    <2>4. Wrap(Wrap(head + count) + 1) = Wrap(head + count + 1)
      BY <1>0, <2>1 DEF Wrap
    <2>5. head' + count' = head + count + 1
      BY <1>0, <2>1
    <2> QED BY <2>3, <2>4, <2>5, Zenon DEF RingConsistent
  <1>2. ASSUME NEW c \in Consumers, ConsumerTake(c) PROVE RingConsistent'
    <2>1. /\ head' = (head + 1) % BUFFER_SIZE
          /\ count' = count - 1 /\ count > 0 /\ tail' = tail
      BY <1>0, <1>2 DEF ConsumerTake
    <2>2. /\ head + count \in 0 .. 2 * BUFFER_SIZE - 1
          /\ head + 1 \in 0 .. 2 * BUFFER_SIZE - 1
      BY <1>0, <2>1
    <2>3. tail = Wrap(head + count) /\ head' = Wrap(head + 1)
      BY <1>0, <2>1, <2>2, ModWrap, Zenon
    <2>4. head' + count' \in 0 .. 2 * BUFFER_SIZE - 1
      BY <1>0, <2>1, <2>3 DEF Wrap
    <2>5. (head' + count') % BUFFER_SIZE = Wrap(head' + count')
      BY <2>4, ModWrap, Zenon
    <2>6. Wrap(head' + count') = Wrap(head + count)
      BY <1>0, <2>1, <2>3 DEF Wrap
    <2> QED BY <2>1, <2>3, <2>5, <2>6, Zenon DEF RingConsistent
  <1>3. ASSUME UNCHANGED <<head, tail, count>> PROVE RingConsistent'
    BY <1>3 DEF RingConsistent
  <1> QED
    BY <1>1, <1>2, <1>3
       DEF Next, Producer, Consumer, MainThread, Terminated, vars, queueVars,
           Lock, Reacquire, SpuriousWakeup, ProducerWait, ProducerUnlock,
           ConsumerWait, ConsumerExit, ConsumerUnlock, MainJoinProducers,
           MainSetDone, MainUnlock, MainJoinConsumer, MainReport

(***************************************************************************)
(* The end of the run: done comes after the producers, an exit after done. *)
(***************************************************************************)
Ending == DoneAfterProducers /\ ExitOnlyWhenDrained

LEMMA EndingInit == Init => Ending
  BY QueueAssumption DEF Init, Ending, DoneAfterProducers, ExitOnlyWhenDrained, Threads

LEMMA EndingStep == Control /\ Ending /\ [Next]_vars => Ending'
  <1> SUFFICES ASSUME Control, Ending, [Next]_vars PROVE Ending'
    OBVIOUS
  <1> USE QueueAssumption DEF Control, TypeOK, LoopsCount, Ending,
          DoneAfterProducers, ExitOnlyWhenDrained, Threads, GoTo, queueVars, mainVars
  <1>1. ASSUME NEW t \in Threads, Lock(t) PROVE Ending'
    BY <1>1 DEF Lock
  <1>2. ASSUME NEW t \in Producers \cup Consumers, Reacquire(t) PROVE Ending'
    BY <1>2 DEF Reacquire
  <1>3. ASSUME NEW t \in Producers \cup Consumers, SpuriousWakeup(t) PROVE Ending'
    BY <1>3 DEF SpuriousWakeup
  <1>4. ASSUME NEW p \in Producers, ProducerWait(p) PROVE Ending'
    BY <1>4 DEF ProducerWait
  <1>5. ASSUME NEW p \in Producers, ProducerPut(p) PROVE Ending'
    BY <1>5 DEF ProducerPut
  <1>6. ASSUME NEW p \in Producers, ProducerUnlock(p) PROVE Ending'
    BY <1>6 DEF ProducerUnlock
  <1>7. ASSUME NEW c \in Consumers, ConsumerWait(c) PROVE Ending'
    BY <1>7 DEF ConsumerWait
  <1>8. ASSUME NEW c \in Consumers, ConsumerExit(c) PROVE Ending'
    BY <1>8 DEF ConsumerExit
  <1>9. ASSUME NEW c \in Consumers, ConsumerTake(c) PROVE Ending'
    BY <1>9 DEF ConsumerTake
  <1>10. ASSUME NEW c \in Consumers, ConsumerUnlock(c) PROVE Ending'
    BY <1>10 DEF ConsumerUnlock
  <1>11. CASE MainJoinProducers
    BY <1>11 DEF MainJoinProducers
  <1>12. CASE MainSetDone
    BY <1>12 DEF MainSetDone
  <1>13. CASE MainUnlock
    BY <1>13 DEF MainUnlock
  <1>14. ASSUME NEW c \in Consumers, MainJoinConsumer(c) PROVE Ending'
    BY <1>14 DEF MainJoinConsumer
  <1>15. CASE MainReport
    BY <1>15 DEF MainReport
  <1>16. CASE UNCHANGED vars
    BY <1>16 DEF vars
  <1> QED
    BY <1>1, <1>2, <1>3, <1>4, <1>5, <1>6, <1>7, <1>8, <1>9, <1>10, <1>11,
       <1>12, <1>13, <1>14, <1>15, <1>16
       DEF Next, Producer, Consumer, MainThread, Terminated

(***************************************************************************)
(* No lost wakeup.  While somebody sleeps on a condition, count (or the    *)
(* number of free slots) grows only together with the set of the awake     *)
(* threads of that side, and that set shrinks only when count is zero (or  *)
(* a slot is filled with it).                                              *)
(***************************************************************************)
LEMMA AwakeFinite ==
    /\ \A S \in SUBSET Consumers : IsFiniteSet(S) /\ Cardinality(S) \in Nat
    /\ \A S \in SUBSET Producers : IsFiniteSet(S) /\ Cardinality(S) \in Nat
  <1>1. IsFiniteSet(Producers)
    BY QueueAssumption, Intervals DEF Producers
  <1>2. IsFiniteSet(Consumers)
    BY QueueAssumption
  <1> QED BY <1>1, <1>2, FS_Subset, FS_CardinalityType

LEMMA ItemsStep ==
    Control /\ ItemsHaveAwakeConsumers /\ [Next]_vars => ItemsHaveAwakeConsumers'
  <1> SUFFICES ASSUME Control, ItemsHaveAwakeConsumers, [Next]_vars
               PROVE  ItemsHaveAwakeConsumers'
    OBVIOUS
  <1> DEFINE A == AwakeConsumers
  <1>0. /\ A \in SUBSET Consumers /\ A' \in SUBSET Consumers
        /\ count \in Nat
        /\ not_empty \subseteq Consumers
        /\ \A c \in not_empty : pc[c] = "waiting"
        /\ pc \in [Threads -> ThreadLabels \cup MainLabels]
    BY DEF AwakeConsumers, Control, TypeOK, SleepersWait
  <1>1. ASSUME not_empty' \subseteq not_empty, count' \in Nat, count' <= count,
               A \subseteq A'
        PROVE  ItemsHaveAwakeConsumers'
    <2>1. Cardinality(A) <= Cardinality(A')
      BY <1>0, <1>1, AwakeFinite, FS_Subset
    <2>2. Cardinality(A) \in Nat /\ Cardinality(A') \in Nat
      BY <1>0, AwakeFinite
    <2> QED BY <1>0, <1>1, <2>1, <2>2 DEF ItemsHaveAwakeConsumers
  <1>2. ASSUME count' = 0 PROVE ItemsHaveAwakeConsumers'
    BY <1>0, <1>2, AwakeFinite DEF ItemsHaveAwakeConsumers
  <1>3. ASSUME NEW p \in Producers, ProducerPut(p) PROVE ItemsHaveAwakeConsumers'
    <2>1. CASE not_empty = {}
      BY <1>3, <2>1, SignalledWakes DEF ProducerPut, ItemsHaveAwakeConsumers
    <2>2. CASE not_empty # {}
      <3>1. PICK c \in not_empty : not_empty' = not_empty \ {c}
        BY <1>3, <2>2, SignalledWakes DEF ProducerPut
      <3>2. A' = A \cup {c} /\ c \notin A
        BY <1>0, <1>3, <3>1, QueueAssumption
           DEF ProducerPut, GoTo, AwakeConsumers, Threads
      <3>3. Cardinality(A') = Cardinality(A) + 1
        BY <1>0, <3>2, AwakeFinite, FS_AddElement
      <3>4. count' = count + 1 /\ count <= Cardinality(A)
        BY <1>3, <2>2 DEF ProducerPut, ItemsHaveAwakeConsumers
      <3>5. Cardinality(A) \in Nat
        BY <1>0, AwakeFinite
      <3> QED BY <1>0, <3>3, <3>4, <3>5 DEF ItemsHaveAwakeConsumers
    <2> QED BY <2>1, <2>2
  <1>4. ASSUME NEW c \in Consumers, ConsumerWait(c) \/ ConsumerExit(c)
        PROVE  ItemsHaveAwakeConsumers'
    BY <1>2, <1>4 DEF ConsumerWait, ConsumerExit, queueVars
  <1>5. ASSUME NEW c \in Consumers, ConsumerTake(c) PROVE ItemsHaveAwakeConsumers'
    <2>1. not_empty' = not_empty /\ count' = count - 1 /\ count # 0
      BY <1>5 DEF ConsumerTake
    <2>2. A \subseteq A'
      BY <1>0, <1>5 DEF ConsumerTake, GoTo, AwakeConsumers, Threads
    <2> QED BY <1>0, <1>1, <2>1, <2>2
  <1>6. CASE MainSetDone
    BY <1>6 DEF MainSetDone, ItemsHaveAwakeConsumers
  <1>7. ASSUME NEW t \in Threads, Lock(t) \/ Reacquire(t) PROVE ItemsHaveAwakeConsumers'
    <2>1. A \subseteq A'
      BY <1>0, <1>7 DEF Lock, Reacquire, GoTo, AwakeConsumers, Threads
    <2> QED BY <1>0, <1>1, <1>7, <2>1 DEF Lock, Reacquire, queueVars
  <1>8. ASSUME NEW t \in Producers \cup Consumers, SpuriousWakeup(t)
        PROVE  ItemsHaveAwakeConsumers'
    BY <1>0, <1>1, <1>8 DEF SpuriousWakeup, AwakeConsumers, queueVars
  <1>9. ASSUME NEW p \in Producers, ProducerWait(p) \/ ProducerUnlock(p)
        PROVE  ItemsHaveAwakeConsumers'
    <2>1. A \subseteq A'
      BY <1>0, <1>9, QueueAssumption DEF ProducerWait, ProducerUnlock, GoTo, AwakeConsumers, Threads
    <2> QED BY <1>0, <1>1, <1>9, <2>1 DEF ProducerWait, ProducerUnlock, queueVars
  <1>10. ASSUME NEW c \in Consumers, ConsumerUnlock(c) PROVE ItemsHaveAwakeConsumers'
    BY <1>0, <1>1, <1>10 DEF ConsumerUnlock, GoTo, AwakeConsumers, queueVars
  <1>11. CASE MainJoinProducers \/ MainUnlock \/ MainReport
    <2>1. A \subseteq A'
      BY <1>0, <1>11, QueueAssumption
         DEF MainJoinProducers, MainUnlock, MainReport, GoTo, AwakeConsumers, Threads
    <2> QED
      BY <1>0, <1>1, <1>11, <2>1 DEF MainJoinProducers, MainUnlock, MainReport, queueVars
  <1>12. ASSUME NEW c \in Consumers, MainJoinConsumer(c) PROVE ItemsHaveAwakeConsumers'
    BY <1>0, <1>1, <1>12 DEF MainJoinConsumer, AwakeConsumers, queueVars
  <1>13. CASE UNCHANGED vars
    BY <1>0, <1>1, <1>13 DEF vars, AwakeConsumers, queueVars
  <1> QED
    BY <1>3, <1>4, <1>5, <1>6, <1>7, <1>8, <1>9, <1>10, <1>11, <1>12, <1>13
       DEF Next, Producer, Consumer, MainThread, Terminated, Threads

LEMMA SlotsStep ==
    Control /\ SlotsHaveAwakeProducers /\ [Next]_vars => SlotsHaveAwakeProducers'
  <1> SUFFICES ASSUME Control, SlotsHaveAwakeProducers, [Next]_vars
               PROVE  SlotsHaveAwakeProducers'
    OBVIOUS
  <1> DEFINE A == AwakeProducers
  <1>0. /\ A \in SUBSET Producers /\ A' \in SUBSET Producers
        /\ BUFFER_SIZE \in Nat /\ ITEMS_PER_PRODUCER \in Nat
        /\ count \in 0 .. BUFFER_SIZE
        /\ not_full \subseteq Producers
        /\ i \in [Producers -> 0 .. ITEMS_PER_PRODUCER]
        /\ \A p \in not_full : pc[p] = "waiting"
        /\ \A p \in Producers : i[p] < ITEMS_PER_PRODUCER <=> pc[p] # "done"
        /\ pc \in [Threads -> ThreadLabels \cup MainLabels]
        /\ Producers \subseteq Threads /\ Main \notin Producers
        /\ Consumers \cap Producers = {}
    BY QueueAssumption
       DEF AwakeProducers, Control, TypeOK, SleepersWait, LoopsCount, Threads
  <1>1. ASSUME not_full' \subseteq not_full, count' \in 0 .. BUFFER_SIZE,
               count <= count', A \subseteq A'
        PROVE  SlotsHaveAwakeProducers'
    <2>1. Cardinality(A) <= Cardinality(A')
      BY <1>0, <1>1, AwakeFinite, FS_Subset
    <2>2. Cardinality(A) \in Nat /\ Cardinality(A') \in Nat
      BY <1>0, AwakeFinite
    <2> QED BY <1>0, <1>1, <2>1, <2>2 DEF SlotsHaveAwakeProducers
  <1>2. ASSUME NEW p \in Producers, ProducerWait(p) PROVE SlotsHaveAwakeProducers'
    <2>1. BUFFER_SIZE - count' = 0
      BY <1>0, <1>2 DEF ProducerWait, queueVars
    <2> QED BY <1>0, <2>1, AwakeFinite DEF SlotsHaveAwakeProducers
  <1>3. ASSUME NEW p \in Producers, ProducerPut(p) PROVE SlotsHaveAwakeProducers'
    <2>1. not_full' = not_full /\ count' = count + 1
      BY <1>3 DEF ProducerPut
    <2>2. A \ {p} \subseteq A'
      BY <1>0, <1>3 DEF ProducerPut, GoTo, AwakeProducers, Put
    <2>3. Cardinality(A) - 1 <= Cardinality(A \ {p})
      <3>1. IsFiniteSet(A) /\ Cardinality(A) \in Nat
        BY <1>0, AwakeFinite
      <3>2. Cardinality(A \ {p}) = IF p \in A THEN Cardinality(A) - 1 ELSE Cardinality(A)
        BY <3>1, FS_RemoveElement
      <3> QED BY <3>1, <3>2
    <2>4. Cardinality(A \ {p}) <= Cardinality(A')
      BY <1>0, <2>2, AwakeFinite, FS_Subset
    <2>5. /\ Cardinality(A) \in Nat /\ Cardinality(A') \in Nat
          /\ Cardinality(A \ {p}) \in Nat
      BY <1>0, AwakeFinite
    <2> QED BY <1>0, <2>1, <2>3, <2>4, <2>5 DEF SlotsHaveAwakeProducers
  <1>4. ASSUME NEW c \in Consumers, ConsumerTake(c) PROVE SlotsHaveAwakeProducers'
    <2>1. CASE not_full = {}
      BY <1>4, <2>1, SignalledWakes DEF ConsumerTake, SlotsHaveAwakeProducers
    <2>2. CASE not_full # {}
      <3>1. PICK p \in not_full : not_full' = not_full \ {p}
        BY <1>4, <2>2, SignalledWakes DEF ConsumerTake
      <3>2. A' = A \cup {p} /\ p \notin A
        BY <1>0, <1>4, <3>1 DEF ConsumerTake, GoTo, AwakeProducers, Put
      <3>3. Cardinality(A') = Cardinality(A) + 1
        BY <1>0, <3>2, AwakeFinite, FS_AddElement
      <3>4. count' = count - 1 /\ BUFFER_SIZE - count <= Cardinality(A)
        BY <1>4, <2>2 DEF ConsumerTake, SlotsHaveAwakeProducers
      <3>5. Cardinality(A) \in Nat
        BY <1>0, AwakeFinite
      <3> QED BY <1>0, <3>3, <3>4, <3>5 DEF SlotsHaveAwakeProducers
    <2> QED BY <2>1, <2>2
  <1>5. ASSUME NEW p \in Producers, ProducerUnlock(p) PROVE SlotsHaveAwakeProducers'
    <2>1. A \subseteq A'
      BY <1>0, <1>5 DEF ProducerUnlock, GoTo, AwakeProducers, Put
    <2> QED BY <1>0, <1>1, <1>5, <2>1 DEF ProducerUnlock, queueVars
  <1>6. ASSUME NEW c \in Consumers,
               ConsumerWait(c) \/ ConsumerExit(c) \/ ConsumerUnlock(c)
        PROVE  SlotsHaveAwakeProducers'
    <2>1. A \subseteq A'
      BY <1>0, <1>6
         DEF ConsumerWait, ConsumerExit, ConsumerUnlock, GoTo, AwakeProducers, Put
    <2> QED BY <1>0, <1>1, <1>6, <2>1 DEF ConsumerWait, ConsumerExit, ConsumerUnlock, queueVars
  <1>7. ASSUME NEW t \in Threads, Lock(t) \/ Reacquire(t) PROVE SlotsHaveAwakeProducers'
    <2>1. A \subseteq A'
      BY <1>0, <1>7 DEF Lock, Reacquire, GoTo, AwakeProducers, Put
    <2> QED BY <1>0, <1>1, <1>7, <2>1 DEF Lock, Reacquire, queueVars
  <1>8. ASSUME NEW t \in Producers \cup Consumers, SpuriousWakeup(t)
        PROVE  SlotsHaveAwakeProducers'
    <2>1. A \subseteq A'
      BY <1>0, <1>8 DEF SpuriousWakeup, AwakeProducers, Put
    <2> QED BY <1>0, <1>1, <1>8, <2>1 DEF SpuriousWakeup, queueVars
  <1>9. CASE \/ MainJoinProducers \/ MainSetDone \/ MainUnlock \/ MainReport
             \/ \E c \in Consumers : MainJoinConsumer(c)
    <2>1. A \subseteq A'
      BY <1>0, <1>9
         DEF MainJoinProducers, MainSetDone, MainUnlock, MainReport,
             MainJoinConsumer, GoTo, AwakeProducers, Put
    <2> QED
      BY <1>0, <1>1, <1>9, <2>1
         DEF MainJoinProducers, MainSetDone, MainUnlock, MainReport,
             MainJoinConsumer, queueVars
  <1>10. CASE UNCHANGED vars
    <2>1. A \subseteq A'
      BY <1>10 DEF vars, AwakeProducers, Put
    <2> QED BY <1>0, <1>1, <1>10, <2>1 DEF vars, queueVars
  <1> QED
    BY <1>2, <1>3, <1>4, <1>5, <1>6, <1>7, <1>8, <1>9, <1>10
       DEF Next, Producer, Consumer, MainThread, Terminated, Threads

(***************************************************************************)
(* Conservation.  Every put adds one token, every take adds one, and every *)
(* other step leaves both sets as they are: the increment of a loop        *)
(* counter after the unlock is no put and no take.                         *)
(***************************************************************************)
LEMMA PutTakenTypes ==
    Control => /\ \A p \in Producers : Put(p) \in 0 .. ITEMS_PER_PRODUCER
               /\ \A c \in Consumers : Taken(c) \in Nat
  BY QueueAssumption DEF Control, TypeOK, LoopsCount, Put, Taken

\* What a step does to the numbers of items put and taken.
LEMMA PutTakenStep ==
    ASSUME Control, [Next]_vars
    PROVE  \/ \E p \in Producers :
                /\ ProducerPut(p) /\ Put(p)' = Put(p) + 1
                /\ \A q \in Producers \ {p} : Put(q)' = Put(q)
                /\ \A c \in Consumers : Taken(c)' = Taken(c)
           \/ \E c \in Consumers :
                /\ ConsumerTake(c) /\ Taken(c)' = Taken(c) + 1
                /\ \A d \in Consumers \ {c} : Taken(d)' = Taken(d)
                /\ \A p \in Producers : Put(p)' = Put(p)
           \/ /\ UNCHANGED <<buf, head, count>>
              /\ \A p \in Producers : Put(p)' = Put(p)
              /\ \A c \in Consumers : Taken(c)' = Taken(c)
  <1>0. /\ pc \in [Threads -> ThreadLabels \cup MainLabels]
        /\ i \in [Producers -> 0 .. ITEMS_PER_PRODUCER]
        /\ consumed \in [Consumers -> Nat]
        /\ ITEMS_PER_PRODUCER \in Nat
        /\ Threads = Producers \cup Consumers \cup {Main}
        /\ Main \notin Producers \cup Consumers /\ Consumers \cap Producers = {}
    BY QueueAssumption DEF Control, TypeOK, Threads
  <1> DEFINE Same == /\ UNCHANGED <<buf, head, count>>
                     /\ \A p \in Producers : Put(p)' = Put(p)
                     /\ \A c \in Consumers : Taken(c)' = Taken(c)
  <1>1. ASSUME NEW t \in Threads, Lock(t) \/ Reacquire(t) PROVE Same
    BY <1>0, <1>1 DEF Lock, Reacquire, GoTo, Put, Taken, queueVars
  <1>2. ASSUME NEW p \in Producers, ProducerWait(p) PROVE Same
    BY <1>0, <1>2 DEF ProducerWait, GoTo, Put, Taken, queueVars
  <1>3. ASSUME NEW p \in Producers, ProducerPut(p)
        PROVE  /\ Put(p)' = Put(p) + 1
               /\ \A q \in Producers \ {p} : Put(q)' = Put(q)
               /\ \A c \in Consumers : Taken(c)' = Taken(c)
    BY <1>0, <1>3 DEF ProducerPut, GoTo, Put, Taken
  <1>4. ASSUME NEW p \in Producers, ProducerUnlock(p) PROVE Same
    BY <1>0, <1>4 DEF ProducerUnlock, GoTo, Put, Taken, queueVars
  <1>5. ASSUME NEW c \in Consumers, ConsumerWait(c) \/ ConsumerExit(c) PROVE Same
    BY <1>0, <1>5 DEF ConsumerWait, ConsumerExit, GoTo, Put, Taken, queueVars
  <1>6. ASSUME NEW c \in Consumers, ConsumerTake(c)
        PROVE  /\ Taken(c)' = Taken(c) + 1
               /\ \A d \in Consumers \ {c} : Taken(d)' = Taken(d)
               /\ \A p \in Producers : Put(p)' = Put(p)
    BY <1>0, <1>6 DEF ConsumerTake, GoTo, Put, Taken
  <1>7. ASSUME NEW c \in Consumers, ConsumerUnlock(c) PROVE Same
    BY <1>0, <1>7 DEF ConsumerUnlock, GoTo, Put, Taken, queueVars
  <1>8. CASE MainJoinProducers \/ MainSetDone \/ MainUnlock \/ MainReport
    BY <1>0, <1>8
       DEF MainJoinProducers, MainSetDone, MainUnlock, MainReport, GoTo, Put,
           Taken, queueVars
  <1>9. ASSUME UNCHANGED <<buf, head, count, pc, i, consumed>> PROVE Same
    BY <1>9 DEF Put, Taken
  <1> QED
    BY <1>1, <1>2, <1>3, <1>4, <1>5, <1>6, <1>7, <1>8, <1>9
       DEF Next, Producer, Consumer, MainThread, Terminated, Threads, vars,
           queueVars, SpuriousWakeup, MainJoinConsumer

Tokens == IsFiniteSet(PutTokens) /\ IsFiniteSet(TakenTokens) /\ Conservation

LEMMA TokensInit == Init => Tokens
  <1> SUFFICES ASSUME Init PROVE Tokens
    OBVIOUS
  <1>1. \A p \in Producers : Put(p) = 0
    BY QueueAssumption DEF Init, Put, Threads
  <1>2. \A c \in Consumers : Taken(c) = 0
    BY QueueAssumption DEF Init, Taken, Threads
  <1>3. PutTokens = {} /\ TakenTokens = {}
    BY <1>1, <1>2 DEF PutTokens, TakenTokens
  <1>4. count = 0
    BY DEF Init
  <1> QED BY <1>3, <1>4, FS_EmptySet DEF Tokens, Conservation

LEMMA TokensStep == Control /\ Tokens /\ [Next]_vars => Tokens'
  <1> SUFFICES ASSUME Control, Tokens, [Next]_vars PROVE Tokens'
    OBVIOUS
  <1>0. /\ \A p \in Producers : Put(p) \in Nat
        /\ \A c \in Consumers : Taken(c) \in Nat
        /\ IsFiniteSet(PutTokens) /\ IsFiniteSet(TakenTokens)
        /\ Cardinality(PutTokens) = Cardinality(TakenTokens) + count
        /\ count \in Nat
    BY PutTakenTypes DEF Tokens, Conservation, Control, TypeOK
  <1>00. Cardinality(PutTokens) \in Nat /\ Cardinality(TakenTokens) \in Nat
    BY <1>0, FS_CardinalityType
  <1>1. ASSUME NEW p \in Producers, ProducerPut(p), Put(p)' = Put(p) + 1,
               \A q \in Producers \ {p} : Put(q)' = Put(q),
               \A c \in Consumers : Taken(c)' = Taken(c)
        PROVE  Tokens'
    <2>1. PutTokens' = PutTokens \cup {<<p, Put(p)>>} /\ <<p, Put(p)>> \notin PutTokens
      BY <1>0, <1>1 DEF PutTokens
    <2>2. TakenTokens' = TakenTokens
      BY <1>1 DEF TakenTokens
    <2>3. /\ IsFiniteSet(PutTokens')
          /\ Cardinality(PutTokens') = Cardinality(PutTokens) + 1
      BY <1>0, <2>1, FS_AddElement
    <2>4. count' = count + 1
      BY <1>1 DEF ProducerPut
    <2> QED BY <1>0, <1>00, <2>2, <2>3, <2>4 DEF Tokens, Conservation
  <1>2. ASSUME NEW c \in Consumers, ConsumerTake(c), Taken(c)' = Taken(c) + 1,
               \A d \in Consumers \ {c} : Taken(d)' = Taken(d),
               \A p \in Producers : Put(p)' = Put(p)
        PROVE  Tokens'
    <2>1. /\ TakenTokens' = TakenTokens \cup {<<c, Taken(c)>>}
          /\ <<c, Taken(c)>> \notin TakenTokens
      BY <1>0, <1>2 DEF TakenTokens
    <2>2. PutTokens' = PutTokens
      BY <1>2 DEF PutTokens
    <2>3. /\ IsFiniteSet(TakenTokens')
          /\ Cardinality(TakenTokens') = Cardinality(TakenTokens) + 1
      BY <1>0, <2>1, FS_AddElement
    <2>4. count' = count - 1
      BY <1>2 DEF ConsumerTake
    <2> QED BY <1>0, <1>00, <2>2, <2>3, <2>4 DEF Tokens, Conservation
  <1>3. ASSUME count' = count, \A p \in Producers : Put(p)' = Put(p),
               \A c \in Consumers : Taken(c)' = Taken(c)
        PROVE  Tokens'
    <2>1. PutTokens' = PutTokens /\ TakenTokens' = TakenTokens
      BY <1>3 DEF PutTokens, TakenTokens
    <2> QED BY <1>0, <1>3, <2>1 DEF Tokens, Conservation
  <1> QED BY <1>1, <1>2, <1>3, PutTakenStep

(***************************************************************************)
(* The sum main computes: each joined consumer brings as many tokens as it *)
(* returned, and a consumer that can be joined no longer changes its count.*)
(***************************************************************************)
LEMMA TotalInit == Init => TotalOfJoined
  <1> SUFFICES ASSUME Init PROVE TotalOfJoined
    OBVIOUS
  <1>1. joined = {} /\ total = 0 /\ pc[Main] = "join_producers"
    BY DEF Init, Threads
  <1>2. JoinedTokens = {}
    BY <1>1 DEF JoinedTokens
  <1> QED BY <1>1, <1>2, FS_EmptySet DEF TotalOfJoined

LEMMA TotalStep == Control /\ TotalOfJoined /\ [Next]_vars => TotalOfJoined'
  <1> SUFFICES ASSUME Control, TotalOfJoined, [Next]_vars PROVE TotalOfJoined'
    OBVIOUS
  <1>0. /\ joined \subseteq Consumers /\ \A c \in joined : pc[c] = "done"
        /\ pc \in [Threads -> ThreadLabels \cup MainLabels]
        /\ consumed \in [Consumers -> Nat] /\ total \in Nat
        /\ IsFiniteSet(JoinedTokens) /\ total = Cardinality(JoinedTokens)
        /\ pc[Main] = "done" => joined = Consumers
        /\ Threads = Producers \cup Consumers \cup {Main}
        /\ Main \notin Producers \cup Consumers /\ Consumers \cap Producers = {}
    BY QueueAssumption DEF Control, TypeOK, TotalOfJoined, Threads
  <1>1. ASSUME NEW c \in Consumers, MainJoinConsumer(c) PROVE TotalOfJoined'
    <2> DEFINE Brought == {c} \X (0 .. consumed[c] - 1)
    <2>1. JoinedTokens' = JoinedTokens \cup Brought
      BY <1>0, <1>1 DEF MainJoinConsumer, JoinedTokens
    <2>2. JoinedTokens \cap Brought = {}
      BY <1>0, <1>1 DEF MainJoinConsumer, JoinedTokens
    <2>3. IsFiniteSet(Brought) /\ Cardinality(Brought) = consumed[c]
      <3>1. consumed[c] \in Nat
        BY <1>0
      <3>2. /\ IsFiniteSet(0 .. consumed[c] - 1)
            /\ Cardinality(0 .. consumed[c] - 1) = consumed[c]
        BY <3>1, Intervals
      <3>3. IsFiniteSet({c}) /\ Cardinality({c}) = 1
        BY FS_Singleton
      <3> QED BY <3>1, <3>2, <3>3, FS_Product
    <2>4. /\ IsFiniteSet(JoinedTokens')
          /\ Cardinality(JoinedTokens') = Cardinality(JoinedTokens) + consumed[c]
      <3>1. Cardinality(JoinedTokens \cap Brought) = 0
        BY <2>2, FS_EmptySet
      <3> HIDE DEF Brought
      <3>2. /\ IsFiniteSet(JoinedTokens \cup Brought)
            /\ Cardinality(JoinedTokens \cup Brought)
                 = Cardinality(JoinedTokens) + Cardinality(Brought)
                   - Cardinality(JoinedTokens \cap Brought)
        BY <1>0, <2>3, FS_Union
      <3> QED BY <1>0, <2>1, <2>3, <3>1, <3>2
    <2>5. /\ joined' = joined \cup {c} /\ total' = total + consumed[c] /\ pc' = pc
          /\ pc[c] = "done" /\ pc[Main] = "join_consumers"
      BY <1>1 DEF MainJoinConsumer
    <2> QED BY <1>0, <2>4, <2>5 DEF TotalOfJoined
  <1>2. ASSUME joined' = joined, total' = total,
               \A c \in joined : pc'[c] = "done" /\ consumed'[c] = consumed[c],
               pc'[Main] = "done" => joined = Consumers
        PROVE  TotalOfJoined'
    <2>1. JoinedTokens' = JoinedTokens
      BY <1>2 DEF JoinedTokens
    <2> QED BY <1>0, <1>2, <2>1 DEF TotalOfJoined
  <1>3. ASSUME NEW t \in Threads, Lock(t) \/ Reacquire(t) PROVE TotalOfJoined'
    BY <1>0, <1>2, <1>3 DEF Lock, Reacquire, GoTo, mainVars
  <1>4. ASSUME NEW p \in Producers, ProducerWait(p) \/ ProducerPut(p) \/ ProducerUnlock(p)
        PROVE  TotalOfJoined'
    BY <1>0, <1>2, <1>4 DEF ProducerWait, ProducerPut, ProducerUnlock, GoTo, mainVars
  <1>5. ASSUME NEW c \in Consumers,
               ConsumerWait(c) \/ ConsumerExit(c) \/ ConsumerTake(c) \/ ConsumerUnlock(c)
        PROVE  TotalOfJoined'
    BY <1>0, <1>2, <1>5
       DEF ConsumerWait, ConsumerExit, ConsumerTake, ConsumerUnlock, GoTo, mainVars
  <1>6. CASE MainJoinProducers \/ MainSetDone \/ MainUnlock \/ MainReport
    BY <1>0, <1>2, <1>6
       DEF MainJoinProducers, MainSetDone, MainUnlock, MainReport, GoTo, mainVars
  <1>7. ASSUME UNCHANGED <<pc, consumed, joined, total>> PROVE TotalOfJoined'
    BY <1>0, <1>2, <1>7
  <1> QED
    BY <1>1, <1>3, <1>4, <1>5, <1>6, <1>7
       DEF Next, Producer, Consumer, MainThread, Terminated, Threads, vars,
           mainVars, SpuriousWakeup

(***************************************************************************)
(* The inductive invariant and the properties.                             *)
(***************************************************************************)
LEMMA GroupsAreIInv ==
    IInv <=> /\ Control /\ RingConsistent /\ Ending /\ ItemsHaveAwakeConsumers
             /\ SlotsHaveAwakeProducers /\ Tokens /\ TotalOfJoined
  BY DEF IInv, Control, Ending, Tokens

\* IInv holds initially: all threads are before their first step, the ring is
\* empty.
THEOREM InitIInv == Init => IInv
  <1> SUFFICES ASSUME Init PROVE IInv
    OBVIOUS
  <1>1. ItemsHaveAwakeConsumers /\ SlotsHaveAwakeProducers
    BY DEF Init, ItemsHaveAwakeConsumers, SlotsHaveAwakeProducers
  <1> QED
    BY <1>1, ControlInit, RingInit, EndingInit, TokensInit, TotalInit, GroupsAreIInv

\* Every step of every thread of bench.c's mutex half preserves IInv.
THEOREM StepIInv == IInv /\ [Next]_vars => IInv'
  <1> SUFFICES ASSUME IInv, [Next]_vars PROVE IInv'
    OBVIOUS
  <1>1. /\ Control' /\ RingConsistent' /\ Ending' /\ ItemsHaveAwakeConsumers'
        /\ SlotsHaveAwakeProducers' /\ Tokens' /\ TotalOfJoined'
    BY GroupsAreIInv, ControlStep, RingStep, EndingStep, ItemsStep, SlotsStep,
       TokensStep, TotalStep
  <1> QED BY <1>1 DEF IInv, Control, Ending, Tokens

\* The inductive invariant holds in every reachable state.
THEOREM Invariance == Spec => []IInv
  BY InitIInv, StepIInv, PTL DEF Spec

\* Every index and counter stays in its range, so buf is never written or read
\* outside its BUFFER_SIZE slots (bench.c:43-46, 63-66).
THEOREM TypeCorrect == Spec => []TypeOK
  BY Invariance, PTL DEF IInv

\* At most one thread is between pthread_mutex_lock and pthread_mutex_unlock,
\* and it is the one the mutex says.
THEOREM MutualExclusion == Spec => []LockHeldInside
  BY Invariance, PTL DEF IInv

\* No wakeup is lost on not_empty (bench.c:65): there is never an item in the
\* ring without a consumer that is awake to take it.
THEOREM NoLostWakeup == Spec => []ItemsHaveAwakeConsumers
  BY Invariance, PTL DEF IInv

\* Nor on not_full (bench.c:46): a free slot always has a producer that is
\* awake and still has something to put, although producers leave for good
\* without signalling.
THEOREM NoLostSlot == Spec => []SlotsHaveAwakeProducers
  BY Invariance, PTL DEF IInv

\* A consumer never gives up while an item may still come (bench.c:59-62).
THEOREM NoEarlyExit == Spec => []ExitOnlyWhenDrained
  BY Invariance, PTL DEF IInv

\* What has been put has been taken or is in the ring, exactly once.
THEOREM NothingLost == Spec => []Conservation
  BY Invariance, PTL DEF IInv

\* The cardinality of what the producers put when all of them are through.
LEMMA AllPut ==
    ASSUME Control, \A p \in Producers : pc[p] = "done"
    PROVE  Cardinality(PutTokens) = NUM_PRODUCERS * ITEMS_PER_PRODUCER
  <1>1. NUM_PRODUCERS \in Nat /\ ITEMS_PER_PRODUCER \in Nat
    BY QueueAssumption
  <1>2. \A p \in Producers : Put(p) = ITEMS_PER_PRODUCER
    BY <1>1 DEF Control, TypeOK, LoopsCount, Put
  <1>3. PutTokens = Producers \X (0 .. ITEMS_PER_PRODUCER - 1)
    BY <1>2 DEF PutTokens
  <1>4. /\ IsFiniteSet(Producers) /\ Cardinality(Producers) = NUM_PRODUCERS
        /\ IsFiniteSet(0 .. ITEMS_PER_PRODUCER - 1)
        /\ Cardinality(0 .. ITEMS_PER_PRODUCER - 1) = ITEMS_PER_PRODUCER
    BY <1>1, Intervals DEF Producers
  <1> QED BY <1>3, <1>4, FS_Product

\* The sum that run_mutex prints (bench.c:177-184) is the number of items of
\* all producers.
THEOREM TotalCorrect == Spec => []TotalIsComplete
  <1>1. IInv => TotalIsComplete
    <2> SUFFICES ASSUME IInv, pc[Main] = "done"
                 PROVE  total = NUM_PRODUCERS * ITEMS_PER_PRODUCER
      BY DEF TotalIsComplete
    <2>1. joined = Consumers /\ \A c \in Consumers : pc[c] = "done"
      BY DEF IInv, TotalOfJoined
    <2>2. count = 0 /\ \A p \in Producers : pc[p] = "done"
      BY <2>1, QueueAssumption DEF IInv, ExitOnlyWhenDrained
    <2>3. \A c \in Consumers : Taken(c) = consumed[c]
      BY <2>1 DEF IInv, TypeOK, Taken
    <2>4. JoinedTokens = TakenTokens
      BY <2>1, <2>3 DEF JoinedTokens, TakenTokens
    <2>5. total = Cardinality(TakenTokens)
      BY <2>4 DEF IInv, TotalOfJoined
    <2>6. Cardinality(PutTokens) = Cardinality(TakenTokens)
      BY <2>2, FS_CardinalityType DEF IInv, Conservation
    <2>7. Cardinality(PutTokens) = NUM_PRODUCERS * ITEMS_PER_PRODUCER
      BY <2>2, AllPut DEF IInv, Control
    <2> QED BY <2>5, <2>6, <2>7
  <1> QED BY <1>1, Invariance, PTL

(***************************************************************************)
(* Refinement: the ring, read from the head, is the bounded FIFO.  A put   *)
(* appends, because the slot at tail is none of the occupied ones; a take  *)
(* drops the first; every other step leaves ring and counters alone.       *)
(***************************************************************************)
Sent == [p \in Producers |-> Put(p)]

\* The k-th occupied slot, before and after the head moves on.
LEMMA Slots ==
    ASSUME NEW h \in 0 .. BUFFER_SIZE - 1, NEW k \in 1 .. BUFFER_SIZE
    PROVE  /\ (h + k - 1) % BUFFER_SIZE = Wrap(h + k - 1)
           /\ Wrap(h + k - 1) \in 0 .. BUFFER_SIZE - 1
           /\ (h + k) % BUFFER_SIZE = Wrap(h + k)
           /\ (((h + 1) % BUFFER_SIZE) + k - 1) % BUFFER_SIZE = Wrap(h + k)
  <1>1. BUFFER_SIZE \in Nat \ {0}
    BY QueueAssumption
  <1>2. /\ h + k - 1 \in 0 .. 2 * BUFFER_SIZE - 1
        /\ h + k \in 0 .. 2 * BUFFER_SIZE - 1
        /\ h + 1 \in 0 .. 2 * BUFFER_SIZE - 1
    BY <1>1
  <1>3. /\ (h + k - 1) % BUFFER_SIZE = Wrap(h + k - 1)
        /\ (h + k) % BUFFER_SIZE = Wrap(h + k)
        /\ (h + 1) % BUFFER_SIZE = Wrap(h + 1)
    BY <1>2, ModWrap, Zenon
  <1>4. Wrap(h + 1) + k - 1 \in 0 .. 2 * BUFFER_SIZE - 1
    BY <1>1 DEF Wrap
  <1>5. (Wrap(h + 1) + k - 1) % BUFFER_SIZE = Wrap(Wrap(h + 1) + k - 1)
    BY <1>4, ModWrap, Zenon
  <1>6. /\ Wrap(Wrap(h + 1) + k - 1) = Wrap(h + k)
        /\ Wrap(h + k - 1) \in 0 .. BUFFER_SIZE - 1
    BY <1>1 DEF Wrap
  <1> QED BY <1>3, <1>5, <1>6

Extended(s, n, e) == [k \in 1 .. n + 1 |-> IF k = n + 1 THEN e ELSE s[k]]

\* Append and Tail of a sequence that is given as a function of the index.
LEMMA SequenceAsFunction ==
    ASSUME NEW n \in Nat, NEW s, s = [k \in 1 .. n |-> s[k]], NEW e
    PROVE  /\ Len(s) = n
           /\ Append(s, e) = Extended(s, n, e)
           /\ n > 0 => Tail(s) = [k \in 1 .. n - 1 |-> s[k + 1]]
  BY DEF Extended

LEMMA PutAppends ==
    ASSUME IInv, NEW p \in Producers, ProducerPut(p)
    PROVE  /\ RingItems' = Append(RingItems, Item(p, Put(p)))
           /\ Len(RingItems) < BUFFER_SIZE
           /\ Put(p) < ITEMS_PER_PRODUCER
  <1>1. /\ BUFFER_SIZE \in Nat \ {0}
        /\ head \in 0 .. BUFFER_SIZE - 1 /\ count \in 0 .. BUFFER_SIZE - 1
        /\ tail = (head + count) % BUFFER_SIZE
        /\ buf \in [0 .. BUFFER_SIZE - 1 -> Nat]
        /\ i[p] < ITEMS_PER_PRODUCER /\ Put(p) = i[p]
    BY QueueAssumption DEF IInv, TypeOK, RingConsistent, LoopsCount, ProducerPut, Put
  <1>2. /\ head' = head /\ count' = count + 1
        /\ buf' = [buf EXCEPT ![tail] = Item(p, i[p])]
    BY DEF ProducerPut
  <1>3. tail = Wrap(head + count)
    <2>1. count + 1 \in 1 .. BUFFER_SIZE /\ head + (count + 1) - 1 = head + count
      BY <1>1
    <2> QED BY <1>1, <2>1, Slots
  <1>4. \A k \in 1 .. count : buf'[(head + k - 1) % BUFFER_SIZE]
                              = buf[(head + k - 1) % BUFFER_SIZE]
    <2> TAKE k \in 1 .. count
    <2>0. k \in 1 .. BUFFER_SIZE
      BY <1>1
    <2>1. /\ (head + k - 1) % BUFFER_SIZE = Wrap(head + k - 1)
          /\ Wrap(head + k - 1) \in 0 .. BUFFER_SIZE - 1
      BY <1>1, <2>0, Slots
    <2>2. Wrap(head + k - 1) # Wrap(head + count)
      BY <1>1 DEF Wrap
    <2> QED BY <1>1, <1>2, <1>3, <2>1, <2>2
  <1>5. buf'[(head + (count + 1) - 1) % BUFFER_SIZE] = Item(p, i[p])
    <2>1. tail \in 0 .. BUFFER_SIZE - 1 /\ head + (count + 1) - 1 = head + count
      BY <1>1 DEF IInv, TypeOK
    <2> QED BY <1>1, <1>2, <2>1
  <1>6. RingItems' = Append(RingItems, Item(p, i[p]))
    <2>1. RingItems' = [k \in 1 .. count + 1 |-> buf'[(head + k - 1) % BUFFER_SIZE]]
      BY <1>2 DEF RingItems
    <2>2. Append(RingItems, Item(p, i[p]))
            = Extended(RingItems, count, Item(p, i[p]))
      <3>1. RingItems = [k \in 1 .. count |-> RingItems[k]] /\ count \in Nat
        BY <1>1 DEF RingItems
      <3> QED BY <3>1, SequenceAsFunction, Zenon
    <2>3. ASSUME NEW k \in 1 .. count + 1
          PROVE  buf'[(head + k - 1) % BUFFER_SIZE]
                   = IF k = count + 1 THEN Item(p, i[p]) ELSE RingItems[k]
      <3>1. CASE k = count + 1
        BY <1>5, <3>1
      <3>2. CASE k # count + 1
        <4>1. k \in 1 .. count
          BY <1>1, <3>2
        <4>2. RingItems[k] = buf[(head + k - 1) % BUFFER_SIZE]
          BY <4>1, Zenon DEF RingItems
        <4> QED BY <1>4, <3>2, <4>1, <4>2, Zenon
      <3> QED BY <3>1, <3>2
    <2> QED BY <2>1, <2>2, <2>3, Zenon DEF Extended
  <1>7. Len(RingItems) = count
    BY <1>1 DEF RingItems
  <1> QED BY <1>1, <1>6, <1>7

LEMMA TakeDropsFirst ==
    ASSUME IInv, NEW c \in Consumers, ConsumerTake(c)
    PROVE  RingItems # <<>> /\ RingItems' = Tail(RingItems)
  <1>1. /\ BUFFER_SIZE \in Nat \ {0}
        /\ head \in 0 .. BUFFER_SIZE - 1 /\ count \in 1 .. BUFFER_SIZE
    BY QueueAssumption DEF IInv, TypeOK, ConsumerTake
  <1>2. /\ head' = (head + 1) % BUFFER_SIZE /\ count' = count - 1 /\ buf' = buf
    BY DEF ConsumerTake
  <1>3. Len(RingItems) = count
    BY <1>1 DEF RingItems
  <1>4. Tail(RingItems) = [k \in 1 .. count - 1 |-> RingItems[k + 1]]
    <2>1. RingItems = [k \in 1 .. count |-> RingItems[k]] /\ count \in Nat /\ count > 0
      BY <1>1 DEF RingItems
    <2> QED BY <2>1, SequenceAsFunction, Zenon
  <1>5. RingItems' = [k \in 1 .. count - 1 |->
                        buf[(((head + 1) % BUFFER_SIZE) + k - 1) % BUFFER_SIZE]]
    BY <1>2 DEF RingItems
  <1>6. ASSUME NEW k \in 1 .. count - 1
        PROVE  RingItems[k + 1] = buf[(((head + 1) % BUFFER_SIZE) + k - 1) % BUFFER_SIZE]
    <2>1. /\ k \in 1 .. BUFFER_SIZE /\ k + 1 \in 1 .. count
          /\ head + (k + 1) - 1 = head + k
      BY <1>1
    <2>2. RingItems[k + 1] = buf[(head + (k + 1) - 1) % BUFFER_SIZE]
      BY <2>1, Zenon DEF RingItems
    <2>3. (head + k) % BUFFER_SIZE = (((head + 1) % BUFFER_SIZE) + k - 1) % BUFFER_SIZE
      BY <1>1, <2>1, Slots
    <2> QED BY <2>1, <2>2, <2>3
  <1>7. RingItems # <<>>
    BY <1>1, <1>3
  <1> QED BY <1>4, <1>5, <1>6, <1>7, Zenon

LEMMA FifoInit == Init => FIFO!Init
  <1> SUFFICES ASSUME Init PROVE FIFO!Init
    OBVIOUS
  <1>1. count = 0
    BY DEF Init
  <1>2. RingItems = <<>>
    BY <1>1 DEF RingItems
  <1>3. Sent = [p \in Producers |-> 0]
    BY QueueAssumption DEF Init, Sent, Put, Threads
  <1> QED BY <1>2, <1>3 DEF FIFO!Init, Sent

LEMMA FifoStep == IInv /\ [Next]_vars => [FIFO!Next]_FIFO!vars
  <1> SUFFICES ASSUME IInv, [Next]_vars PROVE [FIFO!Next]_FIFO!vars
    OBVIOUS
  <1>0. Control /\ Consumers # {}
    BY QueueAssumption DEF IInv, Control
  <1>1. ASSUME NEW p \in Producers, ProducerPut(p), Put(p)' = Put(p) + 1,
               \A q \in Producers \ {p} : Put(q)' = Put(q)
        PROVE  FIFO!Next
    <2>1. Sent' = [Sent EXCEPT ![p] = @ + 1] /\ Sent[p] = Put(p)
      BY <1>1 DEF Sent
    <2>2. FIFO!Put(p)
      BY <1>1, <2>1, PutAppends DEF FIFO!Put, Sent
    <2> QED BY <2>2 DEF FIFO!Next
  <1>2. ASSUME NEW c \in Consumers, ConsumerTake(c), \A p \in Producers : Put(p)' = Put(p)
        PROVE  FIFO!Next
    <2>1. Sent' = Sent
      BY <1>2 DEF Sent
    <2> QED BY <1>2, <2>1, TakeDropsFirst DEF FIFO!Take, FIFO!Next, Sent
  <1>3. ASSUME UNCHANGED <<buf, head, count>>, \A p \in Producers : Put(p)' = Put(p)
        PROVE  UNCHANGED FIFO!vars
    BY <1>3 DEF FIFO!vars, RingItems
  <1> QED BY <1>0, <1>1, <1>2, <1>3, PutTakenStep

\* The mutex queue implements the bounded FIFO: items leave the ring in the
\* order they were put, none skipped and none repeated.
THEOREM QueueIsFifo == Spec => ImplementsFifo
  BY Invariance, FifoInit, FifoStep, PTL DEF Spec, ImplementsFifo, FIFO!Spec
=============================================================================
