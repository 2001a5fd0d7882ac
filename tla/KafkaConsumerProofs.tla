------------------------ MODULE KafkaConsumerProofs -------------------------
(***************************************************************************)
(* At-least-once delivery and a committed offset that only grows, for any  *)
(* number of consumers, partitions, messages and failures.  IInv is        *)
(* inductive: the steps that matter are PollMessage and Commit, which hand *)
(* an offset on, CommitArrives, where the broker takes it, and Rebalance,  *)
(* after which the commits of earlier generations no longer count.         *)
(***************************************************************************)
EXTENDS KafkaConsumer, TLAPS

\* What it is to be an assignment of offsets to some partitions.
LEMMA OffsetsAre ==
    ASSUME NEW f
    PROVE  f \in Offsets <=>
             DOMAIN f \subseteq Partitions /\ f \in [DOMAIN f -> 0 .. MaxOffset]
<1>1. ASSUME f \in Offsets
      PROVE  DOMAIN f \subseteq Partitions /\ f \in [DOMAIN f -> 0 .. MaxOffset]
  <2>1. PICK S \in SUBSET Partitions : f \in [S -> 0 .. MaxOffset]
    BY <1>1 DEF Offsets
  <2>. QED
    BY <2>1
<1>2. ASSUME DOMAIN f \subseteq Partitions, f \in [DOMAIN f -> 0 .. MaxOffset]
      PROVE  f \in Offsets
  <2>1. DOMAIN f \in SUBSET Partitions
    BY <1>2
  <2>. QED
    BY <1>2, <2>1 DEF Offsets
<1>. QED
  BY <1>1, <1>2

\* No partitions.
LEMMA NoneIs == None \in Offsets /\ DOMAIN None = {}
<1>1. DOMAIN None = {} /\ None \in [DOMAIN None -> 0 .. MaxOffset]
  BY DEF None
<1>. QED
  BY <1>1, OffsetsAre

\* The offsets of the consumers and of their commits are numbers.
LEMMA Numbers ==
    ASSUME Types, NEW c \in Consumers
    PROVE  /\ DOMAIN next[c] \subseteq Partitions /\ DOMAIN stored[c] \subseteq Partitions
           /\ \A p \in DOMAIN next[c] : next[c][p] \in 0 .. MaxOffset
           /\ \A p \in DOMAIN stored[c] : stored[c][p] \in 0 .. MaxOffset
           /\ flight[c] \in Seq(Requests)
           /\ \A i \in DOMAIN flight[c] :
                /\ flight[c][i] \in Requests /\ flight[c][i].gen \in Nat
                /\ DOMAIN flight[c][i].offsets \subseteq Partitions
                /\ \A p \in DOMAIN flight[c][i].offsets :
                     flight[c][i].offsets[p] \in 0 .. MaxOffset
<1>1. next[c] \in Offsets /\ stored[c] \in Offsets /\ flight[c] \in Seq(Requests)
  BY DEF Types
<1>2. ASSUME NEW f \in Offsets
      PROVE  DOMAIN f \subseteq Partitions /\ \A p \in DOMAIN f : f[p] \in 0 .. MaxOffset
  BY OffsetsAre
<1>3. ASSUME NEW i \in DOMAIN flight[c]
      PROVE  flight[c][i] \in Requests
  BY <1>1
<1>4. \A r \in Requests : r.gen \in Nat /\ r.offsets \in Offsets
  BY DEF Requests
<1>. QED
  BY <1>1, <1>2, <1>3, <1>4

-----------------------------------------------------------------------------
\* At first nothing is produced, polled or committed.
LEMMA InitIInv == Init => IInv
<1> SUFFICES ASSUME Init PROVE IInv
  OBVIOUS
<1>1. Types
  <2>1. log \in [Partitions -> 0 .. MaxOffset] /\ committed \in [Partitions -> 0 .. MaxOffset]
    BY KafkaAssumption DEF Init
  <2>2. next \in [Consumers -> Offsets] /\ stored \in [Consumers -> Offsets]
    BY NoneIs DEF Init
  <2>3. flight \in [Consumers -> Seq(Requests)] /\ polled \in [Partitions -> SUBSET Nat]
    BY DEF Init
  <2>. QED
    BY <2>1, <2>2, <2>3 DEF Init, Types
<1>2. \A c \in Consumers :
        /\ DOMAIN next[c] = {} /\ DOMAIN stored[c] = {} /\ DOMAIN flight[c] = {}
        /\ next[c] = None /\ gen[c] = 0
  BY NoneIs DEF Init
<1>3. Generations /\ OneOwner /\ Ascending
  BY <1>2 DEF Init, Generations, OneOwner, Claims, Ascending
<1>4. PolledBelow
  BY <1>2 DEF Init, PolledBelow, Below
<1>. QED
  BY <1>1, <1>3, <1>4 DEF IInv

\* Steps that leave all offsets alone.
LEMMA QuietIInv ==
    ASSUME IInv, Types',
           UNCHANGED <<committed, generation, gen, next, stored, flight, polled>>,
           \A c \in Consumers : pc'[c] = "off" => pc[c] = "off"
    PROVE  IInv'
<1>1. Generations'
  BY DEF IInv, Generations
<1>2. PolledBelow'
  BY DEF IInv, PolledBelow, Below
<1>3. OneOwner'
  BY DEF IInv, OneOwner, Claims, Present
<1>4. Ascending'
  BY DEF IInv, Ascending, Present
<1>. QED
  BY <1>1, <1>2, <1>3, <1>4 DEF IInv

\* Subscribing, an error, an interrupt, a late poll and a new message.
LEMMA QuietStepsIInv ==
    ASSUME IInv,
           \/ \E c \in Consumers :
                Subscribe(c) \/ PollError(c) \/ KeyboardInterrupt(c) \/ Drop(c)
           \/ \E p \in Partitions : Produce(p)
    PROVE  IInv'
<1>0. Types
  BY DEF IInv
<1>1. CASE \E c \in Consumers : Subscribe(c) \/ PollError(c) \/ KeyboardInterrupt(c) \/ Drop(c)
  <2>1. Types'
    BY <1>0, <1>1 DEF Subscribe, PollError, KeyboardInterrupt, Drop, brokerVars, Types
  <2>2. \A c \in Consumers : pc'[c] = "off" => pc[c] = "off"
    BY <1>0, <1>1 DEF Subscribe, PollError, KeyboardInterrupt, Drop, Types
  <2>3. UNCHANGED <<committed, generation, gen, next, stored, flight, polled>>
    BY <1>1 DEF Subscribe, PollError, KeyboardInterrupt, Drop, brokerVars
  <2>. QED
    BY <2>1, <2>2, <2>3, QuietIInv
<1>2. CASE \E p \in Partitions : Produce(p)
  <2>1. Types'
    BY <1>0, <1>2, KafkaAssumption DEF Produce, Types
  <2>. QED
    BY <1>2, <2>1, QuietIInv DEF Produce
<1>. QED
  BY <1>1, <1>2

\* A new process has the first generation, and no partitions.
LEMMA StartIInv ==
    ASSUME IInv, NEW c \in Consumers, Start(c)
    PROVE  IInv'
<1>0. Types /\ Generations
  BY DEF IInv
<1>1. /\ pc[c] = "off" /\ gen' = [gen EXCEPT ![c] = 0]
      /\ pc' = [pc EXCEPT ![c] = "subscribe"]
      /\ UNCHANGED <<log, members, committed, generation, next, stored, flight, polled>>
  BY DEF Start, brokerVars
<1>2. DOMAIN next[c] = {} /\ DOMAIN stored[c] = {}
  BY <1>0, <1>1, NoneIs DEF Generations
<1>3. Types'
  BY <1>0, <1>1 DEF Types
<1>4. Generations'
  BY <1>0, <1>1 DEF Generations, Types
<1>5. PolledBelow'
  BY <1>1 DEF IInv, PolledBelow, Below
<1>6. OneOwner'
  <2>1. \A d \in Consumers \ {c} : gen'[d] = gen[d]
    BY <1>0, <1>1 DEF Types
  <2>2. \A d \in Consumers : \A p \in Partitions : Claims(d, p)' => Claims(d, p)
    BY <1>1, <1>2, <2>1 DEF Claims, Present
  <2>. QED
    BY <1>1, <2>2 DEF IInv, OneOwner
<1>7. Ascending'
  BY <1>0, <1>1, <1>2 DEF IInv, Ascending, Present, Types
<1>. QED
  BY <1>3, <1>4, <1>5, <1>6, <1>7 DEF IInv

\* A process that ends owns nothing any more; its commits stay on their way.
LEMMA EndIInv ==
    ASSUME IInv, NEW c \in Consumers, Close(c) \/ Crash(c)
    PROVE  IInv'
<1>0. Types /\ Generations
  BY DEF IInv
<1>1. /\ next' = [next EXCEPT ![c] = None] /\ stored' = [stored EXCEPT ![c] = None]
      /\ pc' = [pc EXCEPT ![c] = "off"] /\ members' \subseteq members
      /\ UNCHANGED <<log, committed, generation, gen, flight, polled>>
  BY DEF Close, Crash, brokerVars
<1>2. next'[c] = None /\ stored'[c] = None /\ DOMAIN next'[c] = {} /\ DOMAIN stored'[c] = {}
  BY <1>0, <1>1, NoneIs DEF Types
<1>3. \A d \in Consumers \ {c} :
        next'[d] = next[d] /\ stored'[d] = stored[d] /\ pc'[d] = pc[d]
  BY <1>0, <1>1 DEF Types
<1>4. Types'
  BY <1>0, <1>1, NoneIs DEF Types
<1>5. Generations'
  BY <1>0, <1>1, <1>2, <1>3 DEF Generations
<1>6. PolledBelow'
  BY <1>1, <1>2, <1>3 DEF IInv, PolledBelow, Below
<1>7. OneOwner'
  <2>1. \A d \in Consumers : \A p \in Partitions : Claims(d, p)' => Claims(d, p)
    BY <1>1, <1>2, <1>3 DEF Claims, Present
  <2>. QED
    BY <2>1 DEF IInv, OneOwner
<1>8. Ascending'
  BY <1>1, <1>2, <1>3 DEF IInv, Ascending, Present
<1>. QED
  BY <1>4, <1>5, <1>6, <1>7, <1>8 DEF IInv

-----------------------------------------------------------------------------
\* A poll returns the next message; it is polled, and the offset after it is
\* stored.
LEMMA PollMessageIInv ==
    ASSUME IInv, NEW c \in Consumers, PollMessage(c)
    PROVE  IInv'
<1>0. Types /\ Generations
  BY DEF IInv
<1>1. PICK p \in DOMAIN next[c] :
        /\ next[c][p] < log[p]
        /\ polled' = [polled EXCEPT ![p] = @ \cup {next[c][p]}]
        /\ next' = [next EXCEPT ![c][p] = @ + 1]
        /\ stored' = [stored EXCEPT ![c] =
               [q \in {p} \cup DOMAIN @ |->
                   IF q = p THEN AfterMessage(next[c][p]) ELSE @[q]]]
  BY DEF PollMessage
<1>2. UNCHANGED <<log, committed, members, generation, gen, flight>>
  BY DEF PollMessage, brokerVars
<1>o. PICK o : o = next[c][p]
  OBVIOUS
<1>3. /\ p \in Partitions /\ o \in Nat /\ o < MaxOffset /\ o + 1 \in 0 .. MaxOffset
      /\ next[c] \in Offsets /\ stored[c] \in Offsets
  BY <1>0, <1>1, <1>o, Numbers, KafkaAssumption DEF Types
<1>4. /\ next'[c] = [next[c] EXCEPT ![p] = o + 1]
      /\ stored'[c] = [q \in {p} \cup DOMAIN stored[c] |->
                         IF q = p THEN o + 1 ELSE stored[c][q]]
      /\ \A d \in Consumers \ {c} : next'[d] = next[d] /\ stored'[d] = stored[d]
  BY <1>0, <1>1, <1>o DEF Types, AfterMessage
<1>5. /\ DOMAIN next'[c] = DOMAIN next[c]
      /\ next'[c][p] = o + 1
      /\ \A q \in DOMAIN next[c] \ {p} : next'[c][q] = next[c][q]
      /\ DOMAIN stored'[c] = {p} \cup DOMAIN stored[c]
      /\ stored'[c][p] = o + 1
      /\ \A q \in DOMAIN stored[c] \ {p} : stored'[c][q] = stored[c][q]
  BY <1>1, <1>3, <1>4, OffsetsAre
<1>6. Types'
  <2>1. next'[c] \in Offsets /\ stored'[c] \in Offsets
    <3>1. next'[c] \in [DOMAIN next'[c] -> 0 .. MaxOffset]
      BY <1>3, <1>4, <1>5, OffsetsAre
    <3>2. stored'[c] \in [DOMAIN stored'[c] -> 0 .. MaxOffset]
      BY <1>3, <1>4, <1>5, OffsetsAre
    <3>. QED
      BY <1>3, <1>5, <3>1, <3>2, OffsetsAre
  <2>2. next' \in [Consumers -> Offsets] /\ stored' \in [Consumers -> Offsets]
    <3>1. DOMAIN next' = Consumers /\ DOMAIN stored' = Consumers
      BY <1>0, <1>1 DEF Types
    <3>2. \A d \in Consumers : next'[d] \in Offsets /\ stored'[d] \in Offsets
      BY <1>0, <1>4, <2>1 DEF Types
    <3>3. next' = [d \in Consumers |-> next'[d]] /\ stored' = [d \in Consumers |-> stored'[d]]
      BY <1>0, <1>1, <3>1 DEF Types
    <3>. QED
      BY <3>2, <3>3
  <2>3. polled' \in [Partitions -> SUBSET Nat]
    BY <1>0, <1>1, <1>o, <1>3 DEF Types
  <2>4. pc' \in [Consumers -> {"off", "subscribe", "poll", "commit", "close"}]
    BY <1>0 DEF PollMessage, Types
  <2>. QED
    BY <1>0, <1>2, <2>2, <2>3, <2>4 DEF Types
<1>7. Generations'
  <2>1. \A d \in Consumers : pc'[d] = "off" => d # c /\ pc[d] = "off"
    BY <1>0 DEF PollMessage, Types
  <2>2. \A d \in Consumers : DOMAIN stored'[d] \subseteq DOMAIN next'[d]
    BY <1>0, <1>1, <1>4, <1>5 DEF Generations
  <2>. QED
    BY <1>0, <1>2, <1>4, <2>1, <2>2 DEF Generations
<1>8. PolledBelow'
  <2>1. \A q \in Partitions : polled[q] \subseteq polled'[q]
    BY <1>0, <1>1 DEF Types
  <2>2. o \in polled'[p]
    BY <1>0, <1>1, <1>o, <1>3 DEF Types
  <2>3. ASSUME NEW q \in Partitions, NEW x \in Nat, Below(q, x)
        PROVE  Below(q, x)'
    BY <2>1, <2>3 DEF Below
  <2>4. \A m \in 0 .. (o + 1) - 1 : m \in polled'[p]
    <3>1. \A m \in 0 .. (o + 1) - 1 : m \in 0 .. o - 1 \/ m = o
      BY <1>3
    <3>2. \A m \in 0 .. o - 1 : m \in polled[p]
      BY <1>1, <1>o DEF IInv, PolledBelow, Below
    <3>. QED
      BY <1>3, <2>1, <2>2, <3>1, <3>2
  <2>5. \A q \in Partitions : Below(q, committed[q])'
    <3>1. TAKE q \in Partitions
    <3>2. Below(q, committed[q]) /\ committed[q] \in Nat
      BY <1>0, KafkaAssumption DEF IInv, PolledBelow, Types
    <3>. QED
      BY <1>2, <2>1, <3>2 DEF Below
  <2>6. ASSUME NEW d \in Consumers, NEW q \in DOMAIN next'[d]
        PROVE  Below(q, next[d][q])'
    <3>1. CASE d = c /\ q = p
      BY <1>3, <1>5, <2>4, <3>1 DEF Below
    <3>2. CASE ~(d = c /\ q = p)
      <4>1. q \in DOMAIN next[d] /\ next'[d][q] = next[d][q] /\ q \in Partitions
        BY <1>0, <1>4, <1>5, <2>6, <3>2, Numbers
      <4>2. Below(q, next[d][q])
        BY <4>1 DEF IInv, PolledBelow
      <4>. QED
        BY <2>1, <4>1, <4>2 DEF Below
    <3>. QED
      BY <3>1, <3>2
  <2>7. ASSUME NEW d \in Consumers, NEW q \in DOMAIN stored'[d]
        PROVE  Below(q, stored[d][q])'
    <3>1. CASE d = c /\ q = p
      BY <1>3, <1>5, <2>4, <3>1 DEF Below
    <3>2. CASE ~(d = c /\ q = p)
      <4>1. q \in DOMAIN stored[d] /\ stored'[d][q] = stored[d][q] /\ q \in Partitions
        BY <1>0, <1>4, <1>5, <2>7, <3>2, Numbers
      <4>2. Below(q, stored[d][q])
        BY <4>1 DEF IInv, PolledBelow
      <4>. QED
        BY <2>1, <4>1, <4>2 DEF Below
    <3>. QED
      BY <3>1, <3>2
  <2>8. ASSUME NEW d \in Consumers, NEW i \in DOMAIN flight[d],
               NEW q \in DOMAIN flight[d][i].offsets
        PROVE  Below(q, flight[d][i].offsets[q])'
    <3>1. q \in Partitions /\ Below(q, flight[d][i].offsets[q])
      BY <1>0, Numbers DEF IInv, PolledBelow
    <3>. QED
      BY <1>2, <2>1, <3>1 DEF Below
  <2>. QED
    BY <1>2, <2>5, <2>6, <2>7, <2>8 DEF PolledBelow
<1>9. OneOwner'
  <2>1. \A d \in Consumers : DOMAIN next'[d] = DOMAIN next[d]
    BY <1>4, <1>5
  <2>2. \A d \in Consumers : \A q \in Partitions : Claims(d, q)' => Claims(d, q)
    BY <1>2, <2>1 DEF Claims, Present
  <2>. QED
    BY <1>2, <2>2 DEF IInv, OneOwner
<1>10. Ascending'
  <2>1. /\ \A q \in DOMAIN stored'[c] : q \in DOMAIN next[c] /\ stored'[c][q] <= next'[c][q]
        /\ \A q \in DOMAIN next[c] : next[c][q] \in Nat /\ next'[c][q] \in Nat
        /\ \A q \in DOMAIN next[c] : next[c][q] <= next'[c][q]
    <3>1. \A q \in DOMAIN stored[c] : q \in DOMAIN next[c] /\ stored[c][q] <= next[c][q]
      BY <1>0 DEF IInv, Ascending, Generations
    <3>2. \A q \in DOMAIN next[c] : next[c][q] \in Nat
      BY <1>0, Numbers
    <3>. QED
      BY <1>1, <1>o, <1>3, <1>5, <3>1, <3>2
  <2>2. ASSUME gen[c] = generation
        PROVE  /\ \A q \in DOMAIN next'[c] : committed[q] <= next'[c][q]
               /\ \A q \in DOMAIN stored'[c] : committed[q] <= stored'[c][q]
    <3>1. /\ \A q \in DOMAIN next[c] : committed[q] <= next[c][q]
          /\ \A q \in DOMAIN stored[c] : committed[q] <= stored[c][q]
      BY <2>2 DEF IInv, Ascending
    <3>2. \A q \in DOMAIN next[c] : committed[q] \in Nat
      BY <1>0, Numbers, KafkaAssumption DEF Types
    <3>. QED
      BY <1>1, <1>o, <1>3, <1>5, <2>1, <3>1, <3>2
  <2>3. ASSUME NEW i \in DOMAIN flight[c], Present(c, i), gen[c] = generation,
               NEW q \in DOMAIN flight[c][i].offsets
        PROVE  /\ q \in DOMAIN next'[c] => flight[c][i].offsets[q] <= next'[c][q]
               /\ q \in DOMAIN stored'[c] => flight[c][i].offsets[q] <= stored'[c][q]
    <3>1. /\ q \in DOMAIN next[c] => flight[c][i].offsets[q] <= next[c][q]
          /\ q \in DOMAIN stored[c] => flight[c][i].offsets[q] <= stored[c][q]
      BY <2>3 DEF IInv, Ascending
    <3>2. flight[c][i].offsets[q] \in Nat
      BY <1>0, Numbers
    <3> HIDE DEF Present
    <3>. QED
      BY <1>1, <1>o, <1>3, <1>5, <2>1, <3>1, <3>2
  <2>4. \A d \in Consumers \ {c} :
          next'[d] = next[d] /\ stored'[d] = stored[d]
    BY <1>4
  <2>5. \A d \in Consumers : \A i \in DOMAIN flight[d] : Present(d, i)' <=> Present(d, i)
    BY <1>2 DEF Present
  <2>6. ASSUME NEW d \in Consumers
        PROVE  /\ \A q \in DOMAIN stored'[d] : stored'[d][q] <= next'[d][q]
               /\ gen[d] = generation =>
                    /\ \A q \in DOMAIN next'[d] : committed[q] <= next'[d][q]
                    /\ \A q \in DOMAIN stored'[d] : committed[q] <= stored'[d][q]
    <3>1. CASE d = c
      BY <2>1, <2>2, <3>1
    <3>2. CASE d # c
      BY <2>4, <3>2 DEF IInv, Ascending
    <3>. QED
      BY <3>1, <3>2
  <2>7. ASSUME NEW d \in Consumers, NEW i \in DOMAIN flight[d], Present(d, i),
               NEW q \in DOMAIN flight[d][i].offsets
        PROVE  /\ committed[q] <= flight[d][i].offsets[q]
               /\ \A j \in DOMAIN flight[d] :
                     j > i /\ Present(d, j) /\ q \in DOMAIN flight[d][j].offsets =>
                        flight[d][i].offsets[q] <= flight[d][j].offsets[q]
               /\ gen[d] = generation /\ q \in DOMAIN next'[d] =>
                        flight[d][i].offsets[q] <= next'[d][q]
               /\ gen[d] = generation /\ q \in DOMAIN stored'[d] =>
                        flight[d][i].offsets[q] <= stored'[d][q]
    <3>1. CASE d = c
      BY <2>3, <2>7, <3>1 DEF IInv, Ascending
    <3>2. CASE d # c
      BY <2>4, <2>7, <3>2 DEF IInv, Ascending
    <3>. QED
      BY <3>1, <3>2
  <2>. QED
    BY <1>2, <2>5, <2>6, <2>7 DEF Ascending
<1>. QED
  BY <1>6, <1>7, <1>8, <1>9, <1>10 DEF IInv

\* The offsets stored join the commits on their way, as the last of them.
LEMMA CommitIInv ==
    ASSUME IInv, NEW c \in Consumers, Commit(c)
    PROVE  IInv'
<1>0. Types /\ Generations
  BY DEF IInv
<1>1. /\ flight' = [flight EXCEPT ![c] = Append(@, [gen |-> gen[c], offsets |-> stored[c]])]
      /\ pc' = [pc EXCEPT ![c] = "poll"]
      /\ UNCHANGED <<log, committed, members, generation, gen, next, stored, polled>>
  BY DEF Commit, brokerVars
<1>r. PICK r : r = [gen |-> gen[c], offsets |-> stored[c]]
  OBVIOUS
<1>n. PICK k : k = Len(flight[c])
  OBVIOUS
<1>2. r \in Requests /\ r.gen = gen[c] /\ r.offsets = stored[c]
  BY <1>0, <1>r DEF Types, Requests
<1>3. flight[c] \in Seq(Requests) /\ k \in Nat /\ DOMAIN flight[c] = 1 .. k
  BY <1>0, <1>n, Numbers
<1>4. /\ flight'[c] = Append(flight[c], r)
      /\ \A d \in Consumers \ {c} : flight'[d] = flight[d]
  BY <1>0, <1>1, <1>r DEF Types
<1>5. /\ flight'[c] \in Seq(Requests) /\ DOMAIN flight'[c] = 1 .. k + 1
      /\ \A i \in DOMAIN flight[c] : flight'[c][i] = flight[c][i]
      /\ flight'[c][k + 1] = r
      /\ \A i \in DOMAIN flight'[c] : i \in DOMAIN flight[c] \/ i = k + 1
  BY <1>n, <1>2, <1>3, <1>4
<1>6. Types'
  <2>1. flight' \in [Consumers -> Seq(Requests)]
    BY <1>0, <1>1, <1>4, <1>5 DEF Types
  <2>. QED
    BY <1>0, <1>1, <2>1 DEF Types
<1>7. Generations'
  <2>1. \A d \in Consumers : pc'[d] = "off" => pc[d] = "off"
    BY <1>0, <1>1 DEF Types
  <2>2. \A d \in Consumers : \A i \in DOMAIN flight'[d] : flight'[d][i].gen <= generation
    BY <1>0, <1>2, <1>4, <1>5 DEF Generations
  <2>. QED
    BY <1>0, <1>1, <2>1, <2>2 DEF Generations
<1>8. PolledBelow'
  <2>1. ASSUME NEW d \in Consumers, NEW i \in DOMAIN flight'[d],
               NEW p \in DOMAIN flight'[d][i].offsets
        PROVE  \A m \in 0 .. flight'[d][i].offsets[p] - 1 : m \in polled[p]
    <3>1. CASE d = c /\ i = k + 1
      BY <1>2, <1>5, <3>1 DEF IInv, PolledBelow, Below
    <3>2. CASE ~(d = c /\ i = k + 1)
      <4>1. i \in DOMAIN flight[d] /\ flight'[d][i] = flight[d][i]
        BY <1>4, <1>5, <3>2
      <4>. QED
        BY <4>1 DEF IInv, PolledBelow, Below
    <3>. QED
      BY <3>1, <3>2
  <2>. QED
    BY <1>1, <2>1 DEF IInv, PolledBelow, Below
<1>9. OneOwner'
  <2>1. ASSUME NEW d \in Consumers, NEW p \in Partitions, Claims(d, p)'
        PROVE  Claims(d, p)
    <3>1. CASE gen[d] = generation /\ p \in DOMAIN next[d]
      BY <3>1 DEF Claims
    <3>2. CASE \E i \in DOMAIN flight'[d] :
                 flight'[d][i].gen = generation /\ p \in DOMAIN flight'[d][i].offsets
      <4>1. PICK i \in DOMAIN flight'[d] :
              flight'[d][i].gen = generation /\ p \in DOMAIN flight'[d][i].offsets
        BY <3>2
      <4>2. CASE d = c /\ i = k + 1
        BY <1>0, <1>2, <1>5, <4>1, <4>2 DEF Generations, Claims
      <4>3. CASE ~(d = c /\ i = k + 1)
        BY <1>4, <1>5, <4>1, <4>3 DEF Claims, Present
      <4>. QED
        BY <4>2, <4>3
    <3>. QED
      BY <1>1, <2>1, <3>1, <3>2 DEF Claims, Present
  <2>. QED
    BY <2>1 DEF IInv, OneOwner
<1>10. Ascending'
  <2>1. ASSUME NEW d \in Consumers, NEW i \in DOMAIN flight'[d],
               flight'[d][i].gen = generation,
               NEW p \in DOMAIN flight'[d][i].offsets
        PROVE  /\ committed[p] <= flight'[d][i].offsets[p]
               /\ gen[d] = generation /\ p \in DOMAIN next[d] =>
                        flight'[d][i].offsets[p] <= next[d][p]
               /\ gen[d] = generation /\ p \in DOMAIN stored[d] =>
                        flight'[d][i].offsets[p] <= stored[d][p]
    <3>1. CASE d = c /\ i = k + 1
      <4>1. stored[c][p] \in Nat
        BY <1>0, <1>2, <1>5, <2>1, <3>1, Numbers
      <4>. QED
        BY <1>2, <1>5, <2>1, <3>1, <4>1 DEF IInv, Ascending
    <3>2. CASE ~(d = c /\ i = k + 1)
      <4>1. i \in DOMAIN flight[d] /\ flight'[d][i] = flight[d][i]
        BY <1>4, <1>5, <3>2
      <4>. QED
        BY <2>1, <4>1 DEF IInv, Ascending, Present
    <3>. QED
      BY <3>1, <3>2
  <2>2. ASSUME NEW d \in Consumers, NEW i \in DOMAIN flight'[d], NEW j \in DOMAIN flight'[d],
               j > i, flight'[d][i].gen = generation, flight'[d][j].gen = generation,
               NEW p \in DOMAIN flight'[d][i].offsets, p \in DOMAIN flight'[d][j].offsets
        PROVE  flight'[d][i].offsets[p] <= flight'[d][j].offsets[p]
    <3>1. CASE d = c /\ j = k + 1
      <4>1. i \in DOMAIN flight[c] /\ flight'[c][i] = flight[c][i]
        BY <1>3, <1>5, <2>2, <3>1
      <4>. QED
        BY <1>2, <1>5, <2>2, <3>1, <4>1 DEF IInv, Ascending, Present
    <3>2. CASE ~(d = c /\ j = k + 1)
      <4>1. j \in DOMAIN flight[d] /\ flight'[d][j] = flight[d][j]
        BY <1>4, <1>5, <3>2
      <4>2. i \in DOMAIN flight[d] /\ flight'[d][i] = flight[d][i]
        <5>1. CASE d = c
          <6>1. i \in 1 .. k + 1 /\ j \in 1 .. k /\ i < j
            BY <1>3, <1>5, <2>2, <4>1, <5>1
          <6>2. i \in 1 .. k
            BY <1>3, <6>1
          <6>. QED
            BY <1>3, <1>5, <5>1, <6>2
        <5>2. CASE d # c
          BY <1>4, <5>2
        <5>. QED
          BY <5>1, <5>2
      <4>. QED
        BY <2>2, <4>1, <4>2 DEF IInv, Ascending, Present
    <3>. QED
      BY <3>1, <3>2
  <2>. QED
    BY <1>1, <2>1, <2>2 DEF IInv, Ascending, Present
<1>. QED
  BY <1>6, <1>7, <1>8, <1>9, <1>10 DEF IInv

\* The broker's answer to the first commit on its way: an offset that goes up,
\* in the partitions that the consumer has, or nothing.
LEMMA Answer ==
    ASSUME IInv, NEW c \in Consumers, CommitArrives(c)
    PROVE  /\ Len(flight[c]) >= 1
           /\ committed' \in [Partitions -> 0 .. MaxOffset]
           /\ \A p \in Partitions :
                committed'[p] = committed[p] \/
                    /\ Present(c, 1) /\ p \in DOMAIN flight[c][1].offsets
                    /\ committed'[p] = flight[c][1].offsets[p]
           /\ \A p \in Partitions : committed'[p] >= committed[p]
<1>0. Types
  BY DEF IInv
<1>1. flight[c] \in Seq(Requests) /\ flight[c] # <<>>
  BY <1>0, Numbers DEF CommitArrives
<1>2. Len(flight[c]) >= 1 /\ 1 \in DOMAIN flight[c] /\ Head(flight[c]) = flight[c][1]
  BY <1>1
<1>3. committed \in [Partitions -> 0 .. MaxOffset] /\ \A p \in Partitions : committed[p] \in Nat
  BY <1>0, KafkaAssumption DEF Types
<1>4. CASE UNCHANGED committed
  BY <1>2, <1>3, <1>4
<1>5. CASE /\ Present(c, 1)
           /\ committed' = [p \in Partitions |->
                    IF p \in DOMAIN flight[c][1].offsets THEN flight[c][1].offsets[p]
                    ELSE committed[p]]
  <2>1. \A p \in DOMAIN flight[c][1].offsets :
          flight[c][1].offsets[p] \in 0 .. MaxOffset /\ committed[p] <= flight[c][1].offsets[p]
    BY <1>0, <1>2, <1>5, Numbers DEF IInv, Ascending
  <2>. QED
    BY <1>2, <1>3, <1>5, <2>1
<1>. QED
  BY <1>2, <1>4, <1>5 DEF CommitArrives, Accepted, Present

\* A commit arrives.
LEMMA CommitArrivesIInv ==
    ASSUME IInv, NEW c \in Consumers, CommitArrives(c)
    PROVE  IInv'
<1>0. Types /\ Generations
  BY DEF IInv
<1>1. /\ flight' = [flight EXCEPT ![c] = Tail(@)]
      /\ UNCHANGED <<log, members, generation, pc, gen, next, stored, polled>>
  BY DEF CommitArrives
<1>2. /\ flight[c] \in Seq(Requests) /\ Len(flight[c]) >= 1 /\ 1 \in DOMAIN flight[c]
      /\ flight'[c] = Tail(flight[c])
      /\ \A d \in Consumers \ {c} : flight'[d] = flight[d]
  BY <1>0, <1>1, Answer, Numbers DEF Types
<1>3. /\ flight'[c] \in Seq(Requests)
      /\ \A i \in DOMAIN flight'[c] :
            i \in Nat /\ i + 1 \in DOMAIN flight[c] /\ flight'[c][i] = flight[c][i + 1] /\ i + 1 > 1
  BY <1>2
<1>4. ASSUME NEW d \in Consumers, NEW i \in DOMAIN flight'[d]
      PROVE  \E j \in DOMAIN flight[d] : flight'[d][i] = flight[d][j] /\ (d = c => j = i + 1 /\ j > 1)
                                        /\ (d # c => j = i)
  BY <1>2, <1>3
<1>5. Types'
  <2>1. flight' \in [Consumers -> Seq(Requests)]
    BY <1>0, <1>1, <1>2, <1>3 DEF Types
  <2>. QED
    BY <1>0, <1>1, <2>1, Answer DEF Types
<1>6. Generations'
  <2>1. ASSUME NEW d \in Consumers, NEW i \in DOMAIN flight'[d]
        PROVE  flight'[d][i].gen <= generation
    BY <1>0, <1>4 DEF Generations
  <2>. QED
    BY <1>0, <1>1, <2>1 DEF Generations
<1>7. PolledBelow'
  <2>1. ASSUME NEW d \in Consumers, NEW i \in DOMAIN flight'[d],
               NEW p \in DOMAIN flight'[d][i].offsets
        PROVE  \A m \in 0 .. flight'[d][i].offsets[p] - 1 : m \in polled[p]
    BY <1>4 DEF IInv, PolledBelow, Below
  <2>2. ASSUME NEW p \in Partitions
        PROVE  \A m \in 0 .. committed'[p] - 1 : m \in polled[p]
    <3>1. CASE committed'[p] = committed[p]
      BY <3>1 DEF IInv, PolledBelow, Below
    <3>2. CASE p \in DOMAIN flight[c][1].offsets /\ committed'[p] = flight[c][1].offsets[p]
      BY <1>2, <3>2 DEF IInv, PolledBelow, Below
    <3>. QED
      BY <3>1, <3>2, Answer
  <2>. QED
    BY <1>1, <2>1, <2>2 DEF IInv, PolledBelow, Below
<1>8. OneOwner'
  <2>1. ASSUME NEW d \in Consumers, NEW p \in Partitions, Claims(d, p)'
        PROVE  Claims(d, p)
    <3>1. CASE gen[d] = generation /\ p \in DOMAIN next[d]
      BY <3>1 DEF Claims
    <3>2. CASE \E i \in DOMAIN flight'[d] :
                 flight'[d][i].gen = generation /\ p \in DOMAIN flight'[d][i].offsets
      BY <1>4, <3>2 DEF Claims, Present
    <3>. QED
      BY <1>1, <2>1, <3>1, <3>2 DEF Claims, Present
  <2>. QED
    BY <2>1 DEF IInv, OneOwner
<1>9. Ascending'
  <2>1. ASSUME NEW d \in Consumers, NEW p \in Partitions, Claims(d, p), committed'[p] # committed[p]
        PROVE  d = c /\ Present(c, 1) /\ p \in DOMAIN flight[c][1].offsets
               /\ committed'[p] = flight[c][1].offsets[p]
    <3>1. /\ Present(c, 1) /\ p \in DOMAIN flight[c][1].offsets
          /\ committed'[p] = flight[c][1].offsets[p]
      BY <2>1, Answer
    <3>2. Claims(c, p)
      BY <1>2, <3>1 DEF Claims
    <3>. QED
      BY <2>1, <3>1, <3>2 DEF IInv, OneOwner
  <2>2. ASSUME NEW d \in Consumers, gen[d] = generation
        PROVE  /\ \A p \in DOMAIN next[d] : committed'[p] <= next[d][p]
               /\ \A p \in DOMAIN stored[d] : committed'[p] <= stored[d][p]
    <3>1. ASSUME NEW p \in DOMAIN next[d]
          PROVE  committed'[p] <= next[d][p] /\ (p \in DOMAIN stored[d] => committed'[p] <= stored[d][p])
      <4>1. p \in Partitions /\ Claims(d, p)
        BY <1>0, <2>2, Numbers DEF Claims
      <4>2. CASE committed'[p] = committed[p]
        BY <2>2, <4>2 DEF IInv, Ascending
      <4>3. CASE committed'[p] # committed[p]
        BY <1>2, <2>1, <2>2, <4>1, <4>3 DEF IInv, Ascending
      <4>. QED
        BY <4>2, <4>3
    <3>. QED
      BY <1>0, <3>1 DEF Generations
  <2>3. ASSUME NEW d \in Consumers, NEW i \in DOMAIN flight'[d],
               flight'[d][i].gen = generation,
               NEW p \in DOMAIN flight'[d][i].offsets
        PROVE  /\ committed'[p] <= flight'[d][i].offsets[p]
               /\ gen[d] = generation /\ p \in DOMAIN next[d] =>
                        flight'[d][i].offsets[p] <= next[d][p]
               /\ gen[d] = generation /\ p \in DOMAIN stored[d] =>
                        flight'[d][i].offsets[p] <= stored[d][p]
    <3>1. PICK j \in DOMAIN flight[d] : /\ flight'[d][i] = flight[d][j]
                                        /\ d = c => j > 1
      BY <1>4
    <3>2. Present(d, j) /\ p \in DOMAIN flight[d][j].offsets /\ p \in Partitions /\ Claims(d, p)
      BY <1>0, <2>3, <3>1, Numbers DEF Present, Claims
    <3>3. committed'[p] <= flight[d][j].offsets[p]
      <4>1. CASE committed'[p] = committed[p]
        BY <3>2, <4>1 DEF IInv, Ascending
      <4>2. CASE committed'[p] # committed[p]
        BY <1>2, <2>1, <3>1, <3>2, <4>2 DEF IInv, Ascending
      <4>. QED
        BY <4>1, <4>2
    <3>. QED
      BY <3>1, <3>2, <3>3 DEF IInv, Ascending
  <2>4. ASSUME NEW d \in Consumers, NEW i \in DOMAIN flight'[d], NEW j \in DOMAIN flight'[d],
               j > i, flight'[d][i].gen = generation, flight'[d][j].gen = generation,
               NEW p \in DOMAIN flight'[d][i].offsets, p \in DOMAIN flight'[d][j].offsets
        PROVE  flight'[d][i].offsets[p] <= flight'[d][j].offsets[p]
    <3>1. CASE d = c
      <4>1. i + 1 \in DOMAIN flight[c] /\ flight'[c][i] = flight[c][i + 1]
            /\ j + 1 \in DOMAIN flight[c] /\ flight'[c][j] = flight[c][j + 1] /\ j + 1 > i + 1
        BY <1>3, <2>4, <3>1
      <4>. QED
        BY <2>4, <3>1, <4>1 DEF IInv, Ascending, Present
    <3>2. CASE d # c
      BY <1>2, <2>4, <3>2 DEF IInv, Ascending, Present
    <3>. QED
      BY <3>1, <3>2
  <2>. QED
    BY <1>1, <2>2, <2>3, <2>4 DEF IInv, Ascending, Present
<1>. QED
  BY <1>5, <1>6, <1>7, <1>8, <1>9 DEF IInv

\* The partitions are given out anew, from the committed offsets on; whatever
\* is still on its way is of an earlier generation.
LEMMA RebalanceIInv ==
    ASSUME IInv, Rebalance
    PROVE  IInv'
<1>0. Types /\ Generations
  BY DEF IInv
<1> DEFINE polling == {c \in Consumers : pc[c] = "poll"}
<1>1. PICK owner \in [Partitions -> polling] :
        next' = [c \in Consumers |->
            IF c \in polling
            THEN [p \in {q \in Partitions : owner[q] = c} |-> committed[p]]
            ELSE next[c]]
  BY DEF Rebalance, StartFrom
<1>2. /\ members' = polling /\ generation' = generation + 1
      /\ gen' = [c \in Consumers |-> IF c \in polling THEN generation + 1 ELSE gen[c]]
      /\ stored' = [c \in Consumers |-> IF c \in polling THEN None ELSE stored[c]]
      /\ UNCHANGED <<committed, log, pc, flight, polled>>
  BY DEF Rebalance
<1>3. ASSUME NEW c \in polling
      PROVE  /\ c \in Consumers /\ pc[c] = "poll"
             /\ next'[c] = [p \in {q \in Partitions : owner[q] = c} |-> committed[p]]
             /\ DOMAIN next'[c] = {q \in Partitions : owner[q] = c}
             /\ \A p \in DOMAIN next'[c] : p \in Partitions /\ next'[c][p] = committed[p]
             /\ stored'[c] = None /\ DOMAIN stored'[c] = {} /\ gen'[c] = generation'
  BY <1>1, <1>2, <1>3, NoneIs
<1>4. ASSUME NEW c \in Consumers, c \notin polling
      PROVE  /\ next'[c] = next[c] /\ stored'[c] = stored[c] /\ gen'[c] = gen[c]
             /\ gen'[c] # generation'
  <2>1. next'[c] = next[c] /\ stored'[c] = stored[c] /\ gen'[c] = gen[c]
    BY <1>1, <1>2, <1>4
  <2>2. gen[c] \in Nat /\ generation \in Nat /\ gen[c] <= generation
    BY <1>0 DEF Types, Generations
  <2>. QED
    BY <1>2, <2>1, <2>2
<1>5. ASSUME NEW c \in Consumers, NEW i \in DOMAIN flight[c]
      PROVE  flight[c][i].gen <= generation' /\ ~Present(c, i)'
  <2>1. flight[c][i].gen \in Nat /\ generation \in Nat /\ flight[c][i].gen <= generation
    BY <1>0, Numbers DEF Types, Generations
  <2>. QED
    BY <1>2, <2>1 DEF Present
<1>6. Types'
  <2>1. ASSUME NEW c \in Consumers
        PROVE  next'[c] \in Offsets /\ stored'[c] \in Offsets
    <3>1. CASE c \in polling
      <4>1. \A p \in Partitions : committed[p] \in 0 .. MaxOffset
        BY <1>0 DEF Types
      <4>2. DOMAIN next'[c] \subseteq Partitions /\ next'[c] \in [DOMAIN next'[c] -> 0 .. MaxOffset]
        BY <1>3, <3>1, <4>1
      <4>. QED
        BY <1>3, <3>1, <4>2, OffsetsAre, NoneIs
    <3>2. CASE c \notin polling
      BY <1>0, <1>4, <3>2 DEF Types
    <3>. QED
      BY <3>1, <3>2
  <2>2. next' = [c \in Consumers |-> next'[c]] /\ stored' = [c \in Consumers |-> stored'[c]]
    BY <1>1, <1>2
  <2>3. next' \in [Consumers -> Offsets] /\ stored' \in [Consumers -> Offsets]
    BY <2>1, <2>2
  <2>4. gen' \in [Consumers -> Nat] /\ generation' \in Nat /\ members' \subseteq Consumers
    BY <1>0, <1>2 DEF Types
  <2>. QED
    BY <1>0, <1>2, <2>3, <2>4 DEF Types
<1>7. Generations'
  <2>1. ASSUME NEW c \in Consumers
        PROVE  gen'[c] <= generation'
    BY <1>0, <1>2 DEF Types, Generations
  <2>2. ASSUME NEW c \in Consumers
        PROVE  DOMAIN stored'[c] \subseteq DOMAIN next'[c] /\ (pc'[c] = "off" => next'[c] = None)
    <3>1. CASE c \in polling
      BY <1>2, <1>3, <3>1
    <3>2. CASE c \notin polling
      BY <1>0, <1>2, <1>4, <3>2 DEF Generations
    <3>. QED
      BY <3>1, <3>2
  <2>. QED
    BY <1>2, <1>5, <2>1, <2>2 DEF Generations
<1>8. PolledBelow'
  <2>1. ASSUME NEW c \in Consumers
        PROVE  /\ \A p \in DOMAIN next'[c] : \A m \in 0 .. next'[c][p] - 1 : m \in polled[p]
               /\ \A p \in DOMAIN stored'[c] : \A m \in 0 .. stored'[c][p] - 1 : m \in polled[p]
    <3>1. CASE c \in polling
      BY <1>3, <3>1 DEF IInv, PolledBelow, Below
    <3>2. CASE c \notin polling
      BY <1>4, <3>2 DEF IInv, PolledBelow, Below
    <3>. QED
      BY <3>1, <3>2
  <2>. QED
    BY <1>2, <2>1 DEF IInv, PolledBelow, Below
<1>9. OneOwner'
  <2>1. ASSUME NEW c \in Consumers, NEW p \in Partitions, Claims(c, p)'
        PROVE  owner[p] = c
    <3>1. gen'[c] = generation' /\ p \in DOMAIN next'[c]
      BY <1>2, <1>5, <2>1 DEF Claims
    <3>2. c \in polling
      BY <1>4, <3>1
    <3>3. p \in {q \in Partitions : owner[q] = c}
      BY <1>3, <3>1, <3>2
    <3>. QED
      BY <3>3
  <2>. QED
    BY <2>1 DEF OneOwner
<1>10. Ascending'
  <2>1. ASSUME NEW c \in Consumers
        PROVE  /\ \A p \in DOMAIN stored'[c] : stored'[c][p] <= next'[c][p]
               /\ gen'[c] = generation' =>
                    /\ \A p \in DOMAIN next'[c] : committed[p] <= next'[c][p]
                    /\ \A p \in DOMAIN stored'[c] : committed[p] <= stored'[c][p]
    <3>1. CASE c \in polling
      <4>1. \A p \in Partitions : committed[p] <= committed[p]
        BY <1>0, KafkaAssumption DEF Types
      <4>. QED
        BY <1>3, <3>1, <4>1
    <3>2. CASE c \notin polling
      BY <1>4, <3>2 DEF IInv, Ascending
    <3>. QED
      BY <3>1, <3>2
  <2>. QED
    BY <1>2, <1>5, <2>1 DEF Ascending
<1>. QED
  BY <1>6, <1>7, <1>8, <1>9, <1>10 DEF IInv

-----------------------------------------------------------------------------
\* Every step keeps the invariant.
LEMMA StepIInv == IInv /\ [Next]_vars => IInv'
<1> SUFFICES ASSUME IInv, [Next]_vars PROVE IInv'
  OBVIOUS
<1>1. CASE UNCHANGED vars
  <2>1. Types'
    BY <1>1 DEF vars, brokerVars, IInv, Types
  <2>. QED
    BY <1>1, <2>1, QuietIInv DEF vars, brokerVars
<1>2. ASSUME NEW c \in Consumers, Start(c) \/ Program(c) \/ Stopped(c) \/ CommitArrives(c)
      PROVE  IInv'
  <2>1. CASE Start(c)
    BY <2>1, StartIInv
  <2>2. CASE PollMessage(c)
    BY <2>2, PollMessageIInv
  <2>3. CASE Commit(c)
    BY <2>3, CommitIInv
  <2>4. CASE Close(c) \/ Crash(c)
    BY <2>4, EndIInv
  <2>5. CASE CommitArrives(c)
    BY <2>5, CommitArrivesIInv
  <2>6. CASE Subscribe(c) \/ PollError(c) \/ KeyboardInterrupt(c) \/ Drop(c)
    BY <2>6, QuietStepsIInv
  <2>. QED
    BY <1>2, <2>1, <2>2, <2>3, <2>4, <2>5, <2>6 DEF Program, Stopped
<1>3. CASE \E p \in Partitions : Produce(p)
  BY <1>3, QuietStepsIInv
<1>4. CASE Rebalance
  BY <1>4, RebalanceIInv
<1>. QED
  BY <1>1, <1>2, <1>3, <1>4 DEF Next

\* The inductive invariant of the group of consumers (pyfka.py:27-49).
THEOREM Invariance == Spec => []IInv
  BY InitIInv, StepIInv, PTL DEF Spec

\* No message below the committed offset is skipped (pyfka.py:12 and 35-45).
THEOREM NothingSkipped == Spec => []AtLeastOnce
<1>1. IInv => AtLeastOnce
  BY DEF IInv, PolledBelow, Below, AtLeastOnce
<1>. QED
  BY <1>1, Invariance, PTL

\* The group's offset never goes back (pyfka.py:45).
THEOREM OffsetsGrow == Spec => CommittedOnlyGrows
<1>1. IInv /\ [Next]_vars => [\A p \in Partitions : committed'[p] >= committed[p]]_vars
  <2> SUFFICES ASSUME IInv, Next
               PROVE  \A p \in Partitions : committed'[p] >= committed[p]
    OBVIOUS
  <2>1. CASE UNCHANGED committed
    BY <2>1, KafkaAssumption DEF IInv, Types
  <2>2. CASE \E c \in Consumers : CommitArrives(c)
    BY <2>2, Answer
  <2>. QED
    BY <2>1, <2>2 DEF Next, Start, Program, Stopped, Subscribe, PollMessage, Commit, Close,
       PollError, KeyboardInterrupt, Crash, Drop, Produce, Rebalance, brokerVars
<1>. QED
  BY <1>1, Invariance, PTL DEF Spec, CommittedOnlyGrows
=============================================================================
