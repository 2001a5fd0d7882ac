--------------------------- MODULE KafkaConsumer ----------------------------
(***************************************************************************)
(* Several processes of kafka/pyfka.py, consumers of one group, and the    *)
(* broker as far as they rely on it: the log of every partition, the       *)
(* committed offsets, and the group, whose members share the partitions    *)
(* anew (a generation) whenever one comes, leaves or is lost.              *)
(*                                                                         *)
(* commit() is asynchronous: it hands the positions of all partitions to   *)
(* the client library and returns; the broker gets the request later, or   *)
(* never, and takes it from a member of the present generation only.       *)
(* A poll that returns None changes nothing and is no step here.           *)
(***************************************************************************)
EXTENDS Integers, Sequences, FiniteSets, Functions

CONSTANTS
    Consumers,      \* the processes
    Partitions,     \* of my-topic
    MaxOffset,      \* bound: messages produced to a partition
    MaxInFlight,    \* bound: commits of a process on their way
    MaxFailures     \* bound: errors, interrupts, crashes, late polls

ASSUME KafkaAssumption ==
    /\ MaxOffset \in Nat /\ MaxInFlight \in Nat /\ MaxFailures \in Nat

VARIABLES
    log,            \* partition -> messages produced
    committed,      \* partition -> the group's offset
    members, generation,
    pc,             \* consumer -> where it is
    gen,            \* consumer -> the generation of its assignment
    next,           \* consumer -> its partitions -> the offset it polls next
    stored,         \* consumer -> partitions polled from -> offset to commit
    flight,         \* consumer -> its commits on their way
    failures,
    polled          \* history: partition -> offsets that a poll returned

brokerVars == <<log, committed, members, generation>>
vars == <<brokerVars, pc, gen, next, stored, flight, failures, polled>>

Running(c) == pc[c] # "off"
None == [p \in {} |-> 0]     \* no partitions

Init ==
    /\ log = [p \in Partitions |-> 0]
    /\ committed = [p \in Partitions |-> 0]
    /\ members = {} /\ generation = 0
    /\ pc = [c \in Consumers |-> "off"]
    /\ gen = [c \in Consumers |-> 0]
    /\ next = [c \in Consumers |-> None]
    /\ stored = [c \in Consumers |-> None]
    /\ flight = [c \in Consumers |-> <<>>]
    /\ failures = 0
    /\ polled = [p \in Partitions |-> {}]

-----------------------------------------------------------------------------
(***************************************************************************)
(* Pieces of the program, with faulty variants that no specification uses  *)
(* and that a property below finds.                                        *)
(***************************************************************************)

\* Where a consumer starts in a partition it is given: the group's offset,
\* 'earliest' when there is none (then committed is 0).  'latest' in its
\* place; the beginning, whatever is committed.
Latest(p) == IF committed[p] = 0 THEN log[p] ELSE committed[p]
Beginning(p) == 0
StartFrom(p) == committed[p]

\* The offset stored with a message, and committed: the one after it; the
\* one after the next, which may have been fetched as well.
AfterTheNext(o) == o + 2
AfterMessage(o) == o + 1

-----------------------------------------------------------------------------
(***************************************************************************)
(* The program.                                                            *)
(***************************************************************************)
\* The process is started, by hand; a new one is in no group.
Start(c) ==
    /\ pc[c] = "off"
    /\ pc' = [pc EXCEPT ![c] = "subscribe"]
    /\ gen' = [gen EXCEPT ![c] = 0]
    /\ UNCHANGED <<brokerVars, next, stored, flight, failures, polled>>

Subscribe(c) ==
    /\ pc[c] = "subscribe"
    /\ pc' = [pc EXCEPT ![c] = "poll"]
    /\ UNCHANGED <<brokerVars, gen, next, stored, flight, failures, polled>>

PollMessage(c) ==
    /\ pc[c] = "poll"
    /\ \E p \in DOMAIN next[c] :
         /\ next[c][p] < log[p]
         /\ polled' = [polled EXCEPT ![p] = @ \cup {next[c][p]}]
         /\ next' = [next EXCEPT ![c][p] = @ + 1]
         /\ stored' = [stored EXCEPT ![c] =
                [q \in {p} \cup DOMAIN @ |->
                    IF q = p THEN AfterMessage(next[c][p]) ELSE @[q]]]
    /\ pc' = [pc EXCEPT ![c] = "commit"]
    /\ UNCHANGED <<brokerVars, gen, flight, failures>>

\* An error: cnt is a local variable without a value, and the exception that
\* cnt += 1 raises ends the loop.  (The end of a partition is reported only
\* with enable.partition.eof.)  Or Ctrl+C.
PollError(c) ==
    /\ pc[c] = "poll"
    /\ failures < MaxFailures /\ failures' = failures + 1
    /\ pc' = [pc EXCEPT ![c] = "close"]
    /\ UNCHANGED <<brokerVars, gen, next, stored, flight, polled>>

KeyboardInterrupt(c) ==
    /\ pc[c] = "commit"
    /\ failures < MaxFailures /\ failures' = failures + 1
    /\ pc' = [pc EXCEPT ![c] = "close"]
    /\ UNCHANGED <<brokerVars, gen, next, stored, flight, polled>>

Commit(c) ==
    /\ pc[c] = "commit"
    /\ Len(flight[c]) < MaxInFlight
    /\ flight' = [flight EXCEPT ![c] =
            Append(@, [gen |-> gen[c], offsets |-> stored[c]])]
    /\ pc' = [pc EXCEPT ![c] = "poll"]
    /\ UNCHANGED <<brokerVars, gen, next, stored, failures, polled>>

\* consumer.close(): leaves the group, commits nothing.
Close(c) ==
    /\ pc[c] = "close"
    /\ members' = members \ {c}
    /\ pc' = [pc EXCEPT ![c] = "off"]
    /\ next' = [next EXCEPT ![c] = None]
    /\ stored' = [stored EXCEPT ![c] = None]
    /\ UNCHANGED <<log, committed, generation, gen, flight, failures, polled>>

-----------------------------------------------------------------------------
(***************************************************************************)
(* What happens to the program.                                            *)
(***************************************************************************)
Crash(c) ==
    /\ Running(c)
    /\ failures < MaxFailures /\ failures' = failures + 1
    /\ pc' = [pc EXCEPT ![c] = "off"]
    /\ next' = [next EXCEPT ![c] = None]
    /\ stored' = [stored EXCEPT ![c] = None]
    /\ UNCHANGED <<brokerVars, gen, flight, polled>>

\* The next poll comes too late: the broker drops the member.
Drop(c) ==
    /\ pc[c] = "commit" /\ c \in members
    /\ failures < MaxFailures /\ failures' = failures + 1
    /\ members' = members \ {c}
    /\ UNCHANGED <<log, committed, generation, pc, gen, next, stored, flight, polled>>

Produce(p) ==
    /\ log[p] < MaxOffset
    /\ log' = [log EXCEPT ![p] = @ + 1]
    /\ UNCHANGED <<committed, members, generation, pc, gen, next, stored, flight,
                   failures, polled>>

Joined(c) == c \in members /\ Running(c) /\ gen[c] = generation

\* Somebody has come or died, or a partition's owner has left or been dropped.
\* (That one who owned nothing has left need not be told.)
Owned(p) == \E c \in members : Joined(c) /\ p \in DOMAIN next[c]
Due(polling) ==
    (\E c \in members \cup polling : ~Joined(c)) \/ \E p \in Partitions : ~Owned(p)

\* Then, once the members that are left wait in poll, the partitions are given
\* out anew.
Rebalance ==
    LET polling == {c \in Consumers : pc[c] = "poll"} IN
    /\ polling # {}
    /\ Due(polling)
    /\ \A c \in members : Joined(c) => c \in polling
    /\ members' = polling
    /\ generation' = generation + 1
    /\ \E owner \in [Partitions -> polling] :
         next' = [c \in Consumers |->
            IF c \in polling
            THEN [p \in {q \in Partitions : owner[q] = c} |-> StartFrom(p)]
            ELSE next[c]]
    /\ gen' = [c \in Consumers |-> IF c \in polling THEN generation' ELSE gen[c]]
    /\ stored' = [c \in Consumers |-> IF c \in polling THEN None ELSE stored[c]]
    /\ UNCHANGED <<log, committed, pc, flight, failures, polled>>

Accepted(c, r) == c \in members /\ r.gen = generation

\* The first commit on its way arrives, or does not.
CommitArrives(c) ==
    /\ flight[c] # <<>>
    /\ LET r == Head(flight[c]) IN
         \/ /\ Accepted(c, r)
            /\ committed' = [p \in Partitions |->
                    IF p \in DOMAIN r.offsets THEN r.offsets[p] ELSE committed[p]]
         \/ UNCHANGED committed
    /\ flight' = [flight EXCEPT ![c] = Tail(@)]
    /\ UNCHANGED <<log, members, generation, pc, gen, next, stored, failures, polled>>

-----------------------------------------------------------------------------
\* consume_messages, from the subscription to the close.
Program(c) == Subscribe(c) \/ PollMessage(c) \/ Commit(c) \/ Close(c)
Stopped(c) == PollError(c) \/ KeyboardInterrupt(c) \/ Crash(c) \/ Drop(c)

Next ==
    \/ \E c \in Consumers :
         Start(c) \/ Program(c) \/ Stopped(c) \/ CommitArrives(c)
    \/ \E p \in Partitions : Produce(p)
    \/ Rebalance

Spec == Init /\ [][Next]_vars

\* The processes run, the library sends what it has been given, and the
\* broker gives out the partitions.  Nobody has to start a process.
Fairness ==
    /\ \A c \in Consumers : WF_vars(Program(c)) /\ WF_vars(CommitArrives(c))
    /\ WF_vars(Rebalance)

FairSpec == Spec /\ Fairness
-----------------------------------------------------------------------------
(***************************************************************************)
(* Properties.                                                             *)
(***************************************************************************)
\* At least once: whatever crashes, is lost, late or handed to another
\* process, every message below the committed offset was returned by a poll
\* (pyfka.py:12 and 35-45).
AtLeastOnce ==
    \A p \in Partitions : \A o \in 0 .. committed[p] - 1 : o \in polled[p]

\* The offset of the group never goes back, although commits of a process
\* that has lost its partitions may still be on their way (pyfka.py:45).
CommittedOnlyGrows ==
    [][\A p \in Partitions : committed'[p] >= committed[p]]_vars

\* Every message is polled, unless all processes have ended: the first error
\* ends a process (pyfka.py:42), and its partitions go to the others.
EveryMessagePolled ==
    \A p \in Partitions : \A o \in 0 .. MaxOffset - 1 :
        o < log[p] ~> o \in polled[p] \/ \A c \in Consumers : pc[c] = "off"

\* The two are inductive together with what follows.  Everything that may
\* become the committed offset has been polled up to it.
Offsets == UNION {[S -> 0 .. MaxOffset] : S \in SUBSET Partitions}
Requests == [gen : Nat, offsets : Offsets]

Types ==
    /\ log \in [Partitions -> 0 .. MaxOffset]
    /\ committed \in [Partitions -> 0 .. MaxOffset]
    /\ polled \in [Partitions -> SUBSET Nat]
    /\ members \subseteq Consumers /\ generation \in Nat
    /\ pc \in [Consumers -> {"off", "subscribe", "poll", "commit", "close"}]
    /\ gen \in [Consumers -> Nat]
    /\ next \in [Consumers -> Offsets] /\ stored \in [Consumers -> Offsets]
    /\ flight \in [Consumers -> Seq(Requests)]

Generations ==
    \A c \in Consumers :
        /\ gen[c] <= generation
        /\ \A i \in DOMAIN flight[c] : flight[c][i].gen <= generation
        /\ DOMAIN stored[c] \subseteq DOMAIN next[c]
        /\ pc[c] = "off" => next[c] = None

Below(p, o) == \A m \in 0 .. o - 1 : m \in polled[p]
PolledBelow ==
    /\ \A p \in Partitions : Below(p, committed[p])
    /\ \A c \in Consumers :
         /\ \A p \in DOMAIN next[c] : Below(p, next[c][p])
         /\ \A p \in DOMAIN stored[c] : Below(p, stored[c][p])
         /\ \A i \in DOMAIN flight[c] : \A p \in DOMAIN flight[c][i].offsets :
                Below(p, flight[c][i].offsets[p])

\* In a generation a partition has one consumer at most that polls from it or
\* has a commit for it on its way.
Present(c, i) == flight[c][i].gen = generation
Claims(c, p) ==
    \/ gen[c] = generation /\ p \in DOMAIN next[c]
    \/ \E i \in DOMAIN flight[c] : Present(c, i) /\ p \in DOMAIN flight[c][i].offsets
OneOwner ==
    \A c, d \in Consumers : \A p \in Partitions : Claims(c, p) /\ Claims(d, p) => c = d

\* The offsets of the present generation go up from the committed one to the
\* commits on their way, first to last, to the stored one and the next.
Ascending ==
    \A c \in Consumers :
        /\ \A p \in DOMAIN stored[c] : stored[c][p] <= next[c][p]
        /\ gen[c] = generation =>
             /\ \A p \in DOMAIN next[c] : committed[p] <= next[c][p]
             /\ \A p \in DOMAIN stored[c] : committed[p] <= stored[c][p]
        /\ \A i \in DOMAIN flight[c] : Present(c, i) =>
             \A p \in DOMAIN flight[c][i].offsets :
                /\ committed[p] <= flight[c][i].offsets[p]
                /\ \A j \in DOMAIN flight[c] :
                     j > i /\ Present(c, j) /\ p \in DOMAIN flight[c][j].offsets =>
                        flight[c][i].offsets[p] <= flight[c][j].offsets[p]
                /\ gen[c] = generation /\ p \in DOMAIN next[c] =>
                        flight[c][i].offsets[p] <= next[c][p]
                /\ gen[c] = generation /\ p \in DOMAIN stored[c] =>
                        flight[c][i].offsets[p] <= stored[c][p]

IInv == Types /\ Generations /\ PolledBelow /\ OneOwner /\ Ascending
=============================================================================
