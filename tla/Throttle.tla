------------------------------ MODULE Throttle ------------------------------
(***************************************************************************)
(* One worker of the load generator (linux/nethogs/main.py) and its        *)
(* Throttle: the worker moves a chunk of bytes, and wait(n) sleeps for as  *)
(* long as the bytes moved so far are ahead of the rate, counted from the  *)
(* construction of the throttle.                                           *)
(*                                                                         *)
(* Time is discrete: SECOND ticks are one second.  At "transfer" the       *)
(* worker is in resp.read, conn.send, sock.sendall or sock.recv, however   *)
(* long that takes; at "wait" the chunk has been moved and wait is called; *)
(* at "sleep" it is in time.sleep, which may return late; at "broken" a    *)
(* call has raised, with a part of the chunk moved that wait is never told *)
(* of, and the worker pauses for a second before it tries again.           *)
(***************************************************************************)
EXTENDS Integers, Functions

CONSTANTS
    Rates,          \* bytes per second that users choose; 0 is no limit
    CHUNK,          \* most bytes that are moved at once
    SECOND,         \* ticks of a second
    LinkSpeed,      \* most bytes that the network moves in a tick
    MaxTime         \* bound: ticks of one behaviour

ASSUME ThrottleAssumption ==
    /\ Rates \subseteq Nat
    /\ CHUNK \in Nat \ {0}
    /\ SECOND \in Nat \ {0}
    /\ LinkSpeed \in Nat
    /\ MaxTime \in Nat

VARIABLES
    bps, total,     \* self.bps and self.total
    now,            \* the clock, self.start being 0
    pc, n,          \* where the worker is, and the bytes of its chunk
    wake,           \* when time.sleep, or the pause, may return; else 0
    sent,           \* history: bytes moved by the calls that returned
    lost,           \* history: bytes moved by the calls that raised
    moved           \* history: bytes moved in each of the last SECOND ticks

vars == <<bps, total, now, pc, n, wake, sent, lost, moved>>

Init ==
    /\ bps \in Rates /\ total = 0
    /\ now = 0
    /\ pc = "transfer" /\ n = 0
    /\ wake = 0 /\ sent = 0 /\ lost = 0
    /\ moved = [t \in 1 .. SECOND |-> 0]

(***************************************************************************)
(* The pieces of wait, with faulty variants that no specification uses and *)
(* that a property below finds.                                            *)
(***************************************************************************)

\* time.monotonic() - self.start; the start forgotten.
NoTimePassed == 0
Elapsed == now

\* The bytes counted; those of the last chunk only.
LastChunkOnly == n
NewTotal == total + n

\* total / bps seconds are more than have passed.
Ahead == NewTotal * SECOND > bps * Elapsed

\* The first tick by which total / bps seconds have passed.
CaughtUp == (NewTotal * SECOND + bps - 1) \div bps

-----------------------------------------------------------------------------
Transfer(k) ==
    /\ pc = "transfer"
    /\ moved[SECOND] + k <= LinkSpeed
    /\ n' = k
    /\ sent' = sent + k
    /\ moved' = [moved EXCEPT ![SECOND] = @ + k]
    /\ pc' = "wait"
    /\ UNCHANGED <<bps, total, now, wake, lost>>

\* bps = 0: wait returns at once.
WaitUnlimited ==
    /\ pc = "wait"
    /\ bps = 0
    /\ pc' = "transfer"
    /\ UNCHANGED <<bps, total, now, n, wake, sent, lost, moved>>

WaitNot ==
    /\ pc = "wait"
    /\ bps # 0 /\ ~Ahead
    /\ total' = NewTotal
    /\ pc' = "transfer"
    /\ UNCHANGED <<bps, now, n, wake, sent, lost, moved>>

WaitSleep ==
    /\ pc = "wait"
    /\ bps # 0 /\ Ahead
    /\ total' = NewTotal
    /\ wake' = now + CaughtUp - Elapsed
    /\ pc' = "sleep"
    /\ UNCHANGED <<bps, now, n, sent, lost, moved>>

Wake ==
    /\ pc = "sleep"
    /\ now >= wake
    /\ pc' = "transfer"
    /\ wake' = 0
    /\ UNCHANGED <<bps, total, now, n, sent, lost, moved>>

\* The call raises when it has moved k bytes, fewer than the chunk, and the
\* worker pauses.
Broken(k) ==
    /\ pc = "transfer"
    /\ moved[SECOND] + k <= LinkSpeed
    /\ lost' = lost + k
    /\ moved' = [moved EXCEPT ![SECOND] = @ + k]
    /\ wake' = now + SECOND
    /\ pc' = "broken"
    /\ UNCHANGED <<bps, total, now, n, sent>>

Retry ==
    /\ pc = "broken"
    /\ now >= wake
    /\ pc' = "transfer"
    /\ wake' = 0
    /\ UNCHANGED <<bps, total, now, n, sent, lost, moved>>

Tick ==
    /\ now < MaxTime
    /\ now' = now + 1
    /\ moved' = [t \in 1 .. SECOND |-> IF t = SECOND THEN 0 ELSE moved[t + 1]]
    /\ UNCHANGED <<bps, total, pc, n, wake, sent, lost>>

Next ==
    \/ \E k \in 1 .. CHUNK : Transfer(k)
    \/ WaitUnlimited \/ WaitNot \/ WaitSleep
    \/ Wake
    \/ \E k \in 0 .. CHUNK - 1 : Broken(k)
    \/ Retry
    \/ Tick

Spec == Init /\ [][Next]_vars
-----------------------------------------------------------------------------
(***************************************************************************)
(* Properties.                                                             *)
(***************************************************************************)
\* Types (main.py:48-51); without a limit nothing is counted.
TypeOK ==
    /\ bps \in Rates
    /\ total \in Nat
    /\ bps = 0 => total = 0
    /\ now \in 0 .. MaxTime
    /\ pc \in {"transfer", "wait", "sleep", "broken"}
    /\ n \in 0 .. CHUNK
    /\ wake \in Nat
    /\ sent \in Nat /\ lost \in Nat
    /\ moved \in [1 .. SECOND -> Nat]

\* Since the throttle was made, the calls that returned have moved no more
\* than bps bytes per second, and one chunk (main.py:53-59: the chunk is moved
\* before wait is called); late wake-ups and slow transfers do not change that.
\* Of what a call moved that raised, wait is not told (main.py:72-76, 95-97): it
\* comes on top, whatever bps is, but is less than a chunk for every second that
\* has begun, which the pause sees to (main.py:80 and 104).
MeanRateBounded ==
    /\ bps # 0 => sent * SECOND <= bps * now + CHUNK * SECOND
    /\ lost * SECOND <= (CHUNK - 1) * (now + SECOND)

\* A sleep is never longer than the time of one chunk, rounded up to a tick:
\* before the chunk the worker was not ahead.  So no worker looks at stop much
\* later than that (main.py:57-59).
SleepBounded ==
    pc = "sleep" => (wake - now - 1) * bps < CHUNK * SECOND

\* A worker that is at a transfer, or whose transfer broke, is within its rate:
\* the sleep was long enough (main.py:57-59).
WithinRate ==
    pc \in {"transfer", "broken"} /\ bps # 0 => sent * SECOND <= bps * now

\* The three together are inductive, with what is counted and what a sleep is
\* set to.
Counted == bps # 0 => sent = total + (IF pc = "wait" THEN n ELSE 0)
SleepIsEnough == pc = "sleep" => bps # 0 /\ total * SECOND <= bps * wake
WaitFromRate == pc = "wait" => total * SECOND <= bps * now
LostSoFar ==
    IF pc = "broken"
    THEN lost * SECOND <= (CHUNK - 1) * wake /\ wake <= now + SECOND
    ELSE lost * SECOND <= (CHUNK - 1) * now
IInv ==
    /\ TypeOK /\ MeanRateBounded /\ SleepBounded /\ WithinRate
    /\ Counted /\ SleepIsEnough /\ WaitFromRate /\ LostSoFar

\* What the class promises (main.py:46): no more than bps bytes in a second,
\* allowing for the chunk that is moved before the sleep.  It does not hold:
\* after a transfer that took long, the worker may catch up at full speed.
SecondBounded ==
    bps # 0 => SumFunction(moved) <= bps + CHUNK
=============================================================================
