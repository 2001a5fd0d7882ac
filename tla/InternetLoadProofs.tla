------------------------- MODULE InternetLoadProofs -------------------------
(***************************************************************************)
(* The internet workers for every rate, body, chunk and clock.             *)
(*                                                                         *)
(* First the throttle by itself: IInv is inductive; the steps that matter  *)
(* are WaitNot and WaitSleep, where wait decides (main.py:53-59), Wake,    *)
(* which needs that the sleep was set far enough, and Broken, which needs  *)
(* that the last pause is over.  Then the worker:                          *)
(* LoopInv is inductive, and with it every step of a worker is one of its  *)
(* throttle or leaves it alone.  So what is shown of a throttle holds of a *)
(* worker whose requests fail, end early and are made anew.                *)
(***************************************************************************)
EXTENDS InternetLoad, TLAPS

\* Multiplication keeps the order.
LEMMA TimesMonotone ==
    ASSUME NEW a \in Nat, NEW b \in Int, NEW c \in Int, b <= c
    PROVE  a * b <= a * c /\ a * b \in Int /\ a * c \in Int
  OBVIOUS

LEMMA TimesSum ==
    ASSUME NEW a \in Int, NEW b \in Int, NEW c \in Int
    PROVE  (b + c) * a = b * a + c * a /\ a * (b + c) = a * b + a * c
  OBVIOUS

\* The first multiple of a rate that is not below t.
LEMMA RoundUp ==
    ASSUME NEW t \in Nat, NEW b \in Nat \ {0}
    PROVE  LET w == (t + b - 1) \div b
           IN  w \in Nat /\ t <= b * w /\ b * w <= t + b - 1
  OBVIOUS

\* The throttle starts with nothing moved.
LEMMA InitIInv == Init => IInv
<1> SUFFICES ASSUME Init PROVE IInv
  OBVIOUS
<1> USE ThrottleAssumption
<1>1. TypeOK
  BY DEF Init, TypeOK
<1>2. /\ 0 * SECOND = 0 /\ bps * now = 0 /\ CHUNK * SECOND \in Nat
      /\ (CHUNK - 1) * 0 = 0 /\ (CHUNK - 1) * (0 + SECOND) \in Nat
  BY DEF Init
<1>3. MeanRateBounded /\ SleepBounded /\ WithinRate /\ Counted /\ SleepIsEnough
      /\ WaitFromRate /\ LostSoFar
  BY <1>2 DEF Init, MeanRateBounded, SleepBounded, WithinRate, Counted,
              SleepIsEnough, WaitFromRate, LostSoFar
<1>. QED
  BY <1>1, <1>3 DEF IInv

\* The products that the invariant compares are numbers.
LEMMA Products ==
    ASSUME TypeOK
    PROVE  /\ bps \in Nat /\ total \in Nat /\ now \in Nat /\ n \in Nat /\ wake \in Nat
           /\ sent \in Nat /\ CHUNK \in Nat /\ SECOND \in Nat /\ MaxTime \in Nat
           /\ total * SECOND \in Nat /\ sent * SECOND \in Nat /\ n * SECOND \in Nat
           /\ bps * now \in Nat /\ bps * wake \in Nat /\ CHUNK * SECOND \in Nat
  BY ThrottleAssumption DEF TypeOK

\* The same of what the broken calls moved.
LEMMA LostProducts ==
    ASSUME TypeOK
    PROVE  /\ CHUNK - 1 \in Nat /\ lost \in Nat /\ now \in Nat /\ wake \in Nat
           /\ SECOND \in Nat /\ lost * SECOND \in Nat
           /\ (CHUNK - 1) * now \in Nat /\ (CHUNK - 1) * SECOND \in Nat
           /\ (CHUNK - 1) * wake \in Nat /\ (CHUNK - 1) * (now + SECOND) \in Nat
           /\ (CHUNK - 1) * (now + SECOND) = (CHUNK - 1) * now + (CHUNK - 1) * SECOND
<1>1. CHUNK - 1 \in Nat /\ lost \in Nat /\ now \in Nat /\ wake \in Nat /\ SECOND \in Nat
  BY ThrottleAssumption DEF TypeOK
<1>2. (CHUNK - 1) * (now + SECOND) = (CHUNK - 1) * now + (CHUNK - 1) * SECOND
  BY <1>1, TimesSum
<1>3. \A a, b \in Nat : a * b \in Nat
  OBVIOUS
<1>. QED
  BY <1>1, <1>2, <1>3

\* Outside of a pause the calls that raised have had their second each.
LEMMA LostBound ==
    TypeOK /\ LostSoFar => lost * SECOND <= (CHUNK - 1) * (now + SECOND)
<1> SUFFICES ASSUME TypeOK, LostSoFar
             PROVE  lost * SECOND <= (CHUNK - 1) * (now + SECOND)
  OBVIOUS
<1>1. CASE pc = "broken"
  <2>1. (CHUNK - 1) * wake <= (CHUNK - 1) * (now + SECOND)
    BY <1>1, LostProducts, TimesMonotone DEF LostSoFar
  <2>. QED
    BY <1>1, <2>1, LostProducts DEF LostSoFar
<1>2. CASE pc # "broken"
  BY <1>2, LostProducts DEF LostSoFar
<1>. QED
  BY <1>1, <1>2

\* The same after a step.
LEMMA LostAfter ==
    (TypeOK /\ LostSoFar => lost * SECOND <= (CHUNK - 1) * (now + SECOND))'
  BY LostBound, PTL

\* Steps that break no call keep what is known of the broken ones.
LEMMA LostKept ==
    ASSUME IInv, pc # "broken", pc' # "broken", UNCHANGED <<lost, now>>
    PROVE  LostSoFar' /\ lost' * SECOND <= (CHUNK - 1) * (now' + SECOND)
  BY LostBound DEF IInv, LostSoFar

\* A chunk takes the worker ahead by at most CHUNK.
LEMMA TransferIInv ==
    ASSUME IInv, NEW k \in 1 .. CHUNK, Transfer(k)
    PROVE  IInv'
<1>0. TypeOK
  BY DEF IInv
<1>1. TypeOK'
  <2>1. moved[SECOND] \in Nat /\ moved' \in [1 .. SECOND -> Nat]
    BY <1>0, ThrottleAssumption DEF TypeOK, Transfer
  <2>. QED
    BY <1>0, <2>1, ThrottleAssumption DEF TypeOK, Transfer
<1>2. k * SECOND <= CHUNK * SECOND /\ k * SECOND \in Nat
  BY ThrottleAssumption
<1>3. sent' * SECOND = sent * SECOND + k * SECOND
  BY <1>0, Products, TimesSum DEF Transfer
<1>4. Counted' /\ SleepIsEnough' /\ SleepBounded' /\ WithinRate'
  BY <1>0, Products DEF IInv, Transfer, Counted, SleepIsEnough, SleepBounded, WithinRate
<1>5. MeanRateBounded'
  <2>1. bps' # 0 => sent' * SECOND <= bps' * now' + CHUNK * SECOND
    BY <1>0, <1>2, <1>3, Products DEF IInv, Transfer, WithinRate
  <2>. QED
    BY <2>1, LostKept DEF Transfer, MeanRateBounded
<1>6. WaitFromRate'
  <2>1. CASE bps = 0
    BY <1>0, <2>1, Products DEF Transfer, WaitFromRate, TypeOK
  <2>2. CASE bps # 0
    <3>1. sent = total
      BY <1>0, <2>2, Products DEF IInv, Counted, Transfer
    <3>. QED
      BY <2>2, <3>1 DEF IInv, Transfer, WithinRate, WaitFromRate
  <2>. QED
    BY <2>1, <2>2
<1>7. LostSoFar'
  BY LostKept DEF Transfer
<1>. QED
  BY <1>1, <1>4, <1>5, <1>6, <1>7 DEF IInv

\* Without a limit nothing is said.
LEMMA WaitUnlimitedIInv ==
    ASSUME IInv, WaitUnlimited
    PROVE  IInv'
  BY LostKept DEF IInv, WaitUnlimited, TypeOK, MeanRateBounded, SleepBounded, WithinRate,
         Counted, SleepIsEnough, WaitFromRate

\* What wait has counted is what was moved.
LEMMA CountedAll ==
    ASSUME IInv, pc = "wait", bps # 0
    PROVE  NewTotal = sent /\ NewTotal \in Nat
  BY Products DEF IInv, Counted, NewTotal

\* The worker is not ahead and goes on.
LEMMA WaitNotIInv ==
    ASSUME IInv, WaitNot
    PROVE  IInv'
<1>1. TypeOK'
  BY CountedAll DEF IInv, WaitNot, TypeOK
<1>2. sent' * SECOND <= bps' * now'
  BY CountedAll, Products DEF IInv, WaitNot, Ahead, Elapsed
<1>3. LostSoFar' /\ lost' * SECOND <= (CHUNK - 1) * (now' + SECOND)
  BY LostKept DEF WaitNot
<1>. QED
  BY <1>1, <1>2, <1>3, CountedAll DEF IInv, WaitNot, MeanRateBounded, SleepBounded,
         WithinRate, Counted, SleepIsEnough, WaitFromRate

\* The worker is ahead: the sleep ends when it no longer is, and no later than a
\* chunk takes.
LEMMA WaitSleepIInv ==
    ASSUME IInv, WaitSleep
    PROVE  IInv'
<1>0. TypeOK /\ pc = "wait" /\ bps \in Nat \ {0}
  BY Products DEF IInv, WaitSleep
<1>1. NewTotal = sent /\ NewTotal \in Nat /\ NewTotal * SECOND \in Nat
  BY <1>0, CountedAll, Products
<1>2. /\ CaughtUp \in Nat
      /\ NewTotal * SECOND <= bps * CaughtUp
      /\ bps * CaughtUp <= NewTotal * SECOND + bps - 1
  BY <1>0, <1>1, RoundUp DEF CaughtUp
<1>3. wake' = CaughtUp
  BY <1>0, <1>2, Products DEF WaitSleep, Elapsed
<1>4. TypeOK'
  BY <1>0, <1>1, <1>2, <1>3 DEF WaitSleep, TypeOK
<1>5. (wake' - now' - 1) * bps' < CHUNK * SECOND
  <2>1. NewTotal * SECOND <= bps * now + CHUNK * SECOND
    BY <1>0, <1>1 DEF IInv, MeanRateBounded
  <2>2. (CaughtUp - now - 1) * bps = bps * CaughtUp - bps * now - bps
    <3>1. /\ bps * CaughtUp = CaughtUp * bps
          /\ bps * now = now * bps
          /\ bps * CaughtUp \in Int /\ bps * now \in Int
      BY <1>0, <1>2, Products
    <3>2. (CaughtUp + (-now - 1)) * bps = CaughtUp * bps + (-now - 1) * bps
      BY <1>0, <1>2, Products, TimesSum
    <3>3. (-now - 1) * bps = -(now * bps) - bps
      BY <1>0, Products
    <3>. QED
      BY <1>0, <1>2, <3>1, <3>2, <3>3, Products
  <2>. QED
    <3>1. /\ bps * CaughtUp \in Int /\ bps * now \in Int /\ CHUNK * SECOND \in Int
          /\ bps \in Int
      BY <1>0, <1>2, Products
    <3>2. (CaughtUp - now - 1) * bps < CHUNK * SECOND
      <4> HIDE DEF CaughtUp
      <4>1. bps * CaughtUp - bps * now - bps < CHUNK * SECOND
        BY <1>1, <1>2, <2>1, <3>1
      <4>. QED
        BY <2>2, <4>1
    <3>. QED
      BY <1>3, <3>2 DEF WaitSleep
<1>6. MeanRateBounded' /\ WithinRate' /\ Counted' /\ WaitFromRate' /\ LostSoFar'
  <2>1. LostSoFar' /\ lost' * SECOND <= (CHUNK - 1) * (now' + SECOND)
    BY LostKept DEF WaitSleep
  <2>. QED
    BY <1>0, <1>1, <2>1 DEF IInv, WaitSleep, MeanRateBounded, WithinRate, Counted,
       WaitFromRate
<1>7. SleepIsEnough'
  BY <1>0, <1>2, <1>3 DEF WaitSleep, SleepIsEnough
<1>. QED
  BY <1>4, <1>5, <1>6, <1>7 DEF IInv, SleepBounded

\* However late time.sleep returns, it is not before wake.
LEMMA WakeIInv ==
    ASSUME IInv, Wake
    PROVE  IInv'
<1>0. TypeOK
  BY DEF IInv
<1>1. bps * wake <= bps * now
  BY <1>0, Products, TimesMonotone DEF Wake
<1>2. TypeOK'
  BY <1>0 DEF Wake, TypeOK
<1>3. sent = total /\ total * SECOND <= bps * wake
  BY <1>0, Products DEF IInv, Wake, Counted, SleepIsEnough
<1>4. WithinRate'
  BY <1>0, <1>1, <1>3, Products DEF Wake, WithinRate
<1>5. MeanRateBounded' /\ SleepBounded' /\ Counted' /\ SleepIsEnough' /\ WaitFromRate'
      /\ LostSoFar'
  BY LostKept DEF IInv, Wake, MeanRateBounded, SleepBounded, Counted, SleepIsEnough,
     WaitFromRate
<1>. QED
  BY <1>2, <1>4, <1>5 DEF IInv

\* A call that raises has moved less than a chunk; the one before it has paid for
\* its part with a pause.
LEMMA BrokenIInv ==
    ASSUME IInv, NEW k \in 0 .. CHUNK - 1, Broken(k)
    PROVE  IInv'
<1>0. TypeOK
  BY DEF IInv
<1>1. k \in Nat /\ k <= CHUNK - 1
  BY ThrottleAssumption
<1>2. TypeOK'
  <2>1. moved[SECOND] \in Nat /\ moved' \in [1 .. SECOND -> Nat]
    BY <1>0, <1>1, ThrottleAssumption DEF TypeOK, Broken
  <2>. QED
    BY <1>0, <1>1, <2>1, ThrottleAssumption DEF TypeOK, Broken
<1>3. LostSoFar'
  <2>1. lost * SECOND <= (CHUNK - 1) * now
    BY DEF IInv, LostSoFar, Broken
  <2>2. (lost + k) * SECOND = lost * SECOND + k * SECOND
    BY <1>0, <1>1, LostProducts, TimesSum
  <2>3. k * SECOND <= (CHUNK - 1) * SECOND /\ k * SECOND \in Int
    <3>1. SECOND * k <= SECOND * (CHUNK - 1) /\ SECOND * k \in Int
      BY <1>0, <1>1, LostProducts, TimesMonotone
    <3>2. SECOND * k = k * SECOND /\ SECOND * (CHUNK - 1) = (CHUNK - 1) * SECOND
      BY <1>0, <1>1, LostProducts
    <3>. QED
      BY <3>1, <3>2
  <2>4. (lost + k) * SECOND <= (CHUNK - 1) * (now + SECOND)
    BY <1>0, <2>1, <2>2, <2>3, LostProducts
  <2>. QED
    BY <1>0, <2>4, LostProducts DEF Broken, LostSoFar
<1>4. MeanRateBounded'
  <2>1. bps' # 0 => sent' * SECOND <= bps' * now' + CHUNK * SECOND
    BY DEF IInv, Broken, MeanRateBounded
  <2>. QED
    BY <1>2, <1>3, <2>1, LostAfter DEF MeanRateBounded
<1>5. SleepBounded' /\ WithinRate' /\ Counted' /\ SleepIsEnough' /\ WaitFromRate'
  BY DEF IInv, Broken, SleepBounded, WithinRate, Counted, SleepIsEnough, WaitFromRate
<1>. QED
  BY <1>2, <1>3, <1>4, <1>5 DEF IInv

\* After the pause.
LEMMA RetryIInv ==
    ASSUME IInv, Retry
    PROVE  IInv'
<1>0. TypeOK
  BY DEF IInv
<1>1. TypeOK'
  BY <1>0 DEF Retry, TypeOK
<1>2. LostSoFar'
  <2>1. (CHUNK - 1) * wake <= (CHUNK - 1) * now
    BY <1>0, LostProducts, TimesMonotone DEF Retry
  <2>. QED
    BY <1>0, <2>1, LostProducts DEF IInv, Retry, LostSoFar
<1>3. MeanRateBounded' /\ SleepBounded' /\ WithinRate' /\ Counted' /\ SleepIsEnough'
      /\ WaitFromRate'
  BY DEF IInv, Retry, MeanRateBounded, SleepBounded, WithinRate, Counted, SleepIsEnough,
     WaitFromRate
<1>. QED
  BY <1>1, <1>2, <1>3 DEF IInv

\* Time only gives the worker room.
LEMMA TickIInv ==
    ASSUME IInv, Tick
    PROVE  IInv'
<1>0. TypeOK
  BY DEF IInv
<1>1. TypeOK'
  <2>1. moved' \in [1 .. SECOND -> Nat]
    BY <1>0, ThrottleAssumption DEF TypeOK, Tick
  <2>. QED
    BY <1>0, <2>1, ThrottleAssumption DEF TypeOK, Tick
<1>2. bps * now <= bps * now' /\ bps * now' \in Nat /\ now' \in Nat
  <2>1. now' = now + 1 /\ now' \in Nat /\ bps \in Nat /\ now \in Nat
    <3>1. now' = now + 1
      BY DEF Tick
    <3>2. bps \in Nat /\ now \in Nat
      BY <1>0, Products
    <3>. QED
      BY <3>1, <3>2
  <2>2. bps * (now + 1) = bps * now + bps * 1 /\ bps * 1 = bps
    BY <2>1, TimesSum
  <2>. QED
    BY <1>0, <2>1, <2>2, Products
<1>3. WithinRate' /\ WaitFromRate' /\ (bps' # 0 => sent' * SECOND <= bps' * now' + CHUNK * SECOND)
  <2>1. sent' = sent /\ total' = total /\ bps' = bps /\ pc' = pc
    BY DEF Tick
  <2> DEFINE B == bps * now
             C == bps * now'
             S == sent * SECOND
             T == total * SECOND
             K == CHUNK * SECOND
  <2>2. B \in Nat /\ C \in Nat /\ S \in Nat /\ T \in Nat /\ K \in Nat /\ B <= C
    BY <1>0, <1>2, Products
  <2>3. /\ bps # 0 => S <= B + K
        /\ pc \in {"transfer", "broken"} /\ bps # 0 => S <= B
        /\ pc = "wait" => T <= B
    BY DEF IInv, MeanRateBounded, WithinRate, WaitFromRate
  <2> HIDE DEF B, C, S, T, K
  <2>4. /\ bps # 0 => S <= C + K
        /\ pc \in {"transfer", "broken"} /\ bps # 0 => S <= C
        /\ pc = "wait" => T <= C
    BY <2>2, <2>3
  <2>. QED
    BY <2>1, <2>4 DEF B, C, S, T, K, WithinRate, WaitFromRate
<1>4. SleepBounded'
  <2>1. (wake - now' - 1) * bps <= (wake - now - 1) * bps
    <3>1. /\ bps * (wake - now' - 1) <= bps * (wake - now - 1)
          /\ bps * (wake - now' - 1) \in Int /\ bps * (wake - now - 1) \in Int
      <4>1. /\ bps \in Nat /\ wake - now' - 1 \in Int /\ wake - now - 1 \in Int
            /\ wake - now' - 1 <= wake - now - 1
        <5>1. now' = now + 1
          BY DEF Tick
        <5>2. bps \in Nat /\ now \in Nat /\ wake \in Nat
          BY <1>0, Products
        <5>. QED
          BY <5>1, <5>2
      <4>. QED
        BY <4>1, TimesMonotone
    <3>2. \A x \in Int : bps * x = x * bps
      BY <1>0, Products
    <3>. QED
      BY <1>0, <1>2, <3>1, <3>2, Products
  <2>2. (wake - now - 1) * bps \in Int /\ (wake - now' - 1) * bps \in Int
    BY <1>0, <1>2, Products
  <2>. QED
    BY <1>0, <2>1, <2>2, Products DEF IInv, Tick, SleepBounded
<1>5. Counted' /\ SleepIsEnough'
  BY DEF IInv, Tick, Counted, SleepIsEnough
<1>6. LostSoFar'
  <2>1. now' = now + 1 /\ lost' = lost /\ pc' = pc /\ wake' = wake
    BY DEF Tick
  <2>2. (CHUNK - 1) * now <= (CHUNK - 1) * (now + 1) /\ (CHUNK - 1) * (now + 1) \in Int
    BY <1>0, LostProducts, TimesMonotone
  <2>. QED
    BY <1>0, <2>1, <2>2, LostProducts DEF IInv, LostSoFar
<1>7. MeanRateBounded'
  BY <1>1, <1>3, <1>6, LostAfter DEF MeanRateBounded
<1>. QED
  BY <1>1, <1>3, <1>4, <1>5, <1>6, <1>7 DEF IInv

\* Every step keeps the invariant.
LEMMA StepIInv == IInv /\ [Next]_vars => IInv'
<1> SUFFICES ASSUME IInv, [Next]_vars PROVE IInv'
  OBVIOUS
<1>1. CASE UNCHANGED vars
  BY <1>1 DEF vars, IInv, TypeOK, MeanRateBounded, SleepBounded, WithinRate,
              Counted, SleepIsEnough, WaitFromRate, LostSoFar
<1>2. CASE Next
  BY <1>2, TransferIInv, WaitUnlimitedIInv, WaitNotIInv, WaitSleepIInv, WakeIInv,
     BrokenIInv, RetryIInv, TickIInv DEF Next
<1>. QED
  BY <1>1, <1>2

\* The inductive invariant of the throttle (main.py:45-59).
THEOREM Invariance == Spec => []IInv
  BY InitIInv, StepIInv, PTL DEF Spec

\* Whatever the network and the scheduler do, the calls that returned have never
\* moved more than the rate allows since the start, and one chunk; those that
\* raised less than a chunk per second begun (main.py:53-59, 80 and 104).
THEOREM MeanRate == Spec => []MeanRateBounded
<1>1. IInv => MeanRateBounded
  BY DEF IInv
<1>. QED
  BY <1>1, Invariance, PTL

\* A sleep never lasts longer than a chunk takes at the rate (main.py:57-59).
THEOREM SleepIsShort == Spec => []SleepBounded
<1>1. IInv => SleepBounded
  BY DEF IInv
<1>. QED
  BY <1>1, Invariance, PTL

-----------------------------------------------------------------------------
(***************************************************************************)
(* The worker's loop around the throttle.                                  *)
(***************************************************************************)
\* The program starts with nothing sent and stop not set.
LEMMA InitLoopInv == WorkerInit => LoopInv
<1> SUFFICES ASSUME WorkerInit PROVE LoopInv
  OBVIOUS
<1>1. LoopTypes
  <2>1. stop \in BOOLEAN
    BY DEF WorkerInit
  <2>2. n \in Nat /\ left \in 0 .. BODY /\ body \in 0 .. BODY /\ late \in Nat
    BY InternetAssumption DEF WorkerInit, Init
  <2>3. mode \in Modes /\ stage = "check"
    BY DEF WorkerInit
  <2>. QED
    BY <2>1, <2>2, <2>3 DEF LoopTypes
<1>2. WholeSoFar /\ LateSoFar /\ StopIsPrompt
  BY DEF WorkerInit, WholeSoFar, LateSoFar, StopIsPrompt
<1>. QED
  BY <1>1, <1>2 DEF LoopInv

\* The pieces of an upload: at least a byte, and no more than is left.
LEMMA PieceIsPart ==
    ASSUME LoopInv, stage = "chunk", mode = "upload"
    PROVE  Piece \in 1 .. CHUNK /\ Piece <= left
  BY ThrottleAssumption, InternetAssumption DEF LoopInv, LoopTypes, WholeSoFar, Piece

\* Steps between two stages that change nothing else.
LEMMA FromLoopInv ==
    ASSUME LoopInv,
           \/ WorkerCheck
           \/ From("loop", "chunk") /\ GoesOn
           \/ From("loop", "response") /\ mode = "upload" /\ left = 0
    PROVE  LoopInv'
<1>1. CASE WorkerCheck
  BY <1>1 DEF WorkerCheck, From, vars, mainVars, LoopInv, LoopTypes, WholeSoFar,
              LateSoFar, StopIsPrompt
<1>2. CASE From("loop", "chunk") /\ GoesOn
  BY <1>2 DEF From, GoesOn, vars, mainVars, LoopInv, LoopTypes, WholeSoFar,
              LateSoFar, StopIsPrompt
<1>3. CASE From("loop", "response") /\ mode = "upload" /\ left = 0
  BY <1>3 DEF From, vars, mainVars, LoopInv, LoopTypes, WholeSoFar,
              LateSoFar, StopIsPrompt
<1>. QED
  BY <1>1, <1>2, <1>3

\* A request is over: nothing is left of it, and if a call ended with stop set
\* it was one of few.
LEMMA OverLoopInv ==
    ASSUME LoopInv, NEW b \in {"check", "pause", "dead"}, NEW a, Over(a, b), n' = n,
           late' = late \/ Called,
           late' # late => a \in {"connect", "head", "chunk", "response", "reply"}
    PROVE  LoopInv'
<1>1. late' \in Nat /\ late' <= late + 1 /\ (~stop => late' = late)
  BY DEF Called, LoopInv, LoopTypes
<1>2. late' <= IF mode = "upload" THEN 3 ELSE 2
  BY <1>1 DEF Over, LoopInv, LoopTypes, LateSoFar, StopIsPrompt
<1>3. stage = a /\ stage' = b /\ left' = 0 /\ body' = 0 /\ mode' = mode /\ stop' = stop
  BY DEF Over, mainVars
<1>4. LoopTypes' /\ WholeSoFar'
  BY <1>1, <1>3, InternetAssumption DEF LoopInv, LoopTypes, WholeSoFar
<1>5. LateSoFar' /\ StopIsPrompt'
  BY <1>1, <1>2, <1>3 DEF LoopInv, LateSoFar, StopIsPrompt
<1>. QED
  BY <1>4, <1>5 DEF LoopInv

\* A call that raises ends one, too.
LEMMA RaisesLoopInv ==
    ASSUME LoopInv, NEW b \in {"pause", "dead"}, Over(stage, b), Raises,
           stage \in {"connect", "head", "chunk", "response", "reply"}
    PROVE  LoopInv'
<1>1. Called /\ n' = n
  BY DEF Raises, Broken
<1>. QED
  BY <1>1, OverLoopInv

\* Before the body.
LEMMA HeadLoopInv ==
    ASSUME LoopInv, Request \/ Head \/ Announce
    PROVE  LoopInv'
<1>1. /\ n' = n /\ body' = body /\ mode' = mode /\ stop' = stop
      /\ stage \in {"connect", "head"} /\ stage' \in {"head", "loop"}
      /\ left' \in 0 .. BODY /\ late' \in {late, late + 1} /\ (~stop => late' = late)
  BY InternetAssumption DEF Request, Head, Announce, SameThrottle, Called, vars, mainVars,
     LoopInv, LoopTypes
<1>2. LoopTypes'
  BY <1>1 DEF LoopInv, LoopTypes
<1>3. WholeSoFar'
  <2>1. mode = "upload" => stage' = "loop" /\ left' = BODY /\ stage = "connect"
    BY DEF Request, Head, Announce, LoopInv, LateSoFar
  <2>2. stage = "connect" /\ mode = "upload" => body = 0
    BY DEF LoopInv, WholeSoFar
  <2>. QED
    BY <1>1, <2>1, <2>2, InternetAssumption DEF WholeSoFar
<1>4. LateSoFar' /\ StopIsPrompt'
  <2>1. CASE Head
    BY <1>1, <2>1 DEF Head, LoopInv, LoopTypes, LateSoFar, StopIsPrompt
  <2>2. CASE Request
    BY <1>1, <2>2 DEF Request, LoopInv, LoopTypes, LateSoFar, StopIsPrompt
  <2>3. CASE Announce
    BY <1>1, <2>3 DEF Announce, LoopInv, LoopTypes, LateSoFar, StopIsPrompt
  <2>. QED
    BY <2>1, <2>2, <2>3
<1>. QED
  BY <1>2, <1>3, <1>4 DEF LoopInv

\* The body, and the response of an upload.
LEMMA BodyLoopInv ==
    ASSUME LoopInv, Read \/ Send \/ Response
    PROVE  LoopInv'
<1>1. CASE Read
  BY <1>1, ThrottleAssumption, InternetAssumption DEF Read, Transfer, Called, mainVars,
     LoopInv, LoopTypes, WholeSoFar, LateSoFar, StopIsPrompt
<1>2. CASE Send
  <2>1. stage = "chunk" /\ mode = "upload" /\ Piece \in Nat /\ Piece <= left
    BY <1>2, PieceIsPart, ThrottleAssumption DEF Send
  <2>2. n' = Piece /\ body' = body + Piece /\ left' = left /\ stage' = "count"
    BY <1>2 DEF Send, Transfer
  <2>3. late' \in {0, 1} /\ (~stop => late' = 0)
    BY <1>2, <2>1 DEF Send, Called, LoopInv, LoopTypes, LateSoFar
  <2> HIDE DEF Piece
  <2>. QED
    BY <1>2, <2>1, <2>2, <2>3, InternetAssumption DEF Send, mainVars,
       LoopInv, LoopTypes, WholeSoFar, LateSoFar, StopIsPrompt
<1>3. CASE Response
  BY <1>3 DEF Response, Called, vars, mainVars,
     LoopInv, LoopTypes, WholeSoFar, LateSoFar, StopIsPrompt
<1>. QED
  BY <1>1, <1>2, <1>3

\* Counting and waiting.
LEMMA WaitLoopInv ==
    ASSUME LoopInv, Count \/ Wait
    PROVE  LoopInv'
<1>1. CASE Count
  BY <1>1 DEF Count, vars, mainVars, LoopInv, LoopTypes, WholeSoFar, LateSoFar,
              StopIsPrompt
<1>2. CASE Wait
  <2>1. n' = n
    BY <1>2 DEF Wait, WaitSleep, WaitUnlimited, WaitNot, Wake
  <2>. QED
    BY <1>2, <2>1, InternetAssumption DEF Wait, mainVars, LoopInv, LoopTypes,
       WholeSoFar, LateSoFar, StopIsPrompt
<1>. QED
  BY <1>1, <1>2

\* The main thread and the clock.
LEMMA MainLoopInv ==
    ASSUME LoopInv, Main \/ TimePasses
    PROVE  LoopInv'
<1>1. CASE ReportCheck \/ ReportLine \/ KeyboardInterrupt
  BY <1>1 DEF ReportCheck, ReportLine, KeyboardInterrupt, vars, workerVars,
              LoopInv, LoopTypes, WholeSoFar, LateSoFar, StopIsPrompt
<1>2. CASE Exit
  BY <1>2 DEF Exit, vars, LoopInv, LoopTypes, WholeSoFar, LateSoFar, StopIsPrompt
<1>3. CASE TimePasses
  BY <1>3 DEF TimePasses, Tick, workerVars, mainVars, LoopInv, LoopTypes,
              WholeSoFar, LateSoFar, StopIsPrompt
<1>. QED
  BY <1>1, <1>2, <1>3 DEF Main

\* Every step keeps the invariant.
LEMMA StepLoopInv == LoopInv /\ [WorkerNext]_allVars => LoopInv'
<1> SUFFICES ASSUME LoopInv, [WorkerNext]_allVars PROVE LoopInv'
  OBVIOUS
<1>1. CASE UNCHANGED allVars
  BY <1>1 DEF allVars, vars, workerVars, mainVars, LoopInv, LoopTypes, WholeSoFar,
              LateSoFar, StopIsPrompt
<1>2. CASE WorkerCheck \/ Count \/ Wait \/ Main \/ TimePasses
  BY <1>2, FromLoopInv, WaitLoopInv, MainLoopInv
<1>3. CASE Request \/ Head \/ Announce \/ Read \/ Send \/ Response
  BY <1>3, HeadLoopInv, BodyLoopInv
<1>4. CASE Loop
  BY <1>4, FromLoopInv, OverLoopInv DEF Loop, vars
<1>5. CASE ReadEnd \/ Reply
  BY <1>5, OverLoopInv DEF ReadEnd, Reply, vars
<1>6. CASE Fails \/ Dies
  BY <1>6, RaisesLoopInv DEF Fails, Dies
<1>7. CASE PauseEnds
  BY <1>7, OverLoopInv DEF PauseEnds, Retry, vars
<1>. QED
  BY <1>1, <1>2, <1>3, <1>4, <1>5, <1>6, <1>7 DEF WorkerNext, Worker

\* The inductive invariant of the workers' loop (main.py:64-104).
THEOREM LoopInvariance == WorkerSpec => []LoopInv
  BY InitLoopInv, StepLoopInv, PTL DEF WorkerSpec

\* No upload sends more than it has announced, and none waits for its response
\* before it has sent all of it (main.py:90-100).
THEOREM WholeUploads == WorkerSpec => []UploadsAreWhole
<1>1. LoopInv => UploadsAreWhole
  BY InternetAssumption DEF LoopInv, LoopTypes, WholeSoFar, UploadsAreWhole
<1>. QED
  BY <1>1, LoopInvariance, PTL

\* After stop a download ends two more calls to the network at most, an upload
\* three, however many requests there were (main.py:66-72, 80, 87-100 and 104).
THEOREM PromptStop == WorkerSpec => []StopIsPrompt
<1>1. LoopInv => StopIsPrompt
  BY DEF LoopInv
<1>. QED
  BY <1>1, LoopInvariance, PTL

\* A step of the worker is one of its throttle, or leaves it alone.
LEMMA StepIsThrottles == LoopInv /\ [WorkerNext]_allVars => [Next]_vars
<1> SUFFICES ASSUME LoopInv, [WorkerNext]_allVars PROVE [Next]_vars
  OBVIOUS
<1>1. CASE UNCHANGED allVars
  BY <1>1 DEF allVars
<1>2. CASE WorkerCheck \/ Head \/ Loop \/ ReadEnd \/ Count \/ Response \/ Reply
  BY <1>2 DEF WorkerCheck, Head, Loop, ReadEnd, Count, Response, Reply, From
<1>3. CASE Request \/ Announce
  BY <1>3 DEF Request, Announce, SameThrottle
<1>4. CASE Read
  BY <1>4 DEF Read, Next
<1>5. CASE Send
  <2>1. Piece \in 1 .. CHUNK /\ Transfer(Piece)
    BY <1>5, PieceIsPart DEF Send
  <2>. QED
    BY <2>1 DEF Next
<1>6. CASE Wait
  BY <1>6 DEF Wait, Next
<1>7. CASE Main
  BY <1>7 DEF Main, ReportCheck, ReportLine, KeyboardInterrupt, Exit
<1>8. CASE TimePasses
  BY <1>8 DEF TimePasses, Next
<1>9. CASE Fails \/ Dies
  <2>1. Raises
    BY <1>9 DEF Fails, Dies
  <2>2. PartOf \subseteq 0 .. CHUNK - 1
    <3>1. CASE stage = "chunk" /\ mode = "upload"
      BY <3>1, PieceIsPart, ThrottleAssumption DEF PartOf
    <3>2. CASE ~(stage = "chunk" /\ mode = "upload")
      BY <3>2, ThrottleAssumption DEF PartOf
    <3>. QED
      BY <3>1, <3>2
  <2>. QED
    BY <2>1, <2>2 DEF Raises, Next
<1>10. CASE PauseEnds
  BY <1>10 DEF PauseEnds, Next
<1>. QED
  BY <1>1, <1>2, <1>3, <1>4, <1>5, <1>6, <1>7, <1>8, <1>9, <1>10 DEF WorkerNext, Worker

\* A worker with all of its requests implements one throttle (main.py:65, 84).
THEOREM WorkerThrottles == WorkerSpec => ImplementsThrottle
<1>1. WorkerInit => Init
  BY DEF WorkerInit
<1>. QED
  BY <1>1, LoopInvariance, StepIsThrottles, PTL DEF WorkerSpec, ImplementsThrottle, Spec

\* So over all failures, pauses and new connections the bytes of body that a
\* worker's calls returned are at most one chunk ahead of its rate, and those
\* that its broken calls moved are less than a chunk per second begun, on top
\* (main.py:53-59 and 66-104).
THEOREM WorkerRate == WorkerSpec => []MeanRateBounded
  BY WorkerThrottles, MeanRate, PTL DEF ImplementsThrottle
=============================================================================
