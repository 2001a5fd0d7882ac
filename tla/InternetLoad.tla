---------------------------- MODULE InternetLoad ----------------------------
(***************************************************************************)
(* The internet modes of the load generator (linux/nethogs/main.py): one   *)
(* download or upload worker, which makes a request after the other to a   *)
(* server, its Throttle, and the main thread, which reports once a second, *)
(* sets stop and returns; the worker, a daemon thread, then ends wherever  *)
(* it is.                                                                  *)
(*                                                                         *)
(* The worker is at a stage of its loop.  At "chunk" it is in resp.read or *)
(* conn.send, at "count" before stats.add, at "wait" in Throttle.wait: the *)
(* steps of these three are the throttle's.  Every call that reaches the   *)
(* network is a stage of its own, which may take any time and raise: at    *)
(* "connect" the request is made, at "head" a download waits in            *)
(* getresponse; at "response" an upload does, and at "reply" in read.      *)
(***************************************************************************)
EXTENDS Throttle

CONSTANTS
    Modes,          \* "download", "upload"
    Durations,      \* seconds after which the program ends; 0 is never
    BODY            \* DL_BYTES and UL_BYTES

ASSUME InternetAssumption ==
    /\ Modes \subseteq {"download", "upload"}
    /\ Durations \subseteq Nat
    /\ BODY \in Nat

VARIABLES
    mode, duration,
    stage,          \* where the worker is in its loop
    left,           \* upload: left; download: what the server still sends
    stop,
    counted,        \* stats.sent + stats.recv
    rep, repWake,   \* the main thread, and when its sleep may end
    body,           \* history: bytes sent of the present upload
    late            \* history: network calls that ended with stop set

workerVars == <<mode, duration, stage, left, counted, body, late>>
mainVars == <<stop, rep, repWake>>
allVars == <<vars, workerVars, mainVars>>

WorkerInit ==
    /\ Init
    /\ mode \in Modes /\ duration \in Durations
    /\ stage = "check" /\ left = 0
    /\ stop = FALSE
    /\ counted = 0 /\ body = 0 /\ late = 0
    /\ rep = "check" /\ repWake = 0

-----------------------------------------------------------------------------
(***************************************************************************)
(* Pieces of the workers, with faulty variants that no specification uses  *)
(* and that a property below finds.                                        *)
(***************************************************************************)

\* n of upload_worker; as if the last piece were as long as the others.
WholeChunk == CHUNK
Piece == IF CHUNK < left THEN CHUNK ELSE left

\* The condition of the inner loops; without a look at stop.
AnyTime == mode = "upload" => left > 0
GoesOn == ~stop /\ (mode = "upload" => left > 0)

\* The throttle is made once, before the loop; or anew for every request.
NewThrottle == total' = 0 /\ UNCHANGED <<bps, now, pc, n, wake, sent, lost, moved>>
SameThrottle == UNCHANGED vars

\* A call to the network ends.
Called == late' = IF stop THEN late + 1 ELSE late

\* A step of the worker between two stages, without the throttle.
From(a, b) ==
    /\ stage = a /\ stage' = b
    /\ UNCHANGED <<vars, mode, duration, left, counted, body, late, mainVars>>

\* The end of a request, by which its local variables have had their use.
Over(a, b) ==
    /\ stage = a /\ stage' = b
    /\ left' = 0 /\ body' = 0
    /\ UNCHANGED <<mode, duration, counted, mainVars>>

-----------------------------------------------------------------------------
WorkerCheck == From("check", IF stop THEN "ended" ELSE "connect")

\* download_worker: the connection and the request.
Request ==
    /\ mode = "download"
    /\ stage = "connect" /\ stage' = "head"
    /\ Called /\ SameThrottle
    /\ UNCHANGED <<mode, duration, left, counted, body, mainVars>>

\* The head of the response, whose body may be shorter than asked for.
Head ==
    /\ stage = "head" /\ stage' = "loop"
    /\ left' \in 0 .. BODY
    /\ Called
    /\ UNCHANGED <<vars, mode, duration, counted, body, mainVars>>

\* upload_worker: the connection and the head of the request.
Announce ==
    /\ mode = "upload"
    /\ stage = "connect" /\ stage' = "loop"
    /\ left' = BODY
    /\ Called /\ SameThrottle
    /\ UNCHANGED <<mode, duration, counted, body, mainVars>>

\* The inner loop; an upload that is complete asks for the response, every
\* other end closes the connection.
Loop ==
    \/ GoesOn /\ From("loop", "chunk")
    \/ ~GoesOn /\ mode = "upload" /\ left = 0 /\ From("loop", "response")
    \/ /\ ~GoesOn /\ ~(mode = "upload" /\ left = 0)
       /\ Over("loop", "check") /\ UNCHANGED <<vars, late>>

Read ==
    /\ mode = "download"
    /\ stage = "chunk" /\ stage' = "count"
    /\ \E k \in 1 .. CHUNK :
         /\ k <= left
         /\ Transfer(k)
         /\ left' = left - k
    /\ Called
    /\ UNCHANGED <<mode, duration, counted, body, mainVars>>

\* read returns nothing: the body is complete.
ReadEnd ==
    /\ mode = "download" /\ left = 0
    /\ Over("chunk", "check")
    /\ Called /\ UNCHANGED vars

Send ==
    /\ mode = "upload"
    /\ stage = "chunk" /\ stage' = "count"
    /\ Transfer(Piece)
    /\ body' = body + Piece
    /\ Called
    /\ UNCHANGED <<mode, duration, left, counted, mainVars>>

Count ==
    /\ stage = "count" /\ stage' = "wait"
    /\ counted' = counted + n
    /\ UNCHANGED <<vars, mode, duration, left, body, late, mainVars>>

\* Throttle.wait; after it an upload has n bytes less left.
Wait ==
    /\ stage = "wait"
    /\ \/ WaitSleep /\ UNCHANGED <<stage, left>>
       \/ /\ WaitUnlimited \/ WaitNot \/ Wake
          /\ stage' = "loop"
          /\ left' = IF mode = "upload" THEN left - n ELSE left
    /\ UNCHANGED <<mode, duration, counted, body, late, mainVars>>

\* getresponse of an upload, and the read of its reply.
Response ==
    /\ stage = "response" /\ stage' = "reply"
    /\ Called
    /\ UNCHANGED <<vars, mode, duration, left, counted, body, mainVars>>

Reply == Over("reply", "check") /\ Called /\ UNCHANGED vars

\* The bytes of the body that a call may have moved before it raises: a part of
\* the piece, or what has come of a chunk; none but at "chunk".
PartOf ==
    IF stage # "chunk" THEN {0}
    ELSE IF mode = "upload" THEN 0 .. Piece - 1
    ELSE {k \in 0 .. CHUNK - 1 : k <= left}
Raises == (\E k \in PartOf : Broken(k)) /\ Called

\* OSError, a timeout among them: a pause of a second, which stop cuts short.
Fails ==
    /\ stage \in {"connect", "head", "chunk", "response", "reply"}
    /\ Over(stage, "pause")
    /\ Raises

PauseEnds ==
    /\ Over("pause", "check")
    /\ Retry \/ (stop /\ UNCHANGED vars)
    /\ UNCHANGED late

\* An HTTPException that is no OSError: nothing catches it.
Dies ==
    /\ stage \in {"head", "response", "reply"} \/ (stage = "chunk" /\ mode = "download")
    /\ Over(stage, "dead")
    /\ Raises

-----------------------------------------------------------------------------
(***************************************************************************)
(* report, and main after it.                                              *)
(***************************************************************************)
ReportCheck ==
    /\ rep = "check" /\ ~stop
    /\ rep' = "sleep" /\ repWake' = now + SECOND
    /\ UNCHANGED <<vars, workerVars, stop>>

\* A line of the report; the numbers in it are read, and nothing else.
ReportLine ==
    /\ rep = "sleep" /\ now >= repWake
    /\ IF duration # 0 /\ now >= duration * SECOND
       THEN rep' = "done" /\ stop' = TRUE
       ELSE rep' = "check" /\ UNCHANGED stop
    /\ repWake' = 0
    /\ UNCHANGED <<vars, workerVars>>

KeyboardInterrupt ==
    /\ rep \in {"check", "sleep"}
    /\ rep' = "done" /\ stop' = TRUE
    /\ repWake' = 0
    /\ UNCHANGED <<vars, workerVars>>

Exit ==
    /\ rep = "done" /\ rep' = "exited"
    /\ stage' = IF stage = "dead" THEN "dead" ELSE "ended"
    /\ UNCHANGED <<vars, mode, duration, left, counted, body, late, stop, repWake>>

TimePasses == rep # "exited" /\ Tick /\ UNCHANGED <<workerVars, mainVars>>

Worker ==
    \/ WorkerCheck \/ Request \/ Head \/ Announce \/ Loop \/ Read \/ ReadEnd \/ Send
    \/ Count \/ Wait \/ Response \/ Reply \/ Fails \/ PauseEnds \/ Dies
Main == ReportCheck \/ ReportLine \/ KeyboardInterrupt \/ Exit

WorkerNext == Worker \/ Main \/ TimePasses

WorkerSpec == WorkerInit /\ [][WorkerNext]_allVars

-----------------------------------------------------------------------------
(***************************************************************************)
(* Properties.                                                             *)
(***************************************************************************)
\* The worker uses one throttle for all of its requests as Throttle says:
\* failures, pauses and new connections do not give it a new allowance
\* (main.py:65 and 84), so that what holds of the throttle holds of it.
ImplementsThrottle == Spec

\* An upload never sends more than the Content-Length it has announced, and
\* waits for a response only when it has sent all of it: else the server
\* would wait for the rest, or take it for the next request (main.py:90-100).
UploadsAreWhole ==
    mode = "upload" =>
        body <= BODY /\ (stage \in {"response", "reply"} => body = BODY)

\* After stop few calls to the network are still ended: of a download the
\* request and the head of its response, or one read (main.py:66, 69-72 and 80);
\* of an upload the last piece, the head of its response and the reply
\* (main.py:93-100).
StopIsPrompt == late <= IF mode = "upload" THEN 3 ELSE 2

\* The two are part of an inductive invariant of the loop: what is sent and
\* what is left make the whole, and at every stage it is known how many calls
\* stop can have come too late for.
LoopTypes ==
    /\ mode \in Modes /\ stop \in BOOLEAN
    /\ stage \in {"check", "connect", "head", "loop", "chunk", "count", "wait",
                  "response", "reply", "pause", "ended", "dead"}
    /\ left \in 0 .. BODY /\ body \in 0 .. BODY /\ n \in Nat /\ late \in Nat

WholeSoFar ==
    mode = "upload" =>
        /\ stage \in {"check", "connect"} => body = 0
        /\ stage \in {"loop", "chunk", "response", "reply"} => body + left = BODY
        /\ stage \in {"count", "wait"} => n <= left /\ body + left - n = BODY
        /\ stage = "chunk" => left > 0
        /\ stage \in {"response", "reply"} => left = 0

LateSoFar ==
    /\ ~stop => late = 0
    /\ stage \in {"connect", "chunk"} => late = 0
    /\ stage \in {"head", "count", "wait", "response"} => late <= 1
    /\ stage = "loop" => late <= IF mode = "upload" THEN 1 ELSE 2
    /\ stage = "reply" => late <= 2
    /\ stage = "head" => mode = "download"
    /\ stage \in {"response", "reply"} => mode = "upload"

LoopInv == LoopTypes /\ WholeSoFar /\ LateSoFar /\ StopIsPrompt
=============================================================================
