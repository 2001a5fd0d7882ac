------------------------------ MODULE NetLoad ------------------------------
(***************************************************************************)
(* The LAN mode of the load generator (linux/nethogs/main.py): a server    *)
(* process and a client process with some connections between them.  The   *)
(* server has an acceptor thread (server_main), the client a worker thread *)
(* for each connection (client_worker); at both ends of a connection run   *)
(* the sender and the receiver thread that the direction asks for, and the *)
(* thread that waits for both and closes the socket (run_duplex).  main    *)
(* sets stop and returns, and its daemon threads end wherever they are.    *)
(*                                                                         *)
(* An end of a connection is a pair of a side and a connection.  Data are  *)
(* counted in pieces: CHUNK of them are a payload, which sendall hands to  *)
(* the kernel one by one.  Throttle.wait only delays a thread (Throttle    *)
(* shows for how long at most) and is no step here.                        *)
(***************************************************************************)
EXTENDS Integers, Sequences, FiniteSets

CONSTANTS
    Conns,          \* connections of the client, one for each of its threads
    Dirs,           \* what --dir may be
    CHUNK,          \* pieces of a payload
    Capacity,       \* pieces that the kernels hold in one direction
    Modulus,        \* bound: the leads are kept modulo this
    MaxResets       \* bound: connections that the network resets

ASSUME NetLoadAssumption ==
    /\ IsFiniteSet(Conns)
    /\ Dirs \subseteq {"send", "recv", "both"}
    /\ CHUNK \in Nat \ {0} /\ Capacity \in Nat \ {0}
    /\ Modulus \in Nat \ {0} /\ MaxResets \in Nat

Sides == {"server", "client"}
Ends == Sides \X Conns

VARIABLES
    dir,                    \* args.dir of the client
    stop, exited,           \* per process: the event, and whether it is gone
    acc, cur,               \* the acceptor, and the connection it asks
    backlog,                \* connections that wait for accept
    worker,                 \* the client's workers
    hello,                  \* the first byte: "none", "sent", "read"
    sock,                   \* per end: "none", "open", "closed"
    snd, left,              \* the senders, and pieces they have left to send
    rcv, hand,              \* the receivers, and pieces they have received
    wire,                   \* per end: pieces sent from it and not yet read
    stray, reset,           \* per connection: data came after the close; RST
    resets,                 \* RSTs of the network itself
    lead                    \* Stats: sent of one process less recv of the other

procVars == <<stop, exited>>
acceptVars == <<acc, cur, backlog>>
threadVars == <<snd, left, rcv, hand>>
tcpVars == <<hello, sock, wire, stray, reset, resets>>
vars == <<dir, procVars, acceptVars, worker, tcpVars, threadVars, lead>>

Other(s) == IF s = "server" THEN "client" ELSE "server"
Peer(e) == <<Other(e[1]), e[2]>>

Init ==
    /\ dir \in Dirs
    /\ stop = [s \in Sides |-> FALSE] /\ exited = stop
    /\ acc = "check" /\ cur \in Conns /\ backlog = <<>>
    /\ worker = [c \in Conns |-> "connect"]
    /\ hello = [c \in Conns |-> "none"]
    /\ sock = [e \in Ends |-> "none"]
    /\ snd = [e \in Ends |-> "off"] /\ rcv = snd
    /\ left = [e \in Ends |-> 0] /\ hand = left /\ wire = left
    /\ stray = [c \in Conns |-> FALSE] /\ reset = stray
    /\ resets = 0
    /\ lead = [s \in Sides |-> 0]

-----------------------------------------------------------------------------
(***************************************************************************)
(* TCP, as far as the program relies on it.  A closed end reads nothing    *)
(* more; data that stand unread at the close, or come later, are answered  *)
(* by a reset, and so are connections that still waited for accept.        *)
(***************************************************************************)
Waiting == {<<"server", backlog[k]>> : k \in DOMAIN backlog}

Abortive(e) ==
    \/ wire[Peer(e)] > 0
    \/ e[1] = "server" /\ hello[e[2]] = "sent"
    \/ e \in Waiting

\* The ends in E are closed.
CloseAll(E) ==
    /\ sock' = [e \in Ends |-> IF e \in E /\ sock[e] = "open" THEN "closed" ELSE sock[e]]
    /\ wire' = [e \in Ends |-> IF Peer(e) \in E THEN 0 ELSE wire[e]]
    /\ reset' = [c \in Conns |-> \/ reset[c]
                                 \/ \E e \in E : e[2] = c /\ sock[e] = "open" /\ Abortive(e)]

NetReset(c) ==
    /\ resets < MaxResets
    /\ \E e \in Ends : e[2] = c /\ sock[e] = "open"
    /\ reset' = [reset EXCEPT ![c] = TRUE]
    /\ resets' = resets + 1
    /\ UNCHANGED <<dir, procVars, acceptVars, worker, hello, sock, wire, stray,
                   threadVars, lead>>

StrayReset(c) ==
    /\ stray[c] /\ ~reset[c]
    /\ reset' = [reset EXCEPT ![c] = TRUE]
    /\ UNCHANGED <<dir, procVars, acceptVars, worker, hello, sock, wire, stray,
                   resets, threadVars, lead>>
-----------------------------------------------------------------------------
(***************************************************************************)
(* Pieces of the program, with faulty variants that no specification uses  *)
(* and that a property below finds.                                        *)
(***************************************************************************)

\* What the server does for a client that goes one way; the same as the client.
SameWay(d) == d
Opposite(d) == CASE d = "send" -> "recv" [] d = "recv" -> "send" [] d = "both" -> "both"

\* The threads that run_duplex has started are through; one of them is.
OneThrough(e) == snd[e] = "done" \/ rcv[e] = "done"
AllThrough(e) == snd[e] \in {"off", "done"} /\ rcv[e] \in {"off", "done"}

\* len(data); as if recv always filled its buffer.
WholeChunk(e) == CHUNK
Received(e) == hand[e]

\* Where a receiver goes that read nothing; back to the loop.
TriesAgain == "loop"
AtEof == "done"

\* The acceptor's answer to an end of file in place of the mode; giving up.
AcceptorGone == "closed"
AfterNoMode == "check"

\* stats.add: the sums themselves grow without bound, and only how far one
\* process is ahead of the other can be told apart.
AddSent(s, k) == lead' = [lead EXCEPT ![s] = (@ + k) % Modulus]
AddRecv(s, k) == lead' = [lead EXCEPT ![Other(s)] = (@ - k) % Modulus]

\* The threads that run_duplex starts at an end.
Started(e, d) ==
    /\ snd' = [snd EXCEPT ![e] = IF d \in {"send", "both"} THEN "loop" ELSE "off"]
    /\ rcv' = [rcv EXCEPT ![e] = IF d \in {"recv", "both"} THEN "loop" ELSE "off"]

-----------------------------------------------------------------------------
(***************************************************************************)
(* sock_sender.                                                            *)
(***************************************************************************)
SenderLoop(e) ==
    /\ snd[e] = "loop"
    /\ snd' = [snd EXCEPT ![e] = IF stop[e[1]] THEN "done" ELSE "send"]
    /\ left' = [left EXCEPT ![e] = IF stop[e[1]] THEN 0 ELSE CHUNK]
    /\ UNCHANGED <<dir, procVars, acceptVars, worker, tcpVars, rcv, hand, lead>>

SendPiece(e) ==
    /\ snd[e] = "send" /\ ~reset[e[2]]
    /\ \/ /\ sock[Peer(e)] = "open" /\ wire[e] < Capacity
          /\ wire' = [wire EXCEPT ![e] = @ + 1]
          /\ UNCHANGED stray
       \/ /\ sock[Peer(e)] = "closed"
          /\ stray' = [stray EXCEPT ![e[2]] = TRUE]
          /\ UNCHANGED wire
    /\ left' = [left EXCEPT ![e] = @ - 1]
    /\ snd' = [snd EXCEPT ![e] = IF left[e] = 1 THEN "count" ELSE "send"]
    /\ UNCHANGED <<dir, procVars, acceptVars, worker, hello, sock, reset, resets,
                   rcv, hand, lead>>

\* sendall raises: what was sent of the payload is not counted.
SenderFails(e) ==
    /\ snd[e] = "send" /\ reset[e[2]]
    /\ snd' = [snd EXCEPT ![e] = "done"]
    /\ left' = [left EXCEPT ![e] = 0]
    /\ UNCHANGED <<dir, procVars, acceptVars, worker, tcpVars, rcv, hand, lead>>

SenderCount(e) ==
    /\ snd[e] = "count"
    /\ AddSent(e[1], CHUNK)
    /\ snd' = [snd EXCEPT ![e] = "loop"]
    /\ UNCHANGED <<dir, procVars, acceptVars, worker, tcpVars, left, rcv, hand>>

(***************************************************************************)
(* sock_receiver.                                                          *)
(***************************************************************************)
ReceiverLoop(e) ==
    /\ rcv[e] = "loop"
    /\ rcv' = [rcv EXCEPT ![e] = IF stop[e[1]] THEN "done" ELSE "recv"]
    /\ UNCHANGED <<dir, procVars, acceptVars, worker, tcpVars, snd, left, hand, lead>>

Receive(e) ==
    /\ rcv[e] = "recv"
    /\ \E k \in 1 .. CHUNK :
         /\ k <= wire[Peer(e)]
         /\ wire' = [wire EXCEPT ![Peer(e)] = @ - k]
         /\ hand' = [hand EXCEPT ![e] = k]
    /\ rcv' = [rcv EXCEPT ![e] = "count"]
    /\ UNCHANGED <<dir, procVars, acceptVars, worker, hello, sock, stray, reset,
                   resets, snd, left, lead>>

\* recv returns nothing, or raises.
ReceiverEof(e) ==
    /\ rcv[e] = "recv"
    /\ wire[Peer(e)] = 0 /\ sock[Peer(e)] = "closed" /\ ~reset[e[2]]
    /\ rcv' = [rcv EXCEPT ![e] = AtEof]
    /\ UNCHANGED <<dir, procVars, acceptVars, worker, tcpVars, snd, left, hand, lead>>

ReceiverFails(e) ==
    /\ rcv[e] = "recv" /\ reset[e[2]]
    /\ rcv' = [rcv EXCEPT ![e] = "done"]
    /\ UNCHANGED <<dir, procVars, acceptVars, worker, tcpVars, snd, left, hand, lead>>

ReceiverCount(e) ==
    /\ rcv[e] = "count"
    /\ AddRecv(e[1], Received(e))
    /\ hand' = [hand EXCEPT ![e] = 0]
    /\ rcv' = [rcv EXCEPT ![e] = "loop"]
    /\ UNCHANGED <<dir, procVars, acceptVars, worker, tcpVars, snd, left>>

(***************************************************************************)
(* run_duplex, from the joins on.                                          *)
(***************************************************************************)
InDuplex(e) ==
    /\ sock[e] = "open"
    /\ IF e[1] = "client" THEN worker[e[2]] = "duplex" ELSE hello[e[2]] = "read"

CloseDuplex(e) ==
    /\ InDuplex(e) /\ AllThrough(e)
    /\ CloseAll({e})
    /\ worker' = IF e[1] = "client" THEN [worker EXCEPT ![e[2]] = "ended"] ELSE worker
    /\ UNCHANGED <<dir, procVars, acceptVars, hello, stray, resets, threadVars, lead>>

(***************************************************************************)
(* client_worker.                                                          *)
(***************************************************************************)
Connect(c) ==
    /\ worker[c] = "connect"
    /\ acc # "closed"
    /\ sock' = [e \in Ends |-> IF e[2] = c THEN "open" ELSE sock[e]]
    /\ backlog' = Append(backlog, c)
    /\ worker' = [worker EXCEPT ![c] = "hello"]
    /\ UNCHANGED <<dir, procVars, acc, cur, hello, wire, stray, reset, resets,
                   threadVars, lead>>

\* Refused, or timed out: the exception ends the thread.
ConnectFails(c) ==
    /\ worker[c] = "connect"
    /\ worker' = [worker EXCEPT ![c] = "ended"]
    /\ UNCHANGED <<dir, procVars, acceptVars, tcpVars, threadVars, lead>>

SendHello(c) ==
    /\ worker[c] = "hello" /\ ~reset[c]
    /\ \/ /\ sock[<<"server", c>>] = "open"
          /\ hello' = [hello EXCEPT ![c] = "sent"]
          /\ UNCHANGED stray
       \/ /\ sock[<<"server", c>>] = "closed"
          /\ stray' = [stray EXCEPT ![c] = TRUE]
          /\ UNCHANGED hello
    /\ worker' = [worker EXCEPT ![c] = "duplex"]
    /\ Started(<<"client", c>>, dir)
    /\ UNCHANGED <<dir, procVars, acceptVars, sock, wire, reset, resets, left, hand,
                   lead>>

HelloFails(c) ==
    /\ worker[c] = "hello" /\ reset[c]
    /\ worker' = [worker EXCEPT ![c] = "ended"]
    /\ CloseAll({<<"client", c>>})
    /\ UNCHANGED <<dir, procVars, acceptVars, hello, stray, resets, threadVars, lead>>

(***************************************************************************)
(* server_main.                                                            *)
(***************************************************************************)
CheckStop ==
    /\ acc = "check"
    /\ \/ ~stop["server"] /\ acc' = "accept" /\ UNCHANGED <<backlog, sock, wire, reset>>
       \/ stop["server"] /\ acc' = "closed" /\ backlog' = <<>> /\ CloseAll(Waiting)
    /\ UNCHANGED <<dir, procVars, cur, worker, hello, stray, resets, threadVars, lead>>

AcceptTimeout ==
    /\ acc = "accept" /\ backlog = <<>>
    /\ acc' = "check"
    /\ UNCHANGED <<dir, procVars, cur, backlog, worker, tcpVars, threadVars, lead>>

Accept ==
    /\ acc = "accept" /\ backlog # <<>>
    /\ acc' = "mode" /\ cur' = Head(backlog) /\ backlog' = Tail(backlog)
    /\ UNCHANGED <<dir, procVars, worker, tcpVars, threadVars, lead>>

ReadMode ==
    /\ acc = "mode" /\ hello[cur] = "sent"
    /\ hello' = [hello EXCEPT ![cur] = "read"]
    /\ Started(<<"server", cur>>, Opposite(dir))
    /\ acc' = "check"
    /\ UNCHANGED <<dir, procVars, cur, backlog, worker, sock, wire, stray, reset, resets,
                   left, hand, lead>>

\* recv(1) returns nothing: no direction.
NoMode ==
    /\ acc = "mode" /\ hello[cur] = "none"
    /\ sock[<<"client", cur>>] = "closed" /\ ~reset[cur]
    /\ CloseAll({<<"server", cur>>})
    /\ acc' = AfterNoMode
    /\ UNCHANGED <<dir, procVars, cur, backlog, worker, hello, stray, resets, threadVars, lead>>

\* recv(1) raises, and nothing catches it: the thread ends and its sockets are
\* closed.
AcceptorDies ==
    /\ acc = "mode" /\ reset[cur]
    /\ CloseAll(Waiting \cup {<<"server", cur>>})
    /\ acc' = "closed" /\ backlog' = <<>>
    /\ UNCHANGED <<dir, procVars, cur, worker, hello, stray, resets, threadVars, lead>>

(***************************************************************************)
(* report and main: stop is set, main returns, and the kernel closes what  *)
(* the daemon threads leave behind.                                        *)
(***************************************************************************)
SetStop(s) ==
    /\ ~stop[s]
    /\ stop' = [stop EXCEPT ![s] = TRUE]
    /\ UNCHANGED <<dir, exited, acceptVars, worker, tcpVars, threadVars, lead>>

Exit(s) ==
    /\ stop[s] /\ ~exited[s]
    /\ exited' = [exited EXCEPT ![s] = TRUE]
    /\ CloseAll({s} \X Conns)
    /\ snd' = [e \in Ends |-> IF e[1] = s THEN "done" ELSE snd[e]]
    /\ rcv' = [e \in Ends |-> IF e[1] = s THEN "done" ELSE rcv[e]]
    /\ left' = [e \in Ends |-> IF e[1] = s THEN 0 ELSE left[e]]
    /\ hand' = [e \in Ends |-> IF e[1] = s THEN 0 ELSE hand[e]]
    /\ IF s = "server"
       THEN acc' = "closed" /\ backlog' = <<>> /\ UNCHANGED worker
       ELSE worker' = [c \in Conns |-> "ended"] /\ UNCHANGED <<acc, backlog>>
    /\ UNCHANGED <<dir, stop, cur, hello, stray, resets, lead>>

Ended == \A s \in Sides : exited[s] /\ UNCHANGED vars

-----------------------------------------------------------------------------
Sender(e) == SenderLoop(e) \/ SendPiece(e) \/ SenderFails(e) \/ SenderCount(e)
Receiver(e) ==
    ReceiverLoop(e) \/ Receive(e) \/ ReceiverEof(e) \/ ReceiverFails(e) \/ ReceiverCount(e)
ClientWorker(c) == Connect(c) \/ ConnectFails(c) \/ SendHello(c) \/ HelloFails(c)
Acceptor == CheckStop \/ AcceptTimeout \/ Accept \/ ReadMode \/ NoMode \/ AcceptorDies

Next ==
    \/ \E e \in Ends : Sender(e) \/ Receiver(e) \/ CloseDuplex(e)
    \/ \E c \in Conns : ClientWorker(c) \/ NetReset(c) \/ StrayReset(c)
    \/ Acceptor
    \/ \E s \in Sides : SetStop(s) \/ Exit(s)
    \/ Ended

Spec == Init /\ [][Next]_vars

\* Every thread that can go on does, main returns once stop is set, and a
\* reset on its way arrives.  Nobody has to set stop.
Fairness ==
    /\ \A e \in Ends : WF_vars(Sender(e)) /\ WF_vars(Receiver(e)) /\ WF_vars(CloseDuplex(e))
    /\ \A c \in Conns : WF_vars(ClientWorker(c)) /\ WF_vars(StrayReset(c))
    /\ WF_vars(Acceptor)
    /\ \A s \in Sides : WF_vars(Exit(s))

FairSpec == Spec /\ Fairness
-----------------------------------------------------------------------------
(***************************************************************************)
(* Properties.                                                             *)
(***************************************************************************)
\* No thread uses a socket that run_duplex has closed under it: a number that
\* the process may have given to another connection (main.py:142-144).
Active(e) == snd[e] \in {"loop", "send", "count"} \/ rcv[e] \in {"loop", "recv", "count"}
NoUseAfterClose == \A e \in Ends : Active(e) => sock[e] = "open"

\* It is part of an inductive invariant, which follows a connection from
\* connect to the first byte and from the backlog to the acceptor.
Types ==
    /\ dir \in {"send", "recv", "both"}
    /\ acc \in {"check", "accept", "mode", "closed"} /\ cur \in Conns
    /\ backlog \in Seq(Conns)
    /\ worker \in [Conns -> {"connect", "hello", "duplex", "ended"}]
    /\ hello \in [Conns -> {"none", "sent", "read"}]
    /\ sock \in [Ends -> {"none", "open", "closed"}]
    /\ snd \in [Ends -> {"off", "loop", "send", "count", "done"}]
    /\ rcv \in [Ends -> {"off", "loop", "recv", "count", "done"}]

\* No thread runs at an end before the first byte has been sent or read there.
NotStarted ==
    \A c \in Conns :
        /\ hello[c] # "read" => ~Active(<<"server", c>>)
        /\ worker[c] \in {"connect", "hello"} => ~Active(<<"client", c>>) /\ hello[c] = "none"
        /\ worker[c] = "connect" => \A s \in Sides : sock[<<s, c>>] = "none"
        /\ worker[c] = "hello" => sock[<<"client", c>>] = "open"

\* A connection that the acceptor has still to ask is open.
Unasked(c) ==
    hello[c] # "read" /\ sock[<<"server", c>>] = "open" /\ worker[c] # "connect"
AskedOnce ==
    /\ \A k \in DOMAIN backlog : Unasked(backlog[k])
    /\ \A j, k \in DOMAIN backlog : j # k => backlog[j] # backlog[k]
    /\ acc = "mode" => Unasked(cur) /\ \A k \in DOMAIN backlog : backlog[k] # cur

IInv == Types /\ NoUseAfterClose /\ NotStarted /\ AskedOnce

\* What the two processes report agrees: all that one has sent, the other has
\* received or it is under way, as long as no connection breaks
\* (main.py:113-114 and 124-127 count after the call, not with it).
Unbroken == \A c \in Conns : ~reset[c] /\ ~stray[c]
Alive == \A s \in Sides : ~exited[s]

\* The sum of n over the connections, as the size of a set of pairs.
Total(n) == Cardinality(UNION {{c} \X (1 .. n[c]) : c \in Conns})

Uncounted(e) == IF snd[e] \in {"send", "count"} THEN CHUNK - left[e] ELSE 0
Ahead(s) == [c \in Conns |-> Uncounted(<<s, c>>)]
UnderWay(s) == [c \in Conns |-> wire[<<s, c>>] + hand[<<Other(s), c>>]]
Agree(s) == (lead[s] + Total(Ahead(s))) % Modulus = Total(UnderWay(s)) % Modulus
CountersAgree == Unbroken /\ Alive => \A s \in Sides : Agree(s)

\* With it, an inductive invariant: how much there is, and where it may be.
Amounts ==
    /\ lead \in [Sides -> Int]
    /\ wire \in [Ends -> 0 .. Capacity]
    /\ hand \in [Ends -> 0 .. CHUNK] /\ left \in [Ends -> 0 .. CHUNK]
    /\ stray \in [Conns -> BOOLEAN] /\ reset \in [Conns -> BOOLEAN]
    /\ exited \in [Sides -> BOOLEAN]
    /\ \A e \in Ends : /\ snd[e] = "send" => left[e] # 0
                       /\ snd[e] = "count" => left[e] = 0
                       /\ rcv[e] # "count" => hand[e] = 0

\* When a process is gone, the other closes its ends of the connections by
\* itself: its receivers see the end, its senders the reset, and run_duplex
\* has waited for both (main.py:116-117, 125-126 and 140-144).
HangsUp ==
    \A s \in Sides : exited[s] ~> \A e \in Ends : sock[e] # "open"

\* A worker that has named its direction is served, unless the server is
\* stopped or the network breaks a connection: the acceptor, which asks one
\* connection after the other without a timeout, gets to it (main.py:156-167).
ServedInTurn ==
    \A c \in Conns :
        hello[c] = "sent" ~> hello[c] = "read" \/ stop["server"] \/ resets > 0

\* A payload gets through, or its sender ends: nobody waits for ever in
\* sendall for a reader that has gone, or that was never started because both
\* ends took the same direction (main.py:113, 155 and 174-175).
SendersGetOn == \A e \in Ends : snd[e] = "send" ~> snd[e] # "send"
=============================================================================
