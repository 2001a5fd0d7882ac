--------------------------- MODULE NetLoadProofs ----------------------------
(***************************************************************************)
(* No thread of the LAN mode uses a socket that has been closed under it,  *)
(* and the counters of the two processes agree, for any number of          *)
(* connections, payload and buffer.  IInv is inductive: the steps that     *)
(* matter are those that close sockets (CloseDuplex, the acceptor's and    *)
(* Exit) and those that start threads (SendHello, ReadMode).  With IInv    *)
(* and Amounts, CountersAgree is inductive: a step moves pieces from one   *)
(* place of the account to another at one connection, or it breaks a       *)
(* connection or ends a process, and then nothing is promised.             *)
(***************************************************************************)
EXTENDS NetLoad, FiniteSetTheorems, TLAPS

\* The two ends of a connection.
LEMMA EndsAre ==
    /\ \A c \in Conns : <<"server", c>> \in Ends /\ <<"client", c>> \in Ends
    /\ \A e \in Ends : e[1] \in Sides /\ e[2] \in Conns /\ e = <<e[1], e[2]>>
  BY DEF Ends, Sides

\* What closing does to the sockets.
LEMMA CloseAllSocks ==
    ASSUME Types, NEW E, CloseAll(E)
    PROVE  /\ sock' \in [Ends -> {"none", "open", "closed"}]
           /\ \A e \in Ends : e \notin E => sock'[e] = sock[e]
           /\ \A e \in Ends : sock[e] = "none" => sock'[e] = "none"
  BY DEF Types, CloseAll

\* The program starts without sockets and threads.
LEMMA InitIInv == Init => IInv
<1> SUFFICES ASSUME Init PROVE IInv
  OBVIOUS
<1>1. Types
  <2>1. dir \in {"send", "recv", "both"}
    BY NetLoadAssumption DEF Init
  <2>2. backlog \in Seq(Conns) /\ cur \in Conns
    BY DEF Init
  <2>. QED
    BY <2>1, <2>2 DEF Init, Types
<1>2. \A e \in Ends : ~Active(e)
  BY DEF Init, Active
<1>3. NotStarted
  <2>1. \A c \in Conns : \A s \in Sides : <<s, c>> \in Ends
    BY DEF Ends
  <2>. QED
    BY <1>2, <2>1, EndsAre DEF Init, NotStarted
<1>4. AskedOnce
  BY DEF Init, AskedOnce
<1>. QED
  BY <1>1, <1>2, <1>3, <1>4 DEF IInv, NoUseAfterClose

\* Steps of threads at a socket, which at most end their use of it.
LEMMA QuietIInv ==
    ASSUME IInv, Types', UNCHANGED <<worker, hello, sock, acceptVars>>,
           \A e \in Ends : Active(e)' => Active(e)
    PROVE  IInv'
<1>1. UNCHANGED <<acc, cur, backlog>>
  BY DEF acceptVars
<1>2. NoUseAfterClose'
  BY DEF IInv, NoUseAfterClose
<1>3. NotStarted'
  BY EndsAre DEF IInv, NotStarted
<1>4. AskedOnce'
  BY <1>1 DEF IInv, AskedOnce, Unasked
<1>. QED
  BY <1>2, <1>3, <1>4 DEF IInv

\* The sender and the receiver threads.
LEMMA ThreadsIInv ==
    ASSUME IInv, NEW e \in Ends, Sender(e) \/ Receiver(e)
    PROVE  IInv'
<1>1. Types /\ UNCHANGED <<dir, worker, hello, sock, acceptVars>>
  BY DEF IInv, Sender, Receiver, SenderLoop, SendPiece, SenderFails, SenderCount,
     ReceiverLoop, Receive, ReceiverEof, ReceiverFails, ReceiverCount, tcpVars
<1>2. CASE Sender(e)
  <2>1. /\ snd[e] \in {"loop", "send", "count"} /\ rcv' = rcv
        /\ \E v \in {"loop", "send", "count", "done"} : snd' = [snd EXCEPT ![e] = v]
    BY <1>2 DEF Sender, SenderLoop, SendPiece, SenderFails, SenderCount
  <2>2. Types'
    BY <1>1, <2>1 DEF Types, acceptVars
  <2>3. \A d \in Ends : Active(d)' => Active(d)
    BY <1>1, <2>1 DEF Active, Types
  <2>. QED
    BY <1>1, <2>2, <2>3, QuietIInv
<1>3. CASE Receiver(e)
  <2>1. /\ rcv[e] \in {"loop", "recv", "count"} /\ snd' = snd
        /\ \E v \in {"loop", "recv", "count", "done"} : rcv' = [rcv EXCEPT ![e] = v]
    BY <1>3 DEF Receiver, ReceiverLoop, Receive, ReceiverEof, ReceiverFails, ReceiverCount, AtEof
  <2>2. Types'
    BY <1>1, <2>1 DEF Types, acceptVars
  <2>3. \A d \in Ends : Active(d)' => Active(d)
    BY <1>1, <2>1 DEF Active, Types
  <2>. QED
    BY <1>1, <2>2, <2>3, QuietIInv
<1>. QED
  BY <1>2, <1>3

\* Resets, and main's setting of stop.
LEMMA ElsewhereIInv ==
    ASSUME IInv,
           \/ \E c \in Conns : NetReset(c) \/ StrayReset(c)
           \/ \E s \in Sides : SetStop(s)
           \/ UNCHANGED vars
    PROVE  IInv'
<1>1. UNCHANGED <<dir, worker, hello, sock, acceptVars, snd, rcv>>
  BY DEF NetReset, StrayReset, SetStop, vars, threadVars, tcpVars
<1>2. Types' /\ \A e \in Ends : Active(e)' => Active(e)
  BY <1>1 DEF IInv, Types, acceptVars, Active
<1>. QED
  BY <1>1, <1>2, QuietIInv

-----------------------------------------------------------------------------
\* run_duplex closes a socket when its threads are through.
LEMMA CloseDuplexIInv ==
    ASSUME IInv, NEW e \in Ends, CloseDuplex(e)
    PROVE  IInv'
<1>0. Types
  BY DEF IInv
<1>1. /\ InDuplex(e) /\ AllThrough(e) /\ CloseAll({e})
      /\ UNCHANGED <<dir, acc, cur, backlog, hello, snd, rcv>>
  BY DEF CloseDuplex, acceptVars, threadVars
<1>2. ~Active(e) /\ \A d \in Ends : Active(d)' <=> Active(d)
  BY <1>1 DEF AllThrough, Active
<1>3. \A d \in Ends : d # e => sock'[d] = sock[d]
  BY <1>0, <1>1, CloseAllSocks
<1>4. /\ worker' \in [Conns -> {"connect", "hello", "duplex", "ended"}]
      /\ \A c \in Conns : worker'[c] # worker[c] =>
            e = <<"client", c>> /\ worker[c] = "duplex" /\ worker'[c] = "ended"
  <2>1. CASE e[1] = "client"
    <3>1. worker' = [worker EXCEPT ![e[2]] = "ended"] /\ worker[e[2]] = "duplex"
      BY <1>1, <2>1 DEF CloseDuplex, InDuplex
    <3>. QED
      BY <1>0, <2>1, <3>1, EndsAre DEF Types
  <2>2. CASE e[1] # "client"
    BY <1>0, <2>2 DEF CloseDuplex, Types
  <2>. QED
    BY <2>1, <2>2
<1>5. Types'
  BY <1>0, <1>1, <1>4, CloseAllSocks DEF Types
<1>6. NoUseAfterClose'
  BY <1>2, <1>3 DEF IInv, NoUseAfterClose
<1>7. NotStarted'
  <2>1. ASSUME NEW c \in Conns, worker'[c] = "hello"
        PROVE  sock'[<<"client", c>>] = "open"
    <3>1. worker[c] = "hello"
      BY <1>4, <2>1
    <3>2. <<"client", c>> # e
      BY <1>1, <3>1 DEF InDuplex
    <3>. QED
      BY <1>3, <3>1, <3>2, EndsAre DEF IInv, NotStarted
  <2>2. ASSUME NEW c \in Conns, worker'[c] = "connect", NEW s \in Sides
        PROVE  sock'[<<s, c>>] = "none"
    <3>1. worker[c] = "connect" /\ <<s, c>> \in Ends
      BY <1>4, <2>2 DEF Ends
    <3>. QED
      BY <1>0, <1>1, <3>1, CloseAllSocks DEF IInv, NotStarted
  <2>. QED
    BY <1>1, <1>2, <1>4, <2>1, <2>2, EndsAre DEF IInv, NotStarted
<1>8. AskedOnce'
  <2>1. ASSUME NEW c \in Conns, Unasked(c)
        PROVE  Unasked(c)'
    <3>1. <<"server", c>> # e
      BY <1>1, <2>1 DEF InDuplex, Unasked
    <3>. QED
      BY <1>1, <1>3, <1>4, <2>1, <3>1, EndsAre DEF Unasked
  <2>2. \A k \in DOMAIN backlog : backlog[k] \in Conns
    BY <1>0 DEF Types
  <2>. QED
    BY <1>0, <1>1, <2>1, <2>2 DEF IInv, AskedOnce, Types
<1>. QED
  BY <1>5, <1>6, <1>7, <1>8 DEF IInv

\* A process ends, and all of its sockets and threads with it.
LEMMA ExitIInv ==
    ASSUME IInv, NEW s \in Sides, Exit(s)
    PROVE  IInv'
<1>0. Types
  BY DEF IInv
<1>1. /\ CloseAll({s} \X Conns)
      /\ snd' = [e \in Ends |-> IF e[1] = s THEN "done" ELSE snd[e]]
      /\ rcv' = [e \in Ends |-> IF e[1] = s THEN "done" ELSE rcv[e]]
      /\ UNCHANGED <<dir, cur, hello>>
  BY DEF Exit
<1>2. \A e \in Ends : Active(e)' => Active(e) /\ e[1] # s
  BY <1>1 DEF Active
<1>3. \A e \in Ends : e[1] # s => sock'[e] = sock[e]
  BY <1>0, <1>1, CloseAllSocks
<1>4. /\ s = "server" => acc' = "closed" /\ backlog' = <<>> /\ worker' = worker
      /\ s = "client" => /\ acc' = acc /\ backlog' = backlog
                         /\ worker' = [c \in Conns |-> "ended"]
      /\ s = "server" \/ s = "client"
  BY DEF Exit, Sides
<1>5. Types'
  <2>1. backlog' \in Seq(Conns) /\ acc' \in {"check", "accept", "mode", "closed"}
        /\ worker' \in [Conns -> {"connect", "hello", "duplex", "ended"}]
    <3>1. <<>> \in Seq(Conns)
      OBVIOUS
    <3>2. CASE s = "server"
      BY <1>0, <1>4, <3>1, <3>2 DEF Types
    <3>3. CASE s = "client"
      BY <1>0, <1>4, <3>3 DEF Types
    <3>. QED
      BY <1>4, <3>2, <3>3
  <2>2. snd' \in [Ends -> {"off", "loop", "send", "count", "done"}]
        /\ rcv' \in [Ends -> {"off", "loop", "recv", "count", "done"}]
    BY <1>0, <1>1 DEF Types
  <2>. QED
    BY <1>0, <1>1, <2>1, <2>2, CloseAllSocks DEF Types
<1>6. NoUseAfterClose'
  BY <1>2, <1>3 DEF IInv, NoUseAfterClose
<1>7. NotStarted'
  <2>1. CASE s = "client"
    BY <1>1, <1>2, <1>4, <2>1, EndsAre DEF IInv, NotStarted
  <2>2. CASE s = "server"
    <3>1. \A c \in Conns : worker[c] = "hello" => sock'[<<"client", c>>] = "open"
      BY <1>3, <2>2, EndsAre DEF IInv, NotStarted
    <3>2. \A c \in Conns : worker[c] = "connect" => \A t \in Sides : sock'[<<t, c>>] = "none"
      <4>1. \A c \in Conns, t \in Sides : <<t, c>> \in Ends
        BY DEF Ends
      <4>. QED
        BY <1>0, <1>1, <4>1, CloseAllSocks DEF IInv, NotStarted
    <3>. QED
      BY <1>1, <1>2, <1>4, <2>2, <3>1, <3>2, EndsAre DEF IInv, NotStarted
  <2>. QED
    BY <1>4, <2>1, <2>2
<1>8. AskedOnce'
  <2>1. CASE s = "client"
    <3>1. \A c \in Conns : Unasked(c) => Unasked(c)'
      BY <1>1, <1>3, <1>4, <2>1, EndsAre DEF Unasked
    <3>2. \A k \in DOMAIN backlog : backlog[k] \in Conns
      BY <1>0 DEF Types
    <3>. QED
      BY <1>0, <1>1, <1>4, <2>1, <3>1, <3>2 DEF IInv, AskedOnce, Types
  <2>2. CASE s = "server"
    BY <1>4, <2>2 DEF AskedOnce
  <2>. QED
    BY <1>4, <2>1, <2>2
<1>. QED
  BY <1>5, <1>6, <1>7, <1>8 DEF IInv

-----------------------------------------------------------------------------
\* A worker connects: both ends are open, and the connection waits.
LEMMA ConnectIInv ==
    ASSUME IInv, NEW c \in Conns, Connect(c)
    PROVE  IInv'
<1>0. Types
  BY DEF IInv
<1>1. /\ worker[c] = "connect" /\ worker' = [worker EXCEPT ![c] = "hello"]
      /\ sock' = [e \in Ends |-> IF e[2] = c THEN "open" ELSE sock[e]]
      /\ backlog' = Append(backlog, c)
      /\ UNCHANGED <<dir, acc, cur, hello, snd, rcv>>
  BY DEF Connect, threadVars
<1>2. \A e \in Ends : Active(e)' <=> Active(e)
  BY <1>1 DEF Active
<1>3. \A d \in Conns, s \in Sides :
        <<s, d>> \in Ends /\ sock'[<<s, d>>] = IF d = c THEN "open" ELSE sock[<<s, d>>]
  BY <1>1 DEF Ends
<1>4. worker'[c] = "hello" /\ \A d \in Conns \ {c} : worker'[d] = worker[d]
  BY <1>0, <1>1 DEF Types
<1>5. Types'
  BY <1>0, <1>1 DEF Types
<1>6. NoUseAfterClose'
  BY <1>1, <1>2 DEF IInv, NoUseAfterClose
<1>7. NotStarted'
  <2>1. ASSUME NEW d \in Conns
        PROVE  /\ hello'[d] # "read" => ~Active(<<"server", d>>)'
               /\ worker'[d] \in {"connect", "hello"} =>
                    ~Active(<<"client", d>>)' /\ hello'[d] = "none"
               /\ worker'[d] = "connect" => \A s \in Sides : sock'[<<s, d>>] = "none"
               /\ worker'[d] = "hello" => sock'[<<"client", d>>] = "open"
    <3>1. "client" \in Sides
      BY DEF Sides
    <3>2. CASE d = c
      BY <1>1, <1>2, <1>3, <1>4, <3>1, <3>2, EndsAre DEF IInv, NotStarted
    <3>3. CASE d # c
      BY <1>1, <1>2, <1>3, <1>4, <3>1, <3>3, EndsAre DEF IInv, NotStarted
    <3>. QED
      BY <3>2, <3>3
  <2>. QED
    BY <2>1 DEF NotStarted
<1>8. AskedOnce'
  <2>1. \A d \in Conns : Unasked(d) => d # c /\ Unasked(d)'
    BY <1>1, <1>3, <1>4 DEF Unasked, Sides
  <2>2. Unasked(c)'
    BY <1>1, <1>3, <1>4 DEF IInv, NotStarted, Unasked, Sides
  <2>3. backlog \in Seq(Conns) /\ cur \in Conns
    BY <1>0 DEF Types
  <2>n. PICK n : n = Len(backlog)
    OBVIOUS
  <2>4. /\ DOMAIN backlog' = 1 .. n + 1 /\ backlog'[n + 1] = c
        /\ \A k \in DOMAIN backlog' :
              \/ k = n + 1
              \/ k \in DOMAIN backlog /\ backlog'[k] = backlog[k] /\ backlog[k] \in Conns
    <3>1. n \in Nat /\ DOMAIN backlog = 1 .. n /\ \A k \in 1 .. n : backlog[k] \in Conns
      BY <2>3, <2>n
    <3>2. DOMAIN backlog' = 1 .. n + 1 /\ backlog'[n + 1] = c
          /\ \A k \in 1 .. n : backlog'[k] = backlog[k]
      BY <1>1, <2>3, <2>n, <3>1
    <3>3. \A k \in 1 .. n + 1 : k \in 1 .. n \/ k = n + 1
      BY <3>1
    <3>4. ASSUME NEW k \in 1 .. n
          PROVE  k \in DOMAIN backlog /\ backlog'[k] = backlog[k] /\ backlog[k] \in Conns
      BY <3>1, <3>2
    <3>5. \A k \in DOMAIN backlog' : k \in 1 .. n \/ k = n + 1
      BY <3>2, <3>3, Zenon
    <3>. QED
      BY <3>2, <3>4, <3>5, Zenon
  <2>5. \A k \in DOMAIN backlog : Unasked(backlog[k])
    BY DEF IInv, AskedOnce
  <2>6. \A k \in DOMAIN backlog' : Unasked(backlog[k])' /\ (k # n + 1 => backlog'[k] # c)
    BY <2>1, <2>2, <2>4, <2>5
  <2>7. \A j, k \in DOMAIN backlog' : j # k => backlog'[j] # backlog'[k]
    BY <2>4, <2>6 DEF IInv, AskedOnce
  <2>8. acc' = "mode" => Unasked(cur)' /\ \A k \in DOMAIN backlog' : backlog'[k] # cur
    BY <1>1, <2>1, <2>3, <2>4 DEF IInv, AskedOnce
  <2>. QED
    BY <1>1, <2>6, <2>7, <2>8 DEF AskedOnce
<1>. QED
  BY <1>5, <1>6, <1>7, <1>8 DEF IInv

\* A worker that fails to connect ends without a socket.
LEMMA ConnectFailsIInv ==
    ASSUME IInv, NEW c \in Conns, ConnectFails(c)
    PROVE  IInv'
<1>0. Types
  BY DEF IInv
<1>1. /\ worker' = [worker EXCEPT ![c] = "ended"]
      /\ UNCHANGED <<dir, acc, cur, backlog, hello, sock, snd, rcv>>
  BY DEF ConnectFails, acceptVars, tcpVars, threadVars
<1>2. /\ \A e \in Ends : Active(e)' <=> Active(e)
      /\ \A d \in Conns : worker'[d] = "ended" \/ worker'[d] = worker[d]
  BY <1>0, <1>1 DEF Active, Types
<1>3. Types' /\ NoUseAfterClose'
  BY <1>0, <1>1, <1>2 DEF Types, IInv, NoUseAfterClose
<1>4. NotStarted'
  BY <1>1, <1>2, EndsAre DEF IInv, NotStarted
<1>5. AskedOnce'
  <2>1. \A d \in Conns : Unasked(d) => Unasked(d)'
    BY <1>1, <1>2 DEF Unasked
  <2>2. \A k \in DOMAIN backlog : backlog[k] \in Conns
    BY <1>0 DEF Types
  <2>. QED
    BY <1>0, <1>1, <2>1, <2>2 DEF IInv, AskedOnce, Types
<1>. QED
  BY <1>3, <1>4, <1>5 DEF IInv

\* The first byte is sent and the client's threads start, on an open socket.
LEMMA SendHelloIInv ==
    ASSUME IInv, NEW c \in Conns, SendHello(c)
    PROVE  IInv'
<1>0. Types
  BY DEF IInv
<1>1. /\ worker[c] = "hello" /\ worker' = [worker EXCEPT ![c] = "duplex"]
      /\ hello' = hello \/ hello' = [hello EXCEPT ![c] = "sent"]
      /\ \E v \in {"loop", "off"} : snd' = [snd EXCEPT ![<<"client", c>>] = v]
      /\ \E v \in {"loop", "off"} : rcv' = [rcv EXCEPT ![<<"client", c>>] = v]
      /\ UNCHANGED <<dir, acc, cur, backlog, sock>>
  BY DEF SendHello, Started, acceptVars
<1>2. \A e \in Ends : e # <<"client", c>> => (Active(e)' <=> Active(e))
  BY <1>0, <1>1 DEF Active, Types
<1>3. /\ \A d \in Conns : hello'[d] = "read" <=> hello[d] = "read"
      /\ \A d \in Conns : d # c => worker'[d] = worker[d] /\ hello'[d] = hello[d]
      /\ worker'[c] = "duplex"
  <2>1. worker'[c] = "duplex" /\ \A d \in Conns : d # c => worker'[d] = worker[d]
    BY <1>0, <1>1 DEF Types
  <2>2. hello[c] = "none"
    BY <1>1 DEF IInv, NotStarted
  <2>3. hello'[c] \in {"none", "sent"} /\ \A d \in Conns : d # c => hello'[d] = hello[d]
    BY <1>0, <1>1, <2>2 DEF Types
  <2>. QED
    BY <2>1, <2>2, <2>3
<1>4. Types'
  <2>1. snd' \in [Ends -> {"off", "loop", "send", "count", "done"}]
        /\ rcv' \in [Ends -> {"off", "loop", "recv", "count", "done"}]
    <3>1. PICK v \in {"loop", "off"} : snd' = [snd EXCEPT ![<<"client", c>>] = v]
      BY <1>1
    <3>2. PICK w \in {"loop", "off"} : rcv' = [rcv EXCEPT ![<<"client", c>>] = w]
      BY <1>1
    <3>. QED
      BY <1>0, <3>1, <3>2 DEF Types
  <2>2. hello' \in [Conns -> {"none", "sent", "read"}]
    BY <1>0, <1>1 DEF Types
  <2>3. worker' \in [Conns -> {"connect", "hello", "duplex", "ended"}]
    BY <1>0, <1>1 DEF Types
  <2>. QED
    BY <1>0, <1>1, <2>1, <2>2, <2>3 DEF Types
<1>5. NoUseAfterClose'
  BY <1>1, <1>2 DEF IInv, NoUseAfterClose, NotStarted
<1>6. NotStarted'
  <2>1. ASSUME NEW d \in Conns
        PROVE  /\ hello'[d] # "read" => ~Active(<<"server", d>>)'
               /\ worker'[d] \in {"connect", "hello"} =>
                    ~Active(<<"client", d>>)' /\ hello'[d] = "none"
               /\ worker'[d] = "connect" => \A s \in Sides : sock'[<<s, d>>] = "none"
               /\ worker'[d] = "hello" => sock'[<<"client", d>>] = "open"
    <3>1. hello'[d] # "read" => ~Active(<<"server", d>>)'
      BY <1>2, <1>3, EndsAre DEF IInv, NotStarted
    <3>2. CASE d = c
      BY <1>3, <3>1, <3>2
    <3>3. CASE d # c
      <4>1. <<"client", d>> # <<"client", c>> /\ <<"client", d>> \in Ends
        BY <3>3, EndsAre
      <4>. QED
        BY <1>1, <1>2, <1>3, <3>1, <3>3, <4>1 DEF IInv, NotStarted
    <3>. QED
      BY <3>2, <3>3
  <2>. QED
    BY <2>1 DEF NotStarted
<1>7. AskedOnce'
  <2>1. \A d \in Conns : Unasked(d) => Unasked(d)'
    BY <1>1, <1>3 DEF Unasked
  <2>2. \A k \in DOMAIN backlog : backlog[k] \in Conns
    BY <1>0 DEF Types
  <2>. QED
    BY <1>0, <1>1, <2>1, <2>2 DEF IInv, AskedOnce, Types
<1>. QED
  BY <1>4, <1>5, <1>6, <1>7 DEF IInv

\* Sending the first byte fails: the client's end is closed, which no thread has
\* used yet.
LEMMA HelloFailsIInv ==
    ASSUME IInv, NEW c \in Conns, HelloFails(c)
    PROVE  IInv'
<1>0. Types
  BY DEF IInv
<1>1. /\ worker[c] = "hello" /\ worker' = [worker EXCEPT ![c] = "ended"]
      /\ CloseAll({<<"client", c>>})
      /\ UNCHANGED <<dir, acc, cur, backlog, hello, snd, rcv>>
  BY DEF HelloFails, acceptVars, threadVars
<1>2. /\ \A e \in Ends : Active(e)' <=> Active(e)
      /\ ~Active(<<"client", c>>)
  BY <1>1 DEF Active, IInv, NotStarted
<1>3. /\ sock' \in [Ends -> {"none", "open", "closed"}]
      /\ \A e \in Ends : e # <<"client", c>> => sock'[e] = sock[e]
      /\ \A e \in Ends : sock[e] = "none" => sock'[e] = "none"
  BY <1>0, <1>1, CloseAllSocks
<1>4. worker'[c] = "ended" /\ \A d \in Conns \ {c} : worker'[d] = worker[d]
  BY <1>0, <1>1 DEF Types
<1>5. Types'
  BY <1>0, <1>1, <1>3 DEF Types
<1>6. NoUseAfterClose'
  BY <1>2, <1>3 DEF IInv, NoUseAfterClose
<1>7. NotStarted'
  <2>1. \A d \in Conns, s \in Sides : <<s, d>> \in Ends
    BY DEF Ends
  <2>2. ASSUME NEW d \in Conns
        PROVE  /\ hello'[d] # "read" => ~Active(<<"server", d>>)'
               /\ worker'[d] \in {"connect", "hello"} =>
                    ~Active(<<"client", d>>)' /\ hello'[d] = "none"
               /\ worker'[d] = "connect" => \A s \in Sides : sock'[<<s, d>>] = "none"
               /\ worker'[d] = "hello" => sock'[<<"client", d>>] = "open"
    <3>1. hello'[d] # "read" => ~Active(<<"server", d>>)'
      BY <1>1, <1>2, EndsAre DEF IInv, NotStarted
    <3>2. CASE d = c
      BY <1>4, <3>1, <3>2
    <3>3. CASE d # c
      <4>1. <<"client", d>> # <<"client", c>> /\ <<"client", d>> \in Ends
        BY <3>3, EndsAre
      <4>. QED
        BY <1>1, <1>2, <1>3, <1>4, <2>1, <3>1, <3>3, <4>1 DEF IInv, NotStarted
    <3>. QED
      BY <3>2, <3>3
  <2>. QED
    BY <2>2 DEF NotStarted
<1>8. AskedOnce'
  <2>1. \A d \in Conns : Unasked(d) => Unasked(d)'
    BY <1>1, <1>3, <1>4, EndsAre DEF Unasked
  <2>2. \A k \in DOMAIN backlog : backlog[k] \in Conns
    BY <1>0 DEF Types
  <2>. QED
    BY <1>0, <1>1, <2>1, <2>2 DEF IInv, AskedOnce, Types
<1>. QED
  BY <1>5, <1>6, <1>7, <1>8 DEF IInv

-----------------------------------------------------------------------------
\* The acceptor's time-out, and the connection that it takes from the backlog.
LEMMA AcceptIInv ==
    ASSUME IInv, Accept \/ AcceptTimeout
    PROVE  IInv'
<1>0. Types
  BY DEF IInv
<1>1. UNCHANGED <<dir, worker, hello, sock, snd, rcv>>
  BY DEF Accept, AcceptTimeout, tcpVars, threadVars
<1>2. NoUseAfterClose' /\ NotStarted'
  BY <1>1 DEF IInv, NoUseAfterClose, NotStarted, Active
<1>3. \A c \in Conns : Unasked(c)' <=> Unasked(c)
  BY <1>1 DEF Unasked
<1>4. CASE AcceptTimeout
  <2>1. acc' = "check" /\ cur' = cur /\ backlog' = backlog
    BY <1>4 DEF AcceptTimeout
  <2>2. \A k \in DOMAIN backlog : backlog[k] \in Conns
    BY <1>0 DEF Types
  <2>3. Types'
    BY <1>0, <1>1, <2>1 DEF Types
  <2>4. AskedOnce'
    BY <1>3, <2>1, <2>2 DEF IInv, AskedOnce
  <2>. QED
    BY <1>2, <2>3, <2>4 DEF IInv
<1>5. CASE Accept
  <2>1. /\ backlog \in Seq(Conns) /\ backlog # <<>>
        /\ acc' = "mode" /\ cur' = Head(backlog) /\ backlog' = Tail(backlog)
    BY <1>0, <1>5 DEF Accept, Types
  <2>2. /\ 1 \in DOMAIN backlog /\ cur' = backlog[1] /\ cur' \in Conns
        /\ backlog' \in Seq(Conns)
        /\ \A k \in DOMAIN backlog' : k + 1 \in DOMAIN backlog /\ k + 1 # 1 /\ k \in Nat
                                      /\ backlog'[k] = backlog[k + 1] /\ backlog'[k] \in Conns
    BY <2>1
  <2>3. Types'
    BY <1>0, <1>1, <2>1, <2>2 DEF Types
  <2>4. /\ \A k \in DOMAIN backlog : Unasked(backlog[k])
        /\ \A j, k \in DOMAIN backlog : j # k => backlog[j] # backlog[k]
    BY DEF IInv, AskedOnce
  <2>5. Unasked(cur)'
    BY <1>1, <2>2, <2>4 DEF Unasked
  <2>6. \A k \in DOMAIN backlog' : backlog'[k] # cur' /\ Unasked(backlog[k])'
    BY <1>1, <2>2, <2>4 DEF Unasked
  <2>7. \A j, k \in DOMAIN backlog' : j # k => backlog'[j] # backlog'[k]
    BY <2>2, <2>4
  <2>8. AskedOnce'
    BY <2>5, <2>6, <2>7 DEF AskedOnce
  <2>. QED
    BY <1>2, <2>3, <2>8 DEF IInv
<1>. QED
  BY <1>4, <1>5

\* The acceptor has read the direction, and starts the threads on an open socket.
LEMMA ReadModeIInv ==
    ASSUME IInv, ReadMode
    PROVE  IInv'
<1>0. Types /\ cur \in Conns
  BY DEF IInv, Types
<1>1. /\ acc = "mode" /\ acc' = "check" /\ hello' = [hello EXCEPT ![cur] = "read"]
      /\ hello[cur] = "sent"
      /\ \E v \in {"loop", "off"} : snd' = [snd EXCEPT ![<<"server", cur>>] = v]
      /\ \E v \in {"loop", "off"} : rcv' = [rcv EXCEPT ![<<"server", cur>>] = v]
      /\ UNCHANGED <<dir, cur, backlog, worker, sock>>
  BY DEF ReadMode, Started
<1>2. \A e \in Ends : e # <<"server", cur>> => (Active(e)' <=> Active(e))
  BY <1>0, <1>1 DEF Active, Types
<1>3. hello'[cur] = "read" /\ \A c \in Conns : c # cur => hello'[c] = hello[c]
  BY <1>0, <1>1 DEF Types
<1>4. Types'
  <2>1. snd' \in [Ends -> {"off", "loop", "send", "count", "done"}]
        /\ rcv' \in [Ends -> {"off", "loop", "recv", "count", "done"}]
    <3>1. PICK v \in {"loop", "off"} : snd' = [snd EXCEPT ![<<"server", cur>>] = v]
      BY <1>1
    <3>2. PICK w \in {"loop", "off"} : rcv' = [rcv EXCEPT ![<<"server", cur>>] = w]
      BY <1>1
    <3>. QED
      BY <1>0, <3>1, <3>2 DEF Types
  <2>. QED
    BY <1>0, <1>1, <2>1 DEF Types
<1>5. NoUseAfterClose'
  BY <1>1, <1>2 DEF IInv, NoUseAfterClose, AskedOnce, Unasked
<1>6. NotStarted'
  BY <1>0, <1>1, <1>2, <1>3, EndsAre DEF IInv, NotStarted
<1>7. AskedOnce'
  <2>1. \A c \in Conns : c # cur /\ Unasked(c) => Unasked(c)'
    BY <1>1, <1>3 DEF Unasked
  <2>2. \A k \in DOMAIN backlog : backlog[k] \in Conns /\ backlog[k] # cur
    BY <1>0, <1>1 DEF Types, IInv, AskedOnce
  <2>. QED
    BY <1>1, <2>1, <2>2 DEF IInv, AskedOnce
<1>. QED
  BY <1>4, <1>5, <1>6, <1>7 DEF IInv

\* The acceptor closes the connection it asks, or all that wait, or leaves: no
\* thread runs at a connection that has not been asked.
LEMMA AcceptorClosesIInv ==
    ASSUME IInv, CheckStop \/ NoMode \/ AcceptorDies
    PROVE  IInv'
<1>0. Types /\ cur \in Conns
  BY DEF IInv, Types
<1>1. UNCHANGED <<dir, cur, worker, hello, snd, rcv>>
  BY DEF CheckStop, NoMode, AcceptorDies, threadVars
<1>2. CASE CheckStop /\ UNCHANGED <<backlog, sock>> /\ acc' = "accept"
  <2>1. \A c \in Conns : Unasked(c)' <=> Unasked(c)
    BY <1>1, <1>2 DEF Unasked
  <2>2. \A k \in DOMAIN backlog : backlog[k] \in Conns
    BY <1>0 DEF Types
  <2>3. Types' /\ NoUseAfterClose' /\ NotStarted'
    BY <1>0, <1>1, <1>2 DEF IInv, Types, NoUseAfterClose, NotStarted, Active
  <2>4. AskedOnce'
    BY <1>2, <2>1, <2>2 DEF IInv, AskedOnce
  <2>. QED
    BY <2>3, <2>4 DEF IInv
<1>3. ASSUME NEW E, CloseAll(E),
             \A e \in Ends : e \in E => e[1] = "server" /\ hello[e[2]] # "read",
             \/ acc' = "closed" /\ backlog' = <<>>
             \/ /\ acc' = "check" /\ backlog' = backlog
                /\ \A k \in DOMAIN backlog : <<"server", backlog[k]>> \notin E
      PROVE  IInv'
  <2>1. /\ sock' \in [Ends -> {"none", "open", "closed"}]
        /\ \A e \in Ends : e \notin E => sock'[e] = sock[e]
        /\ \A e \in Ends : sock[e] = "none" => sock'[e] = "none"
    BY <1>0, <1>3, CloseAllSocks
  <2>2. \A e \in Ends : Active(e)' <=> Active(e)
    BY <1>1 DEF Active
  <2>3. \A e \in Ends : e \in E => ~Active(e)
    <3>1. TAKE e \in Ends
    <3>2. HAVE e \in E
    <3>3. e = <<"server", e[2]>> /\ e[2] \in Conns /\ hello[e[2]] # "read"
      BY <1>3, <3>2, EndsAre
    <3>4. ~Active(<<"server", e[2]>>)
      BY <3>3 DEF IInv, NotStarted
    <3>. QED
      BY <3>3, <3>4
  <2>4. Types'
    <3>1. <<>> \in Seq(Conns) /\ backlog \in Seq(Conns)
      BY <1>0 DEF Types
    <3>2. backlog' \in Seq(Conns) /\ acc' \in {"check", "closed"}
      BY <1>3, <3>1
    <3>. QED
      BY <1>0, <1>1, <2>1, <3>2 DEF Types
  <2>5. NoUseAfterClose'
    BY <2>1, <2>2, <2>3 DEF IInv, NoUseAfterClose
  <2>6. NotStarted'
    <3>1. \A d \in Conns, s \in Sides : <<s, d>> \in Ends
      BY DEF Ends
    <3>2. \A d \in Conns : <<"client", d>> \notin E
      BY <1>3, EndsAre
    <3>. QED
      BY <1>1, <2>1, <2>2, <3>1, <3>2, EndsAre DEF IInv, NotStarted
  <2>7. AskedOnce'
    <3>1. CASE acc' = "closed" /\ backlog' = <<>>
      BY <3>1 DEF AskedOnce
    <3>2. CASE /\ acc' = "check" /\ backlog' = backlog
               /\ \A k \in DOMAIN backlog : <<"server", backlog[k]>> \notin E
      <4>1. \A c \in Conns : Unasked(c) /\ <<"server", c>> \notin E => Unasked(c)'
        BY <1>1, <2>1, EndsAre DEF Unasked
      <4>2. \A k \in DOMAIN backlog : backlog[k] \in Conns
        BY <1>0 DEF Types
      <4>3. \A k \in DOMAIN backlog : Unasked(backlog[k])
        BY DEF IInv, AskedOnce
      <4>4. \A k \in DOMAIN backlog' : Unasked(backlog[k])'
        BY <3>2, <4>1, <4>2, <4>3
      <4>. QED
        BY <3>2, <4>4 DEF IInv, AskedOnce
    <3>. QED
      BY <1>3, <3>1, <3>2
  <2>. QED
    BY <2>4, <2>5, <2>6, <2>7 DEF IInv
<1>4. \A e \in Waiting : e[1] = "server" /\ hello[e[2]] # "read"
  BY DEF Waiting, IInv, AskedOnce, Unasked
<1>5. CASE CheckStop /\ ~(UNCHANGED <<backlog, sock>> /\ acc' = "accept")
  <2>1. CloseAll(Waiting) /\ acc' = "closed" /\ backlog' = <<>>
    BY <1>5 DEF CheckStop
  <2>. QED
    BY <1>3, <1>4, <2>1
<1>6. acc = "mode" => hello[cur] # "read" /\ \A k \in DOMAIN backlog : backlog[k] # cur
  BY DEF IInv, AskedOnce, Unasked
<1>7. CASE NoMode
  <2>1. CloseAll({<<"server", cur>>}) /\ acc = "mode" /\ acc' = "check" /\ backlog' = backlog
    BY <1>7 DEF NoMode, AfterNoMode
  <2>2. \A k \in DOMAIN backlog : <<"server", backlog[k]>> \notin {<<"server", cur>>}
    BY <1>6, <2>1
  <2>3. \A e \in Ends : e \in {<<"server", cur>>} => e[1] = "server" /\ hello[e[2]] # "read"
    BY <1>6, <2>1
  <2>. QED
    BY <1>3, <2>1, <2>2, <2>3
<1>8. CASE AcceptorDies
  <2>1. /\ CloseAll(Waiting \cup {<<"server", cur>>}) /\ acc = "mode"
        /\ acc' = "closed" /\ backlog' = <<>>
    BY <1>8 DEF AcceptorDies
  <2>2. \A e \in Ends : e \in Waiting \cup {<<"server", cur>>} =>
            e[1] = "server" /\ hello[e[2]] # "read"
    BY <1>4, <1>6, <2>1
  <2>. QED
    BY <1>3, <2>1, <2>2
<1>. QED
  BY <1>2, <1>5, <1>7, <1>8

-----------------------------------------------------------------------------
\* Every step keeps the invariant.
LEMMA StepIInv == IInv /\ [Next]_vars => IInv'
<1> SUFFICES ASSUME IInv, [Next]_vars PROVE IInv'
  OBVIOUS
<1>1. CASE \E e \in Ends : Sender(e) \/ Receiver(e) \/ CloseDuplex(e)
  BY <1>1, ThreadsIInv, CloseDuplexIInv
<1>2. CASE \E c \in Conns : ClientWorker(c)
  BY <1>2, ConnectIInv, ConnectFailsIInv, SendHelloIInv, HelloFailsIInv DEF ClientWorker
<1>3. CASE Acceptor
  BY <1>3, AcceptIInv, ReadModeIInv, AcceptorClosesIInv DEF Acceptor
<1>4. CASE \E s \in Sides : Exit(s)
  BY <1>4, ExitIInv
<1>5. CASE \/ \E c \in Conns : NetReset(c) \/ StrayReset(c)
           \/ \E s \in Sides : SetStop(s)
           \/ UNCHANGED vars
  BY <1>5, ElsewhereIInv
<1>6. Ended => UNCHANGED vars
  BY DEF Ended, Sides
<1>. QED
  BY <1>1, <1>2, <1>3, <1>4, <1>5, <1>6 DEF Next

\* The inductive invariant of the sockets and their threads (main.py:109-175).
THEOREM Invariance == Spec => []IInv
  BY InitIInv, StepIInv, PTL DEF Spec

\* A thread that sends or receives has an open socket, whoever stops, ends,
\* fails or is reset (main.py:140-144 and 161-175).
THEOREM SocketsOutliveThreads == Spec => []NoUseAfterClose
<1>1. IInv => NoUseAfterClose
  BY DEF IInv
<1>. QED
  BY <1>1, Invariance, PTL
-----------------------------------------------------------------------------
(***************************************************************************)
(* The two processes' counters.  Sums over the connections are sizes of    *)
(* sets, and the leads are kept modulo Modulus, so first what the change   *)
(* of one term does to a sum, and what may be done under the modulus.      *)
(***************************************************************************)
LEMMA Rest ==
    ASSUME NEW M \in Nat \ {0}, NEW q \in Int, NEW r \in 0 .. M - 1
    PROVE  (M * q + r) % M = r
  OBVIOUS

LEMMA Quotient ==
    ASSUME NEW M \in Nat \ {0}, NEW a \in Int
    PROVE  \E q \in Int : a - M * q = a % M
<1> DEFINE q == a \div M
           r == a - M * q
<1>1. q \in Int /\ M * q \in Int
  OBVIOUS
<1>2. M * q <= a
  OBVIOUS
<1>3. a < M * q + M
  OBVIOUS
<1>4. r \in 0 .. M - 1
  BY <1>1, <1>2, <1>3
<1> HIDE DEF q
<1>5. a = M * q + r
  BY <1>1
<1> HIDE DEF r
<1>6. (M * q + r) % M = r
  BY <1>1, <1>4, Rest
<1>7. a % M = r
  BY <1>5, <1>6
<1>. QED
  BY <1>1, <1>7 DEF r

LEMMA Multiples ==
    ASSUME NEW M \in Nat \ {0}, NEW q \in Int, NEW a \in Int
    PROVE  (M * q + a) % M = a % M
<1>1. PICK p \in Int : a - M * p = a % M
  BY Quotient
<1> DEFINE r == a % M
<1>2. r \in 0 .. M - 1
  OBVIOUS
<1>3. a - M * p = r
  BY <1>1
<1> HIDE DEF r
<1>4. M * q + a = M * (q + p) + r
  BY <1>2, <1>3
<1>5. q + p \in Int
  OBVIOUS
<1>6. (M * (q + p) + r) % M = r
  BY <1>2, <1>5, Rest
<1>. QED
  BY <1>4, <1>6 DEF r

LEMMA ModInside ==
    ASSUME NEW M \in Nat \ {0}, NEW a \in Int, NEW b \in Int
    PROVE  ((a % M) + b) % M = (a + b) % M
<1>1. PICK q \in Int : a - M * q = a % M
  BY Quotient
<1> DEFINE r == a % M
<1>2. r \in Int
  OBVIOUS
<1>3. a - M * q = r
  BY <1>1
<1> HIDE DEF r
<1>4. a + b = M * q + (r + b) /\ r + b \in Int
  BY <1>2, <1>3
<1>5. (M * q + (r + b)) % M = (r + b) % M
  BY <1>4, Multiples
<1>. QED
  BY <1>4, <1>5 DEF r

LEMMA ModTwice ==
    ASSUME NEW a \in Int
    PROVE  (a % Modulus) % Modulus = a % Modulus /\ a % Modulus \in Int
<1>1. Modulus \in Nat \ {0}
  BY NetLoadAssumption
<1>2. a % Modulus \in Int
  BY <1>1
<1>3. \A b \in Int : ((a % Modulus) + b) % Modulus = (a + b) % Modulus
  BY <1>1, ModInside
<1> DEFINE r == a % Modulus
<1>4. r \in Int
  BY <1>2
<1>5. (r + 0) % Modulus = (a + 0) % Modulus
  BY <1>3
<1> HIDE DEF r
<1>6. r + 0 = r /\ a + 0 = a
  BY <1>4
<1>7. r % Modulus = a % Modulus
  BY <1>5, <1>6
<1>. QED
  BY <1>2, <1>7 DEF r

LEMMA ModShift ==
    ASSUME NEW M \in Nat \ {0}, NEW a \in Int, NEW b \in Int, NEW k \in Int,
           a % M = b % M
    PROVE  (a + k) % M = (b + k) % M
<1>1. ((a % M) + k) % M = (a + k) % M /\ ((b % M) + k) % M = (b + k) % M
  BY ModInside
<1>. QED
  BY <1>1

\* The pairs that Total counts, for the connections in C.
Pairs(n, C) == UNION {{c} \X (1 .. n[c]) : c \in C}

LEMMA PairsFinite ==
    ASSUME NEW B \in Nat, NEW n \in [Conns -> 0 .. B], NEW C \in SUBSET Conns
    PROVE  IsFiniteSet(Pairs(n, C))
<1>1. IsFiniteSet(1 .. B)
  BY FS_Interval
<1>2. IsFiniteSet(Conns \X (1 .. B))
  BY <1>1, NetLoadAssumption, FS_Product
<1>3. Pairs(n, C) \subseteq Conns \X (1 .. B)
  <2>1. ASSUME NEW c \in C
        PROVE  {c} \X (1 .. n[c]) \subseteq Conns \X (1 .. B)
    <3>1. c \in Conns /\ n[c] \in 0 .. B
      OBVIOUS
    <3>2. 1 .. n[c] \subseteq 1 .. B
      BY <3>1
    <3>. QED
      BY <3>1, <3>2
  <2>. QED
    BY <2>1 DEF Pairs
<1>. QED
  BY <1>2, <1>3, FS_Subset

\* A sum is one of its terms and the sum of the others.
LEMMA TotalSplit ==
    ASSUME NEW B \in Nat, NEW n \in [Conns -> 0 .. B], NEW c \in Conns
    PROVE  /\ Cardinality(Pairs(n, Conns \ {c})) \in Nat
           /\ Total(n) = Cardinality(Pairs(n, Conns \ {c})) + n[c]
<1> DEFINE R == Pairs(n, Conns \ {c})
           S == {c} \X (1 .. n[c])
<1>1. n[c] \in Nat
  OBVIOUS
<1>2. IsFiniteSet(R)
  BY PairsFinite
<1>3. IsFiniteSet(1 .. n[c]) /\ Cardinality(1 .. n[c]) = n[c]
  BY <1>1, FS_Interval
<1>4. IsFiniteSet({c}) /\ Cardinality({c}) = 1
  BY FS_Singleton
<1>5. IsFiniteSet(S) /\ Cardinality(S) = 1 * n[c]
  BY <1>3, <1>4, FS_Product
<1>6. R \cap S = {}
  BY DEF Pairs
<1>7. UNION {{d} \X (1 .. n[d]) : d \in Conns} = R \cup S
  <2>1. Conns = (Conns \ {c}) \cup {c}
    OBVIOUS
  <2>. QED
    BY <2>1 DEF Pairs
<1> HIDE DEF R, S
<1>8. Cardinality(R \cap S) = 0
  BY <1>6, FS_EmptySet
<1>9. Cardinality(R \cup S) = Cardinality(R) + Cardinality(S) - Cardinality(R \cap S)
  BY <1>2, <1>5, FS_Union
<1>10. Cardinality(R) \in Nat
  BY <1>2, FS_CardinalityType
<1>11. Cardinality(R \cup S) = Cardinality(R) + n[c]
  BY <1>1, <1>5, <1>8, <1>9, <1>10
<1>. QED
  BY <1>7, <1>10, <1>11 DEF R, Total

\* One term changes: the sum changes by as much.
LEMMA TotalChange ==
    ASSUME NEW B \in Nat, NEW n \in [Conns -> 0 .. B], NEW m \in [Conns -> 0 .. B],
           NEW c \in Conns, \A d \in Conns \ {c} : m[d] = n[d]
    PROVE  Total(m) = Total(n) + (m[c] - n[c]) /\ Total(n) \in Int /\ Total(m) \in Int
<1>1. Pairs(m, Conns \ {c}) = Pairs(n, Conns \ {c})
  BY DEF Pairs
<1>2. /\ Cardinality(Pairs(n, Conns \ {c})) \in Nat
      /\ Total(n) = Cardinality(Pairs(n, Conns \ {c})) + n[c]
  BY TotalSplit
<1>3. Total(m) = Cardinality(Pairs(m, Conns \ {c})) + m[c]
  BY TotalSplit
<1>4. n[c] \in Int /\ m[c] \in Int
  OBVIOUS
<1> DEFINE p == Cardinality(Pairs(n, Conns \ {c}))
<1>5. p \in Int /\ Total(n) = p + n[c] /\ Total(m) = p + m[c]
  BY <1>1, <1>2, <1>3
<1> HIDE DEF p
<1>. QED
  BY <1>4, <1>5

-----------------------------------------------------------------------------
\* What CountersAgree adds up.
Sums ==
    \A s \in Sides : /\ Ahead(s) \in [Conns -> 0 .. Capacity + CHUNK]
                     /\ UnderWay(s) \in [Conns -> 0 .. Capacity + CHUNK]
                     /\ lead[s] \in Int

LEMMA SumsAre == Types /\ Amounts => Sums
<1> SUFFICES ASSUME Types, Amounts, NEW s \in Sides
             PROVE  /\ Ahead(s) \in [Conns -> 0 .. Capacity + CHUNK]
                    /\ UnderWay(s) \in [Conns -> 0 .. Capacity + CHUNK]
                    /\ lead[s] \in Int
  BY DEF Sums
<1>1. CHUNK \in Nat /\ Capacity \in Nat
  BY NetLoadAssumption
<1>2. \A c \in Conns : <<s, c>> \in Ends /\ <<Other(s), c>> \in Ends
  BY DEF Ends, Sides, Other
<1>3. \A e \in Ends : /\ left[e] \in 0 .. CHUNK /\ hand[e] \in 0 .. CHUNK
                      /\ wire[e] \in 0 .. Capacity
  BY DEF Amounts
<1>4. \A e \in Ends : Uncounted(e) \in 0 .. Capacity + CHUNK
  BY <1>1, <1>3 DEF Uncounted
<1>5. \A c \in Conns : wire[<<s, c>>] + hand[<<Other(s), c>>] \in 0 .. Capacity + CHUNK
  BY <1>1, <1>2, <1>3
<1>6. lead[s] \in Int
  BY DEF Amounts
<1>. QED
  BY <1>2, <1>4, <1>5, <1>6 DEF Ahead, UnderWay

LEMMA SumsNext == Types' /\ Amounts' => Sums'
  BY SumsAre, PTL

\* A step that counts j pieces at a side and disturbs one connection keeps the
\* account of the side.
LEMMA AgreeMoves ==
    ASSUME Types, Amounts, Types', Amounts',
           NEW s \in Sides, NEW c \in Conns, NEW j \in Int, Agree(s),
           lead'[s] % Modulus = (lead[s] + j) % Modulus,
           \A d \in Conns \ {c} :
               /\ Uncounted(<<s, d>>)' = Uncounted(<<s, d>>)
               /\ wire'[<<s, d>>] + hand'[<<Other(s), d>>] =
                    wire[<<s, d>>] + hand[<<Other(s), d>>],
           j + Uncounted(<<s, c>>)' - Uncounted(<<s, c>>) =
               (wire'[<<s, c>>] + hand'[<<Other(s), c>>])
             - (wire[<<s, c>>] + hand[<<Other(s), c>>])
    PROVE  Agree(s)'
<1> DEFINE n == Ahead(s)
           m == Ahead(s)'
           u == UnderWay(s)
           v == UnderWay(s)'
<1>1. Sums /\ Sums'
  BY SumsAre, SumsNext
<1>2. /\ n \in [Conns -> 0 .. Capacity + CHUNK] /\ m \in [Conns -> 0 .. Capacity + CHUNK]
      /\ u \in [Conns -> 0 .. Capacity + CHUNK] /\ v \in [Conns -> 0 .. Capacity + CHUNK]
      /\ lead[s] \in Int /\ lead'[s] \in Int
  BY <1>1 DEF Sums
<1>3. Capacity + CHUNK \in Nat
  BY NetLoadAssumption
<1>4. \A d \in Conns : /\ n[d] = Uncounted(<<s, d>>) /\ m[d] = Uncounted(<<s, d>>)'
                       /\ u[d] = wire[<<s, d>>] + hand[<<Other(s), d>>]
                       /\ v[d] = wire'[<<s, d>>] + hand'[<<Other(s), d>>]
  BY DEF Ahead, UnderWay
<1>5. (lead[s] + Total(n)) % Modulus = Total(u) % Modulus
  BY DEF Agree
<1> DEFINE a == lead[s]
           b == lead'[s]
<1> HIDE DEF n, m, u, v
<1>6. \A d \in Conns \ {c} : m[d] = n[d] /\ v[d] = u[d]
  BY <1>4
<1>7. j + m[c] - n[c] = v[c] - u[c]
  BY <1>4
<1>8. /\ a \in Int /\ b \in Int /\ b % Modulus = (a + j) % Modulus
      /\ (a + Total(n)) % Modulus = Total(u) % Modulus
  BY <1>2, <1>5
<1> DEFINE x == m[c] - n[c]
           y == v[c] - u[c]
<1> HIDE DEF a, b
<1>9. x \in Int /\ y \in Int /\ j + x = y
  BY <1>2, <1>3, <1>7
<1>10. Total(m) = Total(n) + x /\ Total(n) \in Int /\ Total(m) \in Int
  BY <1>2, <1>3, <1>6, TotalChange
<1>11. Total(v) = Total(u) + y /\ Total(u) \in Int /\ Total(v) \in Int
  BY <1>2, <1>3, <1>6, TotalChange
<1> HIDE DEF x, y
<1>12. \A i, l, k \in Int :
          i % Modulus = l % Modulus => (i + k) % Modulus = (l + k) % Modulus
  BY NetLoadAssumption, ModShift
<1>13. a + j \in Int /\ a + Total(n) \in Int
  BY <1>8, <1>10
<1>14. (b + Total(m)) % Modulus = ((a + j) + Total(m)) % Modulus
  BY <1>8, <1>10, <1>12, <1>13
<1>15. (a + j) + Total(m) = (a + Total(n)) + y
  BY <1>8, <1>9, <1>10
<1>16. ((a + Total(n)) + y) % Modulus = (Total(u) + y) % Modulus
  BY <1>8, <1>9, <1>11, <1>12, <1>13
<1>17. (b + Total(m)) % Modulus = Total(v) % Modulus
  BY <1>11, <1>14, <1>15, <1>16
<1>. QED
  BY <1>17 DEF a, b, m, v, Agree, Total

\* A step that counts nothing and disturbs no connection keeps both accounts.
LEMMA AgreeSame ==
    ASSUME Types, Amounts, Types', Amounts', UNCHANGED lead, CountersAgree,
           Unbroken' /\ Alive' => Unbroken /\ Alive,
           \A e \in Ends : /\ Uncounted(e)' = Uncounted(e)
                           /\ wire'[e] + hand'[Peer(e)] = wire[e] + hand[Peer(e)]
    PROVE  CountersAgree'
<1> SUFFICES ASSUME Unbroken', Alive', NEW s \in Sides PROVE Agree(s)'
  BY DEF CountersAgree
<1>0. PICK c \in Conns : c = cur
  BY DEF Types
<1>1. Agree(s) /\ lead[s] \in Int
  BY SumsAre DEF CountersAgree, Sums
<1>2. \A d \in Conns : /\ <<s, d>> \in Ends /\ <<Other(s), d>> \in Ends
                       /\ Peer(<<s, d>>) = <<Other(s), d>>
  BY DEF Ends, Sides, Other, Peer
<1>3. \A d \in Conns : /\ Uncounted(<<s, d>>)' = Uncounted(<<s, d>>)
                       /\ wire'[<<s, d>>] + hand'[<<Other(s), d>>] =
                            wire[<<s, d>>] + hand[<<Other(s), d>>]
  BY <1>2
<1>4. lead'[s] % Modulus = (lead[s] + 0) % Modulus
  BY <1>1
<1>5. /\ Ahead(s)[c] = Uncounted(<<s, c>>)
      /\ UnderWay(s)[c] = wire[<<s, c>>] + hand[<<Other(s), c>>]
      /\ Ahead(s)[c] \in 0 .. Capacity + CHUNK /\ UnderWay(s)[c] \in 0 .. Capacity + CHUNK
  BY <1>1, SumsAre DEF Sums, Ahead, UnderWay
<1>7. Uncounted(<<s, c>>) \in Int /\ wire[<<s, c>>] + hand[<<Other(s), c>>] \in Int
  BY <1>5
<1>6. 0 + Uncounted(<<s, c>>)' - Uncounted(<<s, c>>) =
          (wire'[<<s, c>>] + hand'[<<Other(s), c>>])
        - (wire[<<s, c>>] + hand[<<Other(s), c>>])
  BY <1>1, <1>3, <1>7
<1>. QED
  BY <1>1, <1>3, <1>4, <1>6, AgreeMoves

\* A socket is closed with nothing unread, or the connection is reset.
LEMMA CloseAllWire ==
    ASSUME Types, Amounts, NEW E, CloseAll(E)
    PROVE  /\ wire' \in [Ends -> 0 .. Capacity] /\ reset' \in [Conns -> BOOLEAN]
           /\ \A c \in Conns : reset[c] => reset'[c]
           /\ (\A e \in Ends : e \in E => sock[e] = "open") /\ (\A c \in Conns : ~reset'[c])
                => wire' = wire
<1>1. /\ wire \in [Ends -> 0 .. Capacity] /\ Capacity \in Nat
      /\ wire' = [e \in Ends |-> IF Peer(e) \in E THEN 0 ELSE wire[e]]
      /\ reset' = [c \in Conns |-> \/ reset[c]
                                   \/ \E e \in E : /\ e[2] = c /\ sock[e] = "open"
                                                   /\ Abortive(e)]
  BY NetLoadAssumption DEF Amounts, CloseAll
<1>2. wire' \in [Ends -> 0 .. Capacity]
  BY <1>1
<1>3. reset' \in [Conns -> BOOLEAN] /\ \A c \in Conns : reset[c] => reset'[c]
  BY <1>1 DEF Amounts
<1>4. ASSUME \A e \in Ends : e \in E => sock[e] = "open", \A c \in Conns : ~reset'[c]
      PROVE  wire' = wire
  <2>1. ASSUME NEW d \in Ends, Peer(d) \in E
        PROVE  wire[d] = 0
    <3>1. Peer(d) \in Ends /\ Peer(d)[2] \in Conns /\ Peer(Peer(d)) = d
      BY DEF Ends, Sides, Peer, Other
    <3>2. ~Abortive(Peer(d))
      BY <1>1, <1>4, <2>1, <3>1
    <3>. QED
      BY <1>1, <3>1, <3>2 DEF Abortive
  <2>2. \A d \in Ends : wire'[d] = wire[d]
    BY <1>1, <2>1
  <2>. QED
    BY <1>1, <1>2, <2>2
<1>. QED
  BY <1>2, <1>3, <1>4

-----------------------------------------------------------------------------
\* In the beginning nothing is sent and nothing counted.
LEMMA InitAccounts == Init => Amounts /\ CountersAgree
<1> SUFFICES ASSUME Init PROVE Amounts /\ CountersAgree
  OBVIOUS
<1>0. Types
  BY InitIInv DEF IInv
<1>1. Amounts
  BY NetLoadAssumption DEF Init, Amounts
<1>2. ASSUME NEW s \in Sides
      PROVE  Agree(s)
  <2>1. \A c \in Conns : <<s, c>> \in Ends /\ <<Other(s), c>> \in Ends
    BY DEF Ends, Sides, Other
  <2>2. Ahead(s) = [c \in Conns |-> 0] /\ UnderWay(s) = [c \in Conns |-> 0]
    <3>1. \A e \in Ends : Uncounted(e) = 0 /\ wire[e] = 0 /\ hand[e] = 0
      BY DEF Init, Uncounted
    <3>2. \A c \in Conns : wire[<<s, c>>] + hand[<<Other(s), c>>] = 0
      BY <2>1, <3>1
    <3>. QED
      BY <2>1, <3>1, <3>2 DEF Ahead, UnderWay
  <2>3. PICK c \in Conns : c = cur
    BY DEF Init
  <2>4. Total([d \in Conns |-> 0]) \in Int
    <3>1. [d \in Conns |-> 0] \in [Conns -> 0 .. 0]
      OBVIOUS
    <3>. QED
      BY <2>3, <3>1, TotalChange
  <2>5. lead[s] = 0
    BY DEF Init
  <2>. QED
    BY <2>2, <2>4, <2>5 DEF Agree
<1>. QED
  BY <1>1, <1>2 DEF CountersAgree

\* A sender's steps.
LEMMA SenderAccounts ==
    ASSUME IInv, Types', Amounts, CountersAgree, NEW e \in Ends, Sender(e)
    PROVE  Amounts' /\ CountersAgree'
<1>0. Types /\ CHUNK \in Nat \ {0} /\ Capacity \in Nat /\ left[e] \in 0 .. CHUNK
  BY NetLoadAssumption DEF IInv, Amounts
<1>1. CASE SenderLoop(e)
  <2>1. /\ snd[e] = "loop" /\ UNCHANGED <<exited, wire, stray, reset, rcv, hand, lead>>
        /\ \/ snd' = [snd EXCEPT ![e] = "done"] /\ left' = [left EXCEPT ![e] = 0]
           \/ snd' = [snd EXCEPT ![e] = "send"] /\ left' = [left EXCEPT ![e] = CHUNK]
    BY <1>1 DEF SenderLoop, procVars, tcpVars
  <2>2. ASSUME snd' = [snd EXCEPT ![e] = "done"], left' = [left EXCEPT ![e] = 0]
        PROVE  Amounts' /\ \A d \in Ends : Uncounted(d)' = Uncounted(d)
    <3>1. Amounts'
      BY <1>0, <2>1, <2>2 DEF Amounts, Types
    <3>2. \A d \in Ends : Uncounted(d)' = Uncounted(d)
      BY <1>0, <2>1, <2>2 DEF Types, Amounts, Uncounted
    <3>. QED
      BY <3>1, <3>2
  <2>3. ASSUME snd' = [snd EXCEPT ![e] = "send"], left' = [left EXCEPT ![e] = CHUNK]
        PROVE  Amounts' /\ \A d \in Ends : Uncounted(d)' = Uncounted(d)
    <3>1. left' \in [Ends -> 0 .. CHUNK]
      BY <1>0, <2>3 DEF Amounts
    <3>2. \A d \in Ends : d # e => snd'[d] = snd[d] /\ left'[d] = left[d]
      BY <1>0, <2>3 DEF Types, Amounts
    <3>3. snd'[e] = "send" /\ left'[e] = CHUNK
      BY <1>0, <2>3 DEF Types, Amounts
    <3>4. Amounts'
      BY <1>0, <2>1, <3>1, <3>2, <3>3 DEF Amounts
    <3>5. Uncounted(e)' = 0 /\ Uncounted(e) = 0
      BY <1>0, <2>1, <3>3 DEF Uncounted
    <3>6. \A d \in Ends : d # e => Uncounted(d)' = Uncounted(d)
      BY <3>2 DEF Uncounted
    <3>. QED
      BY <3>4, <3>5, <3>6
  <2>4. Amounts' /\ \A d \in Ends : Uncounted(d)' = Uncounted(d)
    BY <2>1, <2>2, <2>3
  <2>. QED
    BY <1>0, <2>1, <2>4, AgreeSame DEF Unbroken, Alive
<1>2. CASE SendPiece(e)
  <2>1. /\ snd[e] = "send" /\ UNCHANGED <<exited, reset, rcv, hand, lead>>
        /\ left' = [left EXCEPT ![e] = left[e] - 1]
        /\ snd' = [snd EXCEPT ![e] = IF left[e] = 1 THEN "count" ELSE "send"]
        /\ \/ wire[e] < Capacity /\ wire' = [wire EXCEPT ![e] = wire[e] + 1] /\ stray' = stray
           \/ wire' = wire /\ stray' = [stray EXCEPT ![e[2]] = TRUE]
    BY <1>2 DEF SendPiece, procVars
  <2>2. left[e] # 0
    BY <2>1 DEF Amounts
  <2>3. Amounts'
    <3>1. /\ lead' \in [Sides -> Int] /\ hand' \in [Ends -> 0 .. CHUNK]
          /\ reset' \in [Conns -> BOOLEAN] /\ exited' \in [Sides -> BOOLEAN]
      BY <2>1 DEF Amounts
    <3>2. wire' \in [Ends -> 0 .. Capacity] /\ left' \in [Ends -> 0 .. CHUNK]
      BY <1>0, <2>1, <2>2 DEF Amounts
    <3>3. stray' \in [Conns -> BOOLEAN]
      BY <2>1 DEF Amounts
    <3>4. \A d \in Ends : /\ snd'[d] = "send" => left'[d] # 0
                          /\ snd'[d] = "count" => left'[d] = 0
                          /\ rcv'[d] # "count" => hand'[d] = 0
      BY <1>0, <2>1, <2>2 DEF Amounts, Types
    <3>. QED
      BY <3>1, <3>2, <3>3, <3>4 DEF Amounts
  <2>4. CASE wire[e] < Capacity /\ wire' = [wire EXCEPT ![e] = wire[e] + 1] /\ stray' = stray
    <3>1. SUFFICES ASSUME Unbroken', Alive', NEW s \in Sides PROVE Agree(s)'
      BY <2>3 DEF CountersAgree
    <3>2. Agree(s) /\ lead'[s] % Modulus = (lead[s] + 0) % Modulus
      BY <2>1, <2>4, <3>1 DEF Amounts, CountersAgree, Unbroken, Alive
    <3>3. PICK c \in Conns : c = e[2]
      BY DEF Ends
    <3>4. \A d \in Conns : <<s, d>> \in Ends /\ <<Other(s), d>> \in Ends
      BY DEF Ends, Sides, Other
    <3>5. ASSUME NEW d \in Ends, d # e
          PROVE  Uncounted(d)' = Uncounted(d) /\ wire'[d] = wire[d]
      BY <2>1, <2>4, <3>5 DEF Uncounted, Amounts, Types
    <3>6. /\ Uncounted(e) = CHUNK - left[e] /\ Uncounted(e)' = CHUNK - (left[e] - 1)
          /\ wire'[e] = wire[e] + 1 /\ wire[e] \in Int
      BY <1>0, <2>1, <2>4 DEF Uncounted, Amounts, Types
    <3>7. \A d \in Conns : d # c => <<s, d>> # e
      BY <3>3
    <3>8. \A d \in Conns \ {c} : Uncounted(<<s, d>>)' = Uncounted(<<s, d>>)
                                 /\ wire'[<<s, d>>] + hand'[<<Other(s), d>>] =
                                      wire[<<s, d>>] + hand[<<Other(s), d>>]
      BY <2>1, <3>4, <3>5, <3>7
    <3>9. /\ hand'[<<Other(s), c>>] = hand[<<Other(s), c>>] /\ hand[<<Other(s), c>>] \in Int
          /\ Uncounted(<<s, c>>) \in Int /\ wire[<<s, c>>] \in Int
      BY <1>0, <2>1, <3>4 DEF Amounts, Uncounted
    <3>10. 0 + Uncounted(<<s, c>>)' - Uncounted(<<s, c>>) =
               (wire'[<<s, c>>] + hand'[<<Other(s), c>>])
             - (wire[<<s, c>>] + hand[<<Other(s), c>>])
      <4>1. CASE <<s, c>> = e
        BY <1>0, <3>6, <3>9, <4>1
      <4>2. CASE <<s, c>> # e
        BY <3>4, <3>5, <3>9, <4>2
      <4>. QED
        BY <4>1, <4>2
    <3>. QED
      BY <1>0, <2>3, <3>2, <3>8, <3>10, AgreeMoves
  <2>5. CASE stray' = [stray EXCEPT ![e[2]] = TRUE]
    <3>1. stray'[e[2]]
      BY <2>5, EndsAre DEF Amounts
    <3>. QED
      BY <2>3, <3>1, EndsAre DEF CountersAgree, Unbroken
  <2>. QED
    BY <2>1, <2>3, <2>4, <2>5
<1>3. CASE SenderFails(e)
  <2>1. /\ snd[e] = "send" /\ reset[e[2]]
        /\ UNCHANGED <<exited, wire, stray, reset, rcv, hand, lead>>
        /\ snd' = [snd EXCEPT ![e] = "done"] /\ left' = [left EXCEPT ![e] = 0]
    BY <1>3 DEF SenderFails, procVars, tcpVars
  <2>2. Amounts'
    BY <1>0, <2>1 DEF Amounts, Types
  <2>. QED
    BY <2>1, <2>2, EndsAre DEF CountersAgree, Unbroken
<1>4. CASE SenderCount(e)
  <2>1. /\ snd[e] = "count" /\ UNCHANGED <<exited, wire, stray, reset, left, rcv, hand>>
        /\ lead' = [lead EXCEPT ![e[1]] = (lead[e[1]] + CHUNK) % Modulus]
        /\ snd' = [snd EXCEPT ![e] = "loop"]
    BY <1>4 DEF SenderCount, AddSent, procVars, tcpVars
  <2>2. left[e] = 0 /\ e[1] \in Sides /\ lead[e[1]] \in Int
    BY <2>1, EndsAre DEF Amounts
  <2>3. Amounts'
    <3>1. (lead[e[1]] + CHUNK) % Modulus \in Int
      BY <1>0, <2>2, NetLoadAssumption
    <3>2. lead' \in [Sides -> Int]
      BY <2>1, <3>1 DEF Amounts
    <3>3. \A d \in Ends : /\ snd'[d] = "send" => left'[d] # 0
                          /\ snd'[d] = "count" => left'[d] = 0
                          /\ rcv'[d] # "count" => hand'[d] = 0
      BY <1>0, <2>1 DEF Amounts, Types
    <3>. QED
      BY <2>1, <3>2, <3>3 DEF Amounts
  <2>4. SUFFICES ASSUME Unbroken', Alive', NEW s \in Sides PROVE Agree(s)'
    BY <2>3 DEF CountersAgree
  <2>5. Agree(s) /\ lead[s] \in Int
    BY <2>1, <2>4 DEF Amounts, CountersAgree, Unbroken, Alive
  <2>6. PICK c \in Conns : c = e[2]
    BY DEF Ends
  <2>7. \A d \in Conns : <<s, d>> \in Ends /\ <<Other(s), d>> \in Ends
    BY DEF Ends, Sides, Other
  <2>8. \A d \in Ends : d # e => Uncounted(d)' = Uncounted(d)
    BY <2>1 DEF Uncounted, Types
  <2>9. Uncounted(e) = CHUNK /\ Uncounted(e)' = 0
    BY <1>0, <2>1, <2>2 DEF Uncounted, Types
  <2>10. \A d \in Conns \ {c} : <<s, d>> # e
    BY <2>6
  <2>11. \A d \in Conns \ {c} : Uncounted(<<s, d>>)' = Uncounted(<<s, d>>)
                               /\ wire'[<<s, d>>] + hand'[<<Other(s), d>>] =
                                    wire[<<s, d>>] + hand[<<Other(s), d>>]
    BY <2>1, <2>7, <2>8, <2>10
  <2>12. wire[<<s, c>>] \in Int /\ hand[<<Other(s), c>>] \in Int /\ Uncounted(<<s, c>>) \in Int
    BY <1>0, <2>7 DEF Amounts, Uncounted
  <2>13. CASE s = e[1]
    <3>1. <<s, c>> = e
      BY <2>6, <2>13, EndsAre
    <3>2. lead'[s] = (lead[s] + CHUNK) % Modulus
      BY <2>1, <2>13 DEF Amounts
    <3>3. lead'[s] % Modulus = (lead[s] + CHUNK) % Modulus
      <4>1. lead[s] + CHUNK \in Int
        BY <1>0, <2>5
      <4>. QED
        BY <3>2, <4>1, ModTwice
    <3>4. CHUNK + Uncounted(<<s, c>>)' - Uncounted(<<s, c>>) =
              (wire'[<<s, c>>] + hand'[<<Other(s), c>>])
            - (wire[<<s, c>>] + hand[<<Other(s), c>>])
      BY <1>0, <2>1, <2>9, <2>12, <3>1
    <3>. QED
      BY <1>0, <2>3, <2>5, <2>11, <3>3, <3>4, AgreeMoves
  <2>14. CASE s # e[1]
    <3>1. <<s, c>> # e
      BY <2>14
    <3>2. lead'[s] % Modulus = (lead[s] + 0) % Modulus
      BY <2>1, <2>5, <2>14 DEF Amounts
    <3>3. 0 + Uncounted(<<s, c>>)' - Uncounted(<<s, c>>) =
              (wire'[<<s, c>>] + hand'[<<Other(s), c>>])
            - (wire[<<s, c>>] + hand[<<Other(s), c>>])
      BY <2>1, <2>7, <2>8, <2>12, <3>1
    <3>. QED
      BY <1>0, <2>3, <2>5, <2>11, <3>2, <3>3, AgreeMoves
  <2>. QED
    BY <2>13, <2>14
<1>. QED
  BY <1>1, <1>2, <1>3, <1>4 DEF Sender

\* A receiver's steps.
LEMMA ReceiverAccounts ==
    ASSUME IInv, Types', Amounts, CountersAgree, NEW e \in Ends, Receiver(e)
    PROVE  Amounts' /\ CountersAgree'
<1>0. Types /\ CHUNK \in Nat \ {0} /\ Capacity \in Nat
  BY NetLoadAssumption DEF IInv
<1>1. CASE ReceiverLoop(e) \/ ReceiverEof(e) \/ ReceiverFails(e)
  <2>1. /\ rcv[e] # "count" /\ \E x : rcv' = [rcv EXCEPT ![e] = x]
        /\ UNCHANGED <<exited, wire, stray, reset, snd, left, hand, lead>>
    BY <1>1 DEF ReceiverLoop, ReceiverEof, ReceiverFails, procVars, tcpVars
  <2>2. Amounts'
    BY <1>0, <2>1 DEF Amounts, Types
  <2>3. \A d \in Ends : Uncounted(d)' = Uncounted(d)
    BY <2>1 DEF Uncounted
  <2>. QED
    BY <1>0, <2>1, <2>2, <2>3, AgreeSame DEF Unbroken, Alive
<1>2. CASE Receive(e)
  <2>0. Peer(e) \in Ends /\ Peer(Peer(e)) = e /\ Peer(e) # e
    BY DEF Peer, Other, Ends, Sides
  <2>1. /\ rcv[e] = "recv" /\ rcv' = [rcv EXCEPT ![e] = "count"]
        /\ UNCHANGED <<exited, stray, reset, snd, left, lead>>
    BY <1>2 DEF Receive, procVars
  <2>2. PICK k \in 1 .. CHUNK : /\ k <= wire[Peer(e)]
                                /\ wire' = [wire EXCEPT ![Peer(e)] = wire[Peer(e)] - k]
                                /\ hand' = [hand EXCEPT ![e] = k]
    BY <1>2 DEF Receive
  <2>3. hand[e] = 0 /\ wire[Peer(e)] \in 0 .. Capacity
    BY <2>0, <2>1 DEF Amounts
  <2>4. Amounts'
    <3>1. wire' \in [Ends -> 0 .. Capacity]
      BY <1>0, <2>0, <2>2, <2>3 DEF Amounts
    <3>2. hand' \in [Ends -> 0 .. CHUNK]
      BY <1>0, <2>2 DEF Amounts
    <3>3. \A d \in Ends : rcv'[d] # "count" => hand'[d] = 0
      BY <1>0, <2>1, <2>2 DEF Amounts, Types
    <3>. QED
      BY <2>1, <3>1, <3>2, <3>3 DEF Amounts
  <2>5. \A d \in Ends : Uncounted(d)' = Uncounted(d)
    BY <2>1 DEF Uncounted
  <2>6. ASSUME NEW d \in Ends
        PROVE  wire'[d] + hand'[Peer(d)] = wire[d] + hand[Peer(d)]
    <3>1. Peer(d) \in Ends /\ (d = Peer(e) <=> Peer(d) = e)
      BY DEF Peer, Other, Ends, Sides
    <3>2. CASE d = Peer(e)
      <4>1. wire'[d] = wire[d] - k /\ hand'[Peer(d)] = k /\ hand[Peer(d)] = 0
        BY <2>0, <2>2, <2>3, <3>1, <3>2 DEF Amounts
      <4>. QED
        BY <2>3, <3>2, <4>1
    <3>3. CASE d # Peer(e)
      BY <2>2, <3>1, <3>3 DEF Amounts
    <3>. QED
      BY <3>2, <3>3
  <2>. QED
    BY <1>0, <2>1, <2>4, <2>5, <2>6, AgreeSame DEF Unbroken, Alive
<1>3. CASE ReceiverCount(e)
  <2>0. PICK o \in Sides : o = Other(e[1])
    BY DEF Other, Sides
  <2>1. /\ rcv[e] = "count" /\ UNCHANGED <<exited, wire, stray, reset, snd, left>>
        /\ lead' = [lead EXCEPT ![o] = (lead[o] - hand[e]) % Modulus]
        /\ hand' = [hand EXCEPT ![e] = 0]
        /\ rcv' = [rcv EXCEPT ![e] = "loop"]
    BY <1>3, <2>0 DEF ReceiverCount, AddRecv, Received, procVars, tcpVars
  <2>2. hand[e] \in 0 .. CHUNK /\ lead[o] - hand[e] \in Int
    BY <1>0 DEF Amounts
  <2>3. Amounts'
    <3>1. lead' \in [Sides -> Int]
      BY <2>1, <2>2, ModTwice DEF Amounts
    <3>2. hand' \in [Ends -> 0 .. CHUNK] /\ \A d \in Ends : rcv'[d] # "count" => hand'[d] = 0
      BY <1>0, <2>1 DEF Amounts, Types
    <3>. QED
      BY <2>1, <3>1, <3>2 DEF Amounts
  <2>4. SUFFICES ASSUME Unbroken', Alive', NEW s \in Sides PROVE Agree(s)'
    BY <2>3 DEF CountersAgree
  <2>5. Agree(s) /\ lead[s] \in Int
    BY <2>1, <2>4 DEF Amounts, CountersAgree, Unbroken, Alive
  <2>6. PICK c \in Conns : c = e[2]
    BY DEF Ends
  <2>7. \A d \in Conns : <<s, d>> \in Ends /\ <<Other(s), d>> \in Ends
    BY DEF Ends, Sides, Other
  <2>8. \A d \in Ends : d # e => hand'[d] = hand[d]
    BY <2>1 DEF Amounts
  <2>9. hand'[e] = 0
    BY <2>1 DEF Amounts
  <2>10. \A d \in Ends : Uncounted(d)' = Uncounted(d)
    BY <2>1 DEF Uncounted
  <2>11. \A d \in Conns \ {c} : Uncounted(<<s, d>>)' = Uncounted(<<s, d>>)
                               /\ wire'[<<s, d>>] + hand'[<<Other(s), d>>] =
                                    wire[<<s, d>>] + hand[<<Other(s), d>>]
    <3>1. \A d \in Conns \ {c} : <<Other(s), d>> # e
      BY <2>6
    <3>. QED
      BY <2>1, <2>7, <2>8, <2>10, <3>1
  <2>12. wire[<<s, c>>] \in Int /\ hand[<<Other(s), c>>] \in Int /\ Uncounted(<<s, c>>) \in Int
    BY <1>0, <2>7 DEF Amounts, Uncounted
  <2>13. CASE s = o
    <3>1. <<Other(s), c>> = e
      BY <2>0, <2>6, <2>13, EndsAre DEF Other, Sides
    <3>2. lead'[s] = (lead[s] - hand[e]) % Modulus
      BY <2>1, <2>13 DEF Amounts
    <3>3. PICK j \in Int : j = 0 - hand[e]
      BY <2>2
    <3>4. lead'[s] % Modulus = (lead[s] + j) % Modulus
      <4>1. lead[s] - hand[e] = lead[s] + j /\ lead[s] + j \in Int
        BY <2>2, <2>5, <3>3
      <4>. QED
        BY <3>2, <4>1, ModTwice
    <3>5. j + Uncounted(<<s, c>>)' - Uncounted(<<s, c>>) =
              (wire'[<<s, c>>] + hand'[<<Other(s), c>>])
            - (wire[<<s, c>>] + hand[<<Other(s), c>>])
      <4>1. /\ Uncounted(<<s, c>>)' = Uncounted(<<s, c>>) /\ wire'[<<s, c>>] = wire[<<s, c>>]
            /\ hand'[<<Other(s), c>>] = 0 /\ hand[<<Other(s), c>>] = hand[e]
        BY <2>1, <2>7, <2>9, <2>10, <3>1
      <4>2. hand[e] \in Int
        BY <2>2
      <4>. QED
        BY <2>12, <3>3, <4>1, <4>2
    <3>. QED
      BY <1>0, <2>3, <2>5, <2>11, <3>4, <3>5, AgreeMoves
  <2>14. CASE s # o
    <3>1. <<Other(s), c>> # e
      BY <2>0, <2>14, EndsAre DEF Other, Sides
    <3>2. lead'[s] % Modulus = (lead[s] + 0) % Modulus
      BY <2>1, <2>5, <2>14 DEF Amounts
    <3>3. 0 + Uncounted(<<s, c>>)' - Uncounted(<<s, c>>) =
              (wire'[<<s, c>>] + hand'[<<Other(s), c>>])
            - (wire[<<s, c>>] + hand[<<Other(s), c>>])
      BY <2>1, <2>7, <2>8, <2>10, <2>12, <3>1
    <3>. QED
      BY <1>0, <2>3, <2>5, <2>11, <3>2, <3>3, AgreeMoves
  <2>. QED
    BY <2>13, <2>14
<1>. QED
  BY <1>1, <1>2, <1>3 DEF Receiver

\* Sockets that are open are closed, and no thread moves.
LEMMA ClosingAccounts ==
    ASSUME IInv, Types', Amounts, CountersAgree, NEW E, CloseAll(E),
           \A e \in Ends : e \in E => sock[e] = "open",
           UNCHANGED <<exited, stray, threadVars, lead>>
    PROVE  Amounts' /\ CountersAgree'
<1>1. Types /\ UNCHANGED <<snd, left, rcv, hand>>
  BY DEF IInv, threadVars
<1>2. /\ wire' \in [Ends -> 0 .. Capacity] /\ reset' \in [Conns -> BOOLEAN]
      /\ \A c \in Conns : reset[c] => reset'[c]
      /\ (\A c \in Conns : ~reset'[c]) => wire' = wire
  BY <1>1, CloseAllWire
<1>3. Amounts'
  BY <1>1, <1>2 DEF Amounts
<1>4. CASE wire' = wire
  <2>1. \A d \in Ends : Uncounted(d)' = Uncounted(d)
    BY <1>1 DEF Uncounted
  <2>2. Unbroken' /\ Alive' => Unbroken /\ Alive
    BY <1>2 DEF Unbroken, Alive
  <2>. QED
    BY <1>1, <1>3, <1>4, <2>1, <2>2, AgreeSame
<1>5. CASE wire' # wire
  BY <1>2, <1>3, <1>5 DEF CountersAgree, Unbroken
<1>. QED
  BY <1>4, <1>5

\* The steps that close sockets while both processes run.
LEMMA ClosersAccounts ==
    ASSUME IInv, Types', Amounts, CountersAgree,
           \/ \E e \in Ends : CloseDuplex(e)
           \/ \E c \in Conns : HelloFails(c)
           \/ CheckStop \/ NoMode \/ AcceptorDies
    PROVE  Amounts' /\ CountersAgree'
<1>1. UNCHANGED <<exited, stray, threadVars, lead>>
  BY DEF CloseDuplex, HelloFails, CheckStop, NoMode, AcceptorDies, procVars
<1>2. \A e \in Waiting : sock[e] = "open"
  BY DEF Waiting, IInv, AskedOnce, Unasked
<1>3. acc = "mode" => sock[<<"server", cur>>] = "open"
  BY DEF IInv, AskedOnce, Unasked
<1>4. CASE \E e \in Ends : CloseDuplex(e)
  <2>1. PICK e \in Ends : CloseAll({e}) /\ sock[e] = "open"
    BY <1>4 DEF CloseDuplex, InDuplex
  <2>. QED
    BY <1>1, <2>1, ClosingAccounts
<1>5. CASE \E c \in Conns : HelloFails(c)
  <2>1. PICK c \in Conns : CloseAll({<<"client", c>>}) /\ sock[<<"client", c>>] = "open"
    BY <1>5 DEF HelloFails, IInv, NotStarted
  <2>. QED
    BY <1>1, <2>1, ClosingAccounts
<1>6. CASE CheckStop /\ UNCHANGED <<sock, wire, reset>>
  <2>1. Types /\ UNCHANGED <<snd, left, rcv, hand>>
    BY <1>1 DEF IInv, threadVars
  <2>2. Amounts' /\ \A d \in Ends : Uncounted(d)' = Uncounted(d)
    BY <1>1, <1>6, <2>1 DEF Amounts, Uncounted
  <2>. QED
    BY <1>1, <1>6, <2>1, <2>2, AgreeSame DEF Unbroken, Alive
<1>7. CASE CheckStop /\ CloseAll(Waiting)
  BY <1>1, <1>2, <1>7, ClosingAccounts
<1>8. CASE NoMode
  BY <1>1, <1>3, <1>8, ClosingAccounts DEF NoMode
<1>9. CASE AcceptorDies
  <2>1. /\ CloseAll(Waiting \cup {<<"server", cur>>})
        /\ \A e \in Waiting \cup {<<"server", cur>>} : sock[e] = "open"
    BY <1>2, <1>3, <1>9 DEF AcceptorDies
  <2>. QED
    BY <1>1, <2>1, ClosingAccounts
<1>. QED
  BY <1>4, <1>5, <1>6, <1>7, <1>8, <1>9 DEF CheckStop

\* Threads start at an end where none has run.
LEMMA StartAccounts ==
    ASSUME IInv, Types', Amounts, CountersAgree, NEW e \in Ends, ~Active(e),
           NEW d, Started(e, d), UNCHANGED <<exited, wire, reset, left, hand, lead>>,
           stray' = stray \/ \E c \in Conns : stray' = [stray EXCEPT ![c] = TRUE]
    PROVE  Amounts' /\ CountersAgree'
<1>0. Types
  BY DEF IInv
<1>1. /\ snd[e] \notin {"send", "count"} /\ rcv[e] # "count"
      /\ \E v \in {"loop", "off"} : snd' = [snd EXCEPT ![e] = v]
      /\ \E v \in {"loop", "off"} : rcv' = [rcv EXCEPT ![e] = v]
  BY DEF Active, Started
<1>2. \A c \in Ends : /\ c # e => snd'[c] = snd[c] /\ rcv'[c] = rcv[c]
                      /\ c = e => snd'[c] \in {"loop", "off"} /\ rcv'[c] \in {"loop", "off"}
  BY <1>0, <1>1 DEF Types
<1>3. stray' \in [Conns -> BOOLEAN] /\ \A c \in Conns : stray[c] => stray'[c]
  BY DEF Amounts
<1>4. Amounts'
  BY <1>1, <1>2, <1>3 DEF Amounts
<1>5. \A c \in Ends : Uncounted(c)' = Uncounted(c)
  BY <1>1, <1>2 DEF Uncounted
<1>6. Unbroken' /\ Alive' => Unbroken /\ Alive
  BY <1>3 DEF Unbroken, Alive
<1>. QED
  BY <1>0, <1>4, <1>5, <1>6, AgreeSame

\* The remaining steps of both processes, and of the network.
LEMMA OthersAccounts ==
    ASSUME IInv, Types', Amounts, CountersAgree,
           \/ \E c \in Conns : Connect(c) \/ ConnectFails(c) \/ NetReset(c) \/ StrayReset(c)
           \/ Accept \/ AcceptTimeout
           \/ \E s \in Sides : SetStop(s)
           \/ UNCHANGED vars
    PROVE  Amounts' /\ CountersAgree'
<1>1. /\ UNCHANGED <<exited, wire, stray, lead>> /\ UNCHANGED <<snd, left, rcv, hand>>
      /\ reset' = reset \/ \E c \in Conns : reset' = [reset EXCEPT ![c] = TRUE]
  BY DEF Connect, ConnectFails, NetReset, StrayReset, Accept, AcceptTimeout, SetStop, vars,
     procVars, tcpVars, threadVars
<1>2. reset' \in [Conns -> BOOLEAN] /\ \A c \in Conns : reset[c] => reset'[c]
  BY <1>1 DEF Amounts
<1>3. Types /\ Amounts' /\ \A d \in Ends : Uncounted(d)' = Uncounted(d)
  BY <1>1, <1>2 DEF IInv, Amounts, Uncounted
<1>4. Unbroken' /\ Alive' => Unbroken /\ Alive
  BY <1>1, <1>2 DEF Unbroken, Alive
<1>. QED
  BY <1>1, <1>3, <1>4, AgreeSame

\* A process ends: what its threads had not counted is lost.
LEMMA ExitAccounts ==
    ASSUME IInv, Types', Amounts, NEW s \in Sides, Exit(s)
    PROVE  Amounts' /\ CountersAgree'
<1>0. Types /\ CHUNK \in Nat
  BY NetLoadAssumption DEF IInv
<1>1. /\ CloseAll({s} \X Conns)
      /\ exited' = [exited EXCEPT ![s] = TRUE]
      /\ snd' = [e \in Ends |-> IF e[1] = s THEN "done" ELSE snd[e]]
      /\ rcv' = [e \in Ends |-> IF e[1] = s THEN "done" ELSE rcv[e]]
      /\ left' = [e \in Ends |-> IF e[1] = s THEN 0 ELSE left[e]]
      /\ hand' = [e \in Ends |-> IF e[1] = s THEN 0 ELSE hand[e]]
      /\ UNCHANGED <<stray, lead>>
  BY DEF Exit
<1>2. wire' \in [Ends -> 0 .. Capacity] /\ reset' \in [Conns -> BOOLEAN]
  BY <1>0, <1>1, CloseAllWire
<1>3. exited' \in [Sides -> BOOLEAN] /\ exited'[s]
  BY <1>1 DEF Amounts
<1>4. left' \in [Ends -> 0 .. CHUNK] /\ hand' \in [Ends -> 0 .. CHUNK]
  BY <1>0, <1>1 DEF Amounts
<1>5. \A e \in Ends : /\ snd'[e] = "send" => left'[e] # 0
                      /\ snd'[e] = "count" => left'[e] = 0
                      /\ rcv'[e] # "count" => hand'[e] = 0
  BY <1>1 DEF Amounts
<1>6. Amounts'
  BY <1>1, <1>2, <1>3, <1>4, <1>5 DEF Amounts
<1>. QED
  BY <1>3, <1>6 DEF CountersAgree, Alive

\* Every step keeps the accounts.
LEMMA StepAccounts ==
    IInv /\ Types' /\ Amounts /\ CountersAgree /\ [Next]_vars => Amounts' /\ CountersAgree'
<1> SUFFICES ASSUME IInv, Types', Amounts, CountersAgree, [Next]_vars
             PROVE  Amounts' /\ CountersAgree'
  OBVIOUS
<1>1. CASE \E e \in Ends : Sender(e) \/ Receiver(e) \/ CloseDuplex(e)
  BY <1>1, SenderAccounts, ReceiverAccounts, ClosersAccounts
<1>2. CASE \E c \in Conns : SendHello(c)
  <2>1. PICK c \in Conns : SendHello(c)
    BY <1>2
  <2>2. /\ worker[c] = "hello" /\ Started(<<"client", c>>, dir)
        /\ UNCHANGED <<exited, wire, reset, left, hand, lead>>
        /\ stray' = stray \/ stray' = [stray EXCEPT ![c] = TRUE]
    BY <2>1 DEF SendHello, procVars
  <2>3. <<"client", c>> \in Ends /\ ~Active(<<"client", c>>)
    BY <2>2, EndsAre DEF IInv, NotStarted
  <2>. QED
    BY <2>2, <2>3, StartAccounts
<1>3. CASE \E c \in Conns : HelloFails(c)
  BY <1>3, ClosersAccounts
<1>4. CASE ReadMode
  <2>1. /\ acc = "mode" /\ Started(<<"server", cur>>, Opposite(dir)) /\ cur \in Conns
        /\ UNCHANGED <<exited, wire, stray, reset, left, hand, lead>>
    BY <1>4 DEF ReadMode, procVars, IInv, Types
  <2>2. <<"server", cur>> \in Ends /\ ~Active(<<"server", cur>>)
    BY <2>1, EndsAre DEF IInv, NotStarted, AskedOnce, Unasked
  <2>. QED
    BY <2>1, <2>2, StartAccounts
<1>5. CASE CheckStop \/ NoMode \/ AcceptorDies
  BY <1>5, ClosersAccounts
<1>6. CASE \E s \in Sides : Exit(s)
  BY <1>6, ExitAccounts
<1>7. CASE \/ \E c \in Conns : Connect(c) \/ ConnectFails(c) \/ NetReset(c) \/ StrayReset(c)
           \/ Accept \/ AcceptTimeout
           \/ \E s \in Sides : SetStop(s)
           \/ UNCHANGED vars
  BY <1>7, OthersAccounts
<1>8. Ended => UNCHANGED vars
  BY DEF Ended, Sides
<1>. QED
  BY <1>1, <1>2, <1>3, <1>4, <1>5, <1>6, <1>7, <1>8 DEF Next, ClientWorker, Acceptor

\* What one process has sent and counted, the other has received and counted, or
\* it is under way, for any number of connections, whatever the payload and the
\* buffers, as long as no connection breaks and both run (main.py:113-127).
THEOREM CountersMatch == Spec => []CountersAgree
<1>1. Init => Amounts /\ CountersAgree
  BY InitAccounts
<1>2. IInv => Types
  BY DEF IInv
<1>. QED
  BY <1>1, <1>2, Invariance, StepAccounts, PTL DEF Spec
=============================================================================
