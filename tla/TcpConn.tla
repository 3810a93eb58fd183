------------------------------ MODULE TcpConn -------------------------------
(***************************************************************************)
(* A TCP connection of libre (tcp/tcp.c, tcp/tcp_high.c), opened by us or  *)
(* accepted from a listening socket, with or without the TLS helper        *)
(* (tls/openssl/tls_tcp.c).  A message is two units long, the kernel takes *)
(* any part of what it is given.  What a handler of the user does after    *)
(* the last thing the code does is an action of its own; what it does in   *)
(* the middle is part of the handler.                                      *)
(***************************************************************************)
EXTENDS Naturals, Sequences, SequencesExt

CONSTANTS MaxMsg,      \* bound on the messages the user sends
          TxqMax,      \* txqsz_max
          MaxShake,    \* bound on the flights of a TLS handshake
          MaxRecv      \* bound on the data received
VARIABLES ts,          \* the listening socket: its descriptor, and has it a connection cached?
          c,           \* the connection
          wire,        \* the units the kernel has taken
          acc,         \* the units of all sends that were successful
          sent, shakes,
          evs,         \* the handlers of the user that were called
          early        \* had it something to write when it was established?

vars == <<ts, c, wire, acc, sent, shakes, evs, early>>
NoConn == [fd |-> "none", active |-> FALSE, connected |-> FALSE, watch |-> {}, tls |-> "off",
           sendh |-> FALSE, q |-> <<>>, txq |-> 0]
Init ==
  /\ ts = [fd |-> FALSE, fdc |-> FALSE] /\ c = NoConn /\ wire = <<>> /\ acc = <<>>
  /\ sent = 0 /\ shakes = 0 /\ evs = <<>> /\ early = FALSE

Units(m) == <<<<m, 1>>, <<m, 2>>>>
Flat(q) == FlattenSeq(q)
Told(e) == evs' = Append(evs, e)

-----------------------------------------------------------------------------
(* The outcomes of enqueue() and of tcp_send_internal() below the helpers:  *)
(* the connection, what the kernel takes, and the success.                  *)
Failed(d) == [c |-> d, w |-> <<>>, ok |-> FALSE]
Enqueued(d, u, w) ==
  IF d.txq >= TxqMax THEN Failed(d)
  ELSE [c  |-> [d EXCEPT !.q = Append(@, u), !.txq = @ + Len(u),
                         !.watch = IF d.q = <<>> /\ ~d.sendh THEN {"R", "W"} ELSE @],
        w  |-> w, ok |-> TRUE]
Direct(d, u) ==
  {Failed(d)} \cup
  {IF n = Len(u) THEN [c |-> d, w |-> u, ok |-> TRUE]
   ELSE Enqueued(d, SubSeq(u, n + 1, Len(u)), SubSeq(u, 1, n))
     : n \in IF d.connected THEN 0 .. Len(u) ELSE {0}}

(* Mutant: what is sent overtakes the queue.                                *)
SendInternal_bug(d, u) == IF d.fd # "open" THEN {Failed(d)} ELSE Direct(d, u)

SendInternal(d, u) ==
  IF d.fd # "open" THEN {Failed(d)}
  ELSE IF d.q # <<>> THEN {Enqueued(d, u, <<>>)}
  ELSE Direct(d, u)

(* What has been sent is the stream.                                        *)
Sends(o, u) ==
  /\ wire' = wire \o o.w
  /\ acc' = IF o.ok THEN acc \o u ELSE acc
(* conn_close(): the user is told.                                          *)
Closed(d) == [d EXCEPT !.q = <<>>, !.txq = 0, !.fd = "closed", !.watch = {}]
CloseConn(d) == c' = Closed(d) /\ Told("close")

-----------------------------------------------------------------------------
(* tcp_listen(): a socket, its address and fd_listen(), or nothing.         *)
Listen ==
  /\ ~ts.fd /\ \E ok \in BOOLEAN : ts' = [ts EXCEPT !.fd = ok]
  /\ UNCHANGED <<c, wire, acc, sent, shakes, evs, early>>
(* tcp_conn_handler(): accept() and the user's handler, which takes the     *)
(* connection, rejects it, or leaves it for later.                          *)
Incoming ==
  /\ ts.fd /\ c = NoConn /\ \E ok \in BOOLEAN : ts' = [ts EXCEPT !.fdc = ok]
  /\ UNCHANGED <<c, wire, acc, sent, shakes, evs, early>>
(* tcp_accept(), and perhaps tls_start_tcp() on the new connection.         *)
Accept ==
  /\ ts.fdc /\ c = NoConn /\ ts' = [ts EXCEPT !.fdc = FALSE]
  /\ \E t \in {"off", "wait"} : c' = [NoConn EXCEPT !.fd = "open", !.watch = {"R", "W"}, !.tls = t]
  /\ UNCHANGED <<wire, acc, sent, shakes, evs, early>>
Reject ==
  /\ ts.fdc /\ ts' = [ts EXCEPT !.fdc = FALSE]
  /\ UNCHANGED <<c, wire, acc, sent, shakes, evs, early>>
(* sock_destructor().                                                       *)
Unlisten ==
  /\ ts.fd /\ ts' = [fd |-> FALSE, fdc |-> FALSE]
  /\ UNCHANGED <<c, wire, acc, sent, shakes, evs, early>>
(* tcp_connect(): tcp_conn_alloc() and tcp_conn_connect(), with             *)
(* tcp_conn_bind() and tls_start_tcp() between them or not.  A connection   *)
(* that cannot be opened is freed.                                          *)
Connecting(t) == [NoConn EXCEPT !.fd = "open", !.active = TRUE, !.watch = {"R", "W"}, !.tls = t]
Connect ==
  /\ c = NoConn /\ ~ts.fdc
  /\ \E t \in {"off", "wait"} : c' = Connecting(t)
  /\ UNCHANGED <<ts, wire, acc, sent, shakes, evs, early>>

(* tcp_send(), through send_handler() and bio_write() of TLS, which needs   *)
(* its handshake done.                                                      *)
Outcomes(d, u) == IF d.tls = "wait" THEN {Failed(d)} ELSE SendInternal(d, u)
Send ==
  /\ c.fd \in {"open", "closed"} /\ sent < MaxMsg /\ sent' = sent + 1
  /\ \E o \in Outcomes(c, Units(sent + 1)) : c' = o.c /\ Sends(o, Units(sent + 1))
  /\ UNCHANGED <<ts, shakes, evs, early>>
(* tcp_set_send().                                                          *)
SetSend ==
  /\ c.fd = "open"
  /\ \E h \in BOOLEAN :
       c' = [c EXCEPT !.sendh = h, !.watch = IF c.q # <<>> \/ ~h THEN @ ELSE {"R", "W"}]
  /\ UNCHANGED <<ts, wire, acc, sent, shakes, evs, early>>
(* The user drops it: conn_destructor().                                    *)
Freed == [NoConn EXCEPT !.fd = "freed"]
Drop ==
  /\ c.fd \in {"open", "closed"} /\ c' = Freed
  /\ UNCHANGED <<ts, wire, acc, sent, shakes, evs, early>>

-----------------------------------------------------------------------------
(* tcp_recv_handler(), a pending error of the socket.                       *)
SockError ==
  /\ c.fd = "open" /\ c.watch # {} /\ CloseConn(c)
  /\ UNCHANGED <<ts, wire, acc, sent, shakes, early>>
(* A flight of the handshake, SSL_connect() or SSL_accept().                *)
Flight(d, o) ==
  /\ o \in SendInternal(d, <<<<0, shakes + 1>>>>) /\ Sends(o, <<<<0, shakes + 1>>>>)
  /\ shakes' = shakes + 1

(* The first FD_WRITE: established, and estab_handler() of TLS.             *)
Established ==
  /\ c.fd = "open" /\ "W" \in c.watch /\ ~c.connected
  /\ early' = (c.q # <<>> \/ c.sendh)
  /\ LET d == [c EXCEPT !.connected = TRUE, !.watch = {"R"}]
     IN  \/ /\ d.tls = "off" /\ c' = d /\ Told("estab") /\ UNCHANGED <<wire, acc, shakes>>
         \/ /\ d.tls # "off" /\ ~d.active /\ c' = d /\ UNCHANGED <<evs, wire, acc, shakes>>
         \/ /\ d.tls # "off" /\ d.active /\ shakes < MaxShake
            /\ \E o \in SendInternal(d, <<<<0, shakes + 1>>>>) :
                 /\ Flight(d, o)
                 /\ IF o.ok THEN c' = o.c /\ UNCHANGED evs ELSE CloseConn(o.c)
  /\ UNCHANGED <<ts, sent>>

(* A later FD_WRITE: dequeue(), which sends from the queue or calls the     *)
(* send handler, and the end of watching for it.                            *)
AfterDequeue(d) == [d EXCEPT !.watch = IF d.q = <<>> /\ ~d.sendh THEN {"R"} ELSE @]
Taken(d, n) ==
  LET h == Head(d.q)
  IN  [d EXCEPT !.txq = @ - n,
                !.q = IF n = Len(h) THEN Tail(@) ELSE <<SubSeq(h, n + 1, Len(h))>> \o Tail(@)]
Dequeue ==
  /\ c.fd = "open" /\ "W" \in c.watch /\ c.connected
  /\ \/ /\ c.q # <<>>
        /\ \E n \in 0 .. Len(Head(c.q)) :
             /\ c' = AfterDequeue(Taken(c, n)) /\ wire' = wire \o SubSeq(Head(c.q), 1, n)
             /\ UNCHANGED <<sent, acc, evs>>
     \/ /\ c.q # <<>> /\ CloseConn(c) /\ UNCHANGED <<wire, acc, sent>>         \* send() fails
     \/ /\ c.q = <<>> /\ ~c.sendh /\ c' = AfterDequeue(c) /\ UNCHANGED <<wire, acc, sent, evs>>
     \/ /\ c.q = <<>> /\ c.sendh /\ sent < MaxMsg /\ sent' = sent + 1
        /\ \E o \in Outcomes(c, Units(sent + 1)), h \in BOOLEAN :
             /\ c' = AfterDequeue([o.c EXCEPT !.sendh = h]) /\ Sends(o, Units(sent + 1))
        /\ UNCHANGED evs
  /\ UNCHANGED <<ts, shakes, early>>
(* The send handler drops the connection: the count of references tells.    *)
DequeueDrop ==
  /\ c.fd = "open" /\ "W" \in c.watch /\ c.connected /\ c.q = <<>> /\ c.sendh
  /\ c' = Freed
  /\ UNCHANGED <<ts, wire, acc, sent, shakes, evs, early>>

(* FD_READ: the end of the stream, an error of recv(), or data, which TLS   *)
(* may refuse or keep.                                                      *)
Readable == c.fd = "open" /\ "R" \in c.watch /\ c.connected
RecvEnd ==
  /\ Readable /\ CloseConn(c) /\ UNCHANGED <<ts, wire, acc, sent, shakes, early>>
RecvData ==
  /\ Readable /\ c.tls # "wait" /\ Len(evs) <= MaxRecv /\ Told("recv")
  /\ UNCHANGED <<ts, c, wire, acc, sent, shakes, early>>
(* recv_handler() of TLS in the handshake: more flights, or it is up; then  *)
(* the user is told, and gets the data that came along unless it has        *)
(* dropped the connection.                                                  *)
RecvShake ==
  /\ Readable /\ c.tls = "wait" /\ shakes < MaxShake
  /\ \E o \in SendInternal(c, <<<<0, shakes + 1>>>>) :
       /\ Flight(c, o)
       /\ \/ ~o.ok /\ CloseConn(o.c)
          \/ o.ok /\ c' = o.c /\ UNCHANGED evs
          \/ o.ok /\ c' = [o.c EXCEPT !.tls = "up"] /\ evs' \in {Append(evs, "estab"), evs \o <<"estab", "recv">>}
          \/ o.ok /\ c' = Freed /\ Told("estab")
  /\ UNCHANGED <<ts, sent, early>>

Next ==
  \/ Listen \/ Incoming \/ Accept \/ Reject \/ Unlisten \/ Connect \/ Send \/ SetSend \/ Drop
  \/ SockError \/ Established \/ Dequeue \/ DequeueDrop \/ RecvEnd \/ RecvData \/ RecvShake
Spec == Init /\ [][Next]_vars

-----------------------------------------------------------------------------
(* The values the variables can have.                                       *)
TypeOK ==
  /\ c.fd \in {"none", "open", "closed", "freed"} /\ c.watch \subseteq {"R", "W"}
  /\ c.txq \in Nat /\ sent \in 0 .. MaxMsg

(* tcp_send_internal(), enqueue(), dequeue(): the peer gets what was sent,  *)
(* unit by unit in the order of the sends, whatever parts the kernel takes  *)
(* and whichever of the user, the send handler and TLS sends; what it has   *)
(* not got is in the queue, and txqsz counts that and stays below its limit *)
(* and one message.                                                         *)
StreamIntact ==
  /\ c.fd = "open" => wire \o Flat(c.q) = acc
  /\ IsPrefix(wire, acc)
  /\ c.txq = Len(Flat(c.q)) /\ c.txq < TxqMax + 2

(* A queue is never left alone: the loop watches for the moment it can be   *)
(* written, unless it was filled (or a send handler set) before the         *)
(* connection was established, when that moment is missed.                  *)
QueueDrains ==
  c.fd = "open" /\ (c.q # <<>> \/ c.sendh) => "W" \in c.watch \/ early

(* The user hears of the connection once, of data only after that, and of   *)
(* its end once and last.                                                   *)
EventsInOrder ==
  /\ \A i \in 1 .. Len(evs) :
       /\ evs[i] = "close" => i = Len(evs)
       /\ evs[i] = "estab" => i = 1
       /\ evs[i] = "recv" => evs[1] = "estab"
=============================================================================
