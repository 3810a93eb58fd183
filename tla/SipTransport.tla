---------------------------- MODULE SipTransport ----------------------------
(***************************************************************************)
(* The connections of libre's SIP transport (sip/transp.c) and the         *)
(* keep-alives over TCP and UDP (sip/keepalive.c, sip/keepalive_udp.c).    *)
(* A message for a peer without an established connection waits in the     *)
(* queue of the connection; the one that sends it is told when it fails,   *)
(* and may send it again at once, from within that call.  All messages go  *)
(* to one peer; connections from outside come from other addresses.  A     *)
(* connection is kept alive by the table and by a received message (held). *)
(* s is the pair of the connections and the messages.                      *)
(***************************************************************************)
EXTENDS Naturals, Sequences, SequencesExt

CONSTANTS Conn, Msg,
          Tries,     \* bound on the times a message is given to the transport
          Joins      \* bound on the keep-alives that are started
VARIABLES s, ka,     \* ka: a keep-alive over TCP
          uc,        \* struct sip_udpconn, and its keep-alive
          up         \* the stack is up

vars == <<s, ka, uc, up>>

NoConn == [st |-> "none", peer |-> "dst", est |-> FALSE, ql |-> <<>>, tmr |-> FALSE,
           tka |-> FALSE, held |-> FALSE]
NoUdp == [on |-> FALSE, kal |-> FALSE, tmr |-> FALSE, ct |-> FALSE, told |-> 0, joined |-> 0]
Init ==
  /\ s = [conn |-> [c \in Conn |-> NoConn],
          msg |-> [m \in Msg |-> [st |-> "new", tries |-> 0, ends |-> 0]]]
  /\ ka = [at |-> {}, told |-> 0, joined |-> 0] /\ uc = NoUdp /\ up = TRUE

Try(x, m) == [x EXCEPT !.msg[m].tries = @ + 1]
EndsAs(x, m, how) == [x EXCEPT !.msg[m].st = how, !.msg[m].ends = @ + 1]
EndAll(x, ms, how) ==
  [x EXCEPT !.msg = [m \in Msg |-> IF m \in ms THEN [@[m] EXCEPT !.st = how, !.ends = @ + 1]
                                   ELSE @[m]]]

(* conn_find()                                                              *)
Found(x) == {c \in Conn : x.conn[c].st = "open" /\ x.conn[c].peer = "dst"}
Enqueued(x, c, m) == [x EXCEPT !.conn[c].ql = Append(@, m), !.msg[m].st = "queued"]
Opened(x, c, peer) == [x EXCEPT !.conn[c] = [NoConn EXCEPT !.st = "open", !.peer = peer]]

(* conn_send(): what giving m to the transport can lead to.                 *)
ConnSend(x, m) ==
  LET refused == EndsAs(x, m, "refused")
  IN  IF Found(x) = {}
      THEN {refused} \cup {Enqueued(Opened(x, c, "dst"), c, m) :
                           c \in {d \in Conn : x.conn[d].st = "none"}}
      ELSE UNION {IF x.conn[c].est THEN {refused, EndsAs(x, m, "sent")}
                  ELSE {Enqueued(x, c, m)} : c \in Found(x)}

(* conn_close() and the mem_deref() that follows it: the connection leaves  *)
(* the table, then the owners of the queued messages are told one by one,   *)
(* and each may send its message again from within that call: over a new    *)
(* connection, over the one that an owner before it has made, or in vain.   *)
Left(x, c) == [x EXCEPT !.conn[c] = IF @.held THEN [NoConn EXCEPT !.st = "dead", !.held = TRUE]
                                    ELSE NoConn]
Told(x, m) ==
  LET y == EndsAs(x, m, "failed")
  IN  {y} \cup IF y.msg[m].tries < Tries THEN ConnSend(Try(y, m), m) ELSE {}
Close(x, c) ==
  FoldLeft(LAMBDA X, m : UNION {Told(y, m) : y \in X}, {Left(x, c)}, x.conn[c].ql)

(* sip_keepalive_signal(): the keep-alives of the connection are told.      *)
CloseConn(c) ==
  /\ s' \in Close(s, c)
  /\ ka' = IF c \in ka.at THEN [ka EXCEPT !.at = {}, !.told = @ + 1] ELSE ka
  /\ UNCHANGED <<uc, up>>

-----------------------------------------------------------------------------
(* sip_transp_send() for TCP and TLS, without a connection.                 *)
Send(m) ==
  /\ up /\ s.msg[m].st \in {"new", "failed", "refused"} /\ s.msg[m].tries < Tries
  /\ s' \in ConnSend(Try(s, m), m) /\ UNCHANGED <<ka, uc, up>>
(* sip_transp_send() on the connection of a received message, as a reply.   *)
Reply(m, c) ==
  /\ up /\ s.conn[c].held /\ s.msg[m].st = "new" /\ s.msg[m].tries < Tries
  /\ LET x == Try(s, m)
     IN  s' \in IF s.conn[c].st = "open" THEN {EndsAs(x, m, "sent"), EndsAs(x, m, "refused")}
                ELSE ConnSend(x, m)
  /\ UNCHANGED <<ka, uc, up>>
(* The owner frees its queue entry: qent_destructor()                       *)
Forget(m) ==
  /\ s.msg[m].st = "queued"
  /\ s' = [EndsAs(s, m, "dropped") EXCEPT !.conn =
             [c \in Conn |-> [@[c] EXCEPT !.ql = SelectSeq(@, LAMBDA k : k # m)]]]
  /\ UNCHANGED <<ka, uc, up>>

(* tcp_connect_handler()                                                    *)
Accept(c) ==
  /\ up /\ s.conn[c].st = "none"
  /\ s' = [Opened(s, c, "in") EXCEPT !.conn[c].tmr = TRUE] /\ UNCHANGED <<ka, uc, up>>

(* tcp_estab_handler(): the queue is sent, some of it perhaps in vain.      *)
Estab(c) ==
  /\ s.conn[c].st = "open" /\ ~s.conn[c].est
  /\ \E failed \in SUBSET ToSet(s.conn[c].ql) :
       s' = [EndAll(EndAll(s, failed, "failed"), ToSet(s.conn[c].ql) \ failed, "sent")
             EXCEPT !.conn[c].est = TRUE, !.conn[c].ql = <<>>]
  /\ UNCHANGED <<ka, uc, up>>

(* tcp_close_handler(), conn_tmr_handler()                                  *)
TcpClosed(c) == s.conn[c].st = "open" /\ CloseConn(c)
ConnTmr(c) == s.conn[c].st = "open" /\ s.conn[c].tmr /\ CloseConn(c)

(* tcp_recv_handler(): whatever arrives stops the timer.  A message may   *)
(* be held, what is left over waits for more; a bad one, one without a length   *)
(* and a full buffer close the connection.                                  *)
TcpRecv(c) ==
  /\ s.conn[c].st = "open" /\ s.conn[c].est
  /\ \/ \E h \in BOOLEAN :
          /\ s' = [s EXCEPT !.conn[c].tmr = FALSE, !.conn[c].held = @ \/ h]
          /\ UNCHANGED <<ka, uc, up>>
     \/ CloseConn(c)
Release(c) ==
  /\ s.conn[c].held
  /\ s' = [s EXCEPT !.conn[c] = IF @.st = "dead" THEN NoConn ELSE [@ EXCEPT !.held = FALSE]]
  /\ UNCHANGED <<ka, uc, up>>

(* sip_keepalive_start() and sip_keepalive_tcp(), for a received message.   *)
KaTcp(c) ==
  /\ up /\ s.conn[c].held /\ ka.at = {} /\ ka.joined + uc.joined < Joins
  /\ s.conn[c].st = "open" /\ s.conn[c].est
  /\ ka' = [ka EXCEPT !.at = {c}, !.joined = @ + 1]
  /\ s' = [s EXCEPT !.conn[c].tka = TRUE] /\ UNCHANGED <<uc, up>>
KaStop == ka.at # {} /\ ka' = [ka EXCEPT !.at = {}, !.told = @ + 1] /\ UNCHANGED <<s, uc, up>>
(* conn_keepalive_handler(): the peer has to answer within ten seconds.     *)
ConnKeepalive(c) ==
  /\ s.conn[c].st = "open" /\ s.conn[c].tka
  /\ \/ s' = [s EXCEPT !.conn[c].tmr = TRUE] /\ UNCHANGED <<ka, uc, up>>
     \/ CloseConn(c)

(* sip_keepalive_udp()                                                      *)
KaUdp ==
  /\ up /\ ~uc.kal /\ ka.joined + uc.joined < Joins
  /\ uc' = [uc EXCEPT !.kal = TRUE, !.joined = @ + 1, !.on = TRUE,
                      !.tmr = IF uc.on THEN @ ELSE TRUE]
  /\ UNCHANGED <<s, ka, up>>
KaUdpStop ==
  /\ uc.kal /\ uc' = [uc EXCEPT !.kal = FALSE, !.told = @ + 1] /\ UNCHANGED <<s, ka, up>>
(* udpconn_close(): the keep-alive is told.                                 *)
UdpClosed(u) ==
  [u EXCEPT !.on = FALSE, !.tmr = FALSE, !.ct = FALSE, !.kal = FALSE,
            !.told = IF u.kal THEN @ + 1 ELSE @]
(* udpconn_keepalive_handler()                                              *)
UdpKeepalive ==
  /\ uc.tmr
  /\ uc' \in {UdpClosed(uc)} \cup
             IF uc.kal THEN {[uc EXCEPT !.tmr = FALSE, !.ct = TRUE]} ELSE {}
  /\ UNCHANGED <<s, ka, up>>
(* stun_response_handler(): an error, or an address that has changed.       *)
UdpResponse ==
  /\ uc.ct
  /\ uc' \in {UdpClosed(uc), [uc EXCEPT !.ct = FALSE, !.tmr = TRUE]}
  /\ UNCHANGED <<s, ka, up>>

(* The tables are flushed when the stack goes; the transactions, which own  *)
(* the queue entries and hold the messages, go before.                      *)
Flush ==
  /\ up /\ up' = FALSE
  /\ s' = [EndAll(s, {m \in Msg : s.msg[m].st = "queued"}, "dropped")
           EXCEPT !.conn = [c \in Conn |-> NoConn]]
  /\ ka' = IF ka.at = {} THEN ka ELSE [ka EXCEPT !.at = {}, !.told = @ + 1]
  /\ uc' = UdpClosed(uc)

Next ==
  \/ \E m \in Msg : Send(m) \/ Forget(m) \/ \E c \in Conn : Reply(m, c)
  \/ \E c \in Conn : \/ Accept(c) \/ Estab(c) \/ TcpClosed(c) \/ ConnTmr(c) \/ TcpRecv(c)
                     \/ Release(c) \/ KaTcp(c) \/ ConnKeepalive(c)
  \/ KaStop \/ KaUdp \/ KaUdpStop \/ UdpKeepalive \/ UdpResponse \/ Flush
Spec == Init /\ [][Next]_vars

-----------------------------------------------------------------------------
(* The values the fields can have.                                          *)
TypeOK ==
  /\ \A c \in Conn : s.conn[c].st \in {"none", "open", "dead"} /\ s.conn[c].ql \in Seq(Msg)
  /\ \A m \in Msg : s.msg[m].tries \in 0 .. Tries

One(b) == IF b THEN 1 ELSE 0

(* Every message given to the transport ends once for each time it is given *)
(* (written, refused, reported as failed or forgotten by its owner), or it  *)
(* waits once in the queue of one connection that is still being set up and *)
(* will be reported on; a second connection to the peer is never made.      *)
MessagesAccounted ==
  /\ \A m \in Msg :
       LET at == {c \in Conn : m \in ToSet(s.conn[c].ql)}
       IN  /\ s.msg[m].tries = s.msg[m].ends + One(s.msg[m].st = "queued")
           /\ (s.msg[m].st = "queued") <=> (at # {})
           /\ \A c \in at : s.conn[c].st = "open" /\ ~s.conn[c].est /\ at = {c}
  /\ \A c \in Conn : IsInjective(s.conn[c].ql)
  /\ \A c, d \in Found(s) : c = d

(* A keep-alive is kept by a flow that still sends, and its user is told    *)
(* once when the flow is lost; a connection that is closed has no timer.    *)
KeepalivesWatched ==
  /\ \A c \in ka.at : s.conn[c].st = "open" /\ s.conn[c].tka
  /\ ka.joined = ka.told + One(ka.at # {})
  /\ uc.on => (uc.tmr # uc.ct)
  /\ uc.kal => uc.on
  /\ uc.joined = uc.told + One(uc.kal)
  /\ \A c \in Conn : s.conn[c].st # "open" => ~s.conn[c].tmr /\ ~s.conn[c].tka
=============================================================================
