----------------------------- MODULE DnsClient ------------------------------
(***************************************************************************)
(* The DNS client of libre (dns/client.c): queries over UDP, which go from *)
(* server to server on time-outs, and over TCP, where queries share the    *)
(* connection to a server and move to the next server when it fails.  A    *)
(* server is its index in srvv.  What a handler does before it returns is  *)
(* one step, except that the queries of a failed connection are moved one  *)
(* by one: those that are still to be moved are in todo.                   *)
(***************************************************************************)
EXTENDS Naturals, FiniteSets

CONSTANTS Query,     \* queries
          Srvc,      \* number of servers
          NtxMax     \* NTX_MAX, the UDP transmissions of a query
VARIABLES q,         \* struct dns_query of each
          conn,      \* the connection to each server: "none", "connecting", "connected"
          ctmr,      \* servers whose connection has its timer running
          todo       \* queries that lost their connection and are to be moved

vars == <<q, conn, ctmr, todo>>
Servers == 1 .. Srvc

Unused == [st |-> "none", proto |-> "udp", ntx |-> 0, tc |-> 0, tmr |-> FALSE,
           err |-> FALSE, calls |-> 0]

Init ==
  /\ q = [i \in Query |-> Unused] /\ conn = [s \in Servers |-> "none"]
  /\ ctmr = {} /\ todo = {}

Quiet == todo = {}
Active(i) == q[i].st = "active"
On(s) == {i \in Query : Active(i) /\ q[i].tc = s}

-----------------------------------------------------------------------------
(* query_handler() and the release of the query: its handler is called.     *)
Done(r) == [r EXCEPT !.st = "done", !.tc = 0, !.tmr = FALSE, !.calls = @ + 1]

(* Mutant: the handler of a query that query() refuses is called too.       *)
Fails_bug(r) ==
  IF r.st = "starting" THEN [Done(r) EXCEPT !.st = "refused"] ELSE Done(r)

(* A query that could not be sent: query() returns the error, and the       *)
(* handler is not called; later on it is.                                   *)
Fails(r) ==
  IF r.st = "starting" THEN [r EXCEPT !.st = "refused", !.tc = 0, !.tmr = FALSE]
                       ELSE Done(r)

(* Mutant: a retransmission does not start the timer again.                 *)
SendUdp_bug(r) ==
  {[r EXCEPT !.ntx = @ + k, !.st = "active", !.tmr = (r.ntx = 0)] : k \in Servers}

(* send_udp() tries each server at most once; ntx goes on counting.         *)
SendUdp(r) == {[r EXCEPT !.ntx = @ + k, !.st = "active", !.tmr = TRUE] : k \in Servers}

(* query() over UDP.                                                        *)
UdpQuery(i) ==
  /\ Quiet /\ q[i].st = "none"
  /\ LET r == [Unused EXCEPT !.st = "starting"] IN
     \E x \in SendUdp(r) \cup {Fails(r)} : q' = [q EXCEPT ![i] = x]
  /\ UNCHANGED <<conn, ctmr, todo>>

(* udp_timeout_handler(); a failure of the server (SRV_FAIL) only makes it  *)
(* run earlier.                                                             *)
UdpTimeout(i) ==
  /\ Quiet /\ Active(i) /\ q[i].proto = "udp" /\ q[i].tmr
  /\ \E x \in (IF q[i].ntx < NtxMax THEN SendUdp(q[i]) ELSE {}) \cup {Fails(q[i])} :
       q' = [q EXCEPT ![i] = x]
  /\ UNCHANGED <<conn, ctmr, todo>>

(* reply_recv() for a datagram; one that matches no query is ignored.       *)
UdpReply(i) ==
  /\ Quiet /\ Active(i) /\ q[i].proto = "udp"
  /\ q' = [q EXCEPT ![i] = Done(@)] /\ UNCHANGED <<conn, ctmr, todo>>

-----------------------------------------------------------------------------
(* query() over TCP: the first server is yet to be tried.                   *)
TcpQuery(i) ==
  /\ Quiet /\ q[i].st = "none"
  /\ q' = [q EXCEPT ![i] = [Unused EXCEPT !.st = "starting", !.proto = "tcp"]]
  /\ todo' = {i} /\ UNCHANGED <<conn, ctmr>>

(* tcpconn_close(): the queries g of the connection lose it and are to be   *)
(* moved; r is the table of queries.                                        *)
Close(s, r) ==
  /\ conn' = [conn EXCEPT ![s] = "none"] /\ ctmr' = ctmr \ {s}
  /\ q' = [i \in Query |-> IF r[i].tc = s THEN [r[i] EXCEPT !.tc = 0] ELSE r[i]]
  /\ todo' = todo \cup {i \in On(s) : r[i].st = "active"}

Attach(r, s) == [r EXCEPT !.st = "active", !.ntx = s, !.tc = s, !.tmr = TRUE,
                          !.err = FALSE]
Settle(i, r) == q' = [q EXCEPT ![i] = r] /\ todo' = todo \ {i}

(* One turn of the loop of send_tcp().  A connection is opened, or fails to *)
(* open; an established one is used, or fails and is closed; one that is    *)
(* still connecting is joined, and then the error that an earlier server    *)
(* left behind is returned all the same.                                    *)
SendTcp(i) ==
  LET r == q[i]
      s == r.ntx + 1
      nextServer == [r EXCEPT !.ntx = s, !.err = TRUE]
  IN
  /\ i \in todo
  /\ \/ r.ntx >= Srvc /\ Settle(i, Fails(r)) /\ UNCHANGED <<conn, ctmr>>
     \/ /\ r.ntx < Srvc /\ conn[s] = "none" /\ Settle(i, Attach(r, s))
        /\ conn' = [conn EXCEPT ![s] = "connecting"] /\ ctmr' = ctmr \cup {s}
     \/ /\ r.ntx < Srvc /\ conn[s] = "none"
        /\ q' = [q EXCEPT ![i] = nextServer] /\ UNCHANGED <<conn, ctmr, todo>>
     \/ /\ r.ntx < Srvc /\ conn[s] = "connecting"
        /\ Settle(i, IF r.err THEN Fails(r) ELSE Attach(r, s)) /\ UNCHANGED <<conn, ctmr>>
     \/ /\ r.ntx < Srvc /\ conn[s] = "connected"
        /\ Settle(i, Attach(r, s)) /\ UNCHANGED <<conn, ctmr>>
     \/ /\ r.ntx < Srvc /\ conn[s] = "connected"
        /\ Close(s, [q EXCEPT ![i] = nextServer])

(* tcp_estab_handler(): the queries that wait are sent.                     *)
TcpEstab(s) ==
  /\ Quiet /\ conn[s] = "connecting"
  /\ \/ conn' = [conn EXCEPT ![s] = "connected"] /\ UNCHANGED <<q, ctmr, todo>>
     \/ Close(s, q)

(* tcp_close_handler() and tcpconn_timeout_handler(); also a failure of the *)
(* server (SRV_FAIL) and an answer that matches no query, such as one that  *)
(* comes after its query has timed out, close the connection.               *)
TcpCloses(s) == Quiet /\ conn[s] # "none" /\ Close(s, q)

(* tcp_recv_handler(): an answer, or one that does not decode, for which    *)
(* the connection is closed too.  The parts of a zone transfer are awaited. *)
TcpReply(i) ==
  /\ Quiet /\ Active(i) /\ q[i].tc # 0 /\ conn[q[i].tc] = "connected"
  /\ \/ q' = [q EXCEPT ![i] = Done(@)] /\ UNCHANGED <<conn, ctmr, todo>>
     \/ Close(q[i].tc, [q EXCEPT ![i] = Done(@)])

(* tcp_timeout_handler()                                                    *)
TcpTimeout(i) ==
  /\ Quiet /\ Active(i) /\ q[i].proto = "tcp" /\ q[i].tmr
  /\ q' = [q EXCEPT ![i] = Done(@)] /\ UNCHANGED <<conn, ctmr, todo>>

-----------------------------------------------------------------------------
(* The user releases the query: query_destructor().                         *)
Drop(i) ==
  /\ Quiet /\ Active(i)
  /\ q' = [q EXCEPT ![i] = [@ EXCEPT !.st = "dropped", !.tc = 0, !.tmr = FALSE]]
  /\ UNCHANGED <<conn, ctmr, todo>>

(* dnsc_destructor(): every query is told, and the connections go.          *)
Destroy ==
  /\ Quiet
  /\ q' = [i \in Query |-> IF Active(i) THEN Done(q[i])
                           ELSE [q[i] EXCEPT !.st = IF @ = "none" THEN "refused" ELSE @]]
  /\ conn' = [s \in Servers |-> "none"] /\ ctmr' = {} /\ UNCHANGED todo

Next ==
  \/ \E i \in Query : \/ UdpQuery(i) \/ UdpTimeout(i) \/ UdpReply(i) \/ TcpQuery(i)
                      \/ SendTcp(i) \/ TcpReply(i) \/ TcpTimeout(i) \/ Drop(i)
  \/ \E s \in Servers : TcpEstab(s) \/ TcpCloses(s)
  \/ Destroy

(* The main loop runs the handlers of timers that are due, and a handler    *)
(* that has begun ends.                                                     *)
Fairness ==
  \A i \in Query : WF_vars(UdpTimeout(i)) /\ WF_vars(TcpTimeout(i)) /\ WF_vars(SendTcp(i))
Spec == Init /\ [][Next]_vars /\ Fairness

-----------------------------------------------------------------------------
(* The values the fields can have.                                          *)
TypeOK ==
  /\ \A i \in Query :
       /\ q[i].st \in {"none", "starting", "active", "done", "dropped", "refused"}
       /\ q[i].tc \in 0 .. Srvc /\ q[i].ntx \in 0 .. NtxMax + Srvc
  /\ conn \in [Servers -> {"none", "connecting", "connected"}]
  /\ ctmr \subseteq Servers /\ todo \subseteq Query

(* The handler of a query is called once when it was accepted and not       *)
(* dropped, and never otherwise: query_handler() clears it, but eight paths *)
(* end a query, and one of them moves the queries of a connection while     *)
(* others end them.                                                         *)
HandlerOnce ==
  \A i \in Query : q[i].calls = IF q[i].st = "done" THEN 1 ELSE 0

(* Between handlers every query that is under way has its own time-out      *)
(* running, and over TCP it is on an open connection that is watched by a   *)
(* timer: no connection that closes leaves a query behind.                  *)
QueriesWatched ==
  Quiet =>
    /\ \A i \in Query : Active(i) =>
         q[i].tmr /\ (q[i].proto = "tcp" => q[i].tc # 0 /\ conn[q[i].tc] # "none")
    /\ \A s \in Servers : conn[s] # "none" <=> s \in ctmr

(* Every query ends.                                                        *)
QueryEnds == \A i \in Query : Active(i) ~> ~Active(i)
=============================================================================
