---------------------------------- MODULE Bfcp ---------------------------------
(***************************************************************************)
(* A BFCP client socket (re/src/bfcp/sock.c, req.c, rep.c): requests under *)
(* 16-bit transaction ids and a timer of their own, one TCP connection to  *)
(* the server that is made when it is first needed, what is sent before it *)
(* is up waiting in one buffer.  The server answers requests in any order  *)
(* and sends notices under id 0.                                           *)
(***************************************************************************)
EXTENDS Integers, Sequences, FiniteSets

CONSTANTS
    TidMod,   \* size of the transaction id space (65536)
    MaxReq    \* bound on the requests made

VARIABLES
    sock,     \* the socket exists
    tidc,     \* sock->tidc
    transl,   \* pending transactions: tid -> request number
    conn,     \* the connection: "none", "connecting", "up"
    mbtx,     \* conn->mbtx: what was sent before the connection was up
    wire,     \* per direction, what TCP carries: [out, in], of [tid, req]
    server,   \* requests the server has and did not answer
    reqs,     \* number of requests made
    told      \* the calls of the users' handlers: [req, how, of]

vars == <<sock, tidc, transl, conn, mbtx, wire, server, reqs, told>>

Msg(tid, req) == [tid |-> tid, req |-> req]
NOTICE == Msg(0, 0)

Init ==
    /\ sock = TRUE /\ tidc = 0 /\ transl = <<>> /\ conn = "none"
    /\ mbtx = <<>> /\ wire = [out |-> <<>>, in |-> <<>>] /\ server = {}
    /\ reqs = 0 /\ told = {}

Remove(tid) == [t \in DOMAIN transl \ {tid} |-> transl[t]]

(* conn_destructor(): what was on its way is lost *)
Drops ==
    /\ conn' = "none" /\ mbtx' = <<>> /\ server' = {}
    /\ wire' = [out |-> <<>>, in |-> <<>>]

(* ctrans_new(): 0 is skipped when the counter wraps *)
NextTid == IF (tidc + 1) % TidMod = 0 THEN 1 ELSE (tidc + 1) % TidMod

(* What is to be flushed; what a failed flush left in mbtx is never sent. *)
Buffered == IF conn = "connecting" THEN mbtx ELSE <<>>

(* ids of requests and answers under way: none of them lasts for the 65535
   requests it takes to come to its id again *)
InUse ==
    DOMAIN transl \cup {m.tid : m \in server}
        \cup {Buffered[i].tid : i \in DOMAIN Buffered}
        \cup {wire.out[i].tid : i \in DOMAIN wire.out}
        \cup {wire.in[i].tid : i \in DOMAIN wire.in}

(* bfcp_send(): over the connection when it is up, else into its buffer,
   and conn_add() and tcp_connect() when there is none *)
Sends(m) ==
    IF conn = "up"
    THEN wire' = [wire EXCEPT !.out = Append(@, m)] /\ UNCHANGED <<conn, mbtx>>
    ELSE conn' = "connecting" /\ mbtx' = Append(mbtx, m) /\ UNCHANGED wire

(* bfcp_request(); when sending fails the connection and
   the transaction go and the user has the error code *)
Request ==
    LET m == Msg(NextTid, reqs + 1)
    IN  /\ sock /\ reqs < MaxReq
        /\ NextTid \notin InUse
        /\ reqs' = reqs + 1 /\ tidc' = NextTid
        /\ \/ /\ transl' = [t \in DOMAIN transl \cup {m.tid} |->
                               IF t = m.tid THEN m.req ELSE transl[t]]
              /\ Sends(m)
              /\ UNCHANGED <<server, told>>
           \/ /\ Drops /\ UNCHANGED transl
              /\ told' = told \cup {[req |-> m.req, how |-> "refused", of |-> m.req]}
        /\ UNCHANGED sock

(* tcp_estab_handler(): the buffer is flushed in one go; when tcp_send()
   fails it stays, on a connection that counts as established *)
Estab ==
    /\ sock /\ conn = "connecting" /\ conn' = "up"
    /\ \/ mbtx' = <<>> /\ wire' = [wire EXCEPT !.out = @ \o mbtx]
       \/ mbtx # <<>> /\ UNCHANGED <<mbtx, wire>>
    /\ UNCHANGED <<sock, tidc, transl, server, reqs, told>>

(* tcp_close_handler(): transactions are not told, their timers are *)
Closed ==
    /\ sock /\ conn # "none"
    /\ Drops /\ UNCHANGED <<sock, tidc, transl, reqs, told>>

ServerGets ==
    /\ wire.out # <<>>
    /\ server' = server \cup {Head(wire.out)}
    /\ wire' = [wire EXCEPT !.out = Tail(@)]
    /\ UNCHANGED <<sock, tidc, transl, conn, mbtx, reqs, told>>

ServerAnswers ==
    \E m \in server :
        /\ server' = server \ {m}
        /\ wire' = [wire EXCEPT !.in = Append(@, m)]
        /\ UNCHANGED <<sock, tidc, transl, conn, mbtx, reqs, told>>

ServerNotifies ==
    /\ conn = "up" /\ Len(wire.in) < 2
    /\ wire' = [wire EXCEPT !.in = Append(@, NOTICE)]
    /\ UNCHANGED <<sock, tidc, transl, conn, mbtx, server, reqs, told>>

(* tcp_recv_handler() for one message: bfcp_ctrans_find() and
   bfcp_ctrans_completed(), or the socket's message handler *)
Recv ==
    /\ sock /\ wire.in # <<>>
    /\ wire' = [wire EXCEPT !.in = Tail(@)]
    /\ LET m == Head(wire.in)
       IN  IF m.tid \in DOMAIN transl
           THEN /\ told' = told \cup {[req |-> transl[m.tid], how |-> "answer", of |-> m.req]}
                /\ transl' = Remove(m.tid)
           ELSE UNCHANGED <<told, transl>>
    /\ UNCHANGED <<sock, tidc, conn, mbtx, server, reqs>>

(* timeout() *)
Timeout(tid) ==
    /\ sock /\ tid \in DOMAIN transl
    /\ told' = told \cup {[req |-> transl[tid], how |-> "timeout", of |-> transl[tid]]}
    /\ transl' = Remove(tid)
    /\ UNCHANGED <<sock, tidc, conn, mbtx, wire, server, reqs>>

(* destructor(): pending transactions go without a word *)
Free ==
    /\ sock /\ sock' = FALSE /\ transl' = <<>>
    /\ Drops /\ UNCHANGED <<tidc, reqs, told>>

Next ==
    \/ Request \/ Estab \/ Closed \/ ServerGets \/ ServerAnswers
    \/ ServerNotifies \/ Recv \/ Free
    \/ \E tid \in 1 .. TidMod - 1 : Timeout(tid)

Spec == Init /\ [][Next]_vars /\ \A tid \in 1 .. TidMod - 1 : WF_vars(Timeout(tid))

TypeOK ==
    /\ tidc \in 0 .. TidMod - 1 /\ DOMAIN transl \subseteq 1 .. TidMod - 1
    /\ conn \in {"none", "connecting", "up"} /\ reqs \in 0..MaxReq

(* Each user hears one thing about its request, and an answer it hears is
   the one to its request - although ids are used again after a wrap, old
   answers arrive after the timeout and connections come and go. *)
AnswersMatch ==
    /\ \A a, b \in told : a.req = b.req => a = b
    /\ \A a \in told : a.of = a.req

(* Nothing is left waiting: while the socket lives, a request is pending
   under its timer or its user has heard; a buffer belongs to a connection,
   and what a failed flush leaves there has no one but the timer. *)
RequestsHeld ==
    /\ sock => \A r \in 1..reqs :
          \/ \E t \in DOMAIN transl : transl[t] = r
          \/ \E a \in told : a.req = r
    /\ mbtx # <<>> => conn # "none"

(* Every pending request is answered in the end. *)
RequestEnds == \A tid \in 1 .. TidMod - 1 : (tid \in DOMAIN transl) ~> (tid \notin DOMAIN transl)
===============================================================================
