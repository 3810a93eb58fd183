------------------------------ MODULE HttpServer ------------------------------
(***************************************************************************)
(* The connections of libre's HTTP server (re/src/http/server.c): what TCP *)
(* delivers - any number of bytes at a time - is collected, cut into       *)
(* requests by header and content length, and each request is handed to    *)
(* the user, who may close the connection in the middle.  A byte stream is *)
(* a sequence of units <<k, i, n>>: the header of request k (i = 0), which *)
(* tells the length n of the body, and then the n units of its body.       *)
(***************************************************************************)
EXTENDS Integers, Sequences, FiniteSetsExt

CONSTANTS
    Conn,    \* connections
    Body,    \* lengths a request's body may have, in units
    MaxReqs, \* bound on the requests of a connection
    BufMax   \* BUFSIZE_MAX, in units

VARIABLES
    sock,    \* the listening socket exists
    listed,  \* connections in sock->connl, with their timer running
    tc,      \* connections whose TCP connection is there
    wire,    \* per connection: units the peer has sent and TCP holds
    next,    \* per connection: the next request the peer sends
    mb,      \* per connection: conn->mb
    served,  \* per connection: requests handed to the user, header and body
    sent     \* per connection: everything the peer has sent

vars == <<sock, listed, tc, wire, next, mb, served, sent>>

Request(k, n) == [i \in 1 .. n + 1 |-> <<k, i - 1, n>>]

(* the last unit of a request *)
IsLast(u) == u[2] = u[3]

Init ==
    /\ sock = TRUE /\ listed = {} /\ tc = {}
    /\ wire = [c \in Conn |-> <<>>] /\ next = [c \in Conn |-> 1]
    /\ mb = [c \in Conn |-> <<>>] /\ served = [c \in Conn |-> <<>>]
    /\ sent = [c \in Conn |-> <<>>]

(* connect_handler(); an error frees the connection and rejects it *)
Accept(c) ==
    /\ sock /\ c \notin listed /\ next[c] = 1 /\ served[c] = <<>>
    /\ listed' = listed \cup {c} /\ tc' = tc \cup {c}
    /\ UNCHANGED <<sock, wire, next, mb, served, sent>>

(* the peer pipelines its next request *)
PeerSends(c, n) ==
    /\ c \in tc /\ next[c] <= MaxReqs
    /\ wire' = [wire EXCEPT ![c] = @ \o Request(next[c], n)]
    /\ sent' = [sent EXCEPT ![c] = @ \o Request(next[c], n)]
    /\ next' = [next EXCEPT ![c] = @ + 1]
    /\ UNCHANGED <<sock, listed, tc, mb, served>>

(* conn_close() and mem_deref() *)
Frees(c) ==
    /\ listed' = listed \ {c} /\ tc' = tc \ {c}
    /\ mb' = [mb EXCEPT ![c] = <<>>] /\ wire' = [wire EXCEPT ![c] = <<>>]

(* where the complete requests of a buffer end: the header says how long the
   body is *)
Complete(buf) == {i \in DOMAIN buf : IsLast(buf[i])}

(* how far the loop of recv_handler() gets: to the end of the last complete
   request, or of request number `stop' *)
Cut(buf, stop) ==
    LET ends == Complete(buf)
    IN  IF stop # 0 THEN CHOOSE e \in ends : Cardinality({d \in ends : d <= e}) = stop
        ELSE IF ends = {} THEN 0 ELSE Max(ends)

(* recv_handler(): take n units; hand over every complete request, in
   order, until the user closes the connection at request number `stop'
   of this buffer (0: it does not) *)
Recv(c, n, stop) ==
    LET buf == mb[c] \o SubSeq(wire[c], 1, n)
        cut == Cut(buf, stop)
    IN  /\ c \in tc /\ n \in 1 .. Len(wire[c])
        /\ stop <= Cardinality(Complete(buf))
        /\ IF Len(mb[c]) > 0 /\ Len(buf) > BufMax
           THEN Frees(c) /\ UNCHANGED <<sock, next, served, sent>>
           ELSE /\ served' = [served EXCEPT ![c] = @ \o SubSeq(buf, 1, cut)]
                /\ UNCHANGED <<sock, next, sent>>
                /\ IF stop > 0 THEN Frees(c)
                   ELSE /\ mb' = [mb EXCEPT ![c] = SubSeq(buf, cut + 1, Len(buf))]
                        /\ wire' = [wire EXCEPT ![c] = SubSeq(@, n + 1, Len(@))]
                        /\ UNCHANGED <<listed, tc>>

(* http_conn_close() by the user between two requests: only the transport
   goes, the object stays for its timer *)
UserCloses(c) ==
    /\ c \in tc /\ served[c] # <<>>
    /\ tc' = tc \ {c} /\ wire' = [wire EXCEPT ![c] = <<>>]
    /\ UNCHANGED <<sock, listed, next, mb, served, sent>>

(* close_handler() *)
PeerCloses(c) ==
    /\ c \in tc
    /\ Frees(c) /\ UNCHANGED <<sock, next, served, sent>>

(* timeout_handler(): TIMEOUT_INIT, or TIMEOUT_IDLE after a request *)
Timeout(c) ==
    /\ c \in listed
    /\ Frees(c) /\ UNCHANGED <<sock, next, served, sent>>

(* sock_destructor(), outside the user's request handler *)
Close ==
    /\ sock /\ sock' = FALSE
    /\ listed' = {} /\ tc' = {}
    /\ mb' = [c \in Conn |-> <<>>] /\ wire' = [c \in Conn |-> <<>>]
    /\ UNCHANGED <<next, served, sent>>

Next ==
    \/ \E c \in Conn : Accept(c) \/ UserCloses(c) \/ PeerCloses(c) \/ Timeout(c)
    \/ \E c \in Conn, n \in Body : PeerSends(c, n)
    \/ \E c \in Conn : \E n \in 1 .. Len(wire[c]) :
          \E stop \in 0 .. MaxReqs : Recv(c, n, stop)
    \/ Close

Spec == Init /\ [][Next]_vars

TypeOK == listed \subseteq Conn /\ tc \subseteq Conn /\ sock \in BOOLEAN

(* Wherever TCP cuts the stream, the user gets the peer's requests whole,
   in order and once each: what was served, what is kept and what is on
   the wire is the peer's stream, and no complete request is kept back. *)
RequestsWhole ==
    \A c \in tc :
        /\ served[c] \o mb[c] \o wire[c] = sent[c]
        /\ Complete(mb[c]) = {}
        /\ served[c] # <<>> => IsLast(served[c][Len(served[c])])

(* No connection is forgotten: each has its object in the socket's list,
   whose timer is running, and the socket outlives them all. *)
ConnectionsListed == tc \subseteq listed /\ (~sock => listed = {})
===============================================================================
