-------------------------------- MODULE RtpPorts -------------------------------
(***************************************************************************)
(* RTP sockets in a range of ports (re/src/rtp/rtp.c): every one needs an  *)
(* even port for RTP and the next for RTCP, drawn at random, both free;    *)
(* other programs take and leave ports in between.  With rtcp_mux both     *)
(* kinds of packets come to the RTP port and are told apart by their type. *)
(***************************************************************************)
EXTENDS Integers, FiniteSets

CONSTANTS
    Rs,                 \* RTP sockets
    MinPort, MaxPort,   \* the range given to rtp_listen()
    Tries               \* draws before rtp_listen() gives up (64)

VARIABLES
    rs,      \* state of a socket: "none", "listening" or "bound"
    port,    \* the port rs->local was set to
    tries,   \* draws left
    mux,     \* rs->rtcp_mux
    bound,   \* ports bound by this program: port -> the socket
    other,   \* ports other programs have
    got      \* packets handed on: [kind, to]

vars == <<rs, port, tries, mux, bound, other, got>>

Ports == MinPort - 1 .. MaxPort + 1
NONE == "none"

Init ==
    /\ rs = [r \in Rs |-> "none"] /\ port = [r \in Rs |-> 0] /\ tries = [r \in Rs |-> 0]
    /\ mux = [r \in Rs |-> FALSE] /\ bound = [p \in Ports |-> NONE]
    /\ other \in {{}, {MinPort}, {MinPort + 1}} /\ got = {}

(* another program takes or leaves a port *)
OtherTakes ==
    \E p \in Ports :
        /\ bound[p] = NONE
        /\ other' = IF p \in other THEN other \ {p} ELSE {p}
        /\ UNCHANGED <<rs, port, tries, mux, bound, got>>

(* udp_listen() *)
Free(p) == bound[p] = NONE /\ p \notin other

(* rtp_alloc() and rtp_listen() up to the first draw *)
Listen(r) ==
    /\ rs[r] = "none" /\ \A q \in Rs : rs[q] # "listening"
    /\ rs' = [rs EXCEPT ![r] = "listening"]
    /\ tries' = [tries EXCEPT ![r] = Tries]
    /\ UNCHANGED <<port, mux, bound, other, got>>

(* port = min + rand % (max - min), made even *)
Draws == {((MinPort + d) \div 2) * 2 : d \in 0 .. MaxPort - MinPort - 1}

(* one turn of udp_range_listen(): both ports, or none and another draw *)
Draw(r) ==
    \E p \in Draws :
        /\ rs[r] = "listening" /\ tries[r] > 0
        /\ port' = [port EXCEPT ![r] = p]
        /\ tries' = [tries EXCEPT ![r] = @ - 1]
        /\ IF Free(p) /\ Free(p + 1)
           THEN /\ bound' = [bound EXCEPT ![p] = r, ![p + 1] = r]
                /\ rs' = [rs EXCEPT ![r] = "bound"]
           ELSE UNCHANGED <<bound, rs>>
        /\ UNCHANGED <<mux, other, got>>

(* no draw left: the error of the last one, the socket goes *)
GiveUp(r) ==
    /\ rs[r] = "listening" /\ tries[r] = 0
    /\ rs' = [rs EXCEPT ![r] = "none"]
    /\ port' = [port EXCEPT ![r] = 0]
    /\ UNCHANGED <<tries, mux, bound, other, got>>

(* rtcp_enable_mux() *)
SetMux(r) ==
    /\ rs[r] = "bound" /\ mux' = [mux EXCEPT ![r] = ~@]
    /\ UNCHANGED <<rs, port, tries, bound, other, got>>

(* udp_recv_handler() and rtcp_recv_handler(): what a packet that arrives is
   taken for.  RTCP in the stream of a socket that does not multiplex is
   taken for RTP. *)
TakenFor(r, kind, p) ==
    IF p = port[r] + 1 THEN "rtcp"
    ELSE IF mux[r] /\ kind = "rtcp" THEN "rtcp" ELSE "rtp"

Recv(r) ==
    \E kind \in {"rtp", "rtcp"} :
        \E p \in (IF kind = "rtp" \/ mux[r] THEN {port[r]} ELSE {port[r] + 1}) :
            /\ rs[r] = "bound" /\ bound[p] = r
            /\ got' = {[kind |-> kind, to |-> TakenFor(r, kind, p)]}
            /\ UNCHANGED <<rs, port, tries, mux, bound, other>>

(* destructor() *)
Close(r) ==
    /\ rs[r] = "bound"
    /\ rs' = [rs EXCEPT ![r] = "none"]
    /\ bound' = [p \in Ports |-> IF bound[p] = r THEN NONE ELSE bound[p]]
    /\ port' = [port EXCEPT ![r] = 0] /\ mux' = [mux EXCEPT ![r] = FALSE]
    /\ UNCHANGED <<tries, other, got>>

Next ==
    \/ \E r \in Rs : Listen(r) \/ Draw(r) \/ GiveUp(r) \/ SetMux(r) \/ Recv(r) \/ Close(r)
    \/ OtherTakes

Spec == Init /\ [][Next]_vars

TypeOK ==
    /\ rs \in [Rs -> {"none", "listening", "bound"}] /\ tries \in [Rs -> 0..Tries]
    /\ bound \in [Ports -> Rs \cup {NONE}] /\ other \subseteq Ports

(* A socket that listens has an even port and the one after it, from the
   range (one below it when the range starts at an odd port); no two
   programs or sockets share one, and a socket that gave up after a draw
   half successful holds none.  A packet is taken for what it is. *)
PortsInPairs ==
    /\ \A r \in Rs : {p \in Ports : bound[p] = r} =
          IF rs[r] = "bound" THEN {port[r], port[r] + 1} ELSE {}
    /\ \A r \in Rs : rs[r] = "bound" =>
          port[r] % 2 = 0 /\ port[r] >= (MinPort \div 2) * 2 /\ port[r] < MaxPort
    /\ \A p \in other : bound[p] = NONE
    /\ \A m \in got : m.to = m.kind
===============================================================================
