---------------------------------- MODULE Rtp ----------------------------------
(***************************************************************************)
(* The receiving side of an RTP socket and its RTCP session (re/src/rtp):  *)
(* the table of members, the per-source sequence bookkeeping of RFC 3550   *)
(* with 16-bit numbers that wrap, the periodic reports, BYE.  The network  *)
(* loses, duplicates and reorders packets, and a peer may restart its      *)
(* numbers.  The sequence space and its two windows are constants, to be   *)
(* scaled down (65536, 3000 and 100 in the code).  A packet is known by    *)
(* its extended number, of which the code only sees the low bits.          *)
(***************************************************************************)
EXTENDS Integers, FiniteSets

CONSTANTS
    Ssrc,        \* synchronization sources
    SeqMod,      \* RTP_SEQ_MOD
    MaxDropout,  \* MAX_DROPOUT
    MaxMisorder, \* MAX_MISORDER
    MaxMembers,  \* MAX_MEMBERS
    Firsts,      \* extended numbers a peer may start with
    MaxSent,     \* bound on the packets of a peer
    MaxRecv      \* bound on the packets received from a source

VARIABLES
    members,  \* ssrc -> member, for the ssrc in the hash table
    memberc,  \* sess->memberc
    senderc,  \* sess->senderc
    rtcp,     \* [cname, tmr]: RTCP was started; the report timer runs
    report,   \* the last report: [count, fractions]
    peer,     \* per ssrc, the peer's side: [next, left, old]
    open      \* the socket exists

vars == <<members, memberc, senderc, rtcp, report, peer, open>>

SeqNo(e) == e % SeqMod
None == [base |-> -1]

(* source_init_seq(); b0 and top follow the extended numbers, which the
   code does not have: where it synchronised and the highest one since *)
InitSeq(e) ==
    [base |-> SeqNo(e), max |-> SeqNo(e), bad |-> SeqMod + 1, cycles |-> 0,
     received |-> 0, rprior |-> 0, eprior |-> 0, b0 |-> e, top |-> e,
     zero |-> FALSE]

(* source_update_seq(), probation being unused *)
UpdateSeq(s, e) ==
    LET seq == SeqNo(e)
        udelta == (seq - s.max) % SeqMod
        Got(t) == [t EXCEPT !.received = @ + 1]
    IN  CASE udelta < MaxDropout ->
               Got([s EXCEPT !.cycles = IF seq < s.max THEN @ + SeqMod ELSE @,
                             !.max = seq, !.top = e])
          [] udelta >= MaxDropout /\ udelta <= SeqMod - MaxMisorder ->
               IF seq = s.bad THEN Got(InitSeq(e))
               ELSE [s EXCEPT !.bad = (seq + 1) % SeqMod]
          [] OTHER -> Got(s)

(* the first packet of a source: max_seq is put one below it *)
FirstSeq(e) ==
    [InitSeq(e) EXCEPT !.max = (SeqNo(e) - 1) % SeqMod, !.zero = (SeqNo(e) = 0)]

Expected(s) == s.cycles + s.max - s.base + 1

(* source_calc_fraction_lost(), before it is cut to a byte *)
Fraction(s) ==
    LET ei == Expected(s) - s.eprior
        li == ei - (s.received - s.rprior)
    IN  IF ei = 0 \/ li <= 0 THEN 0 ELSE (li * 256) \div ei

Reported(s) == [s EXCEPT !.eprior = Expected(s), !.rprior = s.received]

(* get_member(): member_find() or member_add() while there is room *)
HasMember(ssrc) == ssrc \in DOMAIN members \/ memberc < MaxMembers
GetMember(ssrc) ==
    IF ssrc \in DOMAIN members THEN members
    ELSE [x \in DOMAIN members \cup {ssrc} |->
             IF x = ssrc THEN None ELSE members[x]]

Init ==
    /\ members = <<>> /\ memberc = 0 /\ senderc = 0
    /\ rtcp = [cname |-> FALSE, tmr |-> FALSE]
    /\ report = [count |-> 0, fractions |-> <<>>]
    /\ peer \in [Ssrc -> {[next |-> f, left |-> MaxSent, old |-> f] : f \in Firsts}]
    /\ open = TRUE

(* the peer sends: nothing of ours changes *)
PeerSends(ssrc) ==
    /\ peer[ssrc].left > 0
    /\ peer' = [peer EXCEPT ![ssrc].next = @ + 1, ![ssrc].left = @ - 1]
    /\ UNCHANGED <<members, memberc, senderc, rtcp, report, open>>

(* the peer starts again, once, half the sequence space away; what it sent before
   has left the network *)
PeerRestarts(ssrc) ==
    LET e == peer[ssrc].next + SeqMod \div 2
    IN  /\ peer[ssrc].left > 0 /\ peer[ssrc].old \in Firsts
        /\ peer' = [peer EXCEPT ![ssrc].next = e + 1, ![ssrc].left = @ - 1,
                                ![ssrc].old = e]
        /\ UNCHANGED <<members, memberc, senderc, rtcp, report, open>>

(* Packets that are still under way: any sent since the start, except the
   ones that fell too far behind what the receiver has *)
UnderWay(ssrc) ==
    {e \in peer[ssrc].old .. peer[ssrc].next - 1 :
        ssrc \in DOMAIN members /\ members[ssrc] # None
            => e > members[ssrc].top - MaxMisorder}

(* udp_recv_handler() and rtcp_sess_rx_rtp() *)
Rx(ssrc, e) ==
    /\ open /\ e \in UnderWay(ssrc)
    /\ HasMember(ssrc)
    /\ LET ms == GetMember(ssrc)
           s  == IF ms[ssrc] = None THEN FirstSeq(e) ELSE ms[ssrc]
       IN  /\ s.received < MaxRecv
           /\ members' = [ms EXCEPT ![ssrc] = UpdateSeq(s, e)]
           /\ memberc' = Cardinality(DOMAIN ms) - Cardinality(DOMAIN members) + memberc
           /\ senderc' = IF ms[ssrc] = None THEN senderc + 1 ELSE senderc
    /\ UNCHANGED <<rtcp, report, peer, open>>

(* handle_incoming_sr(), handle_incoming_rr(): a report makes a member *)
RxReport(ssrc) ==
    /\ open /\ HasMember(ssrc)
    /\ ssrc \notin DOMAIN members
    /\ members' = GetMember(ssrc)
    /\ memberc' = memberc + 1
    /\ UNCHANGED <<senderc, rtcp, report, peer, open>>

(* handle_incoming_bye(): members and their sources go *)
RxBye(ssrc) ==
    /\ open /\ ssrc \in DOMAIN members
    /\ members' = [x \in DOMAIN members \ {ssrc} |-> members[x]]
    /\ memberc' = memberc - 1
    /\ senderc' = IF members[ssrc] # None THEN senderc - 1 ELSE senderc
    /\ UNCHANGED <<rtcp, report, peer, open>>

(* rtcp_start(), rtcp_enable() *)
RtcpStart(enabled) ==
    /\ open
    /\ rtcp' = [cname |-> TRUE, tmr |-> enabled]
    /\ UNCHANGED <<members, memberc, senderc, report, peer, open>>

(* timeout(): mk_sr() with one block per source, then schedule() *)
Timeout ==
    /\ open /\ rtcp.tmr
    /\ LET src == {x \in DOMAIN members : members[x] # None}
       IN  /\ report' = [count |-> senderc,
                         fractions |-> [x \in src |-> Fraction(members[x])]]
           /\ members' = [x \in DOMAIN members |->
                             IF x \in src THEN Reported(members[x]) ELSE members[x]]
    /\ rtcp' = [rtcp EXCEPT !.tmr = TRUE]
    /\ UNCHANGED <<memberc, senderc, peer, open>>

(* destructor(), sess_destructor() *)
Close ==
    /\ open /\ open' = FALSE
    /\ members' = <<>> /\ memberc' = 0 /\ senderc' = 0
    /\ rtcp' = [cname |-> FALSE, tmr |-> FALSE]
    /\ UNCHANGED <<report, peer>>

Next ==
    \/ \E x \in Ssrc : PeerSends(x) \/ PeerRestarts(x) \/ RxReport(x) \/ RxBye(x)
    \/ \E x \in Ssrc : \E e \in UnderWay(x) : Rx(x, e)
    \/ \E b \in BOOLEAN : RtcpStart(b)
    \/ Timeout \/ Close

Spec == Init /\ [][Next]_vars

TypeOK ==
    /\ DOMAIN members \subseteq Ssrc
    /\ memberc \in 0..MaxMembers /\ senderc \in 0..MaxMembers
    /\ open \in BOOLEAN

(* The two counters of the session are the number of members and of senders
   in the table, so that a report announces as many blocks as it carries
   and every fraction fits the byte it is written to. *)
ReportsWellFormed ==
    /\ memberc = Cardinality(DOMAIN members)
    /\ senderc = Cardinality({x \in DOMAIN members : members[x] # None})
    /\ report.count = Cardinality(DOMAIN report.fractions)
    /\ \A x \in DOMAIN report.fractions : report.fractions[x] \in 0..255

(* However packets are lost, doubled and reordered within the windows, the
   16-bit bookkeeping spans exactly the packets from the one it
   synchronised on to the highest one received - and one cycle too many
   when the very first packet has number 0, because max_seq then starts at
   65535 and the packet looks like a wrap. *)
SequenceTracked ==
    \A x \in DOMAIN members :
        members[x] # None =>
            Expected(members[x]) =
                members[x].top - members[x].b0 + 1
                    + (IF members[x].zero THEN SeqMod ELSE 0)
===============================================================================
