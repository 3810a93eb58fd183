------------------------------- MODULE SipDialog -------------------------------
(***************************************************************************)
(* SIP dialogs (re/src/sip/dialog.c): a caller's half dialog that becomes  *)
(* whole with the first answer (sip_dialog_create) or is forked for the    *)
(* answer of another branch (sip_dialog_fork), the callees' dialogs        *)
(* (sip_dialog_accept), and the requests both sides then send, which the   *)
(* network reorders and repeats: they are matched by their tags, refused   *)
(* when their CSeq is old, and may move the peer's contact                 *)
(* (sip_dialog_update).  A dialog owns two buffers, its headers `mb' and   *)
(* the string `uri', and `route' points into one of them.                  *)
(***************************************************************************)
EXTENDS Integers, FiniteSets

CONSTANTS
    Branch,   \* the callees a request may be forked to
    Contact,  \* addresses they may be reached at
    MaxSeq,   \* bound on the requests of a dialog
    MaxBuf    \* bound on the buffers allocated

VARIABLES
    uac,    \* the caller's dialogs: "half" and one per branch
    uas,    \* the callees' dialogs, one per branch
    net,    \* requests and answers that were sent
    heap,   \* live buffers
    bufs    \* number of buffers allocated so far

vars == <<uac, uas, net, heap, bufs>>

NIL == "nil"
CALLER == "caller"   \* the tag of the caller
None == [ltag |-> NIL]
Legs == Branch \cup {"half"}
Own(d) == {d.mb, d.uri}

(* A dialog whose first route is rr (NIL when there is none) and whose
   contact is c, in buffers b (mb) and b + 1 (uri) *)
Dialog(ltag, rtag, lseq, rseq, rr, c, b, half) ==
    [ltag |-> ltag, rtag |-> rtag, lseq |-> lseq, rseq |-> rseq,
     mb |-> b, uri |-> b + 1, contact |-> c,
     route |-> IF rr = NIL THEN [buf |-> b + 1, to |-> c] ELSE [buf |-> b, to |-> rr],
     rr |-> rr, half |-> half]

Alloc(own) ==
    /\ bufs + 2 <= MaxBuf
    /\ bufs' = bufs + 2
    /\ heap' = (heap \ own) \cup {bufs, bufs + 1}

Init ==
    /\ uac = [l \in Legs |-> None] /\ uas = [b \in Branch |-> None]
    /\ net = {} /\ heap = {} /\ bufs = 0

(* sip_dialog_alloc() and the first request, which makes CSeq lseq *)
Invite(rr) ==
    /\ uac["half"] = None /\ bufs = 0
    /\ Alloc({})
    /\ uac' = [uac EXCEPT !["half"] = Dialog(CALLER, NIL, 2, 0, rr, "registrar", bufs, TRUE)]
    /\ net' = {[kind |-> "invite", cseq |-> 1]}
    /\ UNCHANGED uas

(* sip_dialog_accept() in branch b, with the first Record-Route rr and the
   contact c of the request; a contact or a route that does not parse leaves
   nothing behind *)
Accept(b, rr, c) ==
    /\ [kind |-> "invite", cseq |-> 1] \in net /\ uas[b] = None
    /\ Alloc({})
    /\ uas' = [uas EXCEPT ![b] = Dialog(b, CALLER, 1, 1, rr, c, bufs, FALSE)]
    /\ net' = net \cup {[kind |-> "answer", leg |-> b, rr |-> rr, contact |-> k] : k \in Contact}
    /\ UNCHANGED uac

(* sip_dialog_create(): the first answer makes the half dialog whole.  The
   new headers are put together in a buffer of their own and swapped in
   once everything parsed *)
Create(b, ok) ==
    \E m \in net :
        LET d == uac["half"] IN
        /\ m.kind = "answer" /\ m.leg = b
        /\ d # None /\ d.half
        /\ IF ok
           THEN /\ Alloc(Own(d))
                /\ uac' = [uac EXCEPT !["half"] =
                              Dialog(d.ltag, b, d.lseq, 0, m.rr, m.contact, bufs, FALSE)]
           ELSE UNCHANGED <<uac, heap, bufs>>
        /\ UNCHANGED <<uas, net>>

(* sip_dialog_fork(): the answer of another branch gets a dialog of its own
   while the first is still half; call id, own tag and number are shared *)
Fork(b) ==
    \E m \in net :
        LET d == uac["half"] IN
        /\ m.kind = "answer" /\ m.leg = b
        /\ d # None /\ d.half /\ uac[b] = None
        /\ Alloc({})
        /\ uac' = [uac EXCEPT ![b] =
                      Dialog(d.ltag, b, d.lseq, 0, m.rr, m.contact, bufs, FALSE)]
        /\ UNCHANGED <<uas, net>>

(* sip_dialog_encode() of a request that is no ACK; it carries a contact *)
Request(d, from, c) ==
    [kind |-> "request", from |-> from, ltag |-> d.ltag, rtag |-> d.rtag,
     cseq |-> d.lseq, contact |-> c, via |-> d.route.to]

CallerSends(l, c) ==
    /\ uac[l] # None /\ uac[l].rtag # NIL /\ uac[l].lseq <= MaxSeq
    /\ net' = net \cup {Request(uac[l], CALLER, c)}
    /\ uac' = [uac EXCEPT ![l].lseq = @ + 1]
    /\ UNCHANGED <<uas, heap, bufs>>

CalleeSends(b, c) ==
    /\ uas[b] # None /\ uas[b].lseq <= MaxSeq
    /\ net' = net \cup {Request(uas[b], b, c)}
    /\ uas' = [uas EXCEPT ![b].lseq = @ + 1]
    /\ UNCHANGED <<uac, heap, bufs>>

(* sip_dialog_cmp() *)
Cmp(d, m) == d # None /\ m.rtag = d.ltag /\ m.ltag = d.rtag

(* sip_dialog_rseq_valid() *)
RseqValid(d, m) == m.cseq >= d.rseq

(* sip_dialog_update(): a new uri string; the route moves along when it
   points into the old one.  Otherwise the first route stays *)
Update(d, c, b) ==
    [d EXCEPT !.uri = b, !.contact = c,
              !.route = IF d.route.buf = d.uri THEN [buf |-> b, to |-> c] ELSE @]

(* a request arrives at the side it is for; target: it refreshes the
   contact.  A request that no dialog matches, or an old one, changes
   nothing *)
Receives(d, m, target) ==
    IF target THEN Update([d EXCEPT !.rseq = m.cseq], m.contact, bufs)
    ELSE [d EXCEPT !.rseq = m.cseq]

TakesBuf(d, target) ==
    IF target
    THEN bufs < MaxBuf /\ bufs' = bufs + 1 /\ heap' = (heap \ {d.uri}) \cup {bufs}
    ELSE UNCHANGED <<bufs, heap>>

CallerGets(l, m, target) ==
    /\ m \in net /\ m.kind = "request" /\ m.from # CALLER
    /\ Cmp(uac[l], m) /\ RseqValid(uac[l], m)
    /\ uac' = [uac EXCEPT ![l] = Receives(@, m, target)]
    /\ TakesBuf(uac[l], target)
    /\ UNCHANGED <<uas, net>>

CalleeGets(b, m, target) ==
    /\ m \in net /\ m.kind = "request" /\ m.from = CALLER
    /\ Cmp(uas[b], m) /\ RseqValid(uas[b], m)
    /\ uas' = [uas EXCEPT ![b] = Receives(@, m, target)]
    /\ TakesBuf(uas[b], target)
    /\ UNCHANGED <<uac, net>>

(* destructor() *)
CallerFrees(l) ==
    /\ uac[l] # None
    /\ uac' = [uac EXCEPT ![l] = None] /\ heap' = heap \ Own(uac[l])
    /\ UNCHANGED <<uas, net, bufs>>

CalleeFrees(b) ==
    /\ uas[b] # None
    /\ uas' = [uas EXCEPT ![b] = None] /\ heap' = heap \ Own(uas[b])
    /\ net' = net \ {[kind |-> "invite", cseq |-> 1]}
    /\ UNCHANGED <<uac, bufs>>

Next ==
    \/ \E rr \in {NIL, "proxy"} : Invite(rr)
    \/ \E b \in Branch, rr \in {NIL, "proxy"}, c \in Contact : Accept(b, rr, c)
    \/ \E b \in Branch, ok \in BOOLEAN : Create(b, ok)
    \/ \E b \in Branch : Fork(b) \/ CalleeFrees(b)
    \/ \E l \in Legs : CallerFrees(l)
    \/ \E l \in Legs, c \in Contact : CallerSends(l, c)
    \/ \E b \in Branch, c \in Contact : CalleeSends(b, c)
    \/ \E m \in net, t \in BOOLEAN :
          \/ \E l \in Legs : CallerGets(l, m, t)
          \/ \E b \in Branch : CalleeGets(b, m, t)

Spec == Init /\ [][Next]_vars

Dialogs == ({uac[l] : l \in Legs} \cup {uas[b] : b \in Branch}) \ {None}

TypeOK ==
    /\ bufs \in 0..MaxBuf /\ heap \subseteq 0..MaxBuf
    /\ \A d \in Dialogs : d.lseq \in 1 .. MaxSeq + 1 /\ d.rseq \in 0..MaxSeq

(* The route of a dialog always points into a buffer the dialog owns, no
   matter how often its contact moved or its headers were replaced, and no
   buffer is freed while used or kept when nobody owns it. *)
RouteAlive ==
    /\ \A d \in Dialogs : d.route.buf \in Own(d)
    /\ heap = UNION {Own(d) : d \in Dialogs}

(* A dialog with a route set sends to its first route for ever; one without
   sends to the last contact it was told. *)
RouteRight ==
    \A d \in Dialogs : d.route.to = IF d.rr = NIL THEN d.contact ELSE d.rr

(* Dialogs that come from one forked request never mix: a request of a
   callee belongs to at most one dialog of the caller, and to the one that
   was made from this callee's answer. *)
ForksApart ==
    \A m \in {x \in net : x.kind = "request" /\ x.from # CALLER} :
        \A l \in Legs : Cmp(uac[l], m) => uac[l].rtag = m.from

(* A dialog only moves forward: repeated and overtaken requests never set
   the peer's number back, and the own number is never used twice. *)
NumbersRise ==
    [][/\ \A l \in Legs : uac[l] # None /\ uac'[l] # None =>
             uac'[l].lseq >= uac[l].lseq
             /\ (uac'[l].half = uac[l].half => uac'[l].rseq >= uac[l].rseq)
       /\ \A b \in Branch : uas[b] # None /\ uas'[b] # None =>
             uas'[b].lseq >= uas[b].lseq /\ uas'[b].rseq >= uas[b].rseq]_vars
===============================================================================
