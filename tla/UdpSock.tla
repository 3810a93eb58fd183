------------------------------ MODULE UdpSock -------------------------------
(***************************************************************************)
(* A UDP socket of libre (udp/udp.c) with its helpers: the protocol layers *)
(* (STUN, TURN, ICE, DTLS) that see a datagram on its way out from the     *)
(* highest layer down and on its way in from the lowest layer up.  Every   *)
(* helper wraps what passes it and sends datagrams of its own; the helper  *)
(* "turn" also redirects them to its server.  The network echoes, loses    *)
(* and reorders datagrams.                                                 *)
(***************************************************************************)
EXTENDS Naturals, Sequences, SequencesExt, FiniteSets

CONSTANTS Helper, Layer,  \* Layer[h] is the layer h registers with
          Peer,           \* the peers; Af[p] is the address family
          Af, Server,     \* the server of "turn"
          MaxNet          \* bound on the datagrams in the network
VARIABLES us,             \* the socket
          net,            \* the datagrams: layers outermost first, who made it, where it goes
          last            \* what the user got last, if the helpers were those it was sent with

vars == <<us, net, last>>
NoSock == [fds |-> {}, watched |-> {}, conn |-> FALSE, kpeer |-> "none", err |-> FALSE, helpers |-> <<>>]
Nothing == [layers |-> <<>>, kind |-> "user"]
Init == us = NoSock /\ net = {} /\ last = Nothing

-----------------------------------------------------------------------------
(* udp_listen(): a socket of each family that can be bound, an IPv6 one in  *)
(* fd6; udp_thread_attach() registers both or none, and without a socket    *)
(* there is nothing.                                                        *)
Listen ==
  /\ us.fds = {} /\ \E f \in SUBSET {4, 6} : us' = [NoSock EXCEPT !.fds = f, !.watched = f]
  /\ UNCHANGED <<net, last>>
(* udp_destructor(): the helpers are flushed.                               *)
Destroy == us.fds # {} /\ us' = NoSock /\ net' = {} /\ UNCHANGED last
(* udp_thread_attach() and udp_thread_detach().                             *)
Attach == us' = [us EXCEPT !.watched = us.fds] /\ UNCHANGED <<net, last>>
Detach == us' = [us EXCEPT !.watched = {}] /\ UNCHANGED <<net, last>>
(* udp_connect().                                                           *)
SetConn == us.fds # {} /\ \E b \in BOOLEAN : us' = [us EXCEPT !.conn = b] /\ UNCHANGED <<net, last>>

(* udp_register_helper(): appended, then list_sort() by layer, which keeps  *)
(* the order of equal layers.                                               *)
Sorted(hs) ==
  CHOOSE s \in SetToSeqs(ToSet(hs)) :
    \A i, j \in 1 .. Len(s) : i < j =>
      \/ Layer[s[i]] < Layer[s[j]]
      \/ Layer[s[i]] = Layer[s[j]] /\
           (CHOOSE k \in 1 .. Len(hs) : hs[k] = s[i]) < (CHOOSE k \in 1 .. Len(hs) : hs[k] = s[j])
Register ==
  /\ us.fds # {}
  /\ \E h \in Helper \ ToSet(us.helpers) : us' = [us EXCEPT !.helpers = Sorted(Append(@, h))]
  /\ UNCHANGED <<net, last>>
(* helper_destructor().                                                     *)
Unregister ==
  /\ \E h \in ToSet(us.helpers) : us' = [us EXCEPT !.helpers = SelectSeq(@, LAMBDA g : g # h)]
  /\ UNCHANGED <<net, last>>

-----------------------------------------------------------------------------
(* udp_send_internal() from the helpers in hs down: the socket is chosen by *)
(* the address the sender gave, before a helper may change it.              *)
Fd(dst) == IF Af[dst] = 6 /\ 6 \in us.fds THEN 6 ELSE 4
Wrapped(hs) == hs      \* the lowest layer, at the head, wraps last
Goes(hs, dst) == IF "turn" \in ToSet(hs) THEN Server ELSE dst
Datagram(kind, hs, dst) ==
  [layers |-> Wrapped(hs), kind |-> kind, dst |-> dst, to |-> Goes(hs, dst), fd |-> Fd(dst),
   via |-> us.helpers]
Reaches(d, to) == net' = net \cup {[d EXCEPT !.to = to]}
SendInternal(kind, hs, dst) ==
  LET d == Datagram(kind, hs, dst)
  IN  \/ us.err /\ us' = [us EXCEPT !.err = FALSE] /\ UNCHANGED net        \* the cached error
      \/ ~us.err /\ UNCHANGED <<us, net>>                              \* sendto() fails
      \/ /\ ~us.err /\ ~us.conn /\ d.fd \in us.fds /\ Af[d.to] = d.fd /\ Cardinality(net) < MaxNet
         /\ Reaches(d, d.to) /\ UNCHANGED us
      \/ /\ ~us.err /\ us.conn /\ d.fd \in us.fds /\ Af[d.to] = d.fd /\ Cardinality(net) < MaxNet
         /\ us' = [us EXCEPT !.kpeer = d.to] /\ Reaches(d, d.to)
      \/ /\ ~us.err /\ us.conn /\ us.kpeer # "none" /\ d.fd = Af[us.kpeer] /\ d.fd \in us.fds
         /\ Cardinality(net) < MaxNet
         /\ us' = [us EXCEPT !.conn = FALSE] /\ Reaches(d, us.kpeer)     \* connect() fails
(* udp_send(); udp_send_helper(), from the helper below h.                  *)
Send == us.fds # {} /\ \E p \in Peer : SendInternal("user", us.helpers, p) /\ UNCHANGED last
Below(h) == SelectInSeq(us.helpers, LAMBDA g : g = h) - 1
SendHelper ==
  /\ \E h \in ToSet(us.helpers), p \in Peer : SendInternal(h, SubSeq(us.helpers, 1, Below(h)), p)
  /\ UNCHANGED last

(* udp_read(): the helpers from the lowest up.  One takes its layer off, a  *)
(* helper that gets an answer to a datagram of its own keeps it, the others *)
(* let it pass.                                                             *)
Peel(ls, h) == IF ls # <<>> /\ Head(ls) = h THEN Tail(ls) ELSE ls
Peeled(ls, hs) == FoldLeft(Peel, ls, hs)
Kept(d) ==
  \E i \in 1 .. Len(us.helpers) :
    /\ us.helpers[i] = d.kind
    /\ Peeled(d.layers, SubSeq(us.helpers, 1, i - 1)) = <<>>
Read ==
  /\ \E d \in net :
       /\ d.fd \in us.watched /\ net' = net \ {d}
       /\ IF Kept(d) \/ d.via # us.helpers THEN UNCHANGED last
          ELSE last' = [layers |-> Peeled(d.layers, us.helpers), kind |-> d.kind]
  /\ UNCHANGED us
(* recvfrom() reports what happened to an earlier datagram.                 *)
ReadError ==
  /\ us.watched # {} /\ us' = [us EXCEPT !.err = TRUE] /\ UNCHANGED <<net, last>>
Lose == \E d \in net : net' = net \ {d} /\ UNCHANGED <<us, last>>

Next ==
  \/ Listen \/ Destroy \/ Attach \/ Detach \/ SetConn \/ Register \/ Unregister
  \/ Send \/ SendHelper \/ Read \/ ReadError \/ Lose
Spec == Init /\ [][Next]_vars

-----------------------------------------------------------------------------
(* The values the variables can have.                                       *)
TypeOK ==
  /\ us.fds \subseteq {4, 6} /\ us.watched \subseteq us.fds /\ ToSet(us.helpers) \subseteq Helper
  /\ Cardinality(net) <= MaxNet

(* udp_send_internal(), udp_read(), udp_register_helper(): in whatever      *)
(* order helpers come and go, a datagram leaves with the lowest layer       *)
(* outermost, and while they have not changed in between, what comes back   *)
(* to the user is what the user has sent: no layer is left on it and no     *)
(* datagram of a helper gets past that helper.                              *)
LayersMatch ==
  /\ \A d \in net : \A i, j \in 1 .. Len(d.layers) : i < j => Layer[d.layers[i]] <= Layer[d.layers[j]]
  /\ last = Nothing
=============================================================================
