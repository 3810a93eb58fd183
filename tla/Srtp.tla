---------------------------------- MODULE Srtp ---------------------------------
(***************************************************************************)
(* The packet index of SRTP and SRTCP (re/src/srtp): both ends keep a      *)
(* roll-over counter and the highest 16-bit sequence number and must come  *)
(* to the same 48-bit index, from which key stream and tag are made; the   *)
(* receiver takes every index once.  The network loses, doubles and        *)
(* reorders, within limits; ciphers and tags are sound, so a tag fits      *)
(* exactly when both ends have the same counter.  A packet is known by its *)
(* true number e, of which the code sees e % Mod on the wire.              *)
(***************************************************************************)
EXTENDS Integers, FiniteSets

CONSTANTS
    Ssrc,        \* sources
    MaxStreams,  \* MAX_STREAMS
    Mod,         \* size of the sequence space (65536)
    Window,      \* SRTP_WINDOW_SIZE (64)
    Firsts,      \* numbers a source may start with
    Reorder,     \* how far behind the last packet one may arrive
    MaxSent      \* bound on the packets of a source

VARIABLES
    tx,     \* per source, the sender's stream: [next, roc, s_l, set, rtcp]
    rx,     \* the receiver's streams: [roc, s_l, lix, seen, clix, cseen]
    got,    \* per source: the packets accepted so far
    count,  \* per source: how many were accepted
    last    \* what the last srtp_decrypt() did: [ssrc, e, ix, res]

vars == <<tx, rx, got, count, last>>

Half == Mod \div 2
Nothing == [res |-> "none", e |-> 0, ix |-> 0, ssrc |-> CHOOSE x \in Ssrc : TRUE]

(* the sequence number part of both ends: seq_diff() and the roll-over *)
Diff(s, seq) == seq - s.s_l
RollsOver(s, seq) ==
    IF Diff(s, seq) <= -Half THEN [s EXCEPT !.roc = @ + 1, !.s_l = 0] ELSE s

Highest(s, seq) == [s EXCEPT !.s_l = IF seq > @ THEN seq ELSE @]

(* srtp_get_index() *)
GetIndex(s, seq) ==
    LET v == IF s.s_l < Half
             THEN IF seq - s.s_l > Half THEN s.roc - 1 ELSE s.roc
             ELSE IF s.s_l - Half > seq THEN s.roc + 1 ELSE s.roc
    IN  seq + v * Mod

(* srtp_replay_check(): the window is the set of indices seen, lix its
   upper end *)
Fresh(lix, seen, ix) ==
    ix > lix \/ (lix - ix < Window /\ ix \notin seen)
Seen(lix, seen, ix) ==
    LET top == IF ix > lix THEN ix ELSE lix
    IN  {i \in seen \cup {ix} : top - i < Window}

(* stream_new() *)
NewStream(seq) ==
    [roc |-> 0, s_l |-> seq, lix |-> 0, seen |-> {}, clix |-> 0, cseen |-> {}]

(* stream_get_seq(): room for MAX_STREAMS sources *)
HasStream(x) == x \in DOMAIN rx \/ Cardinality(DOMAIN rx) < MaxStreams
StreamGet(x, seq) == IF x \in DOMAIN rx THEN rx[x] ELSE NewStream(seq)
Put(x, s) == [y \in DOMAIN rx \cup {x} |-> IF y = x THEN s ELSE rx[y]]

Init ==
    /\ tx \in [Ssrc -> {[next |-> f, first |-> f, roc |-> 0, s_l |-> f, rtcp |-> 0]
                           : f \in Firsts}]
    /\ rx = <<>> /\ got = [x \in Ssrc |-> {}] /\ count = [x \in Ssrc |-> 0]
    /\ last = Nothing

(* the packet with number e carries this counter in its tag *)
Roc(e) == e \div Mod

(* srtp_encrypt(): the sender's numbers follow each other; it does not get
   half the sequence space ahead of what the receiver has *)
Encrypt(x) ==
    LET seq == tx[x].next % Mod
        s == RollsOver(tx[x], seq)
    IN  /\ tx[x].next < tx[x].first + MaxSent
        /\ \A e \in got[x] : \E f \in got[x] : f >= e /\ tx[x].next - f < Half
        /\ tx' = [tx EXCEPT ![x] = [Highest(s, seq) EXCEPT !.next = @ + 1]]
        /\ UNCHANGED <<rx, got, count, last>>

(* srtp_decrypt() of packet e *)
Decrypt(x, e) ==
    LET seq == e % Mod
        s0 == StreamGet(x, seq)
        late == Diff(s0, seq) > Half
        s == IF late THEN s0 ELSE RollsOver(s0, seq)
        ix == GetIndex(s, seq)
        auth == s.roc = Roc(e)
        fresh == Fresh(s.lix, s.seen, ix)
        res == CASE late -> "late" [] ~late /\ ~auth -> "auth"
                 [] ~late /\ auth /\ ~fresh -> "replay" [] OTHER -> "ok"
        after == IF res = "ok"
                 THEN Highest([s EXCEPT !.lix = IF ix > @ THEN ix ELSE @,
                                        !.seen = Seen(s.lix, @, ix)], seq)
                 ELSE s
    IN  /\ e \in tx[x].first .. tx[x].next - 1 /\ e >= tx[x].next - Reorder
        /\ HasStream(x)
        /\ rx' = Put(x, after)
        /\ last' = [res |-> res, e |-> e, ix |-> ix, ssrc |-> x]
        /\ got' = IF res = "ok" THEN [got EXCEPT ![x] = @ \cup {e}] ELSE got
        /\ count' = IF res = "ok" THEN [count EXCEPT ![x] = @ + 1] ELSE count
        /\ count[x] < MaxSent + 1
        /\ UNCHANGED tx

(* srtcp_encrypt(): an index of its own, sent along *)
RtcpEncrypt(x) ==
    /\ tx[x].rtcp < MaxSent
    /\ tx' = [tx EXCEPT ![x].rtcp = @ + 1]
    /\ UNCHANGED <<rx, got, count, last>>

(* srtcp_decrypt() *)
RtcpDecrypt(x, ix) ==
    LET s == StreamGet(x, 0)
        fresh == Fresh(s.clix, s.cseen, ix)
    IN  /\ ix \in 1 .. tx[x].rtcp
        /\ x \in DOMAIN rx   \* RTCP follows RTP
        /\ rx' = IF fresh
                 THEN Put(x, [s EXCEPT !.clix = IF ix > @ THEN ix ELSE @,
                                       !.cseen = Seen(s.clix, @, ix)])
                 ELSE Put(x, s)
        /\ UNCHANGED <<tx, got, count, last>>

Next ==
    \/ \E x \in Ssrc : Encrypt(x) \/ RtcpEncrypt(x)
    \/ \E x \in Ssrc : \E e \in tx[x].first .. tx[x].next : Decrypt(x, e)
    \/ \E x \in Ssrc : \E ix \in 1 .. MaxSent : RtcpDecrypt(x, ix)

Spec == Init /\ [][Next]_vars

TypeOK ==
    /\ DOMAIN rx \subseteq Ssrc /\ Cardinality(DOMAIN rx) <= MaxStreams
    /\ \A x \in DOMAIN rx : rx[x].s_l \in 0 .. Mod - 1
    /\ \A x \in Ssrc : tx[x].s_l \in 0 .. Mod - 1 /\ tx[x].rtcp \in 0 .. MaxSent

(* The receiver is in step from its first packet on when that packet was
   sent before the sender's first roll-over. *)
InStep(x) == x \in DOMAIN rx /\ got[x] # {}

(* The sender's counter is the true one, and a receiver in step arrives at
   the true index for every packet it accepts, takes each packet once, and
   never finds a wrong tag; it turns a packet down only when it came
   before, is from before the last roll-over, or is older than the replay
   window. *)
IndexAgrees ==
    /\ \A x \in Ssrc : tx[x].next > tx[x].first =>
          tx[x].roc * Mod + tx[x].s_l = tx[x].next - 1
    /\ \A x \in Ssrc : count[x] = Cardinality(got[x])
    /\ last.res = "ok" => last.ix = last.e
    /\ last.res = "auth" => ~InStep(last.ssrc)
    /\ last.res = "replay" =>
          \/ last.e \in got[last.ssrc]
          \/ \E f \in got[last.ssrc] : f - last.e >= Window
    /\ last.res = "late" =>
          \/ ~InStep(last.ssrc)
          \/ \E f \in got[last.ssrc] : Roc(f) > Roc(last.e)
===============================================================================
