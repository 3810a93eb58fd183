---------------------------------- MODULE Sdp ----------------------------------
(***************************************************************************)
(* Offer and answer as libre's SDP sessions negotiate them                 *)
(* (re/src/sdp): two agents, each with a session whose media lines wait in *)
(* `lmedial' until an offer puts them on the wire and then keep their      *)
(* position in `medial' for good.  A line has the formats of its user      *)
(* (lf) and those of the last message (rf); sdp_decode() resets and fills  *)
(* the remote half and aligns the two, sdp_encode() writes what is         *)
(* supported.  SIP (sipsess) lets one offer be open at a time and may      *)
(* reject it.  Ports and addresses are "there" or "zero"; a name stands    *)
(* for media name and protocol, a codec for name, rate, channels and       *)
(* parameters.                                                             *)
(***************************************************************************)
EXTENDS Integers, Sequences, SequencesExt, FiniteSets

CONSTANTS
    Agent,      \* the two ends of the session
    Formats,    \* Formats[x][name]: the formats agent x gives a line it adds
    First,      \* the line both have from the start
    MaxOffers,  \* bound on the number of offers
    MaxEdits    \* bound on the changes the users make to their lines

VARIABLES
    sess,    \* per agent: [lmedial, medial], sequences of media lines
    msg,     \* the SDP message on its way
    stage,   \* "idle", "offered", "decoded", "answered"
    by,      \* the agent of the open offer
    agreed,  \* the last exchange went through and nobody changed a line since
    offers,  \* number of offers made
    edits    \* number of changes made

vars == <<sess, msg, stage, by, agreed, offers, edits>>

DYNPT_START == 96
SENDRECV == {"send", "recv"}
Dirs == SUBSET SENDRECV

Peer(x) == CHOOSE y \in Agent : y # x

(* sdp_format_add(): a format of the user, supported until a message of the
   peer says otherwise *)
Format(id, codec) == [id |-> id, codec |-> codec, sup |-> TRUE]

(* sdp_format_radd(): a format of a message *)
FromPeer(f) == [id |-> f.id, codec |-> f.codec, sup |-> FALSE]

(* media_alloc() *)
NewMedia(name, fmts) ==
    [name |-> name, lf |-> fmts, rf |-> <<>>, ldir |-> SENDRECV,
     rdir |-> SENDRECV, rport |-> FALSE, disabled |-> FALSE]

(* sdp_format_cmp() *)
FormatCmp(f, g) ==
    IF f.id < DYNPT_START /\ g.id < DYNPT_START
    THEN f.id = g.id
    ELSE f.codec = g.codec

(* the elements of s at the places in I, in their order: a walk over a list
   that takes some *)
Pick(s, I) ==
    LET upto[k \in 0 .. Len(s)] ==
            IF k = 0 THEN <<>>
            ELSE IF k \in I THEN Append(upto[k - 1], s[k]) ELSE upto[k - 1]
    IN  upto[Len(s)]

(* list_unlink() of element i, and list_append() of it as f *)
ToTail(s, i, f) ==
    [j \in DOMAIN s |-> IF j = Len(s) THEN f ELSE IF j < i THEN s[j] ELSE s[j + 1]]

(* One turn of the loop of sdp_media_align_formats(): remote format number
   k finds its local format, which takes its id and goes to the tail when
   the message is an offer *)
AlignOne(m, k, offer) ==
    LET r == m.rf[k]
        hits == {i \in DOMAIN m.lf : FormatCmp(m.lf[i], r)}
        i == CHOOSE i \in hits : \A j \in hits : i <= j
        l == [m.lf[i] EXCEPT !.sup = TRUE]
    IN  IF hits = {}
        THEN [m EXCEPT !.rf[k].sup = FALSE]
        ELSE [m EXCEPT !.rf[k].sup = TRUE,
                       !.lf = IF offer
                              THEN ToTail(@, i, [l EXCEPT !.id = r.id])
                              ELSE [@ EXCEPT ![i] = l]]

(* the places of the supported formats of a line *)
Supported(m) == {i \in DOMAIN m.lf : m.lf[i].sup}

(* sdp_media_align_formats(); the closing walk from the tail puts the
   unsupported formats behind the supported ones, in reverse order *)
AlignFormats(m, offer) ==
    LET turn[k \in 0 .. Len(m.rf)] ==
            IF k = 0 THEN [m EXCEPT !.lf = [i \in DOMAIN @ |-> [@[i] EXCEPT !.sup = FALSE]]]
            ELSE AlignOne(turn[k - 1], k, offer)
        done == turn[Len(m.rf)]
        sup == Supported(done)
    IN  IF m.disabled \/ ~m.rport THEN m
        ELSE IF offer
             THEN [done EXCEPT !.lf = Pick(@, sup) \o Reverse(Pick(@, DOMAIN @ \ sup))]
             ELSE done

(* sdp_media_rreset() *)
Rreset(m) == [m EXCEPT !.rf = <<>>, !.rdir = SENDRECV, !.rport = FALSE]

Mirror(d) == {e \in SENDRECV : (SENDRECV \ {e}) \subseteq d}

(* media_encode(): a line without a supported format, or one the offer
   has closed, is written with port 0 and format 0 *)
MediaEncode(m, offer) ==
    LET fmts == Pick(m.lf, Supported(m))
    IN  IF m.disabled \/ fmts = <<>> \/ (~offer /\ ~m.rport)
        THEN [name |-> m.name, port |-> FALSE, dir |-> SENDRECV,
              fmts |-> <<[id |-> 0, codec |-> "none"]>>]
        ELSE [name |-> m.name, port |-> TRUE,
              dir |-> IF offer THEN m.ldir ELSE m.ldir \cap m.rdir,
              fmts |-> [i \in DOMAIN fmts |->
                           [id |-> fmts[i].id, codec |-> fmts[i].codec]]]

(* the lines sdp_encode() moves to the wire's order when it offers *)
Offered(s) ==
    LET off == {i \in DOMAIN s.lmedial : s.lmedial[i].disabled}
    IN  [lmedial |-> Pick(s.lmedial, off),
         medial |-> s.medial \o Pick(s.lmedial, DOMAIN s.lmedial \ off)]

Encode(s, offer) ==
    [i \in DOMAIN s.medial |-> MediaEncode(s.medial[i], offer)]

(* Mutant: the direction of the peer is taken for the own one. *)
Fill_bug(m, line) ==
    [m EXCEPT !.rf = [i \in DOMAIN line.fmts |-> FromPeer(line.fmts[i])],
              !.rport = line.port,
              !.rdir = line.dir]

(* sdp_format_radd(), attr_decode_rtpmap() and attr_decode() on a line: the
   direction is read from the other side *)
Fill(m, line) ==
    [m EXCEPT !.rf = [i \in DOMAIN line.fmts |-> FromPeer(line.fmts[i])],
              !.rport = line.port,
              !.rdir = Mirror(line.dir)]

(* sdp_media_find(): the places of the waiting lines of a name *)
FindMedia(s, name) == {i \in DOMAIN s.lmedial : s.lmedial[i].name = name}

(* media_decode() of line k: the line at that place must be of that name;
   behind the last one, an offer takes a waiting line of its name over, or
   adds a disabled one *)
MediaDecode(st, k, line, offer) ==
    LET s == st.s
        hits == FindMedia(s, line.name)
        i == CHOOSE i \in hits : \A j \in hits : i <= j
    IN  IF st.err THEN st
        ELSE IF k <= Len(s.medial)
        THEN IF s.medial[k].name # line.name
             THEN [st EXCEPT !.err = TRUE]
             ELSE [st EXCEPT !.s.medial[k] = Fill(@, line)]
        ELSE IF ~offer THEN [st EXCEPT !.err = TRUE]
        ELSE IF hits = {}
        THEN [st EXCEPT !.s.medial =
                 Append(@, Fill([NewMedia(line.name, <<>>) EXCEPT !.disabled = TRUE], line))]
        ELSE [st EXCEPT !.s = [lmedial |-> RemoveAt(s.lmedial, i),
                               medial |-> Append(s.medial, Fill(s.lmedial[i], line))]]

(* sdp_decode(): [s, err]; an error leaves what was decoded so far, and
   nothing is aligned *)
Decode(s, lines, offer) ==
    LET reset == [s EXCEPT !.medial = [i \in DOMAIN @ |-> Rreset(@[i])]]
        turn[k \in 0 .. Len(lines)] ==
            IF k = 0 THEN [s |-> reset, err |-> FALSE]
            ELSE MediaDecode(turn[k - 1], k, lines[k], offer)
        st == turn[Len(lines)]
    IN  IF st.err THEN st
        ELSE [st EXCEPT !.s.medial = [i \in DOMAIN @ |-> AlignFormats(@[i], offer)]]

Init ==
    /\ sess = [x \in Agent |-> [lmedial |-> <<NewMedia(First, Formats[x][First])>>,
                                medial |-> <<>>]]
    /\ msg = <<>> /\ stage = "idle" /\ by = (CHOOSE x \in Agent : TRUE)
    /\ agreed = FALSE /\ offers = 0 /\ edits = 0

(* the user of the session may work on its lines between two exchanges, and
   the answerer before it answers *)
MayEdit(x) == stage = "idle" \/ (stage = "decoded" /\ x # by)

Edits(x, s) ==
    /\ MayEdit(x) /\ edits < MaxEdits
    /\ edits' = edits + 1
    /\ sess' = [sess EXCEPT ![x] = s]
    /\ agreed' = FALSE
    /\ UNCHANGED <<msg, stage, by, offers>>

(* sdp_media_add(), when the session has no line of that name *)
Add(x, name) ==
    /\ \A m \in Range(sess[x].lmedial \o sess[x].medial) : m.name # name
    /\ Edits(x, [sess[x] EXCEPT !.lmedial = Append(@, NewMedia(name, Formats[x][name]))])

(* destructor() of a line: while it is in the list it is only emptied and
   disabled, its place stays *)
Drop(x, k) ==
    Edits(x, [sess[x] EXCEPT !.medial[k] =
                 [@ EXCEPT !.lf = <<>>, !.rf = <<>>, !.disabled = TRUE]])

(* sdp_media_set_ldir() *)
SetLdir(x, k, d) ==
    /\ sess[x].medial[k].ldir # d
    /\ Edits(x, [sess[x] EXCEPT !.medial[k].ldir = d])

(* sdp_media_set_disabled(); a line that was disabled when the offer was
   decoded has not been aligned, so the user enables one between exchanges *)
SetDisabled(x, k, b) ==
    /\ sess[x].medial[k].disabled # b
    /\ b \/ stage = "idle"
    /\ Edits(x, [sess[x] EXCEPT !.medial[k].disabled = b])

(* sdp_encode() of an offer *)
Offer(x) ==
    /\ stage = "idle" /\ offers < MaxOffers
    /\ LET s == Offered(sess[x])
       IN  sess' = [sess EXCEPT ![x] = s] /\ msg' = Encode(s, TRUE)
    /\ stage' = "offered" /\ by' = x /\ offers' = offers + 1 /\ agreed' = FALSE
    /\ UNCHANGED edits

(* sdp_decode() of the offer; an error ends the exchange *)
DecodeOffer ==
    /\ stage = "offered"
    /\ LET d == Decode(sess[Peer(by)], msg, TRUE)
       IN  /\ sess' = [sess EXCEPT ![Peer(by)] = d.s]
           /\ stage' = IF d.err THEN "idle" ELSE "decoded"
    /\ UNCHANGED <<msg, by, agreed, offers, edits>>

(* sdp_encode() of the answer *)
Answer ==
    /\ stage = "decoded"
    /\ msg' = Encode(sess[Peer(by)], FALSE)
    /\ stage' = "answered"
    /\ UNCHANGED <<sess, by, agreed, offers, edits>>

(* sdp_decode() of the answer *)
DecodeAnswer ==
    /\ stage = "answered"
    /\ LET d == Decode(sess[by], msg, FALSE)
       IN  /\ sess' = [sess EXCEPT ![by] = d.s]
           /\ agreed' = ~d.err
    /\ stage' = "idle"
    /\ UNCHANGED <<msg, by, offers, edits>>

(* the offer or the answer never gets there: SIP refuses or the call leg
   is busy.  Nothing is rolled back *)
Refused ==
    /\ stage \in {"offered", "decoded"}
    /\ stage' = "idle"
    /\ UNCHANGED <<sess, msg, by, agreed, offers, edits>>

Next ==
    \/ \E x \in Agent :
          \/ \E name \in DOMAIN Formats[x] : Add(x, name)
          \/ \E k \in DOMAIN sess[x].medial :
                \/ Drop(x, k)
                \/ \E d \in Dirs : SetLdir(x, k, d)
                \/ \E b \in BOOLEAN : SetDisabled(x, k, b)
          \/ Offer(x)
    \/ DecodeOffer \/ Answer \/ DecodeAnswer \/ Refused

Spec == Init /\ [][Next]_vars

(* sdp_media_rformat(): what the user encodes with *)
Rformats(m) == {k \in DOMAIN m.rf : m.rport /\ m.rf[k].sup}
Rformat(m) == m.rf[CHOOSE k \in Rformats(m) : \A j \in Rformats(m) : k <= j]

(* sdp_media_lformat(): what the user decodes a payload type with *)
Lformats(m, id) == {k \in DOMAIN m.lf : m.lf[k].id = id}
Lformat(m, id) == m.lf[CHOOSE k \in Lformats(m, id) : \A j \in Lformats(m, id) : k <= j]

(* sdp_media_dir() *)
Dir(m) == m.ldir \cap m.rdir

Open(m) == ~m.disabled /\ m.rport /\ \E f \in Range(m.lf) : f.sup

TypeOK ==
    /\ stage \in {"idle", "offered", "decoded", "answered"}
    /\ agreed \in BOOLEAN /\ offers \in 0..MaxOffers /\ by \in Agent
    /\ \A x \in Agent : \A m \in Range(sess[x].lmedial \o sess[x].medial) :
          m.ldir \in Dirs /\ m.rdir \in Dirs

(* Once an exchange went through, the two ends have the same lines at the
   same places, they agree on which are open and on who sends, and the
   first format each would send with is one of its own and has a payload
   type the other end decodes with the same codec - whatever offers were
   refused or failed before, whoever made them. *)
EndsAgree ==
    agreed =>
        LET a == CHOOSE x \in Agent : TRUE
            A == sess[a].medial
            B == sess[Peer(a)].medial
        IN  /\ Len(A) = Len(B)
            /\ \A i \in DOMAIN A :
                  /\ A[i].name = B[i].name
                  /\ Open(A[i]) <=> Open(B[i])
                  /\ Open(A[i]) =>
                        /\ Dir(A[i]) = Mirror(Dir(B[i]))
                        /\ \A p \in {<<A[i], B[i]>>, <<B[i], A[i]>>} :
                              /\ Rformats(p[1]) # {}
                              /\ Rformat(p[1]).codec \in {f.codec : f \in Range(p[1].lf)}
                              /\ Lformats(p[2], Rformat(p[1]).id) # {}
                              /\ Lformat(p[2], Rformat(p[1]).id).codec = Rformat(p[1]).codec

(* A line on the wire never changes its place or its name: the k-th line
   means the same medium in every message of the session. *)
PlacesKept ==
    [][\A x \in Agent : \A k \in DOMAIN sess[x].medial :
          /\ k \in DOMAIN sess'[x].medial
          /\ sess'[x].medial[k].name = sess[x].medial[k].name]_vars
===============================================================================
