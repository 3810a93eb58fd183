----------------------------- MODULE SipSession -----------------------------
(***************************************************************************)
(* One SIP session of libre (re/src/sipsess), caller or callee, from its   *)
(* allocation to its release.  A session is kept by references: the user's *)
(* one, and one for each thing that must still end after the session was   *)
(* terminated (the request under way, the 2xx answers that wait for their  *)
(* ACK, the INFO requests, the BYE).  Its requests are the ones of         *)
(* SipTransaction: each ends once, with an answer or an error.  Contents   *)
(* are left out: desc is whether there is a description to offer.          *)
(***************************************************************************)
EXTENDS Naturals, FiniteSets

CONSTANTS MaxSeq,    \* bound: highest sequence number the peer uses
          MaxInfo,   \* bound: INFO requests under way
          MaxLoop,   \* bound: modifications the user asks for
          MaxAcks,   \* bound: ACKs that are kept for 64*T1
          FailLimit  \* the 16 of sip_request_loops
ASSUME SessionAssumption ==
  /\ MaxSeq \in Nat /\ MaxInfo \in Nat /\ MaxLoop \in Nat /\ MaxAcks \in Nat
  /\ FailLimit \in Nat \ {0}

VARIABLES s,         \* struct sipsess
          modified,  \* how often the user has asked for a modification
          acks       \* struct sipsess_ack objects that live

vars == <<s, modified, acks>>

Fresh ==
  [phase |-> "none", refs |-> 0, user |-> FALSE, owner |-> FALSE,
   terminated |-> 0, established |-> FALSE, peerterm |-> FALSE,
   dialog |-> FALSE, rseq |-> 0, desc |-> FALSE, sent_offer |-> FALSE,
   awaiting_answer |-> FALSE, modify_pending |-> FALSE, req |-> "none",
   st |-> FALSE, tmr |-> FALSE, replyl |-> {}, requestl |-> 0,
   failc |-> 0, last |-> "none", closed |-> 0, bye |-> "none"]

Init == s = Fresh /\ modified = 0 /\ acks = 0

Count(b) == IF b THEN 1 ELSE 0
Live == s.phase = "live"

-----------------------------------------------------------------------------
(* The release of a session.  The operators give the set of states that a   *)
(* call can leave behind; a send that may fail is a choice.                 *)

(* What termwait() waits for.                                               *)
Waits(x) == x.req # "none" \/ x.replyl # {} \/ x.requestl > 0

(* Mutant: no reference is taken for the replies.                           *)
Termwait_bug(x) ==
  [x EXCEPT !.terminated = 1, !.tmr = FALSE, !.st = FALSE,
            !.refs = @ + Count(x.req # "none") + Count(x.requestl > 0)]

(* termwait(): the user's handlers are replaced, a held INVITE is answered  *)
(* with 503, the request under way is cancelled, and every thing that must  *)
(* still end takes a reference.                                             *)
Termwait(x) ==
  [x EXCEPT !.terminated = 1, !.tmr = FALSE, !.st = FALSE,
            !.refs = @ + Count(x.req # "none") + Count(x.replyl # {})
                       + Count(x.requestl > 0)]

(* sipsess_bye()                                                            *)
Bye(x, reset) ==
  IF x.req # "none" THEN {[x EXCEPT !.bye = "failed"]}
  ELSE LET y == IF reset THEN [x EXCEPT !.failc = 0, !.last = "none"] ELSE x
       IN {[y EXCEPT !.req = "BYE", !.bye = "sent"], [y EXCEPT !.bye = "failed"]}

(* Mutant: the state is not set before the BYE is sent.                     *)
Terminate_bug(x) ==
  LET y == [x EXCEPT !.terminated = 2] IN
  IF ~x.established \/ x.peerterm THEN {y}
  ELSE {IF z.req = "BYE" THEN [z EXCEPT !.refs = @ + 1] ELSE z : z \in Bye(x, TRUE)}

(* terminate(): a session that was established is ended with a BYE, which   *)
(* takes a reference.                                                       *)
Terminate(x) ==
  LET y == [x EXCEPT !.terminated = 2] IN
  IF ~x.established \/ x.peerterm THEN {y}
  ELSE {IF z.req = "BYE" THEN [z EXCEPT !.refs = @ + 1] ELSE z : z \in Bye(y, TRUE)}

(* mem_deref() and the destructor, which may take new references.           *)
Deref(x) ==
  LET y == [x EXCEPT !.refs = @ - 1]
      Kept(z) == IF z.refs > 0 THEN z ELSE [z EXCEPT !.phase = "freed"]
  IN CASE y.refs > 0 -> {y}
       [] y.refs = 0 /\ y.terminated = 0 ->
            IF Waits(y) THEN {Termwait(y)} ELSE {Kept(z) : z \in Terminate(Termwait(y))}
       [] y.refs = 0 /\ y.terminated = 1 -> {Kept(z) : z \in Terminate(y)}
       [] OTHER -> {Kept(y)}

UserDerefs(x) == Deref([x EXCEPT !.user = FALSE])

(* sipsess_terminate(): the user is told and may release the session in its *)
(* close handler.                                                           *)
SipsessTerminate(x) ==
  IF x.terminated > 0 THEN {x}
  ELSE LET w == Termwait(x)
           told == {[y EXCEPT !.closed = @ + 1] :
                      y \in IF Waits(x) THEN {w} ELSE Terminate(w)}
       IN told \cup UNION {UserDerefs(y) : y \in told}

(* What the handlers of an answer do at "out".                              *)
EndOrDeref(x) == IF x.terminated = 0 THEN SipsessTerminate(x) ELSE Deref(x)

-----------------------------------------------------------------------------
(* Requests of the session.                                                 *)

(* sip_request_loops(): <<the answer ends a loop, the session after it>>    *)
Loops(x, code) ==
  CASE code = "1xx" -> <<FALSE, x>>
    [] code = "2xx" -> <<FALSE, [x EXCEPT !.failc = 0, !.last = code]>>
    [] OTHER ->
         LET n == IF x.failc < FailLimit THEN x.failc + 1 ELSE FailLimit
         IN <<n >= FailLimit \/ (code \notin {"3xx", "401", "491"} /\ x.last = code),
              [x EXCEPT !.failc = n, !.last = code]>>

(* invite() and sipsess_reinvite(): the states in which it is under way,    *)
(* and, second, the ones in which it could not be sent.                     *)
Invite(x, kind) ==
  [x EXCEPT !.req = kind, !.sent_offer = x.desc, !.modify_pending = FALSE]
NoInvite(x) == [x EXCEPT !.sent_offer = x.desc, !.modify_pending = FALSE]
Reset(x) == [x EXCEPT !.failc = 0, !.last = "none"]
Reinvite(x) ==
  IF x.req # "none" THEN {x}
  ELSE {Invite(Reset(x), "REINVITE"), NoInvite(Reset(x))}

Codes == {"1xx", "2xx", "3xx", "401", "408", "491", "500", "4xx"}

(* sipsess_ack(): the ACK is sent and kept for 64*T1, or it cannot be sent. *)
Ack(ok) == acks' = IF ok THEN acks + 1 ELSE acks

(* invite_resp_handler() for a 2xx that a dialog comes of: the session is   *)
(* established, whatever the user's handler says and whether or not the ACK *)
(* could be sent; if either fails it is ended at once, with a BYE.          *)
Established(x, good) ==
  LET e == [x EXCEPT !.dialog = TRUE, !.established = TRUE,
                     !.modify_pending = IF x.sent_offer THEN @ ELSE FALSE]
  IN IF ~good \/ x.terminated > 0 THEN EndOrDeref(e)
     ELSE IF e.modify_pending THEN Reinvite(e)
     ELSE {[e EXCEPT !.desc = FALSE]}

(* sip_dialog_create() refuses a dialog that has the tag of its peer.       *)
Creates(x, created) == created /\ ~x.dialog

(* invite_resp_handler().  x is the session without its request; created    *)
(* says that the answer is fit for a dialog, good that every other call the *)
(* handler makes for it succeeds.                                           *)
InviteAnswer(x, code, created, good) ==
  LET l == Loops(x, code)[2] IN
  IF Loops(x, code)[1] THEN EndOrDeref(l) ELSE
  CASE code = "1xx" -> {[l EXCEPT !.req = "INVITE"]}
    [] code = "2xx" /\ ~Creates(x, created) -> EndOrDeref(l)
    [] code = "2xx" /\ Creates(x, created) -> Established(l, good)
    [] code \in {"3xx", "401"} /\ good /\ x.terminated = 0 ->
         {Invite(l, "INVITE")} \cup EndOrDeref(NoInvite(l))
    [] OTHER -> EndOrDeref(l)

(* The part "out" of reinvite_resp_handler().                               *)
ReinviteOut(x, timedout) ==
  CASE x.terminated > 0 -> Deref(x)
    [] x.terminated = 0 /\ timedout -> SipsessTerminate(x)
    [] x.terminated = 0 /\ ~timedout /\ x.modify_pending -> Reinvite(x)
    [] OTHER -> {[x EXCEPT !.desc = FALSE]}

(* reinvite_resp_handler()                                                  *)
ReinviteAnswer(x, code, good) ==
  LET l == Loops(x, code)[2] IN
  IF Loops(x, code)[1] THEN ReinviteOut(l, FALSE) ELSE
  CASE code = "1xx" -> {[l EXCEPT !.req = "REINVITE"]}
    [] code = "2xx" ->
         ReinviteOut([l EXCEPT !.modify_pending =
                        IF x.sent_offer THEN @ ELSE FALSE], FALSE)
    [] code = "401" /\ x.terminated = 0 /\ good ->
         {Invite(l, "REINVITE")} \cup ReinviteOut(NoInvite(l), FALSE)
    [] code = "408" /\ x.terminated = 0 -> SipsessTerminate(l)
    [] code = "491" /\ x.terminated = 0 -> {[l EXCEPT !.tmr = TRUE]}
    [] code = "500" /\ x.terminated = 0 /\ good -> {[l EXCEPT !.tmr = TRUE]}
    [] OTHER -> ReinviteOut(l, FALSE)

(* bye_resp_handler()                                                       *)
ByeAnswer(x, code, good) ==
  LET l == Loops(x, code)[2] IN
  IF Loops(x, code)[1] THEN Deref(l) ELSE
  CASE code = "1xx" -> {[l EXCEPT !.req = "BYE"]}
    [] code = "401" /\ ~x.peerterm /\ good ->
         {y \in Bye(l, FALSE) : y.req = "BYE"} \cup Deref(l)
    [] OTHER -> Deref(l)

(* A 2xx is acknowledged, unless no dialog came of it.                      *)
Acknowledges(code, created) ==
  code = "2xx" /\ (s.req = "REINVITE" \/ (s.req = "INVITE" /\ Creates(s, created)))

(* The request under way gets an answer.  The request forgets the session's *)
(* pointer before it calls the handler.  The handler's other calls may fail *)
(* while the ACK is sent (~taken /\ acked), and the reverse.                *)
Answered ==
  /\ Live /\ s.req # "none"
  /\ \E code \in Codes, created, taken, acked \in BOOLEAN :
       LET x == [s EXCEPT !.req = "none"]
           good == taken /\ (code = "2xx" => acked)
       IN
       /\ s' \in CASE s.req = "INVITE" -> InviteAnswer(x, code, created, good)
                   [] s.req = "REINVITE" -> ReinviteAnswer(x, code, good)
                   [] s.req = "BYE" -> ByeAnswer(x, code, good)
       /\ IF Acknowledges(code, created)
          THEN acks < MaxAcks /\ Ack(acked) ELSE UNCHANGED acks
  /\ UNCHANGED modified

(* The request under way ends with an error, which may be a time-out.       *)
Failed ==
  /\ Live /\ s.req # "none"
  /\ LET x == [s EXCEPT !.req = "none"] IN
     s' \in CASE s.req = "INVITE" -> EndOrDeref(x)
              [] s.req = "REINVITE" -> UNION {ReinviteOut(x, t) : t \in BOOLEAN}
              [] s.req = "BYE" -> Deref(x)
  /\ UNCHANGED <<modified, acks>>

(* tmr_handler() of ack.c; a 2xx that is repeated is acknowledged again as  *)
(* long as the object is there (sipsess_ack_again).                         *)
AckExpires == acks > 0 /\ acks' = acks - 1 /\ UNCHANGED <<s, modified>>

-----------------------------------------------------------------------------
(* Operations of the user.                                                  *)

New(x) == [x EXCEPT !.phase = "live", !.refs = 1, !.user = TRUE]

(* sipsess_connect()                                                        *)
Connect ==
  /\ s.phase = "none"
  /\ \E d \in BOOLEAN :
       s' \in {Invite(New([s EXCEPT !.owner = TRUE, !.desc = d]), "INVITE"),
               [s EXCEPT !.phase = "freed"]}
  /\ UNCHANGED <<modified, acks>>

(* sipsess_reply_2xx(): the answer is kept until its ACK.  It awaits the    *)
(* peer's answer when it carries an offer to a request without one.         *)
Reply2xx(x, seq, awaits) ==
  [x EXCEPT !.st = FALSE, !.replyl = @ \cup {[seq |-> seq, awaiting |-> awaits]},
            !.awaiting_answer = @ \/ awaits]

(* sipsess_accept() and sipsess_init(): the INVITE is held, or accepted.    *)
Accept ==
  /\ s.phase = "none"
  /\ LET x == New([s EXCEPT !.dialog = TRUE]) IN
     s' \in {[x EXCEPT !.st = TRUE], [s EXCEPT !.phase = "freed"]}
            \cup {Reply2xx(x, 0, awaits) : awaits \in BOOLEAN}
  /\ UNCHANGED <<modified, acks>>

(* sipsess_progress() and sipsess_reject(): the transaction is given up by  *)
(* a final answer, or when the answer cannot be sent.                       *)
Progress ==
  /\ Live /\ s.user /\ s.st
  /\ s' \in {s, [s EXCEPT !.st = FALSE]} /\ UNCHANGED <<modified, acks>>

(* sipsess_answer()                                                         *)
Answer ==
  /\ Live /\ s.user /\ s.st
  /\ s' \in {Reply2xx(s, 0, awaits) : awaits \in BOOLEAN} \cup {[s EXCEPT !.st = FALSE]}
  /\ UNCHANGED <<modified, acks>>

(* sipsess_modify()                                                         *)
Modify ==
  /\ Live /\ s.user /\ ~s.st /\ s.terminated = 0 /\ modified < MaxLoop
  /\ modified' = modified + 1
  /\ LET x == [s EXCEPT !.desc = TRUE] IN
     s' \in IF s.req # "none" \/ s.tmr \/ s.replyl # {}
            THEN {[x EXCEPT !.modify_pending = TRUE]} ELSE Reinvite(x)
  /\ UNCHANGED acks

(* tmr_handler() of modify.c                                                *)
ModifyTimer ==
  /\ Live /\ s.tmr
  /\ s' \in Reinvite([s EXCEPT !.tmr = FALSE]) /\ UNCHANGED <<modified, acks>>

(* sipsess_info(); its request is sent, or released at once.                *)
Info ==
  /\ Live /\ s.user /\ s.terminated = 0 /\ s.requestl < MaxInfo
  /\ s' = [s EXCEPT !.requestl = @ + 1] /\ UNCHANGED <<modified, acks>>

(* Mutant: the last request gives no reference back.                        *)
RequestReleased_bug(x) == {[x EXCEPT !.requestl = @ - 1]}

(* The destructor of sipsess_request: the last one gives its reference back *)
(* when the session is terminated.                                          *)
RequestReleased(x) ==
  LET y == [x EXCEPT !.requestl = @ - 1] IN
  IF y.terminated > 0 /\ y.requestl = 0 THEN Deref(y) ELSE {y}

(* info_resp_handler(): a 408 or 481 and a time-out end the session.        *)
InfoEnds ==
  /\ Live /\ s.requestl > 0
  /\ \E fatal \in BOOLEAN :
       s' \in UNION {RequestReleased(x) :
                       x \in IF fatal THEN SipsessTerminate(s) ELSE {s}}
  /\ UNCHANGED <<modified, acks>>

Release ==
  /\ Live /\ s.user
  /\ s' \in UserDerefs(s) /\ UNCHANGED <<modified, acks>>

-----------------------------------------------------------------------------
(* Requests of the peer; the session is found by its dialog.                *)

(* sip_dialog_rseq_valid()                                                  *)
Valid(seq) == s.dialog /\ seq >= s.rseq

(* bye_handler()                                                            *)
PeerBye ==
  /\ Live
  /\ \E seq \in 0 .. MaxSeq :
       /\ Valid(seq)
       /\ s' \in SipsessTerminate([s EXCEPT !.rseq = seq, !.peerterm = TRUE,
                                            !.st = FALSE])
  /\ UNCHANGED <<modified, acks>>

(* cancel_handler() of accept.c                                             *)
PeerCancel ==
  /\ Live /\ s.st
  /\ s' \in SipsessTerminate([s EXCEPT !.st = FALSE, !.peerterm = TRUE])
  /\ UNCHANGED <<modified, acks>>

(* reinvite_handler(): refused while an INVITE is held or answered, or a    *)
(* request of ours is under way; accepted it overrides what was to be       *)
(* modified.                                                                *)
PeerReinvite ==
  /\ Live /\ s.terminated = 0
  /\ \E seq \in 0 .. MaxSeq :
       /\ Valid(seq) /\ \A r \in s.replyl : r.seq # seq
       /\ LET x == [s EXCEPT !.rseq = seq]
              y == [x EXCEPT !.desc = FALSE, !.modify_pending = FALSE, !.tmr = FALSE]
          IN s' \in IF s.st \/ s.awaiting_answer \/ s.req # "none" THEN {x}
                    ELSE {x, y} \cup {Reply2xx(y, seq, awaits) : awaits \in BOOLEAN}
  /\ UNCHANGED <<modified, acks>>

(* info_handler() and refer_handler(): the user's handlers answer.          *)
PeerInfo ==
  /\ Live /\ s.terminated = 0
  /\ \E seq \in 0 .. MaxSeq : Valid(seq) /\ s' = [s EXCEPT !.rseq = seq]
  /\ UNCHANGED <<modified, acks>>

(* ack_handler(): the first ACK establishes the session of the callee.      *)
AckFor(r, good) ==
  LET x == [s EXCEPT !.replyl = @ \ {r}] IN
  IF s.terminated > 0
  THEN IF x.replyl = {} THEN Deref([x EXCEPT !.established = TRUE]) ELSE {x}
  ELSE LET y == IF r.awaiting THEN [x EXCEPT !.awaiting_answer = FALSE] ELSE x
           m == IF y.modify_pending /\ y.replyl = {} THEN Reinvite(y) ELSE {y}
       IN IF s.established THEN m
          ELSE UNION {IF r.awaiting /\ ~good
                      THEN SipsessTerminate([z EXCEPT !.established = TRUE])
                      ELSE {[z EXCEPT !.established = TRUE]} : z \in m}

PeerAck ==
  /\ Live
  /\ \E r \in s.replyl, good \in BOOLEAN : s' \in AckFor(r, good)
  /\ UNCHANGED <<modified, acks>>

(* tmr_handler() of reply.c: no ACK in 64*T1.                               *)
NoAck ==
  /\ Live
  /\ \E r \in s.replyl :
       LET x == [s EXCEPT !.replyl = @ \ {r}] IN
       s' \in IF x.replyl # {} THEN {x}
              ELSE EndOrDeref([x EXCEPT !.established = TRUE])
  /\ UNCHANGED <<modified, acks>>

-----------------------------------------------------------------------------
Next ==
  \/ Connect \/ Accept \/ Progress \/ Answer \/ Modify \/ ModifyTimer \/ Info
  \/ Release \/ Answered \/ Failed \/ InfoEnds \/ AckExpires
  \/ PeerBye \/ PeerCancel \/ PeerReinvite \/ PeerInfo \/ PeerAck \/ NoAck

(* Each request ends (CancelledEnds of SipTransaction: the session has      *)
(* cancelled its INVITE, and other requests time out), and so does the wait *)
(* for an ACK.                                                              *)
Fairness == WF_vars(Failed) /\ WF_vars(InfoEnds) /\ WF_vars(NoAck)
Spec == Init /\ [][Next]_vars /\ Fairness

-----------------------------------------------------------------------------
(* The values the fields can have.                                          *)
Replies == [seq : 0 .. MaxSeq, awaiting : BOOLEAN]
Sessions ==
  [phase : {"none", "live", "freed"}, refs : Nat, user : BOOLEAN, owner : BOOLEAN,
   terminated : {0, 1, 2}, established : BOOLEAN, peerterm : BOOLEAN,
   dialog : BOOLEAN, rseq : 0 .. MaxSeq, desc : BOOLEAN, sent_offer : BOOLEAN,
   awaiting_answer : BOOLEAN, modify_pending : BOOLEAN,
   req : {"none", "INVITE", "REINVITE", "BYE"}, st : BOOLEAN, tmr : BOOLEAN,
   replyl : SUBSET Replies, requestl : 0 .. MaxInfo, failc : 0 .. FailLimit,
   last : Codes \cup {"none"}, closed : Nat, bye : {"none", "sent", "failed"}]

TypeOK == s \in Sessions /\ acks \in 0 .. MaxAcks /\ modified \in 0 .. MaxLoop

(* The references add up: a session that lives is held by its user until it *)
(* is terminated, and after that by exactly one reference for each thing    *)
(* that must still end, so that it is released neither early, while an      *)
(* answer can still reach it, nor never (termwait, terminate and six        *)
(* handlers take and give these references).                                *)
ReferencesAddUp ==
  /\ Live => s.refs = Count(s.user) +
       (IF s.terminated = 0 THEN 0
        ELSE Count(s.req # "none") + Count(s.replyl # {}) + Count(s.requestl > 0))
  /\ (Live /\ s.terminated = 0) => s.user
  /\ s.phase = "freed" => ~Waits(s) /\ ~s.tmr /\ ~s.st /\ s.refs = 0

(* Whoever leaves an established session tells the peer: the session is not *)
(* released without a BYE from one of the two sides, also when the ACK or   *)
(* the answer came after the user had hung up (unless the BYE could not be  *)
(* sent); and the user is told at most once that the session was closed.    *)
EstablishedEndsWithBye ==
  /\ (s.phase = "freed" /\ s.established) => s.peerterm \/ s.bye # "none"
  /\ s.bye # "none" => s.terminated = 2 /\ s.established
  /\ s.closed <= 1

(* A session whose user has let go of it is released in the end, whatever   *)
(* was under way.                                                           *)
ReleasedInTheEnd == (Live /\ ~s.user) ~> (s.phase = "freed")
=============================================================================
