-------------------------------- MODULE Turn --------------------------------
(***************************************************************************)
(* The TURN client of libre (turn/turnc.c, perm.c, chan.c): an allocation  *)
(* that is refreshed, permissions and channels that are bound and bound    *)
(* again, and the data that goes through them.  The server answers what it *)
(* likes.  An object is a record: is a request pending, is the timer set,  *)
(* the state of the loop check, how many requests it has made since that   *)
(* was reset, and has the user been told of an error?                      *)
(***************************************************************************)
EXTENDS Naturals, FiniteSets, FiniteSetsExt

CONSTANTS Peer,
          PermPeer,  \* the peers that get a permission
          FailcMax,  \* FAILC_MAX
          NumbMax    \* the number of channel numbers, CHAN_NUMB_MAX
VARIABLES t,         \* the client: "none", "up", "dead"; has it an allocation?
          a,         \* its request of an allocation, or of a refresh
          perm, chan,
          nr,        \* the next channel number
          net        \* data on the way, and the peer it is for or from

vars == <<t, a, perm, chan, nr, net>>
None == [ex |-> FALSE, ct |-> FALSE, tmr |-> FALSE, last |-> 0, failc |-> 0, reqs |-> 0,
         told |-> FALSE, nr |-> 0]
Init ==
  /\ t = [st |-> "none", allocated |-> FALSE] /\ a = None /\ nr = 1 /\ net = {}
  /\ perm = [p \in PermPeer |-> None] /\ chan = [p \in Peer |-> None]

-----------------------------------------------------------------------------
(* turnc_request_loops(): the state of the check, and is it a loop?         *)
Checked(o, scode) ==
  [o EXCEPT !.failc = IF scode = 0 THEN 0 ELSE IF @ < FailcMax THEN @ + 1 ELSE @, !.last = scode]
Loops(o, scode) ==
  \/ scode \notin {0, 300} /\ o.last = scode
  \/ scode # 0 /\ o.failc + 1 >= FailcMax
Reset(o) == [o EXCEPT !.last = 0, !.failc = 0, !.reqs = 0]

(* stun_request(), whose failure the user is told of by the handler.        *)
Sent(o) == [o EXCEPT !.ct = TRUE, !.reqs = @ + 1]
Told(o) == [None EXCEPT !.ex = TRUE, !.nr = o.nr, !.told = TRUE]     \* no request follows
Request(o) == {Sent(o), Told(o)}
(* refresh_timer() and the timers of permissions and channels.              *)
Bound(o) == [o EXCEPT !.tmr = TRUE, !.reqs = 0]

(* allocate_resp_handler(), refresh_resp_handler(),                         *)
(* createperm_resp_handler() and chanbind_resp_handler() agree but for the  *)
(* other server that an allocation may be sent to.  A response without the  *)
(* attributes it needs is an error.                                         *)
Answered(o, scode) ==
  LET c == Checked([o EXCEPT !.ct = FALSE], scode)
  IN  IF Loops(o, scode) THEN {Told(c)}
      ELSE CASE scode = 0          -> {Bound(c)}
             [] scode \in {401, 438} -> {Told(c)} \cup Request(c)
             [] OTHER              -> {Told(c)}
NoAnswer(o) == {Told(o)}
Responses(o) == UNION {Answered(o, s) : s \in {0, 401, 438, 500}} \cup NoAnswer(o)
AllocAnswered(o, scode) ==
  LET c == Checked([o EXCEPT !.ct = FALSE], scode)
  IN  IF scode = 300 /\ ~t.allocated /\ ~Loops(o, scode) THEN {Told(c)} \cup Request(c)
      ELSE Answered(o, scode) \cup (IF scode = 0 /\ ~t.allocated THEN {Told(c)} ELSE {})
(* The timeout() of each: a new request with a fresh loop check.            *)
Again(o) == Request(Reset([o EXCEPT !.tmr = FALSE, !.ct = FALSE]))

-----------------------------------------------------------------------------
(* turnc_alloc().                                                           *)
Alloc ==
  /\ t.st = "none"
  /\ \/ t' = [t EXCEPT !.st = "up"] /\ a' = Sent([None EXCEPT !.ex = TRUE])
     \/ UNCHANGED <<t, a>>
  /\ UNCHANGED <<perm, chan, nr, net>>
(* The end of destructor(): all requests are dropped, and a last refresh    *)
(* with no lifetime gives the allocation back.                              *)
Destroy ==
  /\ t.st = "up" /\ t' = [st |-> "dead", allocated |-> FALSE]
  /\ a' = None /\ perm' = [p \in PermPeer |-> None] /\ chan' = [p \in Peer |-> None]
  /\ UNCHANGED <<nr, net>>
AllocResp ==
  /\ a.ct
  /\ \/ \E s \in {0, 300, 401, 438, 500} :
          /\ a' \in AllocAnswered(a, s)
          /\ t' = [t EXCEPT !.allocated = @ \/ (s = 0 /\ a'.tmr)]
     \/ a' \in NoAnswer(a) /\ UNCHANGED t
  /\ UNCHANGED <<perm, chan, nr, net>>
Refresh == a.tmr /\ a' \in Again(a) /\ UNCHANGED <<t, perm, chan, nr, net>>

(* turnc_add_perm(): nothing for a peer that has one.                       *)
AddPerm ==
  /\ t.st = "up"
  /\ \E p \in PermPeer :
       /\ ~perm[p].ex
       /\ \/ perm' = [perm EXCEPT ![p] = Sent([None EXCEPT !.ex = TRUE])]
          \/ UNCHANGED perm
  /\ UNCHANGED <<t, a, chan, nr, net>>
PermResp ==
  /\ \E p \in PermPeer : \E o \in Responses(perm[p]) : perm[p].ct /\ perm' = [perm EXCEPT ![p] = o]
  /\ UNCHANGED <<t, a, chan, nr, net>>
PermTimeout ==
  /\ \E p \in PermPeer : perm[p].tmr /\ \E o \in Again(perm[p]) : perm' = [perm EXCEPT ![p] = o]
  /\ UNCHANGED <<t, a, chan, nr, net>>

(* turnc_add_chan(): nothing without a free number or for a peer that has   *)
(* one; the number is used up also when the request cannot be sent.         *)
AddChan ==
  /\ t.st = "up" /\ nr < NumbMax /\ nr' = nr + 1
  /\ \E p \in Peer :
       /\ ~chan[p].ex
       /\ \/ chan' = [chan EXCEPT ![p] = Sent([None EXCEPT !.ex = TRUE, !.nr = nr])]
          \/ UNCHANGED chan
  /\ UNCHANGED <<t, a, perm, net>>
ChanResp ==
  /\ \E p \in Peer : \E o \in Responses(chan[p]) : chan[p].ct /\ chan' = [chan EXCEPT ![p] = o]
  /\ UNCHANGED <<t, a, perm, nr, net>>
ChanTimeout ==
  /\ \E p \in Peer : chan[p].tmr /\ \E o \in Again(chan[p]) : chan' = [chan EXCEPT ![p] = o]
  /\ UNCHANGED <<t, a, perm, nr, net>>

(* udp_send_handler() and turnc_send(): over the channel of the peer, be it *)
(* bound yet or not, or in an indication that names the peer; the server    *)
(* hands it on, and back the same way (udp_recv_handler(), turnc_recv()).   *)
Send ==
  /\ t.st = "up" /\ net = {}
  /\ \E p \in Peer : net' = {[for |-> p, nr |-> chan[p].nr]}
  /\ UNCHANGED <<t, a, perm, chan, nr>>
From(d) == IF d.nr = 0 THEN {d.for} ELSE {p \in Peer : chan[p].ex /\ chan[p].nr = d.nr}
Recv == net # {} /\ net' = {} /\ UNCHANGED <<t, a, perm, chan, nr>>

Next ==
  \/ Alloc \/ Destroy \/ AllocResp \/ Refresh \/ AddPerm \/ PermResp \/ PermTimeout
  \/ AddChan \/ ChanResp \/ ChanTimeout \/ Send \/ Recv
Spec == Init /\ [][Next]_vars

-----------------------------------------------------------------------------
Objects == {a} \cup {perm[p] : p \in PermPeer} \cup {chan[p] : p \in Peer}
(* The values the variables can have.                                       *)
TypeOK ==
  /\ t.st \in {"none", "up", "dead"} /\ nr \in 1 .. NumbMax
  /\ \A o \in Objects : o.failc \in 0 .. FailcMax

(* The allocation, the permissions and the channels are kept alive: each    *)
(* has a request pending or a timer that will make one, or the user has     *)
(* been told of the error that ended that.                                  *)
KeptAlive ==
  /\ t.allocated => a.ex
  /\ \A o \in Objects : o.ex => o.ct \/ o.tmr \/ o.told

(* turnc_request_loops(): a server that always finds another reason to ask  *)
(* again gets FAILC_MAX requests and no more.                               *)
RequestsEnd == \A o \in Objects : o.reqs <= FailcMax

(* The two tables of channels agree: a number is never that of two peers,   *)
(* and data comes back from the peer it was sent to, as long as the client  *)
(* lives, whichever channels came up while it was on the way.               *)
ChannelsAgree ==
  /\ \A p, q \in Peer : chan[p].ex /\ chan[q].ex /\ p # q => chan[p].nr # chan[q].nr
  /\ t.st = "up" => \A d \in net : From(d) = {d.for}
=============================================================================
