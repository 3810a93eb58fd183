------------------------------ MODULE SipEvent ------------------------------
(***************************************************************************)
(* SIP event subscriptions of libre: the subscriber (sipevent/subscribe.c  *)
(* and the NOTIFY half of listen.c) and the notifier (sipevent/notify.c    *)
(* and the SUBSCRIBE half of listen.c), each against a peer that may send  *)
(* anything at any time.  Both objects outlive their user until the last   *)
(* exchange with the peer has ended.  "orig" is a subscription, "fork" the *)
(* one a forking SUBSCRIBE adds for the dialog of a second peer; a REFER   *)
(* that forks is left out.  A set-valued operator yields the outcomes.     *)
(***************************************************************************)
EXTENDS Naturals

CONSTANT FailMax     \* RESUB_FAILC_MAX
VARIABLES sub,       \* struct sipsub, by name
          not        \* struct sipnot

vars == <<sub, not>>
Name == {"orig", "fork"}

NoSub == [refs |-> 0, user |-> FALSE, req |-> FALSE, tmr |-> "off", subscribed |-> FALSE,
          terminated |-> FALSE, expires |-> TRUE, termwait |-> FALSE, termconf |-> FALSE,
          refer |-> FALSE, forkh |-> FALSE, kind |-> "none", failc |-> 0, closed |-> 0]
NoNot == [refs |-> 0, user |-> FALSE, req |-> FALSE, tmr |-> FALSE, subscribed |-> FALSE,
          terminated |-> FALSE, termsent |-> FALSE, pending |-> FALSE, closed |-> 0]
Init == sub = [n \in Name |-> NoSub] /\ not = NoNot

-----------------------------------------------------------------------------
(* request() of subscribe.c, sent or not: a REFER until it is answered,     *)
(* else a SUBSCRIBE, for 0 seconds when the subscription is terminated.     *)
NotSent(r) == IF r.refer THEN r ELSE [r EXCEPT !.expires = @ /\ ~r.terminated]
Sent(r) == [NotSent(r) EXCEPT !.req = TRUE]

(* Mutant: a request under way is not waited for with a reference.          *)
Terminate_bug(r) ==
  LET t == [r EXCEPT !.terminated = TRUE, !.forkh = FALSE, !.tmr = "off"]
      held == [t EXCEPT !.refs = @ + 1]
  IN  IF r.termwait THEN {[held EXCEPT !.tmr = r.tmr]}
      ELSE IF ~r.req /\ r.expires /\ r.subscribed THEN {Sent(held), NotSent(t)} ELSE {t}

(* terminate(): who still waits for the peer takes a reference.             *)
Terminate(r) ==
  LET w == [r EXCEPT !.terminated = TRUE, !.forkh = FALSE]
      t == [w EXCEPT !.tmr = "off"]
      held == [t EXCEPT !.refs = @ + 1]
  IN  IF r.termwait THEN {[w EXCEPT !.refs = @ + 1]}
      ELSE IF r.req THEN {held}
      ELSE IF r.expires /\ r.subscribed THEN {Sent(held), NotSent(t)} ELSE {t}

(* mem_deref() and destructor()                                             *)
Freed(r) == [r EXCEPT !.refs = 0, !.tmr = "off", !.req = FALSE, !.termwait = FALSE]
Deref(r) ==
  LET d == [r EXCEPT !.refs = @ - 1]
  IN  IF d.refs > 0 THEN {d}
      ELSE IF d.terminated THEN {Freed(d)}
      ELSE {IF t.refs = 0 THEN Freed(t) ELSE t : t \in Terminate(d)}

(* sipsub_terminate(): the close handler is called.  Its user may drop the  *)
(* subscription there or later; that of a fork is taken to drop it there,   *)
(* for the response to the SUBSCRIBE would release a fork that has ended.   *)
Close(r) ==
  LET told == {[t EXCEPT !.closed = @ + 1] : t \in Terminate(r)}
  IN  (IF r.kind = "fork" THEN {} ELSE told)
      \cup UNION {Deref([t EXCEPT !.user = FALSE]) : t \in {u \in told : u.user}}
Reschedule(r) == [r EXCEPT !.tmr = "resub"]
Waits(r) == [r EXCEPT !.tmr = "wait", !.termwait = TRUE]

(* The out label of response_handler().                                     *)
SubOut(x) ==
  LET r == [x EXCEPT !.refer = FALSE]
  IN  IF r.terminated
      THEN IF ~r.expires \/ ~r.subscribed THEN Deref(r) ELSE {Sent(r)} \cup Deref(NotSent(r))
      ELSE LET f == [r EXCEPT !.failc = @ + 1]
           IN  IF r.subscribed /\ f.failc < FailMax THEN {Reschedule(f)}
               ELSE Close(IF r.subscribed THEN f ELSE r)

(* response_handler() on 2xx, from the dialog of r on.                      *)
SubAccepted(x) ==
  LET r == [x EXCEPT !.subscribed = @ \/ ~x.termconf, !.failc = 0]
  IN  IF ~r.expires /\ ~r.termconf THEN {Waits(r)}
      ELSE IF r.terminated THEN SubOut(r)
      ELSE IF r.refer THEN {[r EXCEPT !.refer = FALSE]} ELSE {Reschedule(r)}

(* sipsub_alloc(), for sipevent_subscribe, sipevent_dsubscribe,             *)
(* sipevent_refer and sipevent_drefer.                                      *)
Kinds == {"plain", "fetch", "refer", "forking"}
Subscribe ==
  /\ sub["orig"] = NoSub
  /\ \E k \in Kinds :
       sub' = [sub EXCEPT !["orig"] =
                 Sent([NoSub EXCEPT !.refs = 1, !.user = TRUE, !.kind = k, !.expires = k # "fetch",
                                    !.refer = k = "refer", !.forkh = k = "forking"])]
  /\ UNCHANGED not

(* sipevent_fork(), called from the fork handler of the user.               *)
Forked(o) ==
  LET f == [NoSub EXCEPT !.refs = 1, !.user = TRUE, !.expires = o.expires, !.refer = o.refer,
                       !.kind = "fork"]
  IN  IF f.expires THEN f ELSE Waits(f)

SubDrop(n) ==
  /\ sub[n].user /\ \E r \in Deref([sub[n] EXCEPT !.user = FALSE]) : sub' = [sub EXCEPT ![n] = r]
  /\ UNCHANGED not

(* tmr_handler() and notify_timeout_handler()                               *)
Resubscribe(n) ==
  LET r == [sub[n] EXCEPT !.tmr = "off"]
      f == [NotSent(r) EXCEPT !.failc = @ + 1]
  IN  /\ sub[n].tmr = "resub"
      /\ \E s \in IF r.req \/ r.terminated THEN {r}
                  ELSE {Sent(r)} \cup IF f.failc < FailMax THEN {Reschedule(f)} ELSE Close(f) :
           sub' = [sub EXCEPT ![n] = s]
      /\ UNCHANGED not
NotifyTimeout(n) ==
  LET r == [sub[n] EXCEPT !.tmr = "off", !.termwait = FALSE]
  IN  /\ sub[n].tmr = "wait"
      /\ \E s \in IF r.terminated THEN Deref(r) ELSE Close(r) : sub' = [sub EXCEPT ![n] = s]
      /\ UNCHANGED not

(* response_handler() on 2xx; a subscription that forks leaves it to the    *)
(* one of the dialog, which is made when there is none.  A dialog that      *)
(* cannot be made is a failure.                                             *)
SubResponseOk(n) ==
  LET r == [sub[n] EXCEPT !.req = FALSE]
  IN  /\ sub[n].req
      /\ IF r.forkh
         THEN \E s \in SubAccepted(IF sub["fork"].refs = 0 THEN Forked(r) ELSE sub["fork"]) :
                sub' = [sub EXCEPT ![n] = r, !["fork"] = s]
         ELSE \E s \in SubAccepted(r) \cup SubOut([r EXCEPT !.subscribed = FALSE]) :
                sub' = [sub EXCEPT ![n] = s]
      /\ UNCHANGED not

(* response_handler() on everything else final; 401, 407 and 423 are        *)
(* followed by another request, 481 ends the subscription.                  *)
SubResponseFails(n) ==
  LET r == [sub[n] EXCEPT !.req = FALSE]
  IN  /\ sub[n].req
      /\ \E s \in SubOut(r) \cup SubOut([r EXCEPT !.subscribed = FALSE]) \cup
                  (IF r.terminated /\ ~r.subscribed THEN {} ELSE {Sent(r)} \cup SubOut(NotSent(r))) :
           sub' = [sub EXCEPT ![n] = s]
      /\ UNCHANGED not

(* sipsub_find(): a NOTIFY of the dialog of n finds it in the table.        *)
Found(n) == sub[n].refs > 0 /\ (n = "orig" => ~sub[n].forkh)

(* notify_handler(): the user may drop the subscription in its handler.     *)
NotifyOutcome(x, final, refresh, drop) ==
  LET r == IF final THEN [x EXCEPT !.subscribed = FALSE, !.termconf = TRUE]
           ELSE LET a == [x EXCEPT !.subscribed = @ \/ ~x.termconf]
                IN  IF refresh /\ ~a.terminated /\ ~a.termwait THEN Reschedule(a) ELSE a
      ends(h) == IF ~final THEN {h}
                 ELSE IF ~h.terminated THEN Close([h EXCEPT !.termwait = FALSE])
                 ELSE IF h.termwait THEN Deref([h EXCEPT !.termwait = FALSE, !.tmr = "off"])
                 ELSE {h}
  IN  IF drop /\ r.user
      THEN LET d == [r EXCEPT !.user = FALSE]
           IN  IF d.refs = 1 THEN Deref(d) ELSE ends([d EXCEPT !.refs = @ - 1])
      ELSE ends(r)
RecvNotify(n) ==
  /\ \E final \in BOOLEAN, refresh \in BOOLEAN, drop \in BOOLEAN :
       \/ /\ Found(n)
          /\ \E s \in NotifyOutcome(sub[n], final, refresh, drop) : sub' = [sub EXCEPT ![n] = s]
       \/ /\ n = "fork" /\ sub["fork"].refs = 0 /\ sub["orig"].refs > 0 /\ sub["orig"].forkh
          /\ \E s \in NotifyOutcome(Forked(sub["orig"]), final, refresh, drop) :
               sub' = [sub EXCEPT !["fork"] = s]
  /\ UNCHANGED not

-----------------------------------------------------------------------------
(* notify_request() of notify.c, sent or not.                               *)
NNotSent(r) == [r EXCEPT !.termsent = @ \/ r.terminated, !.pending = FALSE]
NSent(r) == [NNotSent(r) EXCEPT !.req = TRUE]

NTerminate(r) ==
  LET t == [r EXCEPT !.terminated = TRUE, !.tmr = FALSE]
      held == [t EXCEPT !.refs = @ + 1]
  IN  IF r.req THEN {held}
      ELSE IF r.subscribed THEN {NSent(held), NNotSent(t)} ELSE {t}
NFreed(r) == [r EXCEPT !.refs = 0, !.tmr = FALSE, !.req = FALSE]
NDeref(r) ==
  LET d == [r EXCEPT !.refs = @ - 1]
  IN  IF d.refs > 0 THEN {d}
      ELSE IF d.terminated THEN {NFreed(d)}
      ELSE {IF t.refs = 0 THEN NFreed(t) ELSE t : t \in NTerminate(d)}
NClose(r) == {[t EXCEPT !.closed = @ + 1] : t \in NTerminate(r)}

(* sipevent_accept()                                                        *)
Accept ==
  /\ not = NoNot
  /\ not' = [NoNot EXCEPT !.refs = 1, !.user = TRUE, !.tmr = TRUE, !.subscribed = TRUE]
  /\ UNCHANGED sub
NotDrop == not.user /\ not' \in NDeref([not EXCEPT !.user = FALSE]) /\ UNCHANGED sub
(* tmr_handler(): the subscription has run out.                             *)
NotExpires == not.tmr /\ not' \in NClose([not EXCEPT !.tmr = FALSE]) /\ UNCHANGED sub
(* sipnot_notify(): one NOTIFY at a time.                                   *)
NotifyOutcomes(r) ==
  IF r.req THEN {[r EXCEPT !.pending = TRUE]} ELSE {NSent(r), NNotSent(r)}
(* sipevent_notify()                                                        *)
Notify ==
  /\ not.user /\ ~not.terminated
  /\ not' \in NotifyOutcomes(not) \cup NTerminate(not) /\ UNCHANGED sub
(* subscribe_handler(): a refresh; one for 0 seconds is notified of when    *)
(* the timer fires at once.                                                 *)
RecvSubscribe ==
  /\ not.refs > 0 /\ ~not.terminated
  /\ LET r == [not EXCEPT !.tmr = TRUE] IN not' \in {r} \cup NotifyOutcomes(r)
  /\ UNCHANGED sub
(* response_handler() of notify.c                                           *)
NotOut(r) ==
  IF r.termsent THEN NDeref(r)
  ELSE IF r.terminated
       THEN IF r.subscribed THEN {NSent(r)} \cup NDeref(NNotSent(r)) ELSE NDeref(r)
  ELSE IF ~r.subscribed THEN NClose(r)
  ELSE IF r.pending THEN {NSent(r), NNotSent(r)} ELSE {r}
NotResponse ==
  LET r == [not EXCEPT !.req = FALSE]
  IN  /\ not.req
      /\ not' \in {NSent(r)} \cup NotOut(r) \cup NotOut([r EXCEPT !.subscribed = FALSE])
      /\ UNCHANGED sub

Next ==
  \/ Subscribe
  \/ \E n \in Name : \/ SubDrop(n) \/ Resubscribe(n) \/ NotifyTimeout(n)
                     \/ SubResponseOk(n) \/ SubResponseFails(n) \/ RecvNotify(n)
  \/ Accept \/ NotDrop \/ NotExpires \/ Notify \/ RecvSubscribe \/ NotResponse
Spec == Init /\ [][Next]_vars

-----------------------------------------------------------------------------
(* The values the fields can have.                                          *)
TypeOK == /\ \A n \in Name : sub[n].refs \in 0 .. 2 /\ sub[n].failc \in 0 .. FailMax
                             /\ sub[n].tmr \in {"off", "resub", "wait"}
          /\ not.refs \in 0 .. 2

One(b) == IF b THEN 1 ELSE 0

(* The references are those of the user and of a last exchange, so nothing  *)
(* is freed twice or never: a terminated subscription is held exactly while *)
(* its last request or the wait for the last NOTIFY goes on, and a freed    *)
(* one has neither timer nor request.                                       *)
ReferencesAddUp ==
  /\ \A n \in Name : LET s == sub[n] IN
       s.refs = One(s.user) + One(s.terminated /\ (s.req \/ s.termwait))
  /\ \A n \in Name : sub[n].refs = 0 => sub[n].tmr = "off" /\ ~sub[n].req
  /\ not.refs = One(not.user) + One(not.terminated /\ not.req)

(* A subscription that its user holds and that has not ended is renewed or  *)
(* watched: a request is under way or a timer runs.  (A REFER, and a fork   *)
(* that a NOTIFY has made, wait for the peer without one.)  Its user is     *)
(* told at most once that it has ended.                                     *)
SubscriptionGoesOn ==
  \A n \in Name : LET s == sub[n] IN
    /\ s.closed <= 1 /\ (s.closed = 1 => s.terminated)
    /\ s.termwait => s.tmr = "wait"
    /\ (s.user /\ ~s.terminated /\ s.kind \in {"plain", "fetch"}) => s.req \/ s.tmr # "off"

(* The notifier is not freed while the subscriber believes in the           *)
(* subscription, unless the last NOTIFY could not be sent; and a change it  *)
(* has postponed is always followed by a NOTIFY.                            *)
SubscriberTold ==
  /\ (not.terminated /\ not.refs = 0 /\ not.subscribed) => not.termsent
  /\ (not.pending /\ ~not.terminated) => not.req
=============================================================================
