--------------------------- MODULE SipTransaction ---------------------------
(***************************************************************************)
(* One SIP request between libre's client (sip/request.c, sip/ctrans.c)    *)
(* and libre's server (sip/strans.c, sip/reply.c): the request itself, the *)
(* CANCEL that may follow it and the ACK of a failed INVITE.  Over UDP a   *)
(* datagram may be lost, repeated and overtaken; over TCP it may not be    *)
(* repeated, but a connection may fail.  Status codes are kept as their    *)
(* class, contents and addresses are left out (the list of addresses of a  *)
(* request is in SipRequest).  A timer is in a set while it runs and may   *)
(* fire at any time: no property depends on how long it runs.              *)
(***************************************************************************)
EXTENDS Naturals, FiniteSets

CONSTANT MaxNew     \* bound: how often the server's user sees the request as new
ASSUME MaxNewAssumption == MaxNew \in Nat \ {0}

VARIABLES
  met,       \* "INVITE" or "OTHER"
  reliable,  \* sip_transp_reliable(tp)
  req,       \* struct sip_request
  ct,        \* state of the client transactions of the request and of its CANCEL
  tmr,       \* the client transactions whose time-out runs
  tmre,      \* the client transactions whose retransmission timer runs
  st,        \* state of the server transaction of the request, "none": not there
  stmr,      \* its timers that run: "tmr", "tmrg"
  last,      \* the class of st->mb, the answer it repeats
  news,      \* how often the server's user was given the request
  answers,   \* the classes the server's user has answered with
  net        \* messages under way

vars == <<met, reliable, req, ct, tmr, tmre, st, stmr, last, news, answers, net>>
client == <<req, ct, tmr, tmre>>
server == <<st, stmr, last, news, answers>>
fixed  == <<met, reliable>>

Finals  == {"2xx", "failed"}
Trans   == {"main", "cancel"}
Unfinished == {"CALLING", "TRYING", "PROCEEDING"}

Request(m) == [kind |-> "req", of |-> m, class |-> "none"]
Response(m, c) == [kind |-> "rsp", of |-> m, class |-> c]

Init ==
  /\ met \in {"INVITE", "OTHER"} /\ reliable \in BOOLEAN
  /\ req = [state |-> "idle", resph |-> TRUE, canceled |-> FALSE,
            provrecv |-> FALSE, result |-> "none"]
  /\ ct = [t \in Trans |-> "none"] /\ tmr = {} /\ tmre = {}
  /\ st = "none" /\ stmr = {} /\ last = "none" /\ news = 0 /\ answers = {}
  /\ net = {}

-----------------------------------------------------------------------------
(* The network.  A UDP datagram stays under way when it is delivered, so   *)
(* that it may arrive again, until it is lost.                             *)

Rest(msg) == IF reliable THEN net \ {msg} ELSE net

Lose ==
  /\ ~reliable
  /\ \E msg \in net : net' = net \ {msg}
  /\ UNCHANGED <<fixed, client, server>>

-----------------------------------------------------------------------------
(* The client.                                                              *)

(* Mutant: the user is told though it dropped the request.                  *)
Told_bug(r, result) == [r EXCEPT !.state = "done", !.result = result]

(* terminate() of request.c and the release of the request: its user is     *)
(* told once, and not at all when it dropped the request before.            *)
Told(r, result) ==
  [r EXCEPT !.state = "done", !.result = IF r.resph THEN result ELSE "none"]

Starts(t) == IF t = "main" /\ met = "INVITE" THEN "CALLING" ELSE "TRYING"

(* sip_ctrans_request(): the transactions c after t was started, with the   *)
(* timers it starts and the message it sends.                               *)
CtransRequest(t, c, rest) ==
  /\ ct' = [c EXCEPT ![t] = Starts(t)]
  /\ tmre' = IF reliable THEN tmre \ {"main"} ELSE (tmre \ {"main"}) \cup {t}
  /\ net' = rest \cup {Request(t)}

SipRequest ==
  /\ req.state = "idle"
  /\ \/ /\ req' = [req EXCEPT !.state = "open"]
        /\ tmr' = {"main"} /\ CtransRequest("main", ct, net)
     \/ /\ req' = Told(req, "error")                  \* it cannot be sent
        /\ UNCHANGED <<ct, tmr, tmre, net>>
  /\ UNCHANGED <<fixed, server>>

(* Mutant: the time-out is not started again.                               *)
CtransCancel_bug(c, running, rest) ==
  IF met = "INVITE" /\ c["main"] = "PROCEEDING"
  THEN tmr' = running \cup {"cancel"} /\ CtransRequest("cancel", c, rest)
  ELSE ct' = c /\ tmr' = running /\ net' = rest /\ UNCHANGED tmre

(* sip_ctrans_cancel() of the transactions c: only an INVITE with a         *)
(* provisional answer is cancelled; its time-out is started again, so that  *)
(* it does not wait for ever for an answer.                                 *)
CtransCancel(c, running, rest) ==
  IF met = "INVITE" /\ c["main"] = "PROCEEDING"
  THEN \/ tmr' = running \cup {"main", "cancel"} /\ CtransRequest("cancel", c, rest)
       \/ /\ tmr' = running \cup {"main"}             \* the CANCEL cannot be sent
          /\ ct' = c /\ net' = rest /\ tmre' = tmre \ {"main"}
  ELSE ct' = c /\ tmr' = running /\ net' = rest /\ UNCHANGED tmre

(* sip_request_cancel(), and the release of a request that is not finished, *)
(* which cancels it and forgets its handler.                                *)
Cancels(drop) ==
  /\ req.state = "open" /\ req.resph
  /\ req' = [req EXCEPT !.canceled = TRUE, !.resph = ~drop]
  /\ IF ~req.canceled /\ req.provrecv
     THEN CtransCancel(ct, tmr, net)
     ELSE UNCHANGED <<ct, tmr, tmre, net>>
  /\ UNCHANGED <<fixed, server>>

SipRequestCancel == ~req.canceled /\ Cancels(FALSE)
RequestDropped   == Cancels(TRUE)

(* A provisional answer reaches response_handler() of request.c: the first  *)
(* one sends the CANCEL that was asked for before it.                       *)
Provisional(running, rest) ==
  LET c == [ct EXCEPT !["main"] = "PROCEEDING"] IN
  /\ req' = [req EXCEPT !.provrecv = TRUE]
  /\ IF ~req.provrecv /\ req.canceled
     THEN CtransCancel(c, running, rest)
     ELSE /\ ct' = c /\ tmr' = running /\ net' = rest
          /\ tmre' = IF met = "INVITE" THEN tmre \ {"main"} ELSE tmre

(* invite_response().  A provisional answer to a calling INVITE stops both  *)
(* timers: it may ring for ever.  The transaction of a failed one stays to  *)
(* acknowledge the answer again, except over a reliable transport.          *)
InviteResponse(c, rest) ==
  \/ /\ ct["main"] \in {"CALLING", "PROCEEDING"} /\ c = "1xx"
     /\ Provisional(IF ct["main"] = "CALLING" THEN tmr \ {"main"} ELSE tmr, rest)
  \/ /\ ct["main"] \in {"CALLING", "PROCEEDING"} /\ c = "2xx"
     /\ ct' = [ct EXCEPT !["main"] = "none"] /\ req' = Told(req, c)
     /\ tmr' = tmr \ {"main"} /\ tmre' = tmre \ {"main"} /\ net' = rest
  \/ /\ ct["main"] \in {"CALLING", "PROCEEDING"} /\ c = "failed"
     /\ ct' = [ct EXCEPT !["main"] = IF reliable THEN "none" ELSE "COMPLETED"]
     /\ req' = Told(req, c) /\ net' = rest \cup {Request("ack")}
     /\ tmr' = (IF reliable THEN tmr \ {"main"} ELSE tmr \cup {"main"})
     /\ tmre' = tmre \ {"main"}
  \/ /\ ct["main"] = "COMPLETED"
     /\ net' = (IF c = "failed" THEN rest \cup {Request("ack")} ELSE rest)
     /\ UNCHANGED client

(* response_handler() of ctrans.c for the other methods.  The CANCEL has no *)
(* user to tell.                                                            *)
OtherResponse(t, c, rest) ==
  \/ /\ ct[t] \in {"TRYING", "PROCEEDING"} /\ c = "1xx" /\ t = "main"
     /\ Provisional(tmr, rest)
  \/ /\ ct[t] \in {"TRYING", "PROCEEDING"} /\ c \in Finals
     /\ ct' = [ct EXCEPT ![t] = IF reliable THEN "none" ELSE "COMPLETED"]
     /\ req' = IF t = "main" THEN Told(req, c) ELSE req
     /\ tmr' = (IF reliable THEN tmr \ {t} ELSE tmr \cup {t})
     /\ tmre' = tmre \ {t} /\ net' = rest
  \/ ct[t] = "COMPLETED" /\ net' = rest /\ UNCHANGED client

ClientReceives ==
  \E msg \in net :
    /\ msg.kind = "rsp"
    /\ IF msg.of = "main" /\ met = "INVITE"
       THEN InviteResponse(msg.class, Rest(msg))
       ELSE OtherResponse(msg.of, msg.class, Rest(msg))
    /\ UNCHANGED <<fixed, server>>

(* A response without a transaction is left to the listeners of sipsess.    *)
Unmatched ==
  \E msg \in net :
    /\ msg.kind = "rsp" /\ ct[msg.of] = "none"
    /\ net' = net \ {msg}
    /\ UNCHANGED <<fixed, client, server>>

(* terminate() of ctrans.c and the release of the transaction.              *)
Gone(t) ==
  /\ ct' = [ct EXCEPT ![t] = "none"]
  /\ tmr' = tmr \ {t} /\ tmre' = tmre \ {t}
  /\ req' = IF t = "main" /\ ct[t] \in Unfinished THEN Told(req, "error") ELSE req

(* tmr_handler()                                                            *)
TimesOut(t) == t \in tmr /\ Gone(t) /\ UNCHANGED <<fixed, server, net>>

(* transport_handler(): the connection that was to carry it failed.         *)
TransportFails(t) ==
  /\ reliable /\ ct[t] # "none" /\ Gone(t)
  /\ UNCHANGED <<fixed, server, net>>

(* retransmit_handler()                                                     *)
Retransmit(t) ==
  /\ t \in tmre
  /\ \/ net' = net \cup {Request(t)} /\ UNCHANGED client
     \/ ct[t] \in Unfinished /\ Gone(t) /\ UNCHANGED net
  /\ UNCHANGED <<fixed, server>>

(* close_handler() of sip_request_close(): the request loses its            *)
(* transaction and is told; a CANCEL goes on by itself.                     *)
SipRequestClose ==
  /\ req.state = "open" /\ req' = Told(req, "error")
  /\ ct' = [ct EXCEPT !["main"] = "none"]
  /\ tmr' = tmr \ {"main"} /\ tmre' = tmre \ {"main"}
  /\ UNCHANGED <<fixed, server, net>>

-----------------------------------------------------------------------------
(* The server.                                                              *)

(* sip_strans_reply(): the state and the timers after an answer of class c. *)
StateAfter(c) ==
  CASE c = "1xx" -> "PROCEEDING"
    [] c = "2xx" /\ met = "INVITE" -> "ACCEPTED"
    [] c \in Finals /\ met = "OTHER" /\ reliable -> "none"
    [] OTHER -> "COMPLETED"

(* Mutant: timer H is forgotten where timer G runs.                         *)
TimersAfter_bug(c) ==
  CASE c = "1xx" \/ (met = "OTHER" /\ reliable) -> stmr
    [] met = "INVITE" /\ c = "failed" /\ ~reliable -> {"tmrg"}
    [] OTHER -> {"tmr"}

TimersAfter(c) ==
  CASE c = "1xx" \/ (met = "OTHER" /\ reliable) -> stmr
    [] met = "INVITE" /\ c = "failed" /\ ~reliable -> {"tmr", "tmrg"}
    [] OTHER -> {"tmr"}

StransReply(c, rest) ==
  \/ /\ st' = StateAfter(c) /\ stmr' = TimersAfter(c)
     /\ last' = IF st' = "none" THEN "none" ELSE c
     /\ answers' = answers \cup {c}
     /\ net' = rest \cup {Response("main", c)}
  \/ /\ st' = "none" /\ stmr' = {} /\ last' = "none"   \* it cannot be sent
     /\ net' = rest /\ UNCHANGED answers

(* The user of the server answers; it holds the transaction until it has    *)
(* given a final answer.                                                    *)
Reply ==
  /\ st \in {"TRYING", "PROCEEDING"}
  /\ \E c \in Finals \cup {"1xx"} : StransReply(c, net)
  /\ UNCHANGED <<fixed, client, news>>

(* request_handler(): a request that is already known is answered again or  *)
(* ignored; another one is new to the user, who keeps it (sip_strans_alloc) *)
(* or answers it at once (sip_treply without a transaction).                *)
KnownRequest(rest) ==
  /\ st # "none"
  /\ net' = IF st \in {"PROCEEDING", "COMPLETED"}
            THEN rest \cup {Response("main", last)} ELSE rest
  /\ UNCHANGED server

NewRequest(rest) ==
  /\ st = "none" /\ news < MaxNew /\ news' = news + 1
  /\ \/ /\ st' = "TRYING" /\ net' = rest /\ UNCHANGED <<stmr, last, answers>>
     \/ \E c \in Finals : StransReply(c, rest)

(* cancel_handler(): the CANCEL is answered statelessly, and the user of an *)
(* unfinished INVITE answers it with 487.                                   *)
CancelRequest(rest) ==
  \/ st = "none" /\ net' = rest \cup {Response("cancel", "failed")} /\ UNCHANGED server
  \/ /\ st \in {"TRYING", "PROCEEDING"}
     /\ StransReply("failed", rest \cup {Response("cancel", "2xx")})
     /\ UNCHANGED news
  \/ /\ st \in {"ACCEPTED", "COMPLETED", "CONFIRMED"}
     /\ net' = rest \cup {Response("cancel", "2xx")} /\ UNCHANGED server

(* ack_handler(): the ACK of a 2xx is the session's.                        *)
AckRequest(rest) ==
  /\ net' = rest
  /\ IF st = "COMPLETED" /\ met = "INVITE"
     THEN /\ st' = (IF reliable THEN "none" ELSE "CONFIRMED")
          /\ stmr' = (IF reliable THEN {} ELSE {"tmr"})
          /\ last' = (IF reliable THEN "none" ELSE last)
          /\ UNCHANGED <<news, answers>>
     ELSE UNCHANGED server

ServerReceives ==
  \E msg \in net :
    /\ msg.kind = "req"
    /\ \/ msg.of = "main" /\ (KnownRequest(Rest(msg)) \/ NewRequest(Rest(msg)))
       \/ msg.of = "cancel" /\ CancelRequest(Rest(msg))
       \/ msg.of = "ack" /\ AckRequest(Rest(msg))
    /\ UNCHANGED <<fixed, client>>

StransTimesOut ==
  /\ "tmr" \in stmr
  /\ st' = "none" /\ stmr' = {} /\ last' = "none"
  /\ UNCHANGED <<fixed, client, net, news, answers>>

StransRetransmit ==
  /\ "tmrg" \in stmr /\ net' = net \cup {Response("main", last)}
  /\ UNCHANGED <<fixed, client, server>>

-----------------------------------------------------------------------------
ClientNext ==
  \/ SipRequest \/ SipRequestCancel \/ RequestDropped \/ SipRequestClose
  \/ ClientReceives \/ Unmatched
  \/ \E t \in Trans : TimesOut(t) \/ TransportFails(t) \/ Retransmit(t)
ServerNext == ServerReceives \/ Reply \/ StransTimesOut \/ StransRetransmit
Next == ClientNext \/ ServerNext \/ Lose

(* The main loop runs the handler of a timer that is due.                   *)
Fairness == (\A t \in Trans : WF_vars(TimesOut(t))) /\ WF_vars(StransTimesOut)
Spec == Init /\ [][Next]_vars /\ Fairness

-----------------------------------------------------------------------------
(* The values the fields can have.                                          *)
Requests == [state : {"idle", "open", "done"}, resph : BOOLEAN, canceled : BOOLEAN,
             provrecv : BOOLEAN, result : Finals \cup {"none", "error"}]
Messages == {Request(m) : m \in Trans \cup {"ack"}}
              \cup {Response(m, c) : m \in Trans, c \in Finals \cup {"1xx"}}

TypeOK ==
  /\ met \in {"INVITE", "OTHER"} /\ reliable \in BOOLEAN /\ req \in Requests
  /\ ct \in [Trans -> Unfinished \cup {"none", "COMPLETED"}]
  /\ tmr \subseteq Trans /\ tmre \subseteq Trans
  /\ st \in {"none", "TRYING", "PROCEEDING", "ACCEPTED", "COMPLETED", "CONFIRMED"}
  /\ stmr \subseteq {"tmr", "tmrg"} /\ last \in Finals \cup {"1xx", "none"}
  /\ news \in 0 .. MaxNew /\ answers \subseteq Finals \cup {"1xx"}
  /\ net \subseteq Messages

(* Nobody waits without a clock: a request is open exactly while its        *)
(* transaction is unfinished, a transaction that exists has its time-out    *)
(* running unless it is an INVITE that rings and was not cancelled, no      *)
(* timer outlives its transaction, and a server transaction that has given  *)
(* its final answer over UDP repeats a failure until it is acknowledged and *)
(* is released in the end (ctrans.c and strans.c start and cancel each of   *)
(* these timers in a different handler).                                    *)
NobodyWaitsForever ==
  /\ (req.state = "open") <=> (ct["main"] \in Unfinished)
  /\ \A t \in Trans :
       /\ t \in tmr \cup tmre => ct[t] # "none"
       /\ ct[t] # "none" =>
            \/ t \in tmr
            \/ t = "main" /\ met = "INVITE" /\ ct[t] = "PROCEEDING"
               /\ ~(req.canceled /\ req.provrecv)
  /\ st \in {"ACCEPTED", "COMPLETED", "CONFIRMED"} => "tmr" \in stmr
  /\ (met = "INVITE" /\ st = "COMPLETED" /\ ~reliable) => "tmrg" \in stmr
  /\ st \in {"none", "CONFIRMED", "ACCEPTED"} => "tmrg" \notin stmr

(* The request as module Exchange sees it.                                  *)
RequestPhase ==
  CASE req.state = "open" /\ ct["main"] = "PROCEEDING" -> "ringing"
    [] req.state = "open" /\ ct["main"] # "PROCEEDING" -> "asked"
    [] OTHER -> req.state
Promise == INSTANCE Exchange WITH
  phase <- RequestPhase, heard <- req.resph, result <- req.result

(* What the sender of the request sees is what a request promises: one      *)
(* outcome, given by the peer or an error, whatever is lost, repeated or    *)
(* overtaken, and also when the request is cancelled or dropped under way.  *)
KeepsPromise == Promise!Spec

(* A request that was cancelled, and any request but an INVITE, ends,       *)
(* although the peer may never answer (the 64*T1 of sip_ctrans_request and  *)
(* of sip_ctrans_cancel).                                                   *)
CancelledEnds ==
  (req.state = "open" /\ (req.canceled \/ met = "OTHER")) ~> (req.state = "done")
=============================================================================
