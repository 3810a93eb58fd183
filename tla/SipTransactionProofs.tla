------------------------ MODULE SipTransactionProofs ------------------------
(***************************************************************************)
(* Proofs about SipTransaction: every transaction that waits has a clock,  *)
(* and the sender of a request sees what module Exchange promises, however *)
(* messages are lost, repeated and overtaken, and however often the server *)
(* takes the request for a new one.                                        *)
(*                                                                         *)
(* For the clocks one must know that an INVITE has no provisional answer   *)
(* while it is calling, and which server transactions have no timer.  For  *)
(* the promise one must know where an answer can come from: what is under  *)
(* way, or kept to be repeated, was given by the server's user, and the    *)
(* server has seen nothing before the request was sent.                    *)
(***************************************************************************)
EXTENDS SipTransaction, TLAPS

Classes == Finals \cup {"1xx"}

(* Before the request is sent nothing is under way. *)
QuietBefore ==
  req.state = "idle" =>
    /\ req.resph /\ ~req.provrecv /\ req.result = "none"
    /\ \A t \in Trans : ct[t] = "none"
    /\ st = "none" /\ net = {}

(* The INVITE is calling until its first provisional answer. *)
CallingUnanswered == ct["main"] = "CALLING" => ~req.provrecv /\ met = "INVITE"

(* A server transaction that has not given its final answer has no timer;  *)
(* timer G runs only in the state COMPLETED.                               *)
ServerTimers ==
  /\ st \in {"none", "TRYING", "PROCEEDING"} => stmr = {}
  /\ "tmrg" \in stmr => st = "COMPLETED"

(* Answers come from the server's user. *)
AnswersGiven ==
  /\ \A msg \in net : msg.kind = "rsp" /\ msg.of = "main" => msg.class \in answers
  /\ st \in {"PROCEEDING", "COMPLETED"} => last \in answers

(* The client's half of NobodyWaitsForever, and the server's. *)
ClientClocks ==
  /\ (req.state = "open") <=> (ct["main"] \in Unfinished)
  /\ \A t \in Trans :
       /\ t \in tmr \cup tmre => ct[t] # "none"
       /\ ct[t] # "none" =>
            \/ t \in tmr
            \/ t = "main" /\ met = "INVITE" /\ ct[t] = "PROCEEDING"
               /\ ~(req.canceled /\ req.provrecv)
ServerClocks ==
  /\ st \in {"ACCEPTED", "COMPLETED", "CONFIRMED"} => "tmr" \in stmr
  /\ (met = "INVITE" /\ st = "COMPLETED" /\ ~reliable) => "tmrg" \in stmr

Inv ==
  /\ TypeOK /\ NobodyWaitsForever
  /\ QuietBefore /\ CallingUnanswered /\ ServerTimers /\ AnswersGiven

-----------------------------------------------------------------------------
(* Messages and the request, field by field. *)
LEMMA MessageFacts ==
  /\ \A m \in Trans \cup {"ack"} :
       Request(m) \in Messages /\ Request(m).kind = "req" /\ Request(m).of = m
  /\ \A m \in Trans, c \in Classes :
       /\ Response(m, c) \in Messages /\ Response(m, c).kind = "rsp"
       /\ Response(m, c).of = m /\ Response(m, c).class = c
<1>1. \A m \in Trans \cup {"ack"} :
       Request(m) \in Messages /\ Request(m).kind = "req" /\ Request(m).of = m
  BY DEF Messages, Request
<1>2. \A m \in Trans, c \in Classes :
       /\ Response(m, c) \in Messages /\ Response(m, c).kind = "rsp"
       /\ Response(m, c).of = m /\ Response(m, c).class = c
  BY DEF Messages, Response, Classes
<1> QED
  BY <1>1, <1>2

(* A response belongs to a transaction of the client and has a class. *)
LEMMA ResponseFacts ==
  ASSUME NEW msg \in Messages, msg.kind = "rsp"
  PROVE  msg.of \in Trans /\ msg.class \in Classes
  BY DEF Messages, Request, Response, Classes

(* What Told leaves of the request. *)
LEMMA ToldFacts ==
  ASSUME NEW r \in Requests, NEW res \in Finals \cup {"error"}
  PROVE  /\ Told(r, res) \in Requests
         /\ Told(r, res).state = "done" /\ Told(r, res).resph = r.resph
         /\ Told(r, res).provrecv = r.provrecv /\ Told(r, res).canceled = r.canceled
         /\ Told(r, res).result = IF r.resph THEN res ELSE "none"
<1>1. Told(r, res) \in Requests
  BY DEF Requests, Told, Finals
<1>2. /\ Told(r, res).state = "done" /\ Told(r, res).resph = r.resph
      /\ Told(r, res).provrecv = r.provrecv /\ Told(r, res).canceled = r.canceled
      /\ Told(r, res).result = IF r.resph THEN res ELSE "none"
  BY DEF Requests, Told
<1> QED
  BY <1>1, <1>2

(* What the three other updates of the request leave of it. *)
LEMMA RequestSet ==
  ASSUME NEW r \in Requests
  PROVE  /\ LET q == [r EXCEPT !.state = "open"] IN
              /\ q \in Requests /\ q.state = "open" /\ q.resph = r.resph
              /\ q.provrecv = r.provrecv /\ q.canceled = r.canceled
              /\ q.result = r.result
         /\ LET q == [r EXCEPT !.provrecv = TRUE] IN
              /\ q \in Requests /\ q.state = r.state /\ q.resph = r.resph
              /\ q.provrecv /\ q.canceled = r.canceled /\ q.result = r.result
         /\ \A drop \in BOOLEAN :
              LET q == [r EXCEPT !.canceled = TRUE, !.resph = ~drop] IN
              /\ q \in Requests /\ q.state = r.state /\ q.resph = ~drop
              /\ q.provrecv = r.provrecv /\ q.canceled /\ q.result = r.result
<1>1. LET q == [r EXCEPT !.state = "open"] IN
              /\ q \in Requests /\ q.state = "open" /\ q.resph = r.resph
              /\ q.provrecv = r.provrecv /\ q.canceled = r.canceled
              /\ q.result = r.result
  BY DEF Requests
<1>2. LET q == [r EXCEPT !.provrecv = TRUE] IN
              /\ q \in Requests /\ q.state = r.state /\ q.resph = r.resph
              /\ q.provrecv /\ q.canceled = r.canceled /\ q.result = r.result
  BY DEF Requests
<1>3. \A drop \in BOOLEAN :
              LET q == [r EXCEPT !.canceled = TRUE, !.resph = ~drop] IN
              /\ q \in Requests /\ q.state = r.state /\ q.resph = ~drop
              /\ q.provrecv = r.provrecv /\ q.canceled /\ q.result = r.result
  BY DEF Requests
<1> QED
  BY <1>1, <1>2, <1>3

-----------------------------------------------------------------------------
States == Unfinished \cup {"none", "COMPLETED"}

(* What a step of the client leaves of the client and of the network. *)
ClientGoal ==
  /\ req' \in Requests /\ ct' \in [Trans -> States]
  /\ tmr' \subseteq Trans /\ tmre' \subseteq Trans /\ net' \subseteq Messages
  /\ ClientClocks' /\ CallingUnanswered' /\ req'.state # "idle"
  /\ \A msg \in net' : msg \in net \/ msg.kind = "req"

ClientReady ==
  /\ TypeOK /\ ClientClocks /\ CallingUnanswered /\ QuietBefore
  /\ met' = met /\ reliable' = reliable

(* sip_ctrans_cancel() starts the time-out of both transactions. *)
LEMMA CancelFacts ==
  ASSUME NEW c \in [Trans -> States], NEW running \in SUBSET Trans,
         NEW rest \in SUBSET Messages, TypeOK, CtransCancel(c, running, rest)
  PROVE  /\ \/ ct' = c
            \/ ct' = [c EXCEPT !["cancel"] = "TRYING"] /\ "cancel" \in tmr'
         /\ running \subseteq tmr' /\ tmr' \subseteq Trans /\ tmre' \subseteq Trans
         /\ "cancel" \in tmr' => "cancel" \in running \/ ct'["cancel"] # "none"
         /\ "main" \in tmr' => "main" \in running \/ c["main"] = "PROCEEDING"
         /\ met = "INVITE" /\ c["main"] = "PROCEEDING" => "main" \in tmr'
         /\ "main" \in tmre' => "main" \in tmre
         /\ "cancel" \in tmre' => "cancel" \in tmre \/ ct'["cancel"] # "none"
         /\ net' \subseteq Messages
         /\ \A msg \in net' : msg \in rest \/ msg.kind = "req"
<1> USE DEF TypeOK, Trans
<1>1. CASE ~(met = "INVITE" /\ c["main"] = "PROCEEDING")
  BY <1>1 DEF CtransCancel
<1>2. CASE /\ met = "INVITE" /\ c["main"] = "PROCEEDING"
           /\ tmr' = running \cup {"main"}
           /\ ct' = c /\ net' = rest /\ tmre' = tmre \ {"main"}
  BY <1>2
<1>3. CASE /\ met = "INVITE" /\ c["main"] = "PROCEEDING"
           /\ tmr' = running \cup {"main", "cancel"} /\ CtransRequest("cancel", c, rest)
  <2>1. ct' = [c EXCEPT !["cancel"] = "TRYING"]
    BY <1>3 DEF CtransRequest, Starts
  <2>2. net' = rest \cup {Request("cancel")}
    BY <1>3 DEF CtransRequest
  <2>3. tmre' = tmre \ {"main"} \/ tmre' = (tmre \ {"main"}) \cup {"cancel"}
    BY <1>3 DEF CtransRequest
  <2>4. Request("cancel") \in Messages /\ Request("cancel").kind = "req"
    BY MessageFacts
  <2>5. ct'["cancel"] = "TRYING"
    BY <2>1
  <2> QED
    BY <1>3, <2>1, <2>2, <2>3, <2>4, <2>5
<1> QED
  BY <1>1, <1>2, <1>3 DEF CtransCancel

(* What a cancelled transaction needs from sip_ctrans_cancel(). *)
LEMMA CancelClocks ==
  ASSUME NEW c \in [Trans -> States], NEW running \in SUBSET Trans,
         NEW rest \in SUBSET net, ClientReady, CtransCancel(c, running, rest),
         c["main"] \in Unfinished, c["cancel"] = ct["cancel"],
         c["main"] = "CALLING" => ct["main"] = "CALLING" /\ req'.provrecv = req.provrecv,
         "cancel" \in running <=> "cancel" \in tmr,
         met # "INVITE" \/ c["main"] # "PROCEEDING" => "main" \in running,
         ct["main"] \in Unfinished,
         req' \in Requests, req'.state = "open"
  PROVE  ClientGoal
<1>1. /\ TypeOK /\ ClientClocks /\ CallingUnanswered /\ met' = met
      /\ net \subseteq Messages
  BY DEF ClientReady, TypeOK
<1>2. /\ \/ ct' = c
         \/ ct' = [c EXCEPT !["cancel"] = "TRYING"] /\ "cancel" \in tmr'
      /\ running \subseteq tmr' /\ tmr' \subseteq Trans /\ tmre' \subseteq Trans
      /\ "cancel" \in tmr' => "cancel" \in running \/ ct'["cancel"] # "none"
      /\ "main" \in tmr' => "main" \in running \/ c["main"] = "PROCEEDING"
      /\ met = "INVITE" /\ c["main"] = "PROCEEDING" => "main" \in tmr'
      /\ "main" \in tmre' => "main" \in tmre
      /\ "cancel" \in tmre' => "cancel" \in tmre \/ ct'["cancel"] # "none"
      /\ net' \subseteq Messages
      /\ \A msg \in net' : msg \in rest \/ msg.kind = "req"
  BY <1>1, CancelFacts
<1>3. ct' \in [Trans -> States] /\ ct'["main"] = c["main"]
  BY <1>2 DEF Trans, States, Unfinished
<1>4. ClientClocks'
  <2>1. (req'.state = "open") <=> (ct'["main"] \in Unfinished)
    BY <1>3
  <2>2. /\ "main" \in tmr' \cup tmre' => ct'["main"] # "none"
        /\ "main" \in tmr'
    BY <1>2, <1>3 DEF Unfinished
  <2>3. /\ "cancel" \in tmr' \cup tmre' => ct'["cancel"] # "none"
        /\ ct'["cancel"] # "none" => "cancel" \in tmr'
    BY <1>1, <1>2 DEF ClientClocks, Trans, States, Unfinished
  <2> QED
    BY <2>1, <2>2, <2>3 DEF ClientClocks, Trans
<1>5. CallingUnanswered'
  BY <1>1, <1>3 DEF CallingUnanswered
<1> QED
  BY <1>2, <1>3, <1>4, <1>5 DEF ClientGoal

(* sip_request() *)
LEMMA SipRequestStep == ASSUME ClientReady, SipRequest PROVE ClientGoal
<1>1. /\ TypeOK /\ req.state = "idle" /\ ~req.provrecv /\ met' = met
      /\ ct["main"] = "none" /\ ct["cancel"] = "none" /\ net = {}
      /\ tmr = {} /\ tmre = {}
  BY DEF SipRequest, ClientReady, QuietBefore, ClientClocks, Trans, TypeOK
<1>2. CASE /\ req' = [req EXCEPT !.state = "open"] /\ tmr' = {"main"}
           /\ CtransRequest("main", ct, net)
  <2>1. /\ req' \in Requests /\ req'.state = "open" /\ req'.provrecv = req.provrecv
    BY <1>1, <1>2, RequestSet DEF TypeOK
  <2>2. /\ Starts("main") \in {"CALLING", "TRYING"}
        /\ (Starts("main") = "CALLING" => met = "INVITE")
    BY DEF Starts
  <2>3. ct' = [ct EXCEPT !["main"] = Starts("main")]
    BY <1>2 DEF CtransRequest
  <2>4. /\ ct' \in [Trans -> States] /\ ct'["main"] = Starts("main")
        /\ ct'["cancel"] = "none"
    BY <1>1, <2>2, <2>3 DEF TypeOK, Trans, States, Unfinished
  <2>5. tmre' \subseteq {"main"} /\ net' = {Request("main")}
    BY <1>1, <1>2 DEF CtransRequest
  <2>6. net' \subseteq Messages /\ \A msg \in net' : msg.kind = "req"
    BY <2>5, MessageFacts DEF Trans
  <2>7. ClientClocks' /\ CallingUnanswered'
    BY <1>1, <1>2, <2>1, <2>2, <2>4, <2>5
       DEF ClientClocks, CallingUnanswered, Trans, Unfinished
  <2> QED
    BY <1>2, <2>1, <2>4, <2>5, <2>6, <2>7 DEF ClientGoal, Trans
<1>3. CASE req' = Told(req, "error") /\ UNCHANGED <<ct, tmr, tmre, net>>
  <2>1. req' \in Requests /\ req'.state = "done"
    BY <1>1, <1>3, ToldFacts DEF TypeOK
  <2> QED
    BY <1>1, <1>3, <2>1
       DEF ClientGoal, TypeOK, ClientClocks, CallingUnanswered, Trans, States, Unfinished
<1> QED
  BY <1>2, <1>3 DEF SipRequest

(* sip_request_cancel(), and the release of the request *)
LEMMA CancelsStep ==
  ASSUME ClientReady, NEW drop \in BOOLEAN, Cancels(drop)
  PROVE  ClientGoal
<1>1. /\ TypeOK /\ ClientClocks /\ CallingUnanswered /\ req.state = "open"
      /\ ct["main"] \in Unfinished /\ met' = met
      /\ ct \in [Trans -> States] /\ tmr \in SUBSET Trans
  BY DEF Cancels, ClientReady, ClientClocks, TypeOK, States
<1>2. /\ req' \in Requests /\ req'.state = "open" /\ req'.provrecv = req.provrecv
  <2>1. req' = [req EXCEPT !.canceled = TRUE, !.resph = ~drop] /\ req \in Requests
    BY <1>1 DEF Cancels, TypeOK
  <2> QED
    BY <1>1, <2>1, RequestSet
<1>3. CASE ~req.canceled /\ req.provrecv
  <2>1. CtransCancel(ct, tmr, net)
    BY <1>3 DEF Cancels
  <2>2. met # "INVITE" \/ ct["main"] # "PROCEEDING" => "main" \in tmr
    BY <1>1 DEF ClientClocks, Trans, Unfinished
  <2>3. net \in SUBSET net
    OBVIOUS
  <2> QED
    BY <1>1, <1>2, <2>1, <2>2, <2>3, CancelClocks
<1>4. CASE ~(~req.canceled /\ req.provrecv)
  <2>1. ct' = ct /\ tmr' = tmr /\ tmre' = tmre /\ net' = net
    BY <1>4 DEF Cancels
  <2>2. req'.canceled /\ req'.provrecv => req.canceled /\ req.provrecv
    BY <1>2, <1>4
  <2>3. ClientClocks'
    BY <1>1, <1>2, <2>1, <2>2 DEF ClientClocks
  <2> QED
    BY <1>1, <1>2, <2>1, <2>3 DEF ClientGoal, TypeOK, States, CallingUnanswered
<1> QED
  BY <1>3, <1>4

(* A provisional answer: the first one to a calling INVITE stops its       *)
(* time-out, and a CANCEL that was asked for before starts it again.       *)
LEMMA ProvisionalStep ==
  ASSUME ClientReady, NEW running \in SUBSET Trans, NEW rest \in SUBSET net,
         Provisional(running, rest), ct["main"] \in Unfinished,
         \/ running = tmr /\ ct["main"] # "CALLING"
         \/ running = tmr \ {"main"} /\ ct["main"] = "CALLING"
  PROVE  ClientGoal
<1> DEFINE c == [ct EXCEPT !["main"] = "PROCEEDING"]
<1>1. /\ TypeOK /\ ClientClocks /\ CallingUnanswered /\ req.state = "open"
      /\ met' = met /\ ct \in [Trans -> States] /\ tmr \in SUBSET Trans
  BY DEF ClientReady, ClientClocks, TypeOK, States
<1>2. /\ req' \in Requests /\ req'.state = "open" /\ req'.provrecv
      /\ req'.canceled = req.canceled
  BY <1>1, RequestSet DEF Provisional, TypeOK
<1>3. c \in [Trans -> States] /\ c["main"] = "PROCEEDING" /\ c["cancel"] = ct["cancel"]
  BY <1>1 DEF Trans, States, Unfinished
<1>4. "cancel" \in running <=> "cancel" \in tmr
  OBVIOUS
<1>5. met # "INVITE" => running = tmr /\ "main" \in tmr
  BY <1>1 DEF ClientClocks, CallingUnanswered, Trans, Unfinished
<1>6. CASE ~req.provrecv /\ req.canceled
  <2>1. CtransCancel(c, running, rest)
    BY <1>6 DEF Provisional
  <2> HIDE DEF c
  <2> QED
    BY <1>1, <1>2, <1>3, <1>4, <1>5, <2>1, CancelClocks DEF Unfinished
<1>7. CASE ~(~req.provrecv /\ req.canceled)
  <2>1. ct' = c /\ tmr' = running /\ net' = rest /\ tmre' \in {tmre \ {"main"}, tmre}
    BY <1>7 DEF Provisional
  <2> HIDE DEF c
  <2>2. req.provrecv /\ req.canceled => "main" \in running \/ met # "INVITE"
    BY <1>1 DEF ClientClocks, CallingUnanswered, Trans, Unfinished
  <2>3. /\ "cancel" \in tmr' \cup tmre' => ct'["cancel"] # "none"
        /\ ct'["cancel"] # "none" => "cancel" \in tmr'
    BY <1>1, <1>3, <1>4, <2>1 DEF ClientClocks, Trans
  <2>4. ct'["main"] = "PROCEEDING"
    BY <1>3, <2>1
  <2>5. "main" \in tmr' \/ (met = "INVITE" /\ ~(req'.canceled /\ req'.provrecv))
    BY <1>2, <1>5, <1>7, <2>1, <2>2
  <2>6. ClientClocks'
    BY <1>1, <1>2, <2>3, <2>4, <2>5 DEF ClientClocks, Trans, Unfinished
  <2>7. CallingUnanswered'
    BY <2>4 DEF CallingUnanswered
  <2>8. tmre' \subseteq Trans /\ net' \subseteq Messages /\ net' \subseteq net
    BY <1>1, <2>1 DEF TypeOK
  <2> QED
    BY <1>2, <1>3, <2>1, <2>6, <2>7, <2>8 DEF ClientGoal
<1> QED
  BY <1>6, <1>7

(* The transaction t of an answered request ends, or stays to take the     *)
(* answer again; its user is told.                                         *)
LEMMA FinalStep ==
  ASSUME ClientReady, NEW t \in Trans, NEW to \in {"none", "COMPLETED"},
         ct' = [ct EXCEPT ![t] = to],
         tmr' = IF to = "none" THEN tmr \ {t} ELSE tmr \cup {t},
         tmre' = tmre \ {t}, req \in Requests, req' \in Requests,
         t = "main" => req'.state = "done",
         t # "main" => req' = req, req.state # "idle",
         net' \subseteq Messages, \A msg \in net' : msg \in net \/ msg.kind = "req"
  PROVE  ClientGoal
<1>1. /\ ct \in [Trans -> States] /\ tmr \subseteq Trans /\ tmre \subseteq Trans
      /\ ClientClocks /\ CallingUnanswered /\ met' = met
  BY DEF ClientReady, TypeOK, States
<1>2. ct' \in [Trans -> States] /\ ct'[t] = to /\ \A u \in Trans \ {t} : ct'[u] = ct[u]
  BY <1>1 DEF States
<1>3. tmr' \subseteq Trans /\ tmre' \subseteq Trans
  BY <1>1
<1>4. ClientClocks'
  <2>1. (req'.state = "open") <=> (ct'["main"] \in Unfinished)
    BY <1>1, <1>2 DEF ClientClocks, Trans, Unfinished
  <2>2. \A u \in Trans : u \in tmr' \cup tmre' => ct'[u] # "none"
    BY <1>1, <1>2 DEF ClientClocks
  <2>3. ct'[t] # "none" => t \in tmr'
    BY <1>2
  <2>4. \A u \in Trans \ {t} : u \in tmr' <=> u \in tmr
    OBVIOUS
  <2>5. ASSUME NEW u \in Trans, ct'[u] # "none", u \notin tmr'
        PROVE  /\ u = "main" /\ met' = "INVITE" /\ ct'[u] = "PROCEEDING"
               /\ ~(req'.canceled /\ req'.provrecv)
    BY <1>1, <1>2, <2>3, <2>4, <2>5 DEF ClientClocks
  <2> QED
    BY <2>1, <2>2, <2>5 DEF ClientClocks
<1>5. CallingUnanswered'
  BY <1>1, <1>2 DEF CallingUnanswered, Trans
<1>6. req'.state # "idle"
  BY DEF Trans
<1> QED
  BY <1>2, <1>3, <1>4, <1>5, <1>6 DEF ClientGoal

(* terminate() of ctrans.c *)
LEMMA GoneStep ==
  ASSUME ClientReady, NEW t \in Trans, ct[t] # "none", Gone(t), net' = net
  PROVE  ClientGoal
<1>1. /\ TypeOK /\ ClientClocks /\ req \in Requests /\ req.state # "idle"
  BY DEF ClientReady, QuietBefore, TypeOK
<1>2. /\ req' \in Requests /\ (t = "main" => req'.state = "done")
      /\ (t # "main" => req' = req)
  <2>1. CASE t = "main" /\ ct[t] \in Unfinished
    BY <1>1, <2>1, ToldFacts DEF Gone
  <2>2. CASE ~(t = "main" /\ ct[t] \in Unfinished)
    <3>1. req.state \in {"idle", "open", "done"}
      BY <1>1 DEF Requests
    <3> QED
      BY <1>1, <2>2, <3>1 DEF Gone, ClientClocks
  <2> QED
    BY <2>1, <2>2
<1>3. net' \subseteq Messages
  BY <1>1 DEF TypeOK
<1>4. ct' = [ct EXCEPT ![t] = "none"] /\ tmr' = tmr \ {t} /\ tmre' = tmre \ {t}
  BY DEF Gone
<1> QED
  BY <1>1, <1>2, <1>3, <1>4, FinalStep

(* sip_request_close() *)
LEMMA CloseStep == ASSUME ClientReady, SipRequestClose PROVE ClientGoal
<1>1. TypeOK /\ req \in Requests /\ req.state = "open" /\ net' \subseteq Messages /\ net' = net
  BY DEF ClientReady, TypeOK, SipRequestClose
<1>2. req' \in Requests /\ req'.state = "done"
  BY <1>1, ToldFacts DEF SipRequestClose
<1>3. /\ ct' = [ct EXCEPT !["main"] = "none"] /\ tmr' = tmr \ {"main"}
      /\ tmre' = tmre \ {"main"} /\ "main" \in Trans
  BY DEF SipRequestClose, Trans
<1> QED
  BY <1>1, <1>2, <1>3, FinalStep

(* The client keeps its transactions; only messages move. *)
LEMMA IdleClient ==
  ASSUME ClientReady, UNCHANGED client, req.state # "idle", net' \subseteq Messages,
         \A msg \in net' : msg \in net \/ msg.kind = "req"
  PROVE  ClientGoal
  BY DEF ClientReady, ClientGoal, client, TypeOK, States, ClientClocks, CallingUnanswered

(* invite_response() *)
LEMMA InviteStep ==
  ASSUME ClientReady, NEW c \in Classes, NEW rest \in SUBSET net,
         InviteResponse(c, rest), met = "INVITE"
  PROVE  ClientGoal
<1>1. /\ TypeOK /\ ClientClocks /\ req \in Requests /\ net \subseteq Messages
      /\ tmr \in SUBSET Trans /\ "main" \in Trans
  BY DEF ClientReady, TypeOK, Trans
<1>2. ct["main"] # "none" => req.state # "idle"
  BY <1>1 DEF ClientReady, QuietBefore
<1>3. Request("ack") \in Messages /\ Request("ack").kind = "req"
  BY MessageFacts
<1>4. CASE /\ ct["main"] \in {"CALLING", "PROCEEDING"}
           /\ Provisional(IF ct["main"] = "CALLING" THEN tmr \ {"main"} ELSE tmr, rest)
  <2>1. CASE ct["main"] = "CALLING"
    BY <1>1, <1>4, <2>1, ProvisionalStep DEF Unfinished
  <2>2. CASE ct["main"] # "CALLING"
    BY <1>1, <1>4, <2>2, ProvisionalStep DEF Unfinished
  <2> QED
    BY <2>1, <2>2
<1>5. CASE /\ ct["main"] \in {"CALLING", "PROCEEDING"} /\ c = "2xx"
           /\ ct' = [ct EXCEPT !["main"] = "none"] /\ req' = Told(req, c)
           /\ tmr' = tmr \ {"main"} /\ tmre' = tmre \ {"main"} /\ net' = rest
  <2>1. req' \in Requests /\ req'.state = "done"
    BY <1>1, <1>5, ToldFacts DEF Finals
  <2> QED
    BY <1>1, <1>2, <1>5, <2>1, FinalStep
<1>6. CASE /\ ct["main"] \in {"CALLING", "PROCEEDING"} /\ c = "failed"
           /\ ct' = [ct EXCEPT !["main"] = IF reliable THEN "none" ELSE "COMPLETED"]
           /\ req' = Told(req, c) /\ net' = rest \cup {Request("ack")}
           /\ tmr' = (IF reliable THEN tmr \ {"main"} ELSE tmr \cup {"main"})
           /\ tmre' = tmre \ {"main"}
  <2>1. req' \in Requests /\ req'.state = "done"
    BY <1>1, <1>6, ToldFacts DEF Finals
  <2>2. net' \subseteq Messages /\ \A msg \in net' : msg \in net \/ msg.kind = "req"
    BY <1>1, <1>3, <1>6
  <2>3. CASE reliable
    BY <1>1, <1>2, <1>6, <2>1, <2>2, <2>3, FinalStep
  <2>4. CASE ~reliable
    BY <1>1, <1>2, <1>6, <2>1, <2>2, <2>4, FinalStep
  <2> QED
    BY <2>3, <2>4
<1>7. CASE /\ ct["main"] = "COMPLETED" /\ UNCHANGED client
           /\ net' = (IF c = "failed" THEN rest \cup {Request("ack")} ELSE rest)
  <2>1. net' \subseteq Messages /\ \A msg \in net' : msg \in net \/ msg.kind = "req"
    BY <1>1, <1>3, <1>7
  <2> QED
    BY <1>2, <1>7, <2>1, IdleClient
<1> QED
  BY <1>4, <1>5, <1>6, <1>7 DEF InviteResponse

(* response_handler() of ctrans.c for the other methods *)
LEMMA OtherStep ==
  ASSUME ClientReady, NEW t \in Trans, NEW c \in Classes, NEW rest \in SUBSET net,
         OtherResponse(t, c, rest)
  PROVE  ClientGoal
<1>1. /\ TypeOK /\ ClientClocks /\ req \in Requests /\ net \subseteq Messages
      /\ tmr \in SUBSET Trans /\ rest \subseteq Messages
  BY DEF ClientReady, TypeOK
<1>2. ct[t] # "none" => req.state # "idle"
  BY <1>1 DEF ClientReady, QuietBefore
<1>3. CASE /\ ct[t] \in {"TRYING", "PROCEEDING"} /\ t = "main"
           /\ Provisional(tmr, rest)
  BY <1>1, <1>3, ProvisionalStep DEF Unfinished
<1>4. CASE /\ ct[t] \in {"TRYING", "PROCEEDING"} /\ c \in Finals
           /\ ct' = [ct EXCEPT ![t] = IF reliable THEN "none" ELSE "COMPLETED"]
           /\ req' = (IF t = "main" THEN Told(req, c) ELSE req)
           /\ tmr' = (IF reliable THEN tmr \ {t} ELSE tmr \cup {t})
           /\ tmre' = tmre \ {t} /\ net' = rest
  <2>1. /\ req' \in Requests /\ (t = "main" => req'.state = "done")
        /\ (t # "main" => req' = req)
    BY <1>1, <1>4, ToldFacts
  <2>2. CASE reliable
    BY <1>1, <1>2, <1>4, <2>1, <2>2, FinalStep
  <2>3. CASE ~reliable
    BY <1>1, <1>2, <1>4, <2>1, <2>3, FinalStep
  <2> QED
    BY <2>2, <2>3
<1>5. CASE ct[t] = "COMPLETED" /\ net' = rest /\ UNCHANGED client
  BY <1>1, <1>2, <1>5, IdleClient
<1> QED
  BY <1>3, <1>4, <1>5 DEF OtherResponse
(* A step of the client keeps its half of the invariant. *)
LEMMA ClientStep == ASSUME ClientReady, ClientNext PROVE ClientGoal
<1>1. /\ TypeOK /\ ClientClocks /\ net \subseteq Messages
      /\ \A t \in Trans : ct[t] # "none" => req.state # "idle"
      /\ net # {} => req.state # "idle"
  BY DEF ClientReady, QuietBefore, TypeOK
<1>2. \A t \in tmr \cup tmre : ct[t] # "none" /\ t \in Trans
  BY <1>1 DEF ClientClocks, TypeOK
<1>3. CASE SipRequest
  BY <1>3, SipRequestStep
<1>4. CASE SipRequestCancel
  BY <1>4, CancelsStep DEF SipRequestCancel
<1>5. CASE RequestDropped
  BY <1>5, CancelsStep DEF RequestDropped
<1>6. CASE SipRequestClose
  BY <1>6, CloseStep
<1>7. CASE ClientReceives
  <2>1. PICK msg \in net :
          /\ msg.kind = "rsp"
          /\ IF msg.of = "main" /\ met = "INVITE"
             THEN InviteResponse(msg.class, Rest(msg))
             ELSE OtherResponse(msg.of, msg.class, Rest(msg))
    BY <1>7 DEF ClientReceives
  <2>2. msg.of \in Trans /\ msg.class \in Classes
    BY <1>1, <2>1, ResponseFacts
  <2>3. Rest(msg) \in SUBSET net
    BY DEF Rest
  <2>4. CASE msg.of = "main" /\ met = "INVITE"
    BY <2>1, <2>2, <2>3, <2>4, InviteStep
  <2>5. CASE ~(msg.of = "main" /\ met = "INVITE")
    BY <2>1, <2>2, <2>3, <2>5, OtherStep
  <2> QED
    BY <2>4, <2>5
<1>8. CASE Unmatched
  <2>1. net # {} /\ net' \subseteq net /\ UNCHANGED client
    BY <1>8 DEF Unmatched
  <2> QED
    BY <1>1, <2>1, IdleClient
<1>9. ASSUME NEW t \in Trans, TimesOut(t) PROVE ClientGoal
  BY <1>2, <1>9, GoneStep DEF TimesOut
<1>10. ASSUME NEW t \in Trans, TransportFails(t) PROVE ClientGoal
  BY <1>10, GoneStep DEF TransportFails
<1>11. ASSUME NEW t \in Trans, Retransmit(t) PROVE ClientGoal
  <2>1. ct[t] # "none"
    BY <1>2, <1>11 DEF Retransmit
  <2>2. CASE net' = net \cup {Request(t)} /\ UNCHANGED client
    <3>1. net' \subseteq Messages /\ \A msg \in net' : msg \in net \/ msg.kind = "req"
      BY <1>1, <2>2, MessageFacts
    <3> QED
      BY <1>1, <2>1, <2>2, <3>1, IdleClient
  <2>3. CASE Gone(t) /\ UNCHANGED net
    BY <2>1, <2>3, GoneStep
  <2> QED
    BY <1>11, <2>2, <2>3 DEF Retransmit
<1> QED
  BY <1>3, <1>4, <1>5, <1>6, <1>7, <1>8, <1>9, <1>10, <1>11 DEF ClientNext

-----------------------------------------------------------------------------
ServerStates == {"none", "TRYING", "PROCEEDING", "ACCEPTED", "COMPLETED", "CONFIRMED"}

(* The answers to the request among the messages of a set were given. *)
Given(messages) ==
  \A msg \in messages : msg.kind = "rsp" /\ msg.of = "main" => msg.class \in answers

(* What a step of the server leaves of the server and of the network. *)
ServerGoal ==
  /\ st' \in ServerStates /\ stmr' \subseteq {"tmr", "tmrg"}
  /\ last' \in Classes \cup {"none"} /\ news' \in 0 .. MaxNew
  /\ answers' \subseteq Classes /\ net' \subseteq Messages
  /\ ServerClocks' /\ ServerTimers' /\ AnswersGiven'

ServerReady ==
  /\ TypeOK /\ ServerClocks /\ ServerTimers /\ AnswersGiven
  /\ met' = met /\ reliable' = reliable

(* sip_strans_reply() starts the timers that its new state needs. *)
LEMMA ReplyStep ==
  ASSUME ServerReady, NEW c \in Classes, NEW rest \in SUBSET Messages, Given(rest),
         st \in {"none", "TRYING", "PROCEEDING"}, StransReply(c, rest),
         news' \in 0 .. MaxNew
  PROVE  ServerGoal
<1>1. /\ stmr = {} /\ answers \subseteq Classes /\ met \in {"INVITE", "OTHER"}
      /\ met' = met /\ reliable' = reliable /\ reliable \in BOOLEAN
  BY DEF ServerReady, ServerTimers, TypeOK, Classes
<1>2. CASE /\ st' = StateAfter(c) /\ stmr' = TimersAfter(c)
           /\ last' = (IF st' = "none" THEN "none" ELSE c)
           /\ answers' = answers \cup {c} /\ net' = rest \cup {Response("main", c)}
  <2>1. /\ Response("main", c) \in Messages /\ Response("main", c).class = c
    BY MessageFacts DEF Trans
  <2>2. net' \subseteq Messages /\ answers' \subseteq Classes
    BY <1>1, <1>2, <2>1
  <2>3. \A msg \in net' : msg.kind = "rsp" /\ msg.of = "main" => msg.class \in answers'
    BY <1>2, <2>1 DEF Given
  <2>4. CASE c = "1xx"
    <3>1. st' = "PROCEEDING" /\ stmr' = {} /\ last' = c /\ c \in answers'
      BY <1>1, <1>2, <2>4 DEF StateAfter, TimersAfter, Finals
    <3> QED
      BY <2>2, <2>3, <3>1
         DEF ServerGoal, ServerStates, ServerClocks, ServerTimers, AnswersGiven
  <2>5. CASE c \in Finals /\ met = "OTHER" /\ reliable
    <3>1. st' = "none" /\ stmr' = {} /\ last' = "none"
      BY <1>1, <1>2, <2>5 DEF StateAfter, TimersAfter, Finals
    <3> QED
      BY <2>2, <2>3, <3>1
         DEF ServerGoal, ServerStates, ServerClocks, ServerTimers, AnswersGiven
  <2>6. CASE c \in Finals /\ ~(met = "OTHER" /\ reliable)
    <3>1. /\ st' \in {"ACCEPTED", "COMPLETED"} /\ last' = c /\ c \in answers'
          /\ st' = "ACCEPTED" <=> met = "INVITE" /\ c = "2xx"
      BY <1>1, <1>2, <2>6 DEF StateAfter, Finals
    <3>2. /\ stmr' \in {{"tmr"}, {"tmr", "tmrg"}}
          /\ stmr' = {"tmr", "tmrg"} <=> met = "INVITE" /\ c = "failed" /\ ~reliable
      BY <1>1, <1>2, <2>6 DEF TimersAfter, Finals
    <3> QED
      BY <1>1, <2>2, <2>3, <2>6, <3>1, <3>2
         DEF ServerGoal, ServerStates, ServerClocks, ServerTimers, AnswersGiven, Finals
  <2> QED
    BY <1>1, <2>4, <2>5, <2>6 DEF Classes
<1>3. CASE /\ st' = "none" /\ stmr' = {} /\ last' = "none"
           /\ net' = rest /\ UNCHANGED answers
  BY <1>1, <1>3 DEF ServerGoal, ServerStates, ServerClocks, ServerTimers, AnswersGiven, Given
<1> QED
  BY <1>2, <1>3 DEF StransReply

(* The server keeps its transaction; only messages move. *)
LEMMA IdleServer ==
  ASSUME ServerReady, UNCHANGED server, net' \subseteq Messages, Given(net')
  PROVE  ServerGoal
  BY DEF ServerReady, ServerGoal, ServerStates, server, TypeOK, ServerClocks,
         ServerTimers, AnswersGiven, Given, Classes

(* A step of the server keeps its half of the invariant. *)
LEMMA ServerStep == ASSUME ServerReady, ServerNext PROVE ServerGoal
<1>1. /\ TypeOK /\ net \subseteq Messages /\ Given(net) /\ news \in 0 .. MaxNew
      /\ answers \subseteq Classes /\ "main" \in Trans /\ "cancel" \in Trans
  BY DEF ServerReady, AnswersGiven, Given, TypeOK, Classes, Trans
<1>2. ASSUME NEW rest \in SUBSET Messages, Given(rest),
             NEW m \in Trans, NEW c \in Classes, m = "main" => c \in answers
      PROVE  rest \cup {Response(m, c)} \in SUBSET Messages
             /\ Given(rest \cup {Response(m, c)})
  <2>1. /\ Response(m, c) \in Messages /\ Response(m, c).of = m
        /\ Response(m, c).class = c
    BY MessageFacts
  <2> QED
    BY <1>2, <2>1 DEF Given
<1>3. "2xx" \in Classes /\ "failed" \in Classes
  BY DEF Classes, Finals
<1>4. CASE ServerReceives
  <2>1. PICK msg \in net :
          \/ KnownRequest(Rest(msg)) \/ NewRequest(Rest(msg))
          \/ CancelRequest(Rest(msg)) \/ AckRequest(Rest(msg))
    BY <1>4 DEF ServerReceives
  <2> DEFINE rest == Rest(msg)
  <2>2. rest \in SUBSET Messages /\ Given(rest)
    BY <1>1 DEF Rest, Given
  <2> HIDE DEF rest
  <2>3. CASE KnownRequest(rest)
    <3>1. st \in {"PROCEEDING", "COMPLETED"} => last \in Classes /\ last \in answers
      BY <1>1 DEF ServerReady, AnswersGiven
    <3>2. net' \in SUBSET Messages /\ Given(net')
      BY <1>1, <1>2, <2>2, <2>3, <3>1 DEF KnownRequest
    <3> QED
      BY <2>3, <3>2, IdleServer DEF KnownRequest
  <2>4. CASE NewRequest(rest)
    <3>1. st = "none" /\ news' \in 0 .. MaxNew
      BY <1>1, <2>4, MaxNewAssumption DEF NewRequest
    <3>2. CASE st' = "TRYING" /\ net' = rest /\ UNCHANGED <<stmr, last, answers>>
      <4>1. stmr = {} /\ last \in Classes \cup {"none"}
        BY <1>1, <3>1 DEF ServerReady, ServerTimers, TypeOK, Classes
      <4> QED
        BY <1>1, <2>2, <3>1, <3>2, <4>1
           DEF ServerGoal, ServerStates, ServerClocks, ServerTimers, AnswersGiven, Given
    <3>3. ASSUME NEW c \in Finals, StransReply(c, rest) PROVE ServerGoal
      <4>1. c \in Classes
        BY DEF Classes
      <4> QED
        BY <2>2, <3>1, <3>3, <4>1, ReplyStep
    <3> QED
      BY <2>4, <3>2, <3>3 DEF NewRequest
  <2>5. CASE CancelRequest(rest)
    <3>1. /\ rest \cup {Response("cancel", "failed")} \in SUBSET Messages
          /\ Given(rest \cup {Response("cancel", "failed")})
      BY <1>1, <1>2, <1>3, <2>2
    <3>2. /\ rest \cup {Response("cancel", "2xx")} \in SUBSET Messages
          /\ Given(rest \cup {Response("cancel", "2xx")})
      BY <1>1, <1>2, <1>3, <2>2
    <3>3. CASE net' = rest \cup {Response("cancel", "failed")} /\ UNCHANGED server
      BY <3>1, <3>3, IdleServer
    <3>4. CASE /\ st \in {"TRYING", "PROCEEDING"} /\ UNCHANGED news
               /\ StransReply("failed", rest \cup {Response("cancel", "2xx")})
      <4>1. news' \in 0 .. MaxNew /\ st \in {"none", "TRYING", "PROCEEDING"}
        BY <1>1, <3>4
      <4> QED
        BY <1>3, <3>2, <3>4, <4>1, ReplyStep
    <3>5. CASE net' = rest \cup {Response("cancel", "2xx")} /\ UNCHANGED server
      BY <3>2, <3>5, IdleServer
    <3> QED
      BY <2>5, <3>3, <3>4, <3>5 DEF CancelRequest
  <2>6. CASE AckRequest(rest)
    <3>1. CASE st = "COMPLETED" /\ met = "INVITE"
      <4>1. /\ net' = rest /\ answers' = answers /\ news' = news
            /\ st' \in {"none", "CONFIRMED"} /\ stmr' \in {{}, {"tmr"}}
            /\ (st' = "none" <=> stmr' = {}) /\ last' \in {"none", last}
        BY <2>6, <3>1 DEF AckRequest
      <4>2. last \in Classes \cup {"none"}
        BY <1>1 DEF TypeOK, Classes
      <4> QED
        BY <1>1, <2>2, <4>1, <4>2
           DEF ServerGoal, ServerStates, ServerClocks, ServerTimers, AnswersGiven, Given
    <3>2. CASE ~(st = "COMPLETED" /\ met = "INVITE")
      BY <2>2, <2>6, <3>2, IdleServer DEF AckRequest
    <3> QED
      BY <3>1, <3>2
  <2> QED
    BY <2>1, <2>3, <2>4, <2>5, <2>6 DEF rest
<1>5. CASE Reply
  <2>1. PICK c \in Finals \cup {"1xx"} : StransReply(c, net)
    BY <1>5 DEF Reply
  <2>2. st \in {"none", "TRYING", "PROCEEDING"} /\ news' = news /\ c \in Classes
    BY <1>5 DEF Reply, Classes
  <2> QED
    BY <1>1, <2>1, <2>2, ReplyStep
<1>6. CASE StransTimesOut
  BY <1>1, <1>6 DEF StransTimesOut, ServerGoal, ServerStates, ServerClocks,
                    ServerTimers, AnswersGiven, Given
<1>7. CASE StransRetransmit
  <2>1. last \in Classes /\ last \in answers
    BY <1>1, <1>7 DEF ServerReady, ServerTimers, AnswersGiven, StransRetransmit
  <2>2. net' \in SUBSET Messages /\ Given(net') /\ UNCHANGED server
    BY <1>1, <1>2, <1>7, <2>1 DEF StransRetransmit
  <2> QED
    BY <2>2, IdleServer
<1> QED
  BY <1>4, <1>5, <1>6, <1>7 DEF ServerNext
-----------------------------------------------------------------------------
(* The clocks of the client and of the server are apart. *)
LEMMA ClocksSplit ==
  ServerTimers => (NobodyWaitsForever <=> ClientClocks /\ ServerClocks)
  BY DEF NobodyWaitsForever, ClientClocks, ServerClocks, ServerTimers

(* The initial states satisfy the invariant. *)
LEMMA InvInit == Init => Inv
<1> SUFFICES ASSUME Init PROVE Inv
  OBVIOUS
<1>1. req \in Requests
  BY Zenon DEF Init, Requests, Finals
<1>2. TypeOK
  BY <1>1, MaxNewAssumption DEF Init, TypeOK, Trans, Finals, Unfinished
<1>3. req.state = "idle" /\ req.resph /\ ~req.provrecv /\ req.result = "none"
  BY DEF Init
<1>4. QuietBefore /\ CallingUnanswered /\ ServerTimers /\ AnswersGiven
  BY <1>3 DEF Init, QuietBefore, CallingUnanswered, ServerTimers, AnswersGiven, Trans
<1>5. NobodyWaitsForever
  BY <1>3 DEF Init, NobodyWaitsForever, Trans, Unfinished
<1> QED
  BY <1>2, <1>4, <1>5 DEF Inv

(* The client's step leaves the server alone but for the messages, and    *)
(* the other way round.                                                    *)
LEMMA InvStep == Inv /\ [Next]_vars => Inv'
<1> SUFFICES ASSUME Inv, [Next]_vars PROVE Inv'
  OBVIOUS
<1>1. /\ TypeOK /\ ClientClocks /\ ServerClocks /\ QuietBefore /\ CallingUnanswered
      /\ ServerTimers /\ AnswersGiven
  BY ClocksSplit DEF Inv
<1>2. CASE ClientNext
  <2>1. met' = met /\ reliable' = reliable /\ UNCHANGED server
    BY <1>2 DEF ClientNext, SipRequest, SipRequestCancel, RequestDropped, Cancels,
         SipRequestClose, ClientReceives, Unmatched, TimesOut, TransportFails,
         Retransmit, fixed
  <2>2. ClientGoal
    BY <1>1, <1>2, <2>1, ClientStep DEF ClientReady
  <2>3. TypeOK'
    BY <1>1, <2>1, <2>2 DEF TypeOK, ClientGoal, States, server
  <2>4. ServerTimers' /\ ServerClocks' /\ AnswersGiven'
    BY <1>1, <2>1, <2>2 DEF ServerTimers, ServerClocks, AnswersGiven, ClientGoal, server
  <2>5. ClientClocks' /\ CallingUnanswered' /\ QuietBefore'
    BY <2>2 DEF ClientGoal, QuietBefore
  <2> QED
    BY <2>3, <2>4, <2>5, ClocksSplit
       DEF Inv, NobodyWaitsForever, ClientClocks, ServerClocks, ServerTimers
<1>3. CASE ServerNext
  <2>1. met' = met /\ reliable' = reliable /\ UNCHANGED client
    BY <1>3 DEF ServerNext, ServerReceives, Reply, StransTimesOut, StransRetransmit, fixed
  <2>2. ServerGoal
    BY <1>1, <1>3, <2>1, ServerStep DEF ServerReady
  <2>3. req.state # "idle"
    <3>1. net # {} \/ st # "none"
      BY <1>1, <1>3 DEF ServerNext, ServerReceives, Reply, StransTimesOut,
           StransRetransmit, ServerTimers
    <3> QED
      BY <1>1, <3>1 DEF QuietBefore
  <2>4. TypeOK'
    BY <1>1, <2>1, <2>2 DEF TypeOK, ServerGoal, ServerStates, client, Classes
  <2>5. ClientClocks' /\ CallingUnanswered' /\ QuietBefore'
    BY <1>1, <2>1, <2>3 DEF ClientClocks, CallingUnanswered, QuietBefore, client
  <2> QED
    BY <2>2, <2>4, <2>5 DEF ServerGoal, Inv, NobodyWaitsForever, ClientClocks,
         ServerClocks, ServerTimers
<1>4. CASE Lose
  <2>1. UNCHANGED <<fixed, client, server>> /\ net' \subseteq net
    BY <1>4 DEF Lose
  <2> QED
    BY <2>1 DEF Inv, TypeOK, NobodyWaitsForever, QuietBefore, CallingUnanswered,
         ServerTimers, AnswersGiven, fixed, client, server
<1>5. CASE UNCHANGED vars
  BY <1>5 DEF Inv, TypeOK, NobodyWaitsForever, QuietBefore, CallingUnanswered,
       ServerTimers, AnswersGiven, vars
<1> QED
  BY <1>2, <1>3, <1>4, <1>5 DEF Next

(* Inv is an invariant of the specification. *)
THEOREM Invariance == Spec => []Inv
  BY InvInit, InvStep, PTL DEF Spec

(* Nobody waits without a clock: whatever is lost, repeated or overtaken,  *)
(* a transaction that waits has its time-out running, unless it is an      *)
(* INVITE that rings (the timers of ctrans.c and strans.c), and a request  *)
(* is open exactly while its transaction is unfinished.                    *)
THEOREM Clocked == Spec => []NobodyWaitsForever
  BY Invariance, PTL DEF Inv
-----------------------------------------------------------------------------
(* What the sender of a request sees. *)
LEMMA PhaseFacts ==
  /\ req.state = "open" =>
       RequestPhase = IF ct["main"] = "PROCEEDING" THEN "ringing" ELSE "asked"
  /\ req.state # "open" => RequestPhase = req.state
  BY DEF RequestPhase

(* The same after the step. *)
LEMMA NextPhaseFacts ==
  /\ req'.state = "open" =>
       RequestPhase' = IF ct'["main"] = "PROCEEDING" THEN "ringing" ELSE "asked"
  /\ req'.state # "open" => RequestPhase' = req'.state
  BY DEF RequestPhase

(* A step that the sender does not see. *)
LEMMA Unseen ==
  ASSUME req'.state = req.state, req'.resph = req.resph, req'.result = req.result,
         req.state = "open" => ct'["main"] = ct["main"], answers' = answers
  PROVE  UNCHANGED Promise!vars
<1>1. RequestPhase' = RequestPhase
  BY PhaseFacts, NextPhaseFacts
<1> QED
  BY <1>1 DEF Promise!vars

(* A request that is told finishes, with an answer of the peer or an error. *)
LEMMA Finishes ==
  ASSUME req \in Requests, req.state = "open", answers' = answers,
         NEW res \in (answers \cap Finals) \cup {"error"}, req' = Told(req, res)
  PROVE  Promise!Finish
<1>1. /\ req'.state = "done" /\ req'.resph = req.resph
      /\ req'.result = IF req.resph THEN res ELSE "none"
  BY ToldFacts
<1>2. RequestPhase \in {"asked", "ringing"} /\ RequestPhase' = "done"
  BY <1>1, PhaseFacts, NextPhaseFacts
<1> QED
  BY <1>1, <1>2 DEF Promise!Finish

(* A provisional answer rings. *)
LEMMA Rings ==
  ASSUME Inv, NEW running, NEW rest, Provisional(running, rest),
         ct["main"] \in Unfinished, "1xx" \in answers, answers' = answers
  PROVE  Promise!Ring
<1>1. /\ req \in Requests /\ req.state = "open" /\ ct \in [Trans -> States]
  BY DEF Inv, TypeOK, NobodyWaitsForever, States
<1>2. /\ req'.state = "open" /\ req'.resph = req.resph /\ req'.result = req.result
  BY <1>1, RequestSet DEF Provisional
<1>3. ct'["main"] = "PROCEEDING"
  <2> DEFINE c == [ct EXCEPT !["main"] = "PROCEEDING"]
  <2>1. c["main"] = "PROCEEDING" /\ c \in [Trans -> States]
    BY <1>1 DEF Trans, States, Unfinished
  <2>2. ct' = c \/ CtransCancel(c, running, rest)
    BY DEF Provisional
  <2> HIDE DEF c
  <2>3. ct' = c \/ ct' = [c EXCEPT !["cancel"] = Starts("cancel")]
    BY <2>2 DEF CtransCancel, CtransRequest
  <2> QED
    BY <2>1, <2>3 DEF Trans
<1>4. RequestPhase \in {"asked", "ringing"} /\ RequestPhase' = "ringing"
  BY <1>1, <1>2, <1>3, PhaseFacts, NextPhaseFacts
<1> QED
  BY <1>2, <1>4 DEF Promise!Ring

(* terminate() of ctrans.c: an unfinished request is told an error. *)
LEMMA GoneSeen ==
  ASSUME Inv, NEW t \in Trans, Gone(t), answers' = answers
  PROVE  Promise!Finish \/ UNCHANGED Promise!vars
<1>1. /\ req \in Requests /\ ct \in [Trans -> States]
      /\ (req.state = "open") <=> (ct["main"] \in Unfinished)
  BY DEF Inv, TypeOK, NobodyWaitsForever, States
<1>2. CASE t = "main" /\ ct[t] \in Unfinished
  BY <1>1, <1>2, Finishes DEF Gone
<1>3. CASE ~(t = "main" /\ ct[t] \in Unfinished)
  <2>1. req' = req /\ (req.state = "open" => ct'["main"] = ct["main"])
    BY <1>1, <1>3 DEF Gone, Trans
  <2> QED
    BY <2>1, Unseen
<1> QED
  BY <1>2, <1>3

(* Every step of the client is a step of the promise or is not seen. *)
LEMMA ClientSeen ==
  ASSUME Inv, ClientNext, UNCHANGED <<fixed, server>>
  PROVE  Promise!Next \/ UNCHANGED Promise!vars
<1>1. /\ req \in Requests /\ ct \in [Trans -> States] /\ net \subseteq Messages
      /\ (req.state = "open") <=> (ct["main"] \in Unfinished)
      /\ answers' = answers
  BY DEF Inv, TypeOK, NobodyWaitsForever, States, server
<1>2. CASE SipRequest
  <2>1. req.state = "idle" /\ req.resph /\ RequestPhase = "idle"
    BY <1>2, PhaseFacts DEF SipRequest, Inv, QuietBefore
  <2>2. CASE req' = [req EXCEPT !.state = "open"] /\ CtransRequest("main", ct, net)
    <3>1. req'.state = "open" /\ req'.resph = req.resph /\ req'.result = req.result
      BY <1>1, <2>2, RequestSet
    <3>2. ct'["main"] # "PROCEEDING"
      BY <1>1, <2>2 DEF CtransRequest, Starts, Trans
    <3>3. RequestPhase' = "asked"
      BY <3>1, <3>2, NextPhaseFacts
    <3> QED
      BY <1>1, <2>1, <3>1, <3>3 DEF Promise!Ask, Promise!Next
  <2>3. CASE req' = Told(req, "error")
    <3>1. req'.state = "done" /\ req'.resph = req.resph /\ req'.result = "error"
      BY <1>1, <2>1, <2>3, ToldFacts
    <3>2. RequestPhase' = "done"
      BY <3>1, NextPhaseFacts
    <3> QED
      BY <1>1, <2>1, <3>1, <3>2 DEF Promise!Refuse, Promise!Next
  <2> QED
    BY <1>2, <2>2, <2>3 DEF SipRequest
<1>3. ASSUME NEW drop \in BOOLEAN, Cancels(drop)
      PROVE  Promise!Next \/ UNCHANGED Promise!vars
  <2>1. req.state = "open" /\ req.resph
    BY <1>3 DEF Cancels
  <2>2. req'.state = "open" /\ req'.resph = ~drop /\ req'.result = req.result
    <3>1. req' = [req EXCEPT !.canceled = TRUE, !.resph = ~drop]
      BY <1>3 DEF Cancels
    <3> QED
      BY <1>1, <2>1, <3>1, RequestSet
  <2>3. ct'["main"] = ct["main"]
    <3>1. ct' = ct \/ ct' = [ct EXCEPT !["cancel"] = Starts("cancel")]
      BY <1>3 DEF Cancels, CtransCancel, CtransRequest
    <3> QED
      BY <1>1, <3>1 DEF Trans
  <2>4. CASE drop
    <3>1. RequestPhase \in {"asked", "ringing"} /\ RequestPhase' = RequestPhase
      BY <2>1, <2>2, <2>3, PhaseFacts, NextPhaseFacts
    <3>2. req'.resph = FALSE
      BY <2>2, <2>4
    <3> QED
      BY <1>1, <2>2, <3>1, <3>2 DEF Promise!Drop, Promise!Next
  <2>5. CASE ~drop
    <3>1. req'.resph = req.resph
      BY <1>1, <2>1, <2>2, <2>5 DEF Requests
    <3> QED
      BY <1>1, <2>1, <2>2, <2>3, <3>1, Unseen
  <2> QED
    BY <2>4, <2>5
<1>4. CASE SipRequestClose
  BY <1>1, <1>4, Finishes DEF SipRequestClose, Promise!Next
<1>5. CASE ClientReceives
  <2>1. PICK msg \in net :
          /\ msg.kind = "rsp"
          /\ IF msg.of = "main" /\ met = "INVITE"
             THEN InviteResponse(msg.class, Rest(msg))
             ELSE OtherResponse(msg.of, msg.class, Rest(msg))
    BY <1>5 DEF ClientReceives
  <2> DEFINE c == msg.class
             t == msg.of
  <2>2. t \in Trans /\ c \in Classes /\ (t = "main" => c \in answers)
    BY <1>1, <2>1, ResponseFacts DEF Inv, AnswersGiven
  <2> HIDE DEF c, t
  <2>3. CASE t = "main" /\ c = "1xx" /\ ct["main"] \in Unfinished
             /\ \E running : Provisional(running, Rest(msg))
    BY <1>1, <2>2, <2>3, Rings DEF Promise!Next
  <2>4. CASE t = "main" /\ c \in Finals /\ ct["main"] \in Unfinished /\ req' = Told(req, c)
    BY <1>1, <2>2, <2>4, Finishes DEF Promise!Next
  <2>5. CASE req' = req /\ (req.state = "open" => ct'["main"] = ct["main"])
    BY <1>1, <2>5, Unseen
  <2>6. CASE t = "main" /\ met = "INVITE"
    <3>1. InviteResponse(c, Rest(msg))
      BY <2>1, <2>6 DEF c, t
    <3> QED
      BY <2>3, <2>4, <2>5, <2>6, <3>1 DEF InviteResponse, Finals, Unfinished, client
  <2>7. CASE ~(t = "main" /\ met = "INVITE")
    <3>1. OtherResponse(t, c, Rest(msg))
      BY <2>1, <2>7 DEF c, t
    <3>2. CASE ct[t] \in {"TRYING", "PROCEEDING"} /\ c = "1xx" /\ t = "main"
               /\ Provisional(tmr, Rest(msg))
      BY <2>3, <3>2 DEF Unfinished
    <3>3. CASE /\ ct[t] \in {"TRYING", "PROCEEDING"} /\ c \in Finals
               /\ ct' = [ct EXCEPT ![t] = IF reliable THEN "none" ELSE "COMPLETED"]
               /\ req' = IF t = "main" THEN Told(req, c) ELSE req
      BY <1>1, <2>2, <2>4, <2>5, <3>3 DEF Trans, Unfinished
    <3>4. CASE UNCHANGED client
      BY <2>5, <3>4 DEF client
    <3> QED
      BY <3>1, <3>2, <3>3, <3>4 DEF OtherResponse
  <2> QED
    BY <2>6, <2>7
<1>6. CASE UNCHANGED client
  BY <1>1, <1>6, Unseen DEF client
<1>7. ASSUME NEW t \in Trans, Gone(t)
      PROVE  Promise!Next \/ UNCHANGED Promise!vars
  BY <1>1, <1>7, GoneSeen DEF Promise!Next
<1> QED
  BY <1>2, <1>3, <1>4, <1>5, <1>6, <1>7
     DEF ClientNext, SipRequestCancel, RequestDropped, Unmatched, TimesOut,
         TransportFails, Retransmit

(* A step of the server is seen by nobody, or is an answer of its user. *)
LEMMA ServerSeen ==
  ASSUME Inv, ServerNext PROVE Promise!Next \/ UNCHANGED Promise!vars
<1>1. UNCHANGED client
  BY DEF ServerNext, ServerReceives, Reply, StransTimesOut, StransRetransmit
<1>2. req' = req /\ RequestPhase' = RequestPhase
  BY <1>1, PhaseFacts, NextPhaseFacts DEF client
<1>3. RequestPhase # "idle"
  <2>1. net # {} \/ st # "none"
    BY DEF Inv, ServerNext, ServerReceives, Reply, StransTimesOut, StransRetransmit,
           ServerTimers
  <2>2. req.state # "idle"
    BY <2>1 DEF Inv, QuietBefore
  <2> QED
    BY <2>2, PhaseFacts
<1>4. answers' = answers \/ \E c \in Finals \cup {"1xx"} : answers' = answers \cup {c}
  BY DEF ServerNext, ServerReceives, Reply, StransTimesOut, StransRetransmit,
         KnownRequest, NewRequest, CancelRequest, AckRequest, StransReply, server, Finals
<1>5. CASE answers' = answers
  BY <1>2, <1>5 DEF Promise!vars
<1>6. CASE \E c \in Finals \cup {"1xx"} : answers' = answers \cup {c}
  BY <1>2, <1>3, <1>6 DEF Promise!Answer, Promise!Next
<1> QED
  BY <1>4, <1>5, <1>6

(* Nothing was asked in the initial states. *)
LEMMA PromiseInit == Init => Promise!Init
<1> SUFFICES ASSUME Init PROVE Promise!Init
  OBVIOUS
<1>1. req.state = "idle" /\ req.resph = TRUE /\ req.result = "none" /\ answers = {}
  BY DEF Init
<1> QED
  BY <1>1, PhaseFacts DEF Promise!Init

(* A step of the transactions is a step of the promise or is not seen. *)
LEMMA PromiseStep == Inv /\ [Next]_vars => [Promise!Next]_(Promise!vars)
<1> SUFFICES ASSUME Inv, [Next]_vars PROVE [Promise!Next]_(Promise!vars)
  OBVIOUS
<1>1. CASE ClientNext
  <2>1. UNCHANGED <<fixed, server>>
    BY <1>1 DEF ClientNext, SipRequest, SipRequestCancel, RequestDropped, Cancels,
         SipRequestClose, ClientReceives, Unmatched, TimesOut, TransportFails, Retransmit
  <2> QED
    BY <1>1, <2>1, ClientSeen
<1>2. CASE ServerNext
  BY <1>2, ServerSeen
<1>3. CASE Lose \/ UNCHANGED vars
  <2>1. req' = req /\ ct' = ct /\ answers' = answers
    BY <1>3 DEF Lose, vars, client, server
  <2> QED
    BY <2>1, Unseen
<1> QED
  BY <1>1, <1>2, <1>3 DEF Next

(* The transactions of libre keep the promise of a request: the sender     *)
(* sees provisional answers and one outcome that the peer really gave, or  *)
(* an error, and nothing once it has dropped the request, for any number   *)
(* of retransmissions and of requests taken for new ones.                  *)
THEOREM Kept == Spec => KeepsPromise
<1>1. Init => Promise!Init
  BY PromiseInit
<1>2. Inv /\ [Next]_vars => [Promise!Next]_(Promise!vars)
  BY PromiseStep
<1> QED
  BY <1>1, <1>2, Invariance, PTL DEF Spec, KeepsPromise, Promise!Spec
=============================================================================
