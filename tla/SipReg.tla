------------------------------- MODULE SipReg -------------------------------
(***************************************************************************)
(* The SIP registration client of libre (sipreg/reg.c): one registration   *)
(* that its user holds, its REGISTER requests, the refresh timer and the   *)
(* keep-alive of the flow.  When the user drops a registration that the    *)
(* server may know, the object brings itself back to life (mem_ref in its  *)
(* destructor) until the un-REGISTER has ended.  An operator that yields a *)
(* set yields the outcomes the code can have.                              *)
(***************************************************************************)
EXTENDS Naturals

CONSTANT MaxFail     \* bound on failc, which only lengthens the waiting time
VARIABLES reg,       \* struct sipreg
          srv        \* the registrar: its binding, and whether it has taken the request

vars == <<reg, srv>>

(* refs is the reference count (0 is freed), expires whether the interval   *)
(* is not 0, bye what became of the un-REGISTER.                            *)
NoReg == [refs |-> 0, user |-> FALSE, req |-> FALSE, tmr |-> FALSE, ka |-> FALSE,
          outbound |-> FALSE, registered |-> FALSE, terminated |-> FALSE,
          expires |-> TRUE, failc |-> 0, bye |-> "none"]
Init == reg = NoReg /\ srv = [bound |-> FALSE, took |-> FALSE]

(* failwait() and ++failc                                                   *)
Fail(r) == [r EXCEPT !.failc = IF @ < MaxFail THEN @ + 1 ELSE @]

(* request(): a terminated registration asks for 0 seconds.                 *)
Sent(r) == [r EXCEPT !.req = TRUE, !.expires = @ /\ ~r.terminated,
                     !.bye = IF r.terminated THEN "sent" ELSE @]
NotSent(r) == [r EXCEPT !.expires = @ /\ ~r.terminated,
                        !.bye = IF r.terminated THEN "failed" ELSE @]

(* The end of destructor(), when the last reference goes.                   *)
Freed(r) == [r EXCEPT !.refs = 0, !.tmr = FALSE, !.ka = FALSE]

(* destructor(): while a request is under way the rest is left to its       *)
(* response handler.                                                        *)
Destructor(r) ==
  LET t == [r EXCEPT !.terminated = TRUE, !.tmr = FALSE, !.user = FALSE]
  IN  IF r.req THEN {t}
      ELSE IF r.registered THEN {Sent(t), Freed(NotSent(t))} ELSE {Freed(t)}

(* The end of response_handler().                                           *)
Out(r) ==
  IF ~r.expires THEN {Freed(r)}
  ELSE IF ~r.terminated THEN {[r EXCEPT !.tmr = TRUE]}
  ELSE IF r.registered THEN {Sent(r), Freed(NotSent(r))} ELSE {Freed(r)}

-----------------------------------------------------------------------------
(* sipreg_register()                                                        *)
Register ==
  /\ reg = NoReg
  /\ \E ob \in BOOLEAN :
       reg' = Sent([NoReg EXCEPT !.refs = 1, !.user = TRUE, !.outbound = ob])
  /\ srv' = [srv EXCEPT !.took = FALSE]

(* The user drops its reference.                                            *)
Drop ==
  /\ reg.user /\ reg' \in Destructor(reg)
  /\ srv' = [srv EXCEPT !.took = @ /\ reg.req]

(* tmr_handler(): when it cannot send, the timer is started again.          *)
Tmr ==
  /\ reg.tmr
  /\ reg' \in {Sent([reg EXCEPT !.tmr = FALSE]), Fail(reg)}
  /\ srv' = [srv EXCEPT !.took = FALSE]

(* keepalive_handler(): the flow is lost; sip_keepalive_signal() has freed  *)
(* the keep-alive before.                                                   *)
FlowLost ==
  /\ reg.ka
  /\ reg' = IF reg.req \/ reg.terminated THEN [reg EXCEPT !.ka = FALSE]
            ELSE [Fail(reg) EXCEPT !.ka = FALSE, !.tmr = TRUE]
  /\ UNCHANGED srv

(* response_handler() on 2xx, with contact_handler() and start_outbound(),  *)
(* which may begin a keep-alive.                                            *)
ResponseOk ==
  /\ reg.req /\ srv.took
  /\ \E k \in BOOLEAN :
       reg' \in Out([reg EXCEPT !.req = FALSE, !.registered = TRUE, !.failc = 0,
                                !.ka = @ \/ (k /\ reg.outbound /\ ~reg.terminated)])
  /\ srv' = [srv EXCEPT !.took = FALSE]

(* response_handler() on an error, a time-out or a refusal; 401, 407 and    *)
(* 423 are followed by another request.                                     *)
ResponseFails ==
  LET r == [reg EXCEPT !.req = FALSE]
  IN  /\ reg.req
      /\ reg' \in Out(Fail(r)) \cup
                  IF r.terminated /\ ~r.registered THEN {}
                  ELSE {Sent(r)} \cup Out(Fail(NotSent(r)))
      /\ srv' = [srv EXCEPT !.took = FALSE]

(* The registrar accepts the request; its answer may be lost.               *)
RegistrarTakes ==
  /\ reg.req /\ ~srv.took
  /\ srv' = [bound |-> reg.expires, took |-> TRUE] /\ UNCHANGED reg
(* The binding runs out.                                                    *)
BindingExpires == srv.bound /\ srv' = [srv EXCEPT !.bound = FALSE] /\ UNCHANGED reg

Next ==
  \/ Register \/ Drop \/ Tmr \/ FlowLost \/ ResponseOk \/ ResponseFails
  \/ RegistrarTakes \/ BindingExpires
Spec == Init /\ [][Next]_vars

-----------------------------------------------------------------------------
(* The values the fields can have.                                          *)
TypeOK == reg.refs \in 0 .. 1 /\ reg.failc \in 0 .. MaxFail
          /\ reg.bye \in {"none", "sent", "failed"}

(* A registration its user holds always has either a request under way or   *)
(* its timer running, never both and never neither, so it is renewed; one   *)
(* that is dropped lives exactly as long as its last request; nothing runs  *)
(* on a freed one.                                                          *)
RegistrationGoesOn ==
  /\ reg.user => reg.req # reg.tmr
  /\ (reg.refs = 1) <=> (reg.user \/ reg.req)
  /\ reg.refs = 0 => ~reg.tmr /\ ~reg.ka /\ ~reg.req

(* A registration that was ever accepted is not freed before an un-REGISTER *)
(* was sent or could not be sent.                                           *)
Unregistered ==
  (reg.refs = 0 /\ reg.registered) => reg.bye # "none"
=============================================================================
