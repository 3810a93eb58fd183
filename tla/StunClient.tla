----------------------------- MODULE StunClient -----------------------------
(***************************************************************************)
(* STUN requests of libre (stun/ctrans.c), the keep-alive of a NAT binding *)
(* that uses them (stun/keepalive.c) and the discovery of the server with  *)
(* DNS (stun/dnsdisc.c).  Responses may be lost, repeated and overtaken by *)
(* a change of the binding: resp holds the bindings that the server has    *)
(* put into responses of the current keep-alive transaction.               *)
(***************************************************************************)
EXTENDS Naturals

CONSTANTS Map,       \* the bindings the NAT may choose
          Rc         \* conf.rc, the transmissions of a request
VARIABLES ct,        \* struct stun_ctrans: of the keep-alive, and of a user
          ka,        \* struct stun_keepalive
          map,       \* the NAT's binding now
          resp,      \* see above
          disc       \* struct stun_dns

vars == <<ct, ka, map, resp, disc>>
Trans == {"ka", "user"}

NoTrans == [st |-> "none", proto |-> "udp", txc |-> 0, tmr |-> FALSE, key |-> FALSE,
            calls |-> 0]
Init ==
  /\ ct = [t \in Trans |-> NoTrans] /\ map \in Map /\ resp = {}
  /\ ka = [on |-> TRUE, ival |-> FALSE, tmr |-> FALSE, cur |-> "none", told |-> "none"]
  /\ disc = [st |-> "none", dq |-> "none", calls |-> 0]

Pending(t) == ct[t].st = "pending"

-----------------------------------------------------------------------------
(* completed(): the transaction is destroyed and then its handler called.   *)
Completed(r) == [r EXCEPT !.st = "done", !.tmr = FALSE, !.calls = @ + 1]

(* stun_response_handler(): the timer is started again, and the handler is  *)
(* told of an error, or of a binding that is not the current one.  An error *)
(* response only makes the next binding be told again.                      *)
Hears(k, what) ==
  CASE what = "error" -> [k EXCEPT !.tmr = k.ival, !.cur = "none", !.told = "error"]
    [] what = "refused" -> [k EXCEPT !.tmr = k.ival, !.cur = "none"]
    [] what = "empty" -> [k EXCEPT !.tmr = k.ival, !.told = "error"]
    [] OTHER -> [k EXCEPT !.tmr = k.ival, !.cur = what,
                          !.told = IF k.cur = what THEN @ ELSE what]

(* The transaction t ends with what.                                        *)
Ends(t, what) ==
  /\ ct' = [ct EXCEPT ![t] = Completed(@)]
  /\ IF t = "ka" THEN ka' = Hears(ka, what) /\ resp' = {} ELSE UNCHANGED <<ka, resp>>
  /\ UNCHANGED <<map, disc>>

(* stun_ctrans_request(): over UDP it is sent at once, over TCP there is    *)
(* only the time-out.                                                       *)
Starts(proto, key) ==
  [NoTrans EXCEPT !.st = "pending", !.tmr = TRUE, !.proto = proto, !.key = key,
                  !.txc = IF proto = "udp" THEN 1 ELSE Rc]

UserRequest ==
  /\ ct["user"].st = "none"
  /\ \E p \in {"udp", "tcp"}, k \in BOOLEAN :
       ct' = [ct EXCEPT !["user"] = Starts(p, k)]
  /\ UNCHANGED <<ka, map, resp, disc>>

(* timeout_handler(): sends again, at most Rc times.                        *)
Timeout(t) ==
  /\ Pending(t) /\ ct[t].tmr
  /\ \/ ct[t].txc < Rc /\ ct' = [ct EXCEPT ![t].txc = @ + 1]
        /\ UNCHANGED <<ka, map, resp, disc>>
     \/ Ends(t, "error")

(* tcp_estab_handler() when it cannot send, and tcp_close_handler().        *)
TcpFails(t) == Pending(t) /\ ct[t].proto = "tcp" /\ Ends(t, "error")

(* stun_ctrans_recv(): a response is matched by its transaction; one whose  *)
(* integrity cannot be checked is ignored, except 401 and 438.              *)
Recv(t) ==
  /\ Pending(t)
  /\ \/ t = "ka" /\ \E m \in resp : Ends(t, m)
     \/ t = "user" /\ Ends(t, "ok")
     \/ \E what \in {"refused", "empty"} : Ends(t, what)
     \/ Ends(t, "error")                              \* an unknown attribute

(* stun_ctrans_close(), when the STUN instance of the user goes.            *)
CloseAll == Pending("user") /\ Ends("user", "error")

(* The server answers with the binding of now; the NAT changes it.          *)
ServerAnswers ==
  /\ Pending("ka") /\ resp' = resp \cup {map} /\ UNCHANGED <<ct, ka, map, disc>>
Rebind == map' \in Map \ {map} /\ UNCHANGED <<ct, ka, resp, disc>>

-----------------------------------------------------------------------------
(* timeout() of keepalive.c: a transaction that is still there is dropped.  *)
KeepaliveTimeout ==
  /\ ka.on /\ ka.tmr
  /\ \/ /\ ct' = [ct EXCEPT !["ka"] = Starts("udp", FALSE)]
        /\ ka' = [ka EXCEPT !.tmr = FALSE]
     \/ /\ ct' = [ct EXCEPT !["ka"] = NoTrans]        \* it cannot be sent
        /\ ka' = [ka EXCEPT !.tmr = ka.ival, !.told = "error"]
  /\ resp' = {} /\ UNCHANGED <<map, disc>>

(* stun_keepalive_enable()                                                  *)
KeepaliveEnable ==
  /\ ka.on
  /\ \E b \in BOOLEAN : ka' = [ka EXCEPT !.ival = b, !.tmr = b]
  /\ UNCHANGED <<ct, map, resp, disc>>

KeepaliveDestructor ==
  /\ ka.on /\ ka' = [ka EXCEPT !.on = FALSE, !.ival = FALSE, !.tmr = FALSE]
  /\ ct' = [ct EXCEPT !["ka"] = NoTrans] /\ resp' = {} /\ UNCHANGED <<map, disc>>

-----------------------------------------------------------------------------
(* stun_server_discover(): a numeric host is resolved before the call       *)
(* returns; else a query is under way.                                      *)
Resolved(d) == [d EXCEPT !.st = "done", !.dq = "none", !.calls = @ + 1]

Discover ==
  /\ disc.st = "none"
  /\ disc' \in {Resolved(disc), [disc EXCEPT !.st = "refused"]}
               \cup [st : {"open"}, dq : {"SRV", "ADDR"}, calls : {0}]
  /\ UNCHANGED <<ct, ka, map, resp>>

(* srv_handler(), a_handler() and aaaa_handler(): an SRV answer without an  *)
(* address, and no SRV answer at all, are followed by an address query.     *)
DiscoverAnswer ==
  /\ disc.dq # "none"
  /\ disc' \in IF disc.dq = "SRV"
               THEN {Resolved(disc), [disc EXCEPT !.dq = "ADDR"]} ELSE {Resolved(disc)}
  /\ UNCHANGED <<ct, ka, map, resp>>

DiscoverDropped ==
  /\ disc.st = "open" /\ disc' = [disc EXCEPT !.st = "dropped", !.dq = "none"]
  /\ UNCHANGED <<ct, ka, map, resp>>

Next ==
  \/ UserRequest \/ CloseAll \/ ServerAnswers \/ Rebind
  \/ \E t \in Trans : Timeout(t) \/ TcpFails(t) \/ Recv(t)
  \/ KeepaliveTimeout \/ KeepaliveEnable \/ KeepaliveDestructor
  \/ Discover \/ DiscoverAnswer \/ DiscoverDropped
Spec == Init /\ [][Next]_vars

-----------------------------------------------------------------------------
(* The values the fields can have.                                          *)
TypeOK ==
  /\ \A t \in Trans : ct[t].st \in {"none", "pending", "done"} /\ ct[t].txc \in 0 .. Rc
  /\ ka.cur \in Map \cup {"none"} /\ ka.told \in Map \cup {"none", "error"}
  /\ map \in Map /\ resp \subseteq Map /\ disc.dq \in {"none", "SRV", "ADDR"}

(* A request and a discovery call their handler once, exactly when they end *)
(* by themselves; a request that is pending has its time-out running.       *)
HandlerOnce ==
  /\ \A t \in Trans : /\ ct[t].calls = IF ct[t].st = "done" THEN 1 ELSE 0
                      /\ Pending(t) <=> ct[t].tmr
  /\ disc.calls = (IF disc.st = "done" THEN 1 ELSE 0)
  /\ (disc.st = "open") <=> (disc.dq # "none")

(* A keep-alive that is enabled goes on: its timer runs or its request is   *)
(* pending, whatever failed before; and the binding it takes for current is *)
(* the last thing its user was told, unless a response had no address.      *)
KeepaliveGoesOn ==
  /\ (ka.on /\ ka.ival) => ka.tmr \/ Pending("ka")
  /\ ~ka.on => ~ka.tmr /\ ~Pending("ka")
  /\ ka.cur # "none" => ka.told \in {ka.cur, "error"}
=============================================================================
