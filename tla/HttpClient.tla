------------------------------ MODULE HttpClient ------------------------------
(***************************************************************************)
(* One request of libre's HTTP client (re/src/http/client.c): the name is  *)
(* looked up, the servers found are tried from the last to the first, each *)
(* under a timer for the connection and one for the answer; a response is  *)
(* collected until it is complete, or, with a data handler, passed on as   *)
(* it comes.  The request frees itself after its last call to the user's   *)
(* handler; the user may free it before.  TCP and DNS are used as the      *)
(* modules TcpConn and DnsClient describe them.                            *)
(***************************************************************************)
EXTENDS Integers, Sequences

CONSTANTS
    MaxSrv,   \* servers a lookup may find (16 in the code)
    RespLen   \* pieces a complete response arrives in

VARIABLES
    user,   \* the user's side: "new", "waiting", "freed", "done"
    alive,  \* the request object exists
    dq,     \* a DNS query is pending
    srvc,   \* servers left to try
    tc,     \* the connection: "none", "connecting", "sent"
    tmr,    \* the timer: "none", "conn", "recv"
    mb,     \* pieces of the response collected
    data,   \* the header went to the user, the rest goes to datah
    datah,  \* the user gave a data handler
    told    \* calls of resph, in order: "header", "response", "error"

vars == <<user, alive, dq, srvc, tc, tmr, mb, data, datah, told>>

Init ==
    /\ user = "new" /\ alive = FALSE /\ dq = FALSE /\ srvc = 0 /\ tc = "none"
    /\ tmr = "none" /\ mb = 0 /\ data = FALSE /\ datah \in BOOLEAN
    /\ told = <<>>

(* req_connect() with n servers left: it walks down until a connection can
   be started, and drops what the last server had sent *)
Connects(n) ==
    /\ srvc' \in 0 .. n - 1
    /\ tc' = "connecting" /\ tmr' = "conn" /\ mb' = 0 /\ dq' = FALSE
    /\ UNCHANGED <<user, alive, data, datah, told>>

(* req_close() and the mem_deref() behind it: *reqp is cleared before the
   handler is called *)
Ends(how) ==
    /\ alive' = FALSE /\ user' = "done" /\ dq' = FALSE /\ srvc' = 0
    /\ tc' = "none" /\ tmr' = "none" /\ data' = FALSE /\ mb' = 0
    /\ told' = Append(told, how)
    /\ UNCHANGED datah

(* req_connect() from a handler: when no server can be connected to, the
   request ends *)
ConnectsOrEnds(n) == Connects(n) \/ Ends("error")

(* http_request(): an address needs no lookup *)
Request ==
    /\ user = "new"
    /\ user' = "waiting" /\ alive' = TRUE
    /\ \/ dq' = TRUE /\ UNCHANGED <<tc, tmr>>
       \/ dq' = FALSE /\ tc' = "connecting" /\ tmr' = "conn"
    /\ UNCHANGED <<srvc, mb, data, datah, told>>

(* query_handler() with the addresses rr_handler() found *)
Resolved(found) ==
    /\ dq
    /\ IF found = 0 THEN Ends("error") ELSE ConnectsOrEnds(found)

(* estab_handler(): a send that fails ends the request at once *)
Estab ==
    /\ tc = "connecting"
    /\ \/ /\ tc' = "sent" /\ tmr' = "recv"
          /\ UNCHANGED <<user, alive, dq, srvc, mb, data, datah, told>>
       \/ Ends("error")

(* recv_handler(): with a data handler the header is passed on and the
   timer stops; without, the response is collected *)
Recv ==
    /\ tc = "sent" /\ ~data
    /\ \/ /\ datah
          /\ tmr' = "none" /\ data' = TRUE
          /\ told' = Append(told, "header")
          /\ UNCHANGED <<user, alive, dq, srvc, tc, mb, datah>>
       \/ /\ ~datah /\ mb + 1 < RespLen
          /\ mb' = mb + 1
          /\ UNCHANGED <<user, alive, dq, srvc, tc, tmr, data, datah, told>>
       \/ ~datah /\ mb + 1 = RespLen /\ Ends("response")
       \/ Ends("error")

(* close_handler(): the peer closed or the connection failed *)
Closed ==
    /\ tc # "none"
    /\ IF srvc > 0 /\ ~data THEN ConnectsOrEnds(srvc) ELSE Ends("error")

(* timeout_handler() *)
Timeout ==
    /\ tmr # "none"
    /\ IF srvc > 0 THEN ConnectsOrEnds(srvc) ELSE Ends("error")

(* req_destructor(): the user frees the request it still points to *)
Cancel ==
    /\ user = "waiting"
    /\ user' = "freed" /\ alive' = FALSE /\ dq' = FALSE /\ srvc' = 0
    /\ tc' = "none" /\ tmr' = "none" /\ mb' = 0 /\ data' = FALSE
    /\ UNCHANGED <<datah, told>>

Next ==
    \/ Request \/ Estab \/ Recv \/ Closed \/ Timeout \/ Cancel
    \/ \E found \in 0..MaxSrv : Resolved(found)

(* timers fire and the DNS client answers every query *)
Spec ==
    /\ Init /\ [][Next]_vars
    /\ WF_vars(Timeout) /\ WF_vars(\E found \in 0..MaxSrv : Resolved(found))

TypeOK ==
    /\ user \in {"new", "waiting", "freed", "done"} /\ srvc \in 0..MaxSrv
    /\ tc \in {"none", "connecting", "sent"} /\ tmr \in {"none", "conn", "recv"}
    /\ mb \in 0 .. RespLen /\ alive \in BOOLEAN /\ dq \in BOOLEAN

(* The request object lives exactly as long as the user may point to it,
   its last word comes once, and a user that freed it hears nothing. *)
AnsweredOnce ==
    /\ alive <=> user = "waiting"
    /\ user = "done" => told \in {<<"response">>, <<"error">>, <<"header", "error">>}
    /\ user # "done" => told \in {<<>>, <<"header">>}
    /\ ~alive => ~dq /\ tc = "none" /\ tmr = "none"

(* As long as the user waits for the header or the response something will
   call the request again: a lookup or a timer.  (While data is passed on
   only the peer's close ends it.) *)
RequestWatched == alive /\ ~data => dq \/ tmr # "none"

(* A request that is not passing data on comes to its end. *)
RequestEnds == alive ~> (~alive \/ data)
===============================================================================
