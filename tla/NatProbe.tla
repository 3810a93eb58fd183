-------------------------------- MODULE NatProbe -------------------------------
(***************************************************************************)
(* Discovery of how a NAT behaves (re/src/natbd): a session asks a STUN    *)
(* server with two addresses and two ports one question after the other    *)
(* and tells its user a verdict - what depends on the destination in the   *)
(* mapping, what is let in (filtering), whether the NAT hairpins, whether  *)
(* a generic ALG rewrites addresses.  The NAT is the environment; over UDP *)
(* every request and answer may be lost, over TCP connections break.       *)
(*                                                                         *)
(* And of how long a NAT keeps a binding (lifetime.c), a session of its    *)
(* own: a request from socket X makes the binding, after interval.cur      *)
(* seconds of silence a request from socket Y asks the server to answer to *)
(* X's mapped port.  Answered or not narrows the interval [min, max), cur  *)
(* is its middle, and the next test starts.  A server that ignores         *)
(* RESPONSE-PORT answers to Y.                                             *)
(***************************************************************************)
EXTENDS Integers, Sequences

CONSTANTS
    Lifetimes,   \* what the NAT's lifetime may be, in seconds
    Starts,      \* the intervals a user starts with
    MaxCur       \* bound on the interval doubled

VARIABLES
    nat,    \* how the NAT behaves: [map, filter, hairpin, alg]
    kind,   \* what is discovered: "mapping", "filtering", "hairpinning", "genalg"
    proto,  \* "udp" or "tcp"
    phase,  \* test_phase; for hairpinning which request is out
    srv,    \* server address asked: [ip, port], 1 the primary and 2 the other
    map,    \* mapped addresses learned, by test
    wait,   \* "idle", "connecting", "request": what the session waits for
    lost,   \* an answer due was not received
    told,   \* calls of the result handler: an error or a verdict

    life,      \* the NAT's lifetime
    obeys,     \* the server honours RESPONSE-PORT
    interval,  \* nl->interval: [min, cur, max]
    ctx, cty,  \* nl->ctx, nl->cty: the request of X, of Y is pending
    tmr,       \* nl->tmr runs
    wrong,     \* something other than the binding decided a test
    stuck,     \* a request could not be sent, or Y's was answered by an error
    live       \* the session is allocated and started

probe == <<nat, kind, proto, phase, srv, map, wait, lost, told>>

TYPES == {"ENDP_INDEP", "ADDR_DEP", "ADDR_PORT_DEP"}
Primary == [ip |-> 1, port |-> 1]
ERR == "error"

MaxBroken == 3   \* bound on the broken connections told

ProbeInit ==
    /\ nat \in [map : TYPES \cup {"none"}, filter : TYPES, hairpin : BOOLEAN, alg : BOOLEAN]
    /\ kind = "none" /\ proto = "none"
    /\ phase = 0 /\ srv = Primary /\ map = <<>> /\ wait = "idle"
    /\ lost = FALSE /\ told = <<>>

(* a session is allocated with its sockets; for other protocols it is not *)
Alloc(k, protos) ==
    /\ kind = "none" /\ kind' = k /\ proto' \in protos
    /\ UNCHANGED <<nat, phase, srv, map, wait, lost, told>>

MappingAlloc == Alloc("mapping", {"udp", "tcp"})
FilteringAlloc == Alloc("filtering", {"udp"})
HairpinningAlloc == Alloc("hairpinning", {"udp", "tcp"})
GenalgAlloc == Alloc("genalg", {"udp"})

(* external: the address the NAT gives to packets for dst; "local" without NAT *)
MappedFor(dst) ==
    CASE nat.map = "none" -> <<"local">>
      [] nat.map = "ENDP_INDEP" -> <<"m">>
      [] nat.map = "ADDR_DEP" -> <<"m", dst.ip>>
      [] nat.map = "ADDR_PORT_DEP" -> <<"m", dst.ip, dst.port>>

(* external: the NAT lets in an answer that comes from src, the session having
   sent to the primary address only *)
LetIn(src) ==
    CASE nat.filter = "ENDP_INDEP" -> TRUE
      [] nat.filter = "ADDR_DEP" -> src.ip = Primary.ip
      [] nat.filter = "ADDR_PORT_DEP" -> src = Primary

(* where the answer to the request of this phase comes from: CHANGE-REQUEST *)
AnswerFrom ==
    CASE kind = "filtering" /\ phase = 2 -> [ip |-> 2, port |-> 2]
      [] kind = "filtering" /\ phase = 3 -> [ip |-> 1, port |-> 2]
      [] OTHER -> srv

(* msg_recv() of hairpinning.c, udp_recv_handler() and tcp_recv_handler2(): the
   session answers its own second request when the NAT sends it back in *)
AnswersItself == nat.hairpin

(* whether the request out now gets an answer when nothing is lost *)
Answered ==
    CASE kind = "filtering" -> LetIn(AnswerFrom)
      [] kind = "hairpinning" /\ phase = 2 -> AnswersItself
      [] OTHER -> TRUE

(* the handler is called and the session has nothing more to do *)
Tell(v) == told' = Append(told, v) /\ wait' = "idle" /\ UNCHANGED <<phase, srv>>

(* mapping_send() and the stun_request()s of the others: the next test is
   on its way, or could not be sent, which ends the session *)
Sends(p, to) ==
    /\ phase' = p
    /\ \/ /\ srv' = to /\ UNCHANGED told
          /\ wait' = IF kind = "mapping" /\ proto = "tcp" THEN "connecting" ELSE "request"
       \/ /\ srv' = to /\ told' = Append(told, ERR) /\ wait' = "idle"

(* the first request; when it cannot be sent the caller has the error *)
Start(k) ==
    /\ kind = k /\ phase = 0 /\ phase' = 1
    /\ wait' = IF proto = "tcp" THEN "connecting" ELSE "request"
    /\ UNCHANGED <<nat, kind, proto, srv, map, lost, told>>

MappingStart == Start("mapping")
FilteringStart == Start("filtering")
HairpinningStart == Start("hairpinning")
GenalgStart == Start("genalg")

(* the request goes over the connection, or cannot *)
Established(k) ==
    /\ kind = k /\ wait = "connecting"
    /\ \/ wait' = "request" /\ UNCHANGED <<phase, srv, told>>
       \/ Tell(ERR)
    /\ UNCHANGED <<nat, kind, proto, map, lost>>

(* a connection breaks: the user is told, whatever was told before.  A
   request that was out stays out until its own timer. *)
Broken(k) ==
    /\ kind = k /\ proto = "tcp" /\ phase > 0 /\ Len(told) < MaxBroken
    /\ told' = Append(told, ERR)
    /\ wait' = IF wait = "connecting" THEN "idle" ELSE wait
    /\ lost' = TRUE
    /\ UNCHANGED <<nat, kind, proto, phase, srv, map>>

MappingEstab == Established("mapping")
MappingClosed == Broken("mapping")
HairpinningEstab == Established("hairpinning")
HairpinningClosed == Broken("hairpinning")

(* stun_response_handler() of mapping.c, with both attributes *)
MappingAnswer ==
    LET m == Append(map, MappedFor(srv))
    IN  /\ kind = "mapping" /\ map' = m
        /\ CASE phase = 1 -> IF m[1] = <<"local">> THEN Tell("ENDP_INDEP")
                             ELSE Sends(2, [srv EXCEPT !.ip = 2])
             [] phase = 2 -> IF m[1] = m[2] THEN Tell("ENDP_INDEP")
                             ELSE Sends(3, [srv EXCEPT !.port = 2])
             [] phase = 3 -> IF m[2] = m[3] THEN Tell("ADDR_DEP")
                             ELSE Tell("ADDR_PORT_DEP")

(* stun_response_handler() of filtering.c: an answer *)
FilteringAnswer ==
    /\ kind = "filtering"
    /\ CASE phase = 1 -> Sends(2, srv)
         [] phase = 2 -> Tell("ENDP_INDEP")
         [] phase = 3 -> Tell("ADDR_DEP")
    /\ UNCHANGED map

(* ... and none *)
FilteringSilence ==
    /\ kind = "filtering"
    /\ CASE phase = 1 -> Tell(ERR)
         [] phase = 2 -> Sends(3, srv)
         [] phase = 3 -> Tell("ADDR_PORT_DEP")

(* stun_response_handler() and hairpin_send() of hairpinning.c: the second
   request goes to the address the first learned *)
HairpinningMapped ==
    kind = "hairpinning" /\ phase = 1 /\ Sends(2, srv) /\ UNCHANGED map

(* stun_response_handler2() *)
HairpinningAnswer ==
    kind = "hairpinning" /\ phase = 2 /\ Tell("hairpins") /\ UNCHANGED map

HairpinningSilence ==
    /\ kind = "hairpinning"
    /\ IF phase = 1 THEN Tell(ERR) ELSE Tell("none")

(* stun_response_handler() of genalg.c: nothing found when both attributes agree *)
GenalgAnswer ==
    /\ kind = "genalg"
    /\ IF nat.alg THEN Tell("alg") ELSE Tell("none")
    /\ UNCHANGED map

(* a good answer to the request that is out *)
Answer ==
    /\ wait = "request" /\ Answered
    /\ proto = "tcp" /\ kind = "mapping" => ~lost
    /\ MappingAnswer \/ FilteringAnswer \/ HairpinningMapped
       \/ HairpinningAnswer \/ GenalgAnswer
    /\ UNCHANGED <<nat, kind, proto, lost>>

(* an error code, or an attribute missing: the end, but for test III of the
   filtering, where every answer that is not good counts as none *)
BadAnswer ==
    /\ wait = "request" /\ Answered
    /\ ~(kind = "hairpinning" /\ phase = 2)
    /\ IF kind = "filtering" /\ phase = 3 THEN Tell("ADDR_PORT_DEP") ELSE Tell(ERR)
    /\ lost' = TRUE
    /\ UNCHANGED <<nat, kind, proto, map>>

(* the request times out: its answer was kept out by the NAT, or was lost *)
Silence ==
    /\ wait = "request" /\ lost' = (lost \/ Answered)
    /\ \/ FilteringSilence \/ HairpinningSilence
       \/ kind \in {"mapping", "genalg"} /\ Tell(ERR)
    /\ UNCHANGED <<nat, kind, proto, map>>

ProbeNext ==
    \/ MappingAlloc \/ FilteringAlloc \/ HairpinningAlloc \/ GenalgAlloc
    \/ MappingStart \/ FilteringStart \/ HairpinningStart \/ GenalgStart
    \/ MappingEstab \/ MappingClosed \/ HairpinningEstab \/ HairpinningClosed
    \/ Answer \/ BadAnswer \/ Silence

ProbeSpec == ProbeInit /\ [][ProbeNext]_probe

ProbeTypeOK ==
    /\ phase \in 0..3 /\ wait \in {"idle", "connecting", "request"}
    /\ srv \in [ip : {1, 2}, port : {1, 2}] /\ Len(map) <= 3 /\ Len(told) <= 5

Verdicts == {i \in DOMAIN told : told[i] # ERR}

(* what the NAT is, in the words of the session's verdict *)
Truth ==
    CASE kind = "mapping" -> IF nat.map = "none" THEN "ENDP_INDEP" ELSE nat.map
      [] kind = "filtering" -> nat.filter
      [] kind = "hairpinning" -> IF nat.hairpin THEN "hairpins" ELSE "none"
      [] kind = "genalg" -> IF nat.alg THEN "alg" ELSE "none"

(* The verdict is what the NAT is, whichever tests it took to reach it, as
   long as nothing that should have come was missing; and there is at most
   one verdict, whatever else breaks. *)
VerdictRight ==
    /\ ~lost => \A i \in Verdicts : told[i] = Truth
    /\ \A i, j \in Verdicts : i = j

(* A session that was started waits for a connection or for a request that
   has a timer until the user was told; over UDP it is told once. *)
SessionEnds ==
    /\ phase > 0 => wait # "idle" \/ told # <<>>
    /\ proto = "udp" => Len(told) <= 1 /\ (told # <<>> => wait = "idle")

-------------------------------------------------------------------------------
(* lifetime.c. *)

lifetime == <<life, obeys, interval, ctx, cty, tmr, wrong, stuck, live>>

LifetimeInit ==
    /\ life \in Lifetimes /\ obeys \in BOOLEAN
    /\ interval \in {[min |-> 1, cur |-> c, max |-> 0] : c \in Starts}
    /\ ctx = FALSE /\ cty = FALSE /\ tmr = FALSE
    /\ wrong = FALSE /\ stuck = FALSE /\ live = FALSE

(* start_test(): Y's request is left as it is; its error is dropped by all
   callers but nat_lifetime_start() *)
StartTest ==
    /\ tmr' = FALSE
    /\ ctx' \in BOOLEAN
    /\ stuck' = (stuck \/ ~ctx')

(* binding_ok() *)
Longer(i) ==
    LET m == IF i.cur > 1 THEN i.cur ELSE 1
    IN  [min |-> m, max |-> i.max,
         cur |-> IF i.max > 0 THEN (m + i.max) \div 2 ELSE i.cur * 2]

(* binding_expired() *)
Shorter(i) == [min |-> i.min, max |-> i.cur, cur |-> (i.min + i.cur) \div 2]

(* nat_lifetime_alloc(), nat_lifetime_start() *)
StartProbing ==
    /\ ~live /\ live' = TRUE
    /\ StartTest /\ ctx'
    /\ UNCHANGED <<life, obeys, interval, cty, wrong>>

(* stun_response_handler_x(): an answer with the mapped address *)
AnswerX ==
    /\ ctx /\ ctx' = FALSE /\ tmr' = TRUE
    /\ UNCHANGED <<life, obeys, interval, cty, wrong, stuck, live>>

(* ... none, an error code or no address: told, and taken for a binding that
   expired although nothing was learned about it *)
FailX ==
    /\ ctx
    /\ interval' = Shorter(interval) /\ StartTest
    /\ wrong' = TRUE
    /\ UNCHANGED <<life, obeys, cty, live>>

(* timeout(): the old request of Y goes; when the new one cannot be sent the
   test is started over *)
Timeout ==
    /\ tmr
    /\ \/ cty' = TRUE /\ tmr' = FALSE /\ UNCHANGED <<ctx, stuck>>
       \/ cty' = FALSE /\ StartTest
    /\ UNCHANGED <<life, obeys, interval, wrong, live>>

Alive == interval.cur <= life

(* external: what the server answers reaches X through the binding *)
Reaches == obeys /\ Alive

(* stun_response_handler_y(): the answer came to X.  It is taken for this
   test's even when it is a late one of the test before. *)
AnswerY ==
    /\ cty /\ Reaches /\ interval.cur * 2 <= MaxCur
    /\ cty' = FALSE
    /\ interval' = Longer(interval) /\ StartTest
    /\ wrong' = (wrong \/ ctx \/ tmr)
    /\ UNCHANGED <<life, obeys, live>>

(* ... an error code: told, and the probing stops *)
RefuseY ==
    /\ cty /\ Reaches
    /\ cty' = FALSE /\ stuck' = TRUE
    /\ UNCHANGED <<life, obeys, interval, ctx, tmr, wrong, live>>

(* ... none came: the binding is gone, or a packet was lost *)
SilenceY ==
    /\ cty /\ cty' = FALSE
    /\ interval' = Shorter(interval) /\ StartTest
    /\ wrong' = (wrong \/ Alive \/ ctx \/ tmr)
    /\ UNCHANGED <<life, obeys, live>>

(* udp_recv_handler_y(): an answer to Y counts as an expired binding, its
   request stays and times out in the next test *)
RecvY ==
    /\ cty /\ ~obeys
    /\ interval' = Shorter(interval) /\ StartTest
    /\ wrong' = TRUE
    /\ UNCHANGED <<life, obeys, cty, live>>

(* lifetime_destructor() *)
Free ==
    /\ live /\ live' = FALSE /\ ctx' = FALSE /\ cty' = FALSE /\ tmr' = FALSE
    /\ UNCHANGED <<life, obeys, interval, wrong, stuck>>

LifetimeNext ==
    \/ StartProbing \/ AnswerX \/ FailX \/ Timeout \/ AnswerY \/ RefuseY
    \/ SilenceY \/ RecvY \/ Free

LifetimeSpec == LifetimeInit /\ [][LifetimeNext]_lifetime

LifetimeTypeOK ==
    /\ interval \in [min : 1..MaxCur, cur : 1..MaxCur, max : 0..MaxCur]
    /\ {ctx, cty, tmr, live, stuck, wrong} \subseteq BOOLEAN

(* The interval always holds its middle, and while the binding alone decided
   the tests the NAT's lifetime lies in it: the search closes in on it. *)
LifetimeBracketed ==
    /\ interval.min <= interval.cur
    /\ interval.max > 0 => interval.cur <= interval.max
    /\ ~wrong => /\ interval.min <= life
                 /\ interval.max > 0 => life < interval.max

(* The discovery goes on until it is dropped: a request is pending or the
   timer runs, unless a request could not be sent or was refused. *)
ProbingGoesOn == live /\ ~stuck => ctx \/ cty \/ tmr
===============================================================================
