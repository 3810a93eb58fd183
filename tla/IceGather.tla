----------------------------- MODULE IceGather ------------------------------
(***************************************************************************)
(* The gathering of candidates for one media stream of ICE in libre        *)
(* (ice/gather.c): a request to the STUN server for every component, or an *)
(* allocation of its TURN client, which reports errors again at any later  *)
(* time; the user is told once when none is pending.                       *)
(***************************************************************************)
EXTENDS Integers, FiniteSets

CONSTANT Comp
VARIABLES turn, stun,   \* of each component: "none", "req", "up"
          cands,        \* the kinds of its candidates
          nstun,        \* icem->nstun
          gh,           \* is the gather handler still set?
          asked,        \* "no", "ok" or "err": what the user got when it asked
          told,         \* "no", "ok" or "err": what the gather handler got
          late          \* has a TURN client reported an error after its success?

vars == <<turn, stun, cands, nstun, gh, asked, told, late>>
Init ==
  /\ turn = [c \in Comp |-> "none"] /\ stun = [c \in Comp |-> "none"]
  /\ cands = [c \in Comp |-> {"host"}] /\ nstun = 0 /\ gh = TRUE
  /\ asked = "no" /\ told = "no" /\ late = FALSE

(* call_gather_handler(), with redundant candidates gone and the default    *)
(* candidates set before the user is told of success.                       *)
Gathered(n, err) ==
  /\ nstun' = n
  /\ IF n # 0 \/ ~gh THEN UNCHANGED <<gh, told>>
     ELSE gh' = FALSE /\ told' = IF err THEN "err" ELSE "ok"

(* start_gathering(): cand_gather_relayed() or send_binding_request() for   *)
(* each component, and each may fail.                                       *)
Start ==
  /\ asked = "no"
  /\ \E ok \in SUBSET Comp, relay \in BOOLEAN :
       /\ IF relay THEN turn' = [c \in Comp |-> IF c \in ok THEN "req" ELSE "none"] /\ UNCHANGED stun
          ELSE stun' = [c \in Comp |-> IF c \in ok THEN "req" ELSE "none"] /\ UNCHANGED turn
       /\ nstun' = Cardinality(ok) /\ asked' = IF ok = Comp THEN "ok" ELSE "err"
  /\ UNCHANGED <<cands, gh, told, late>>

(* send_binding_request() by turnc_handler(): not when one is pending.      *)
Binding(c, n) ==
  \/ stun[c] # "req" /\ stun' = [stun EXCEPT ![c] = "req"] /\ n
  \/ UNCHANGED stun /\ ~n
(* stun_resp_handler().                                                     *)
StunResp ==
  /\ \E c \in Comp :
       /\ stun[c] = "req" /\ stun' = [stun EXCEPT ![c] = "up"]
       /\ \/ cands' = [cands EXCEPT ![c] = @ \cup {"srflx"}] /\ Gathered(nstun - 1, FALSE)
          \/ UNCHANGED cands /\ \E err \in BOOLEAN : Gathered(nstun - 1, err)
  /\ UNCHANGED <<turn, asked, late>>
(* turnc_handler(), the answer to the allocation: an error; a refusal, and  *)
(* then a request to the STUN server; a relayed and perhaps a mapped        *)
(* address.                                                                 *)
TurnResp ==
  /\ \E c \in Comp : turn[c] = "req" /\
       \/ /\ turn' = [turn EXCEPT ![c] = "none"] /\ Gathered(nstun - 1, TRUE) /\ UNCHANGED <<stun, cands>>
       \/ /\ turn' = [turn EXCEPT ![c] = "none"] /\ UNCHANGED cands
          /\ \/ Binding(c, TRUE) /\ nstun' = nstun /\ UNCHANGED <<gh, told>>
             \/ Binding(c, FALSE) /\ Gathered(nstun - 1, TRUE)
       \/ /\ turn' = [turn EXCEPT ![c] = "up"]
          /\ \/ /\ cands' = [cands EXCEPT ![c] = @ \cup {"relay", "srflx"}]
                /\ UNCHANGED stun /\ Gathered(nstun - 1, FALSE)
             \/ /\ cands' = [cands EXCEPT ![c] = @ \cup {"relay"}]
                /\ \/ Binding(c, TRUE) /\ nstun' = nstun /\ UNCHANGED <<gh, told>>
                   \/ Binding(c, FALSE) /\ Gathered(nstun - 1, TRUE)
  /\ UNCHANGED <<asked, late>>
(* turnc_handler() again: a refresh, a permission or a channel has failed.  *)
TurnLate ==
  /\ ~late /\ late' = TRUE
  /\ \E c \in Comp :
       /\ turn[c] = "up" /\ turn' = [turn EXCEPT ![c] = "none"]
       /\ \/ UNCHANGED stun /\ Gathered(nstun - 1, TRUE)
          \/ Binding(c, TRUE) /\ nstun' = nstun /\ UNCHANGED <<gh, told>>
  /\ UNCHANGED <<cands, asked>>

Next == Start \/ StunResp \/ TurnResp \/ TurnLate
Spec == Init /\ [][Next]_vars

-----------------------------------------------------------------------------
Pending == {<<c, x>> \in Comp \X {"stun", "turn"} : (IF x = "stun" THEN stun ELSE turn)[c] = "req"}
(* The values the variables can have.                                       *)
TypeOK ==
  /\ \A c \in Comp : turn[c] \in {"none", "req", "up"} /\ stun[c] \in {"none", "req", "up"}
  /\ nstun \in Int

(* As long as no TURN client reports an error after its success, nstun is   *)
(* the number of requests pending, the user is told when the last of them   *)
(* ends and not before, and is always told then, unless no request could be *)
(* made when it asked.  A late error counts nstun down once too often.      *)
GatherCounts ==
  ~late =>
    /\ nstun = Cardinality(Pending)
    /\ told # "no" => Pending = {}
    /\ asked = "ok" /\ Pending = {} => told # "no"
=============================================================================
