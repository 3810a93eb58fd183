------------------------------ MODULE Settings ------------------------------
(***************************************************************************)
(* How the settings of the database reach the dialer: the gateway list and *)
(* the fields of a campaign that pull_groups (main.c) copies on DbThread,  *)
(* the pointers to gateways that campaigns, actions and the SIP sessions   *)
(* of calls keep, the main thread that uses them without a lock, and       *)
(* signal_handler, which frees both lists on the main thread.  One gateway,*)
(* one campaign and one call leg of those in progress; the life of the     *)
(* campaign itself is module Campaign.                                     *)
(***************************************************************************)
EXTENDS Naturals, TLAPS

CONSTANTS Uris,      \* URIs the operator may give the gateway
          Alike,     \* sets of URIs that differ in the case of letters only
          Bad,       \* the URIs uri_decode refuses
          Statuses,  \* values of campaigns.status the operator sets
          Minutes,   \* values of campaigns.time_between_retries
          DelayWrap, \* 65536, retry_delay is an uint16_t
          MaxFail    \* bound: queries that fail
ASSUME AlikeAssumption ==
  /\ Alike \subseteq SUBSET Uris /\ \A A, B \in Alike : A = B \/ A \cap B = {}
ASSUME SettingsAssumption ==
  /\ Bad \subseteq Uris /\ Statuses \subseteq Nat /\ Minutes \subseteq Nat
  /\ DelayWrap \in Nat \ {0} /\ MaxFail \in Nat

VARIABLES row,       \* the gateway's row: a URI, or "none"
          crow,      \* the campaign's row
          seen,      \* the campaign's row that pull_groups fetched last
          gt,        \* struct gateway
          cp,        \* struct campaign; pointers are "null", "live" or "freed"
          call,      \* the gateway that the session of a call in progress keeps
          pc,        \* where DbThread is
          whole,     \* the last pass reached its end
          failed,    \* queries that failed
          shut,      \* how far signal_handler got: "no", "gateways", "services", "yes"
          crash      \* who used an object that was freed and crashed, or "no"

vars == <<row, crow, seen, gt, cp, call, pc, whole, failed, shut, crash>>
rows == <<row, crow>>

NoGateway  == [listed |-> FALSE, uri |-> "none", sip |-> "none"]
NoCampaign == [alive |-> FALSE, status |-> 0, running |-> FALSE,
               gateway |-> "null", action |-> "null", delay |-> 0]
(* fresh: dialled between two whole passes, through the pointer of a        *)
(* campaign that the query returns, and no gateway was freed since.         *)
NoCall == [ptr |-> "null", fresh |-> FALSE]

Init ==
  /\ row = "none" /\ crow \in [status : {2}, minutes : Minutes]
  /\ seen = [status |-> 0, minutes |-> 0]
  /\ gt = NoGateway /\ cp = NoCampaign /\ call = NoCall
  /\ pc = "sleep" /\ whole = FALSE /\ failed = 0 /\ shut = "no" /\ crash = "no"

-----------------------------------------------------------------------------
(* The operator, through the web front end.  A campaign that is ready (1)   *)
(* is not among the rows of the query any more.                             *)
EditGateway ==
  /\ shut = "no" /\ crash = "no"
  /\ row' \in (Uris \cup {"none"}) \ {row}
  /\ UNCHANGED <<crow, seen, gt, cp, call, pc, whole, failed, shut, crash>>
EditCampaign ==
  /\ shut = "no" /\ crash = "no"
  /\ crow' \in [status : Statuses, minutes : Minutes]
  /\ UNCHANGED <<row, seen, gt, cp, call, pc, whole, failed, shut, crash>>

-----------------------------------------------------------------------------
(* DbThread in pull_groups.                                                 *)

Freed(p) == IF p = "live" THEN "freed" ELSE p
Dangling(c) == [c EXCEPT !.gateway = Freed(@), !.action = Freed(@)]
Bereft(c) == [ptr |-> Freed(c.ptr), fresh |-> FALSE]
Lookup == IF gt.listed THEN "live" ELSE "null"

Move(from, to) == pc = from /\ pc' = to /\ UNCHANGED <<rows, failed, shut>>
Step(from, to) == Move(from, to) /\ UNCHANGED call

(* get_results() fails, and pull_groups returns.                            *)
QueryFails ==
  /\ failed < MaxFail /\ failed' = failed + 1
  /\ \/ pc = "sleep" /\ shut # "yes"
     \/ pc \in {"campaigns", "services"}
  /\ pc' = "sleep" /\ whole' = FALSE
  /\ UNCHANGED <<rows, seen, gt, cp, call, shut, crash>>

(* The gateway query and the walk over its rows.  The URI of a row is taken *)
(* over when it differs from the one the gateway has, in more than the case *)
(* of its letters; Same: the URIs that str_casecmp does not tell from u.    *)
Same(u) == {u} \cup UNION {A \in Alike : u \in A}

(* Mutant: the URI of a known gateway is not compared.                      *)
Differs_bug == gt.uri = "none"

Differs == gt.uri = "none" \/ Same(gt.uri) # Same(row)

GatewayKept ==
  /\ shut # "yes" /\ Step("sleep", "campaigns")
  /\ row = "none" \/ (gt.listed /\ ~Differs)
  /\ whole' = FALSE /\ UNCHANGED <<seen, gt, cp, crash>>

(* The old string, into which sip_uri points, is freed before the new one   *)
(* is decoded.                                                              *)
GatewayChanges ==
  /\ shut # "yes" /\ Step("sleep", "decode")
  /\ row # "none" /\ (~gt.listed \/ Differs)
  /\ gt' = [listed |-> TRUE, uri |-> row, sip |-> "freed"]
  /\ whole' = FALSE /\ UNCHANGED <<seen, cp, crash>>

(* Mutant: the loop goes on with the gateway it has freed.                  *)
Decode_bug ==
  /\ Move("decode", "campaigns")
  /\ IF gt.uri \in Bad
     THEN /\ gt' = NoGateway /\ cp' = Dangling(cp) /\ call' = Bereft(call)
          /\ crash' = "db"
     ELSE gt' = [gt EXCEPT !.sip = gt.uri] /\ UNCHANGED <<cp, call, crash>>
  /\ UNCHANGED <<seen, whole>>

(* When it does not decode the gateway is freed, also if it was in use; the *)
(* loop goes on without it.                                                 *)
Decode ==
  /\ Move("decode", "campaigns")
  /\ IF ~gt.listed THEN crash' = "db" /\ UNCHANGED <<gt, cp, call>>
     ELSE /\ UNCHANGED crash
          /\ IF gt.uri \in Bad
             THEN gt' = NoGateway /\ cp' = Dangling(cp) /\ call' = Bereft(call)
             ELSE gt' = [gt EXCEPT !.sip = gt.uri] /\ UNCHANGED <<cp, call>>
  /\ UNCHANGED <<seen, whole>>

FetchCampaign ==
  /\ Step("campaigns", "campaign")
  /\ seen' = [status |-> crow.status, minutes |-> crow.minutes]
  /\ UNCHANGED <<gt, cp, whole, crash>>

(* retry_delay is given minutes times sixty.                                *)
RetryDelay(minutes) == (minutes * 60) % DelayWrap

RowUsed == seen' = [seen EXCEPT !.minutes = 0]

(* A row of the campaign query.                                             *)
RowIgnored ==
  /\ Step("campaign", "services")
  /\ seen.status <= 1 \/ (~cp.alive /\ seen.status # 2)
  /\ RowUsed /\ UNCHANGED <<gt, cp, whole, crash>>

(* A stopped campaign is freed when processl is empty; other entries of it  *)
(* than the one call are in module Campaign.                                *)
RowFrees ==
  /\ Step("campaign", "services")
  /\ cp.alive /\ seen.status > 3 /\ call = NoCall
  /\ cp' = NoCampaign /\ RowUsed /\ UNCHANGED <<gt, whole, crash>>

(* Mutant: a gateway that is not found leaves the old one in place.         *)
RowUpdates_bug ==
  /\ Step("campaign", "services")
  /\ IF cp.alive THEN seen.status > 1 ELSE seen.status = 2
  /\ cp' = [cp EXCEPT !.alive = TRUE, !.status = seen.status,
                      !.delay = RetryDelay(seen.minutes),
                      !.gateway = IF cp.alive /\ ~gt.listed THEN @ ELSE Lookup]
  /\ RowUsed /\ UNCHANGED <<gt, whole, crash>>

RowUpdates ==
  /\ Step("campaign", "services")
  /\ IF cp.alive THEN seen.status > 1 ELSE seen.status = 2
  /\ cp' = [cp EXCEPT !.alive = TRUE, !.status = seen.status,
                      !.delay = RetryDelay(seen.minutes), !.gateway = Lookup]
  /\ RowUsed /\ UNCHANGED <<gt, whole, crash>>

(* The loop over services.  It stands on a campaign when it looks at        *)
(* is_running, and again when it has fetched the actions.                   *)
ServicesSkip ==
  /\ Step("services", "sleep")
  /\ ~cp.alive \/ cp.running
  /\ whole' = TRUE /\ UNCHANGED <<seen, gt, cp, crash>>
ServicesVisit ==
  /\ Step("services", "actions")
  /\ cp.alive /\ ~cp.running /\ UNCHANGED <<seen, gt, cp, whole, crash>>

LoadActions ==
  /\ Step("actions", "sleep") /\ whole' = TRUE
  /\ IF cp.alive THEN cp' = [cp EXCEPT !.action = Lookup] /\ UNCHANGED crash
                 ELSE crash' = "db" /\ UNCHANGED cp
  /\ UNCHANGED <<seen, gt>>

DbThread ==
  /\ crash = "no"
  /\ \/ QueryFails \/ GatewayKept \/ GatewayChanges \/ Decode
     \/ FetchCampaign \/ RowIgnored \/ RowFrees \/ RowUpdates
     \/ ServicesSkip \/ ServicesVisit \/ LoadActions

-----------------------------------------------------------------------------
(* The main thread: a campaign is started by the message of pull_groups and *)
(* stands by when its status is not running.                                *)
Start ==
  /\ shut = "no" /\ pc = "sleep" /\ cp.alive /\ cp.status = 2 /\ ~cp.running
  /\ cp' = [cp EXCEPT !.running = TRUE]
  /\ UNCHANGED <<rows, seen, gt, call, pc, whole, failed, shut, crash>>
Standby ==
  /\ shut = "no" /\ cp.running /\ cp.status # 2
  /\ cp' = [cp EXCEPT !.running = FALSE]
  /\ UNCHANGED <<rows, seen, gt, call, pc, whole, failed, shut, crash>>

(* A gateway is read through p: the process may crash if it was freed, or   *)
(* if the string was that its URI points into.                              *)
Uses(p) ==
  crash' \in IF p = "freed" \/ gt.sip = "freed" THEN {crash, "main"} ELSE {crash}

(* start_fake_calling dials through the campaign's gateway, on_call_end     *)
(* forwards through the action's; the SIP session keeps the pointer, which  *)
(* is no reference, as the argument of auth_handler.                        *)
Dial ==
  /\ shut = "no" /\ call = NoCall /\ cp.running
  /\ \E p \in {cp.gateway, cp.action}, direct \in BOOLEAN :
       /\ p # "null" /\ (direct => p = cp.gateway /\ cp.status = 2)
       /\ ~direct => p = cp.action
       /\ call' = [ptr |-> p,
                   fresh |-> direct /\ pc = "sleep" /\ whole /\ seen.status > 1]
       /\ Uses(p)
  /\ UNCHANGED <<rows, seen, gt, cp, pc, whole, failed, shut>>

(* The INVITE or a later request is challenged: auth_handler.               *)
Challenge ==
  /\ shut = "no" /\ call # NoCall /\ Uses(call.ptr)
  /\ UNCHANGED <<rows, seen, gt, cp, call, pc, whole, failed, shut>>

CallEnds ==
  /\ shut = "no" /\ call # NoCall /\ call' = NoCall
  /\ UNCHANGED <<rows, seen, gt, cp, pc, whole, failed, shut, crash>>

(* signal_handler(): list_flush(&gateways), list_flush(&services), and      *)
(* terminate(), which clears running.                                       *)
Signal ==
  /\ \/ /\ shut = "no" /\ shut' = "gateways"
        /\ gt' = NoGateway /\ cp' = Dangling(cp) /\ call' = Bereft(call)
     \/ /\ shut = "gateways" /\ shut' = "services"
        /\ cp' = NoCampaign /\ UNCHANGED <<gt, call>>
     \/ shut = "services" /\ shut' = "yes" /\ UNCHANGED <<gt, cp, call>>
  /\ UNCHANGED <<rows, seen, pc, whole, failed, crash>>

MainThread ==
  /\ crash = "no"
  /\ Start \/ Standby \/ Dial \/ Challenge \/ CallEnds \/ Signal

Next == EditGateway \/ EditCampaign \/ DbThread \/ MainThread

(* DbThread wakes up after its sleep.                                       *)
Spec == Init /\ [][Next]_vars /\ WF_vars(DbThread)

-----------------------------------------------------------------------------
(* The values the fields can have.                                          *)
CampaignRows == [status : Statuses \cup {2}, minutes : Minutes]
Fetched == [status : Statuses \cup {0, 2},
            minutes : Minutes \cup {0}]
Gateways == [listed : BOOLEAN, uri : Uris \cup {"none"},
             sip : Uris \cup {"none", "freed"}]
Pointers == {"null", "live", "freed"}
Campaigns == [alive : BOOLEAN, status : Statuses \cup {0, 2}, running : BOOLEAN,
              gateway : Pointers, action : Pointers, delay : 0 .. DelayWrap - 1]

Calls == [ptr : Pointers, fresh : BOOLEAN]

TypeOK ==
  /\ row \in Uris \cup {"none"} /\ crow \in CampaignRows
  /\ seen \in Fetched /\ gt \in Gateways /\ cp \in Campaigns /\ call \in Calls
  /\ pc \in {"sleep", "decode", "campaigns", "campaign", "services",
             "actions"}
  /\ whole \in BOOLEAN /\ failed \in 0 .. MaxFail
  /\ shut \in {"no", "gateways", "services", "yes"}
  /\ crash \in {"no", "db", "main"}

(* Between two passes of pull_groups a pointer to a freed gateway is left   *)
(* in four places only: in a campaign the query does not return any more,   *)
(* in the actions of a campaign that was running when the gateway went, in  *)
(* everything when the pass was cut short by a failed query, and in the SIP *)
(* session of a call that was in progress when the gateway went, which      *)
(* reads it when it is challenged (call.c:142-151, 654), or that was itself *)
(* dialled through one of the other three or during a pass.  So a campaign  *)
(* that is dialled from an up-to-date row never dials through a freed       *)
(* gateway for longer than the pass that freed it, and a listed gateway has *)
(* been decoded from the string it keeps.                                   *)
PointersFresh ==
  /\ (pc = "sleep" /\ shut = "no") =>
       /\ (whole /\ seen.status > 1) => cp.gateway # "freed"
       /\ (whole /\ cp.action = "freed") => cp.running \/ cp.status # 2
       /\ gt.listed => gt.sip = gt.uri /\ gt.sip \notin Bad
       /\ "live" \in {cp.gateway, cp.action, call.ptr} => gt.listed
  /\ call.fresh => call.ptr = "live"

(* DbThread uses no gateway and no campaign that was freed, unless the      *)
(* signal came while it was in pull_groups: the two list_flush calls of     *)
(* signal_handler take no lock.                                             *)
DbThreadUsesLive == crash = "db" => shut # "no"

(* The settings arrive: once the operator leaves them alone, the gateway is *)
(* decoded from the URI of its row, up to the case of letters, and a        *)
(* campaign that the query returns has its retry delay, modulo 2^16 seconds,*)
(* although queries may fail on the way, unless the main thread crashes on  *)
(* a freed gateway.                                                         *)
SettingsReach ==
  LET Over == shut # "no" \/ crash = "main" IN
  /\ \A u \in Uris \ Bad :
       <>[](row = u) => <>[](Over \/ Same(gt.sip) = Same(u))
  /\ \A n \in Minutes :
       <>[](crow.status = 2 /\ crow.minutes = n) =>
         <>[](Over \/ (cp.alive /\ cp.delay = RetryDelay(n) /\ cp.status = 2))

-----------------------------------------------------------------------------
(***************************************************************************)
(* Proofs, for any URIs, statuses, retry delays and any number of failed   *)
(* queries.                                                                *)
(*                                                                         *)
(* PointersFresh speaks of the moments between two passes of pull_groups;  *)
(* it is not inductive, because what is true there was made true by the    *)
(* steps of the pass.  Inv says what holds at each of them: a pass that is *)
(* past the campaign row has replaced the pointer, one that is past the    *)
(* loop over services the pointers of the actions, and a gateway that is   *)
(* listed has been decoded, except between the two halves of its update.   *)
(***************************************************************************)

(* A pass that was not cut short ends in the sleep. *)
WholeAsleep == whole => pc = "sleep"

(* No pointer is live without the gateway. *)
LiveListed == "live" \in {cp.gateway, cp.action, call.ptr} => gt.listed

(* A call dialled through a live gateway is not fresh when that is gone. *)
FreshLive == call.fresh => call.ptr = "live"

(* A campaign that is not in services holds nothing. *)
DeadEmpty ==
  ~cp.alive => cp.gateway = "null" /\ cp.action = "null" /\ ~cp.running

(* DbThread stands on a gateway that is listed and on a campaign that lives. *)
Standing == (pc = "decode" => gt.listed) /\ (pc = "actions" => cp.alive)

(* A listed gateway was decoded from the string it keeps. *)
Decoded == pc # "decode" /\ gt.listed => gt.sip = gt.uri /\ gt.uri \notin Bad

(* Past its row a campaign has the gateway that is listed, or none. *)
RowDone ==
  (pc \in {"services", "actions"} \/ (pc = "sleep" /\ whole)) /\ seen.status > 1
    => cp.gateway # "freed"

(* Past the loop over services only a running campaign keeps old actions. *)
ActionsDone ==
  pc = "sleep" /\ whole /\ cp.action = "freed" => cp.running \/ cp.status # 2

Quiet == DeadEmpty /\ Standing /\ Decoded /\ RowDone /\ ActionsDone
         /\ crash # "db"

Inv == /\ TypeOK /\ WholeAsleep /\ LiveListed /\ FreshLive
       /\ (shut = "no" => Quiet)

-----------------------------------------------------------------------------
(* retry_delay stays within its field, whatever the operator enters. *)
LEMMA DelayFits == ASSUME NEW n \in Nat PROVE RetryDelay(n) \in 0 .. DelayWrap - 1
  BY SettingsAssumption DEF RetryDelay

(* What the records of the module hold, field by field. *)
LEMMA Fields ==
  ASSUME TypeOK
  PROVE  /\ crow.status \in Statuses \cup {2} /\ crow.minutes \in Minutes
         /\ seen.status \in Statuses \cup {0, 2} /\ seen.minutes \in Nat
         /\ gt.listed \in BOOLEAN /\ gt.uri \in Uris \cup {"none"}
         /\ cp.alive \in BOOLEAN /\ cp.running \in BOOLEAN
         /\ cp.status \in Statuses \cup {0, 2}
         /\ cp.gateway \in Pointers /\ cp.action \in Pointers
         /\ call.ptr \in Pointers /\ call.fresh \in BOOLEAN
<1>1. crow.status \in Statuses \cup {2} /\ crow.minutes \in Minutes
  BY DEF TypeOK, CampaignRows
<1>2. seen.status \in Statuses \cup {0, 2} /\ seen.minutes \in Minutes \cup {0}
  BY DEF TypeOK, Fetched
<1>3. gt.listed \in BOOLEAN /\ gt.uri \in Uris \cup {"none"}
  BY DEF TypeOK, Gateways
<1>4. /\ cp.alive \in BOOLEAN /\ cp.running \in BOOLEAN
      /\ cp.status \in Statuses \cup {0, 2}
      /\ cp.gateway \in Pointers /\ cp.action \in Pointers
  BY DEF TypeOK, Campaigns
<1>5. Minutes \cup {0} \subseteq Nat
  BY SettingsAssumption
<1>6. seen.minutes \in Nat
  BY <1>2, <1>5
<1>7. call.ptr \in Pointers /\ call.fresh \in BOOLEAN
  BY DEF TypeOK, Calls
<1> QED
  BY <1>1, <1>2, <1>3, <1>4, <1>6, <1>7

(* Every assignment to a field of struct campaign keeps the others. *)
LEMMA CampaignSet ==
  ASSUME NEW c \in Campaigns
  PROVE  /\ \A b \in BOOLEAN : [c EXCEPT !.running = b] \in Campaigns
         /\ \A p \in Pointers : [c EXCEPT !.action = p] \in Campaigns
         /\ \A n \in Statuses \cup {0, 2}, d \in 0 .. DelayWrap - 1, p \in Pointers :
              [c EXCEPT !.alive = TRUE, !.status = n, !.delay = d, !.gateway = p]
                \in Campaigns
         /\ Dangling(c) \in Campaigns
<1>1. \A b \in BOOLEAN : [c EXCEPT !.running = b] \in Campaigns
  BY DEF Campaigns
<1>2. \A p \in Pointers : [c EXCEPT !.action = p] \in Campaigns
  BY DEF Campaigns
<1>3. \A n \in Statuses \cup {0, 2}, d \in 0 .. DelayWrap - 1, p \in Pointers :
         [c EXCEPT !.alive = TRUE, !.status = n, !.delay = d, !.gateway = p]
           \in Campaigns
  BY DEF Campaigns
<1>4. Dangling(c) \in Campaigns
  BY DEF Campaigns, Dangling, Freed, Pointers
<1> QED
  BY <1>1, <1>2, <1>3, <1>4

(* So does every assignment to what DbThread has fetched. *)
LEMMA FetchedSet ==
  ASSUME NEW f \in Fetched
  PROVE  [f EXCEPT !.minutes = 0] \in Fetched
  BY DEF Fetched

(* A call that lost its gateway. *)
LEMMA BereftType == TypeOK => Bereft(call) \in Calls
  BY DEF TypeOK, Calls, Bereft, Freed, Pointers

(* The objects that a destructor leaves behind are well formed. *)
LEMMA Empty ==
  NoGateway \in Gateways /\ NoCampaign \in Campaigns /\ NoCall \in Calls
<1>1. NoGateway \in Gateways
  BY DEF NoGateway, Gateways
<1>2. NoCampaign \in Campaigns
  BY SettingsAssumption DEF NoCampaign, Campaigns, Pointers
<1>3. NoCall \in Calls
  BY DEF NoCall, Calls, Pointers
<1> QED
  BY <1>1, <1>2, <1>3

(* The pointer that a look-up in the gateway list gives. *)
LEMMA LookupType == TypeOK => Lookup \in Pointers
  BY DEF Lookup, Pointers

(* main() starts with empty lists. *)
LEMMA InvInit == Init => Inv
<1> SUFFICES ASSUME Init PROVE Inv
  OBVIOUS
<1> USE SettingsAssumption DEF Init
<1>1. crow \in CampaignRows /\ seen \in Fetched
  BY DEF CampaignRows, Fetched
<1>2. whole \in BOOLEAN
  BY Zenon
<1>3. TypeOK
  BY <1>1, <1>2, Empty DEF TypeOK
<1> QED
  BY <1>3 DEF Inv, WholeAsleep, LiveListed, FreshLive, Quiet, DeadEmpty, Standing,
              Decoded, RowDone, ActionsDone, NoGateway, NoCampaign, NoCall

(* Every step of either thread keeps the types. *)
LEMMA TypeStep == TypeOK /\ [Next]_vars => TypeOK'
<1> SUFFICES ASSUME TypeOK, [Next]_vars PROVE TypeOK'
  OBVIOUS
<1> USE SettingsAssumption, Fields DEF TypeOK, Step, Move, rows
<1>1. CASE EditGateway
  BY <1>1 DEF EditGateway
<1>2. CASE EditCampaign
  BY <1>2 DEF EditCampaign, CampaignRows
<1>3. CASE QueryFails
  <2>1. failed' \in 0 .. MaxFail /\ pc' = "sleep"
    BY <1>3 DEF QueryFails
  <2>2. whole' \in BOOLEAN /\ crash' = crash
    BY <1>3 DEF QueryFails
  <2> QED
    BY <1>3, <2>1, <2>2 DEF QueryFails
<1>5. CASE GatewayKept
  BY <1>5 DEF GatewayKept
<1>6. CASE GatewayChanges
  <2>1. gt' \in Gateways
    BY <1>6 DEF GatewayChanges, Gateways
  <2> QED
    BY <1>6, <2>1 DEF GatewayChanges
<1>7. CASE Decode
  <2>1. gt' \in Gateways
    BY <1>7, Empty DEF Decode, Gateways
  <2>2. cp' \in Campaigns /\ call' \in Calls
    BY <1>7, CampaignSet, BereftType DEF Decode
  <2>3. crash' \in {"no", "db", "main"}
    BY <1>7 DEF Decode
  <2> QED
    BY <1>7, <2>1, <2>2, <2>3 DEF Decode
<1>8. CASE FetchCampaign
  <2>1. seen' \in Fetched
    BY <1>8 DEF FetchCampaign, Fetched
  <2> QED
    BY <1>8, <2>1 DEF FetchCampaign
<1>9. CASE RowIgnored
  BY <1>9, FetchedSet DEF RowIgnored, RowUsed
<1>10. CASE RowFrees
  BY <1>10, FetchedSet, Empty DEF RowFrees, RowUsed
<1>11. CASE RowUpdates
  <2>1. cp' \in Campaigns
    BY <1>11, DelayFits, LookupType, CampaignSet DEF RowUpdates
  <2> QED
    BY <1>11, <2>1, FetchedSet DEF RowUpdates, RowUsed
<1>12. CASE ServicesSkip
  BY <1>12 DEF ServicesSkip
<1>13. CASE ServicesVisit
  BY <1>13 DEF ServicesVisit
<1>14. CASE LoadActions
  <2>1. cp' \in Campaigns /\ crash' \in {"no", "db", "main"}
    BY <1>14, LookupType, CampaignSet DEF LoadActions
  <2> QED
    BY <1>14, <2>1 DEF LoadActions
<1>15. CASE Start
  <2>1. cp' \in Campaigns
    BY <1>15, CampaignSet DEF Start
  <2> QED
    BY <1>15, <2>1 DEF Start
<1>16. CASE Standby
  <2>1. cp' \in Campaigns
    BY <1>16, CampaignSet DEF Standby
  <2> QED
    BY <1>16, <2>1 DEF Standby
<1>17. CASE Signal
  <2>1. gt' \in Gateways /\ cp' \in Campaigns /\ call' \in Calls
    BY <1>17, CampaignSet, BereftType, Empty DEF Signal
  <2>2. shut' \in {"no", "gateways", "services", "yes"}
    BY <1>17 DEF Signal
  <2> QED
    BY <1>17, <2>1, <2>2 DEF Signal
<1>19. CASE Dial
  <2>1. PICK p \in {cp.gateway, cp.action}, direct \in BOOLEAN :
          /\ call' = [ptr |-> p,
                       fresh |-> direct /\ pc = "sleep" /\ whole /\ seen.status > 1]
          /\ Uses(p)
    BY <1>19, Zenon DEF Dial
  <2>2. call' \in Calls
    BY <2>1 DEF Calls
  <2>3. crash' \in {"no", "db", "main"}
    BY <2>1 DEF Uses
  <2> QED
    BY <1>19, <2>2, <2>3 DEF Dial
<1>20. CASE Challenge
  <2>1. crash' \in {"no", "db", "main"}
    BY <1>20 DEF Challenge, Uses
  <2> QED
    BY <1>20, <2>1 DEF Challenge
<1>21. CASE CallEnds
  BY <1>21, Empty DEF CallEnds
<1>18. CASE UNCHANGED vars
  BY <1>18 DEF vars
<1> QED
  BY <1>1, <1>2, <1>3, <1>5, <1>6, <1>7, <1>8, <1>9, <1>10, <1>11, <1>12, <1>13,
     <1>14, <1>15, <1>16, <1>17, <1>18, <1>19, <1>20, <1>21
  DEF Next, DbThread, MainThread

-----------------------------------------------------------------------------
(* What a step of DbThread or of the main thread leaves of a struct        *)
(* campaign.                                                               *)
LEMMA CampaignGet ==
  ASSUME NEW c \in Campaigns
  PROVE  /\ \A b \in BOOLEAN : LET e == [c EXCEPT !.running = b] IN
              /\ e.running = b /\ e.alive = c.alive /\ e.status = c.status
              /\ e.gateway = c.gateway /\ e.action = c.action
         /\ \A p \in Pointers : LET e == [c EXCEPT !.action = p] IN
              /\ e.running = c.running /\ e.alive = c.alive /\ e.status = c.status
              /\ e.gateway = c.gateway /\ e.action = p
         /\ \A n \in Statuses \cup {0, 2}, d \in 0 .. DelayWrap - 1, p \in Pointers :
              LET e == [c EXCEPT !.alive = TRUE, !.status = n, !.delay = d,
                                 !.gateway = p] IN
              /\ e.running = c.running /\ e.alive /\ e.status = n
              /\ e.gateway = p /\ e.action = c.action
         /\ LET e == Dangling(c) IN
              /\ e.running = c.running /\ e.alive = c.alive /\ e.status = c.status
              /\ e.gateway = Freed(c.gateway) /\ e.action = Freed(c.action)
<1>1. \A b \in BOOLEAN : LET e == [c EXCEPT !.running = b] IN
         /\ e.running = b /\ e.alive = c.alive /\ e.status = c.status
         /\ e.gateway = c.gateway /\ e.action = c.action
  BY DEF Campaigns
<1>2. \A p \in Pointers : LET e == [c EXCEPT !.action = p] IN
         /\ e.running = c.running /\ e.alive = c.alive /\ e.status = c.status
         /\ e.gateway = c.gateway /\ e.action = p
  BY DEF Campaigns
<1>3. \A n \in Statuses \cup {0, 2}, d \in 0 .. DelayWrap - 1, p \in Pointers :
         LET e == [c EXCEPT !.alive = TRUE, !.status = n, !.delay = d,
                            !.gateway = p] IN
         /\ e.running = c.running /\ e.alive /\ e.status = n
         /\ e.gateway = p /\ e.action = c.action
  BY DEF Campaigns
<1>4. LET e == Dangling(c) IN
         /\ e.running = c.running /\ e.alive = c.alive /\ e.status = c.status
         /\ e.gateway = Freed(c.gateway) /\ e.action = Freed(c.action)
  BY DEF Campaigns, Dangling
<1> QED
  BY <1>1, <1>2, <1>3, <1>4

(* The status in the row DbThread works on outlasts its other fields. *)
LEMMA FetchedGet ==
  ASSUME NEW f \in Fetched
  PROVE  [f EXCEPT !.minutes = 0].status = f.status
  BY DEF Fetched

(* Every step of either thread keeps Inv. *)
LEMMA InvStep == Inv /\ [Next]_vars => Inv'
<1> SUFFICES ASSUME Inv, [Next]_vars PROVE Inv'
  OBVIOUS
<1> SUFFICES /\ WholeAsleep' /\ LiveListed' /\ FreshLive'
             /\ (shut' = "no" => Quiet')
  BY TypeStep DEF Inv
<1>t. seen \in Fetched /\ cp \in Campaigns /\ gt \in Gateways
  BY DEF Inv, TypeOK
<1>f. /\ seen.minutes \in Nat /\ seen.status \in Statuses \cup {0, 2}
      /\ cp.gateway \in Pointers /\ cp.action \in Pointers
  BY Fields DEF Inv
<1>i. WholeAsleep /\ LiveListed /\ FreshLive /\ (shut = "no" => Quiet)
  BY DEF Inv
<1> USE <1>t, <1>f, <1>i DEF Step, Move, rows, WholeAsleep, LiveListed, FreshLive,
                  Quiet, DeadEmpty, Standing, Decoded, RowDone, ActionsDone
<1>1. CASE EditGateway
  BY <1>1 DEF EditGateway
<1>2. CASE EditCampaign
  BY <1>2 DEF EditCampaign
<1>3. CASE QueryFails
  BY <1>3 DEF QueryFails
<1>5. CASE GatewayKept
  BY <1>5 DEF GatewayKept
<1>6. CASE GatewayChanges
  BY <1>6 DEF GatewayChanges
<1>7. CASE Decode
  <2>1. CASE ~gt.listed
    BY <1>7, <2>1 DEF Decode
  <2>2. CASE gt.listed /\ gt.uri \in Bad
    <3>1. /\ gt' = NoGateway /\ cp' = Dangling(cp) /\ call' = Bereft(call)
          /\ crash' = crash
      BY <1>7, <2>2 DEF Decode
    <3>2. call'.ptr # "live" /\ ~call'.fresh
      BY <3>1 DEF Bereft, Freed
    <3> QED
      BY <1>7, <3>1, <3>2, CampaignGet DEF Decode, Freed, NoGateway
  <2>3. CASE gt.listed /\ gt.uri \notin Bad
    <3>1. /\ gt' = [gt EXCEPT !.sip = gt.uri] /\ cp' = cp /\ call' = call
          /\ crash' = crash
      BY <1>7, <2>3 DEF Decode
    <3>2. gt'.listed = gt.listed /\ gt'.uri = gt.uri /\ gt'.sip = gt.uri
      BY <3>1 DEF Gateways
    <3> QED
      BY <1>7, <2>3, <3>1, <3>2 DEF Decode
  <2> QED
    BY <2>1, <2>2, <2>3
<1>8. CASE FetchCampaign
  BY <1>8 DEF FetchCampaign
<1>9. CASE RowIgnored
  <2>1. seen.status \in Nat /\ seen'.status = seen.status
    BY <1>9, FetchedGet, SettingsAssumption DEF RowIgnored, RowUsed
  <2> QED
    BY <1>9, <2>1 DEF RowIgnored
<1>10. CASE RowFrees
  BY <1>10, FetchedGet DEF RowFrees, RowUsed, NoCampaign
<1>11. CASE RowUpdates
  BY <1>11, FetchedGet, CampaignGet, DelayFits, LookupType DEF RowUpdates, RowUsed, Lookup
<1>12. CASE ServicesSkip
  BY <1>12 DEF ServicesSkip
<1>13. CASE ServicesVisit
  BY <1>13 DEF ServicesVisit
<1>14. CASE LoadActions
  <2>1. CASE cp.alive
    <3>1. /\ cp' = [cp EXCEPT !.action = Lookup] /\ crash' = crash
          /\ Lookup \in Pointers
      BY <1>14, <2>1, LookupType DEF LoadActions, Inv
    <3>2. /\ cp'.running = cp.running /\ cp'.alive = cp.alive
          /\ cp'.gateway = cp.gateway /\ cp'.action = Lookup
      BY <3>1, CampaignGet
    <3>3. Lookup # "freed" /\ (Lookup = "live" => gt.listed)
      BY DEF Lookup
    <3> QED
      BY <1>14, <2>1, <3>1, <3>2, <3>3 DEF LoadActions
  <2>2. CASE ~cp.alive
    BY <1>14, <2>2 DEF LoadActions
  <2> QED
    BY <2>1, <2>2
<1>15. CASE Start
  BY <1>15, CampaignGet DEF Start
<1>16. CASE Standby
  BY <1>16, CampaignGet DEF Standby
<1>17. CASE Signal
  <2>1. Bereft(call).ptr # "live" /\ ~Bereft(call).fresh
    BY DEF Bereft, Freed
  <2> QED
    BY <1>17, <2>1, CampaignGet DEF Signal, Freed, NoGateway, NoCampaign
<1>19. CASE Dial
  <2>1. PICK p \in {cp.gateway, cp.action}, direct \in BOOLEAN :
          /\ direct => p = cp.gateway /\ cp.status = 2
          /\ p # "null"
          /\ call' = [ptr |-> p,
                       fresh |-> direct /\ pc = "sleep" /\ whole /\ seen.status > 1]
          /\ Uses(p)
    BY <1>19, Zenon DEF Dial
  <2>2. shut = "no" /\ UNCHANGED <<rows, seen, gt, cp, pc, whole, failed, shut>>
    BY <1>19 DEF Dial
  <2>3. call'.fresh => call'.ptr = "live"
    BY <2>1, <2>2 DEF Pointers
  <2>4. call'.ptr = "live" => gt.listed
    BY <2>1
  <2>5. crash # "db" => crash' # "db"
    BY <2>1 DEF Uses
  <2> QED
    BY <2>2, <2>3, <2>4, <2>5
<1>20. CASE Challenge
  BY <1>20 DEF Challenge, Uses
<1>21. CASE CallEnds
  BY <1>21 DEF CallEnds, NoCall
<1>18. CASE UNCHANGED vars
  BY <1>18 DEF vars
<1> QED
  BY <1>1, <1>2, <1>3, <1>5, <1>6, <1>7, <1>8, <1>9, <1>10, <1>11, <1>12, <1>13,
     <1>14, <1>15, <1>16, <1>17, <1>18, <1>19, <1>20, <1>21
  DEF Next, DbThread, MainThread

(* Inv holds throughout. *)
LEMMA Invariance == Spec => []Inv
  BY InvInit, InvStep, PTL DEF Spec

(* Between two passes no campaign that the query returns, and no action of *)
(* one that is to run and does not, points to a gateway that pull_groups   *)
(* has freed; the session of a call keeps such a pointer only when its     *)
(* gateway went during the call, or when it was dialled through another    *)
(* pointer of this kind or during a pass; and a listed gateway was decoded *)
(* from its own string.                                                    *)
THEOREM Fresh == Spec => []PointersFresh
<1>1. Inv => PointersFresh
  BY DEF Inv, LiveListed, FreshLive, Quiet, Decoded, RowDone, ActionsDone,
         PointersFresh
<1> QED
  BY <1>1, Invariance, PTL

(* pull_groups never stands on a gateway or a campaign that was freed, as  *)
(* long as no signal has come: only the flush on the main thread takes it  *)
(* away under it.                                                          *)
THEOREM UsesLive == Spec => []DbThreadUsesLive
<1>1. Inv => DbThreadUsesLive
  BY DEF Inv, Quiet, DbThreadUsesLive
<1> QED
  BY <1>1, Invariance, PTL
=============================================================================
