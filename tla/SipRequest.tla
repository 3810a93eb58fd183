----------------------------- MODULE SipRequest -----------------------------
(***************************************************************************)
(* Where a SIP request is sent to (re/src/sip/request.c): the NAPTR, SRV,  *)
(* A and AAAA lookups of its host, the lists of targets and addresses they *)
(* fill, and the move to the next address when one fails or answers 503.   *)
(* A request that was handed to an address is one transaction, which ends  *)
(* once (SipTransaction), and a lookup is one query, which ends once       *)
(* (DnsClient).  request_next() loops over the addresses; x.next says that *)
(* it is in its loop.                                                      *)
(***************************************************************************)
EXTENDS Naturals, Sequences, SequencesExt, FiniteSets

CONSTANTS Srv,       \* SRV records: [target, pri, weight]
          Transpc,   \* number of transports the stack supports
          Families,  \* the address records asked for, of "A" and "AAAA"
          Host       \* the host of the route, which is a target too
VARIABLES x,         \* struct sip_request
          tried      \* the addresses it was sent to, as <<target, family>>

vars == <<x, tried>>

Init ==
  /\ x = [st |-> "idle", stateful |-> TRUE, tp |-> 1, sel |-> FALSE, canceled |-> FALSE,
          heard |-> TRUE, srvl |-> << >>, addrl |-> << >>, cached |-> {}, target |-> Host,
          dns |-> {}, ct |-> FALSE, next |-> FALSE, cut |-> FALSE, told |-> "none"]
  /\ tried = << >>

Open == x.st = "open"

-----------------------------------------------------------------------------
(* std_sort_handler() of dns/rrlist.c for SRV records: by priority, and the *)
(* records without a weight first.  dns_rrlist_sort() is list_sort(), which *)
(* is stable.                                                               *)
Before(a, b) ==
  IF a.pri = b.pri THEN a.weight = 0 \/ b.weight # 0 ELSE a.pri < b.pri

SrvLists == UNION {{s \in SetToSeqs(S) : IsSorted(s, Before)} : S \in SUBSET Srv}

(* terminate() and the release of the request.                              *)
Told(r, what) ==
  [r EXCEPT !.st = "done", !.dns = {}, !.ct = FALSE, !.next = FALSE,
            !.told = IF r.heard THEN what ELSE "none"]
Fail(r) == Told([r EXCEPT !.cut = TRUE], "error")

(* dnsc_query(), srv_lookup() and addr_lookup(): what they leave behind, as *)
(* a set; a query that cannot be started fails the request.                 *)
Lookup(r, kind) == {[r EXCEPT !.dns = {kind}], Fail(r)}
AddrLookup(r, target) ==
  {[r EXCEPT !.dns = Families, !.target = target, !.next = FALSE],
   Fail(r)}

Becomes(S) == x' \in S /\ UNCHANGED tried

(* sip_request(): the host is an address, or is looked up.  An error is     *)
(* returned to the caller.                                                  *)
Refused(S) == {IF r.st = "done" THEN [r EXCEPT !.st = "refused", !.told = "none"] ELSE r
               : r \in S}
Start ==
  /\ x.st = "idle"
  /\ \E stateful \in BOOLEAN, sel \in BOOLEAN :
       LET r == [x EXCEPT !.st = "open", !.stateful = stateful, !.sel = sel] IN
       \/ Becomes(Refused(AddrLookup(r, Host)))
       \/ sel /\ Becomes(Refused(Lookup(r, "SRV")))
       \/ ~sel /\ Becomes(Refused(Lookup(r, "NAPTR")))
       \/ /\ tried' = << <<Host, "A">> >>
          /\ x' \in {IF stateful THEN [r EXCEPT !.ct = TRUE]
                     ELSE [r EXCEPT !.st = "done"],
                     [r EXCEPT !.st = "refused"]}

-----------------------------------------------------------------------------
(* naptr_handler(): no usable record, or one that selects a transport and   *)
(* may come with its SRV records and their addresses.                       *)
NaptrAnswer ==
  /\ Open /\ x.dns = {"NAPTR"}
  /\ LET r == [x EXCEPT !.dns = {}] IN
     \/ Becomes(Lookup(r, "SRV"))
     \/ \E tp \in 1 .. Transpc : Becomes(Lookup([r EXCEPT !.tp = tp, !.sel = TRUE], "SRV"))
     \/ \E tp \in 1 .. Transpc, s \in SrvLists \ {<< >>}, c \in SUBSET Srv :
          Becomes({[r EXCEPT !.tp = tp, !.sel = TRUE, !.srvl = s, !.next = TRUE,
                             !.cached = {a.target : a \in c}]})

(* srv_handler(): without targets the next transport is asked for, and      *)
(* after the last one the host itself is looked up.                         *)
SrvAnswer ==
  /\ Open /\ x.dns = {"SRV"}
  /\ LET r == [x EXCEPT !.dns = {}] IN
     \/ ~x.sel /\ x.tp < Transpc /\ Becomes(Lookup([r EXCEPT !.tp = @ + 1], "SRV"))
     \/ /\ x.sel \/ x.tp = Transpc
        /\ Becomes(AddrLookup(IF x.sel THEN r ELSE [r EXCEPT !.tp = 1], Host))
     \/ \E s \in SrvLists \ {<< >>}, c \in SUBSET Srv :
          Becomes({[r EXCEPT !.srvl = s, !.next = TRUE,
                             !.cached = {a.target : a \in c}]})

(* addr_handler(): waits for the other of the A and AAAA queries.           *)
AddrAnswer ==
  /\ Open
  /\ \E f \in x.dns \cap Families, found \in BOOLEAN :
       LET r == [x EXCEPT !.dns = @ \ {f},
                          !.addrl = IF found THEN Append(@, <<x.target, f>>) ELSE @]
       IN Becomes({IF r.dns # {} THEN r
                   ELSE IF r.addrl = << >> /\ r.srvl = << >> THEN Told(r, "error")
                   ELSE [r EXCEPT !.next = TRUE]})

-----------------------------------------------------------------------------
(* One turn of request_next(): the next address is used; without one, the   *)
(* next target gives its addresses, or is looked up.  A stateless request   *)
(* is done when it was sent.                                                *)
NextTarget ==
  /\ Open /\ x.next /\ x.addrl = << >> /\ x.srvl # << >>
  /\ LET a == Head(x.srvl)
         r == [x EXCEPT !.srvl = Tail(@)]
     IN Becomes(IF a.target \in x.cached
                THEN {[r EXCEPT !.addrl = <<<<a.target, "A">>>>]}
                ELSE AddrLookup(r, a.target))

NextAddress ==
  /\ Open /\ x.next /\ x.addrl # << >>
  /\ tried' = Append(tried, Head(x.addrl))
  /\ LET r == [x EXCEPT !.addrl = Tail(@)]
     IN x' \in {IF x.stateful THEN [r EXCEPT !.ct = TRUE, !.next = FALSE]
                ELSE [Told([r EXCEPT !.heard = FALSE], "sent") EXCEPT !.cut = TRUE],
                IF r.addrl # << >> \/ r.srvl # << >> THEN r ELSE Told(r, "error")}

(* Mutant: the servers that are left are forgotten.                         *)
FailsOver_bug(r) == ~r.canceled /\ r.addrl # << >>

(* response_handler(): an error or a 503 moves on, unless the request was   *)
(* cancelled or nothing is left.                                            *)
FailsOver(r) == ~r.canceled /\ (r.addrl # << >> \/ r.srvl # << >>)

Response ==
  /\ Open /\ x.ct
  /\ LET r == [x EXCEPT !.ct = FALSE] IN
     \E what \in {"answer", "503", "error"} :
       Becomes({IF what # "answer" /\ FailsOver(r) THEN [r EXCEPT !.next = TRUE]
                ELSE Told(r, what)})

(* sip_request_cancel(), and the release by the user.  What is looked up    *)
(* goes on, and the request is sent, to be cancelled by the transaction.    *)
Cancel ==
  /\ Open /\ ~x.next /\ x.stateful
  /\ \E drop \in BOOLEAN :
       Becomes({[x EXCEPT !.canceled = TRUE, !.heard = @ /\ ~drop]})

(* close_handler() of sip_request_close()                                   *)
CloseAll == Open /\ ~x.next /\ Becomes({Fail(x)})

Next ==
  \/ Start \/ NaptrAnswer \/ SrvAnswer \/ AddrAnswer \/ NextTarget \/ NextAddress
  \/ Response \/ Cancel \/ CloseAll

(* Queries and transactions end.                                            *)
Spec == Init /\ [][Next]_vars

-----------------------------------------------------------------------------
(* The values the fields can have.                                          *)
TypeOK ==
  /\ x.st \in {"idle", "open", "done", "refused"} /\ x.tp \in 1 .. Transpc
  /\ x.dns \subseteq Families \cup {"NAPTR", "SRV"}
  /\ x.told \in {"none", "answer", "503", "error"}

(* An open request waits for exactly one thing: a lookup or a transaction.  *)
(* So it neither hangs nor is sent to two addresses at once, although each  *)
(* of the handlers may start the next lookup or transaction.                *)
WaitsForOne ==
  (Open /\ ~x.next) <=> ((x.dns # {}) # x.ct)

(* The user hears of a failure only after every address that the lookups    *)
(* gave was tried, unless it cancelled or a lookup could not be started; no *)
(* address is tried twice, and targets are tried in the order of their      *)
(* priority.                                                                *)
AllTried ==
  /\ (x.told \in {"error", "503"} /\ ~x.canceled /\ ~x.cut) =>
        x.addrl = << >> /\ x.srvl = << >>
  /\ \A i, j \in 1 .. Len(tried) : tried[i] = tried[j] => i = j
  /\ \A a, b \in Srv : \A i, j \in 1 .. Len(tried) :
        (a.pri < b.pri /\ tried[i][1] = a.target /\ tried[j][1] = b.target) => i < j
=============================================================================
