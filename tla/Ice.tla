--------------------------------- MODULE Ice ---------------------------------
(***************************************************************************)
(* The connectivity checks of one media stream of ICE in libre             *)
(* (ice/connchk.c, chklist.c, candpair.c, stunsrv.c, util.c), full mode,   *)
(* against a peer and a network that answer, ask and stay silent as they   *)
(* like.  A pair of candidates is an entry of the check list or of the     *)
(* valid list; its key stands for its two candidates.  The state of the    *)
(* stream is one record; an operation gives the set of its outcomes.       *)
(***************************************************************************)
EXTENDS Naturals, Sequences, SequencesExt, FiniteSets

CONSTANTS Key, Formed,     \* the pairs there can be, and those formed at the start
          CompOf, Fnd,     \* the component and the foundation of each
          Prio,            \* Prio[r][k]: the priority of k when our role is r
          Mapped,          \* the pair that a success of k proves, another one behind a NAT
          CompSeq,         \* icem->compl
          Regular,         \* ICE_NOMINATION_REGULAR or aggressive
          MaxPair,         \* bound on the pairs
          MaxTold          \* bound on the calls of the user's handler
VARIABLE m

vars == <<m>>
Id == 1 .. MaxPair
Init ==
  m = [state |-> "null", pace |-> FALSE, role |-> "controlling",
       key |-> [i \in Id |-> "none"], st |-> [i \in Id |-> "none"], ct |-> [i \in Id |-> FALSE],
       pr |-> [i \in Id |-> 0], cl |-> <<>>, vl |-> <<>>,
       sel |-> [c \in ToSet(CompSeq) |-> 0], conc |-> [c \in ToSet(CompSeq) |-> FALSE],
       ka |-> [c \in ToSet(CompSeq) |-> FALSE], told |-> <<>>, cut |-> FALSE]

CompOfId(s, i) == CompOf[s.key[i]]
First(l) == IF l = <<>> THEN 0 ELSE l[1]

-----------------------------------------------------------------------------
(* list_add_sorted(), candpair_set_pprio() and icem_candpair_prio_order():  *)
(* only the check list is ordered again.                                    *)
AddSorted(s, l, i) ==
  LET above == {k \in 1 .. Len(l) : s.pr[i] < s.pr[l[k]]}
  IN  InsertAt(l, IF above = {} THEN 1 ELSE (CHOOSE k \in above : \A j \in above : j <= k) + 1, i)
Reorder(s) ==
  LET pr == [i \in Id |-> IF i \in ToSet(s.cl) THEN Prio[s.role][s.key[i]] ELSE s.pr[i]]
      ix == SetToSortSeq(1 .. Len(s.cl),
              LAMBDA x, y : pr[s.cl[x]] > pr[s.cl[y]] \/ (pr[s.cl[x]] = pr[s.cl[y]] /\ x < y))
  IN  [s EXCEPT !.pr = pr, !.cl = [k \in 1 .. Len(s.cl) |-> s.cl[ix[k]]]]
(* icem_candpair_alloc().                                                   *)
Free(s) == {i \in Id : s.key[i] = "none"}
Added(s, k, st) ==
  LET i == CHOOSE j \in Free(s) : \A f \in Free(s) : j <= f
      n == [s EXCEPT !.key[i] = k, !.st[i] = st, !.pr[i] = Prio[s.role][k]]
  IN  [n EXCEPT !.cl = AddSorted(n, @, i)]
Newest(s) == CHOOSE i \in Id : s.key[i] # "none" /\ \A j \in Id : s.key[j] # "none" => j <= i

(* icem_candpair_make_valid() and icem_candpair_failed().                   *)
Valid(s, i) ==
  LET u == [s EXCEPT !.st[i] = "succ", !.cl = Remove(@, i), !.vl = Remove(@, i)]
  IN  [u EXCEPT !.vl = AddSorted(u, @, i)]
FailedPair(s, i) == [s EXCEPT !.st[i] = "failed"]
(* ice_switch_local_role().                                                 *)
Switched(s) == Reorder([s EXCEPT !.role = IF @ = "controlling" THEN "controlled" ELSE "controlling"])

(* icem_conncheck_send(): the outcomes; it may fail, and does when a        *)
(* transaction is pending.                                                  *)
Sends(s, i) ==
  LET p == [s EXCEPT !.st[i] = "prog"]
  IN  {[s |-> p, ok |-> FALSE]} \cup
      (IF s.ct[i] THEN {} ELSE {[s |-> [p EXCEPT !.ct[i] = TRUE], ok |-> TRUE]})
(* A send whose failure nobody looks at leaves the pair as it is.           *)
Ignored(s, i) == {[o.s EXCEPT !.cut = @ \/ ~o.ok] : o \in Sends(s, i)}
(* do_check(): a failure ends the pair, and the checks stop there.          *)
DoCheck(s, i) == {IF o.ok THEN o.s ELSE [FailedPair(o.s, i) EXCEPT !.cut = TRUE] : o \in Sends(s, i)}

(* icem_conncheck_schedule_check().                                         *)
Schedule(s) ==
  LET w == First(SelectSeq(s.cl, LAMBDA i : s.st[i] = "waiting"))
      f == First(SelectSeq(s.cl, LAMBDA i : s.st[i] = "frozen"))
  IN  IF w # 0 THEN DoCheck(s, w) ELSE IF f # 0 THEN DoCheck(s, f)
      ELSE {[s EXCEPT !.state = "completed"]}

(* concluding_ice() and icem_checklist_update().                            *)
Concluded(s, c) ==
  LET i == First(SelectSeq(s.vl, LAMBDA j : CompOfId(s, j) = c /\ s.st[j] = "succ"))
      d == [s EXCEPT !.sel[c] = i, !.conc[c] = TRUE]
  IN  IF s.conc[c] \/ i = 0 THEN {s}
      ELSE IF ~Regular THEN {d}
      ELSE UNION {Schedule(o.s) : o \in Sends(d, i)}
Alive(s, c) == [s EXCEPT !.ka[c] = @ \/ s.sel[c] # 0]
HasValid(s, c) == \E j \in ToSet(s.vl) : CompOfId(s, j) = c
Through(S, c) ==
  {s \in S : s.state = "failed"} \cup
  {[s EXCEPT !.state = "failed"] : s \in {r \in S : r.state # "failed" /\ ~HasValid(r, c)}} \cup
  UNION {{Alive(d, c) : d \in Concluded(s, c)} : s \in {r \in S : r.state # "failed" /\ HasValid(r, c)}}
Update(s) ==
  IF \E i \in ToSet(s.cl) : s.st[i] \notin {"failed", "succ"} THEN {s}
  ELSE {[r EXCEPT !.state = IF @ = "failed" THEN "failed" ELSE "completed",
                  !.told = Append(@, IF r.state = "failed" THEN "err" ELSE "ok")]
          : r \in FoldLeft(Through, {s}, CompSeq)}
(* pace_next() and icem_conncheck_stop().                                   *)
PaceNext(s) == IF s.state # "running" THEN {s} ELSE UNION {Update(r) : r \in Schedule(s)}
Stop(s) ==
  LET l == ToSet(s.cl)
  IN  Update([s EXCEPT !.state = "completed", !.pace = FALSE,
                       !.ct = [i \in Id |-> @[i] /\ i \notin l],
                       !.st = [i \in Id |-> IF i \in l /\ @[i] # "succ" THEN "failed" ELSE @[i]]])

(* construct_valid_pair() and handle_success(): the first success selects   *)
(* its pair and ends all other checks.                                      *)
Proved(s, i) ==
  LET k == Mapped[s.key[i]]
      v == First(SelectSeq(s.vl, LAMBDA j : s.key[j] = k))
  IN  IF k = s.key[i] THEN [s |-> Valid(s, i), i |-> i]
      ELSE IF v # 0 THEN [s |-> s, i |-> v]
      ELSE LET n == Added(s, k, s.st[i])
           IN  [s |-> FailedPair(Valid(n, Newest(n)), i), i |-> Newest(n)]
Success(s, i) ==
  LET p == Proved(s, i)
      v == Valid(p.s, p.i)
  IN  Stop([v EXCEPT !.sel[CompOfId(v, p.i)] = p.i])

-----------------------------------------------------------------------------
(* icem_conncheck_start(): candpairs_form() and the order; of the pairs     *)
(* with a foundation the lowest component waits, in the first stream only.  *)
Waits(k, r) ==
  \A j \in Formed : Fnd[j] = Fnd[k] => ~(CompOf[j] < CompOf[k] /\ Prio[r][j] > Prio[r][k])
Start ==
  /\ m.state = "null"
  /\ \E first \in BOOLEAN, r \in {"controlling", "controlled"}, o \in SetToSeqs(Formed) :
       m' = [FoldLeft(LAMBDA s, k : Added(s, k, IF first /\ Waits(k, r) THEN "waiting" ELSE "frozen"),
                      [m EXCEPT !.role = r], o)
               EXCEPT !.state = "running", !.pace = TRUE]
Timeout == m.pace /\ m' \in PaceNext([m EXCEPT !.pace = FALSE])

(* stunc_resp_handler(): no answer or an error, a success, or a conflict of *)
(* roles.  A failure that comes when nothing is left to check goes unheard. *)
Failure ==
  /\ \E i \in Id : m.ct[i] /\
       m' \in PaceNext([FailedPair(m, i) EXCEPT !.ct[i] = FALSE, !.cut = @ \/ m.state # "running"])
Succeeds ==
  /\ Len(m.told) < MaxTold
  /\ \E i \in Id : m.ct[i] /\ (Mapped[m.key[i]] # m.key[i] => Free(m) # {})
       /\ m' \in UNION {PaceNext(r) : r \in Success([m EXCEPT !.ct[i] = FALSE], i)}
Conflict ==
  /\ \E i \in Id : m.ct[i] /\
       m' \in UNION {PaceNext(r) : r \in Ignored(Switched([m EXCEPT !.ct[i] = FALSE]), i)}

(* icem_stund_recv(), handle_stun() and triggered_check(): a request from   *)
(* the remote candidate of k.  It may make us switch our role; a pair that  *)
(* is not in the check list is made.                                        *)
Lookup(s, k) ==
  LET c == First(SelectSeq(s.cl, LAMBDA i : s.key[i] = k))
  IN  IF c # 0 THEN c ELSE First(SelectSeq(s.vl, LAMBDA i : s.key[i] = k))
HasLocal(s, k) == Lookup(s, k) # 0 \/ \E i \in ToSet(s.cl) : CompOfId(s, i) = CompOf[k]
Triggered(s, k) ==
  LET i == First(SelectSeq(s.cl, LAMBDA j : s.key[j] = k))
      n == Reorder(Added(s, k, "waiting"))
  IN  IF i # 0 THEN IF s.st[i] \in {"failed", "frozen", "waiting"} THEN Ignored(s, i) ELSE {s}
      ELSE IF HasLocal(s, k) THEN Ignored(n, Newest(n)) ELSE {s}
Nominated(s, i) ==
  LET v == Valid(s, i)
  IN  IF Regular THEN [v EXCEPT !.ct[i] = FALSE, !.sel[CompOfId(v, i)] = i, !.cut = @ \/ s.ct[i]] ELSE v
Request ==
  /\ m.state = "running" /\ Free(m) # {}
  /\ \E k \in Key, use, swap \in BOOLEAN :
       LET s == IF swap THEN Switched(m) ELSE m
           before == Lookup(s, k)
       IN  \E r \in Triggered(s, k) :
             LET i == IF before # 0 THEN before ELSE Lookup(r, k)
             IN  m' = IF use /\ i # 0 THEN Nominated(r, i) ELSE r
(* Checks are over: only the role is looked at.                             *)
RequestLate == m.state \notin {"running", "null"} /\ m' = Switched(m)

Next ==
  \/ Start \/ Timeout \/ Failure \/ Succeeds \/ Conflict \/ Request \/ RequestLate
Spec == Init /\ [][Next]_vars

-----------------------------------------------------------------------------
(* The values the variables can have.                                       *)
TypeOK ==
  /\ m.state \in {"null", "running", "completed", "failed"}
  /\ \A i \in Id : m.key[i] \in Key \cup {"none"} /\ m.st[i] \in {"none", "frozen", "waiting", "prog", "succ", "failed"}

(* The checks go on until the user is told: there is a timer or a check     *)
(* pending, unless a request could not be sent, a nomination by the peer    *)
(* has cancelled a check, or a check failed after there was none left to    *)
(* start.                                                                   *)
ChecksGoOn ==
  m.state # "null" /\ m.told = <<>> => m.pace \/ (\E i \in Id : m.ct[i]) \/ m.cut

(* No pair is in both lists or twice in one, only pairs in a list have a    *)
(* check pending, and what is selected for a component is a valid pair of   *)
(* that component.  The check list stays ordered by priority, through all   *)
(* changes of the role.                                                     *)
PairsConsistent ==
  /\ IsInjective(m.cl \o m.vl)
  /\ \A i \in Id : m.ct[i] => i \in ToSet(m.cl \o m.vl)
  /\ \A c \in ToSet(CompSeq) : m.sel[c] # 0 => m.sel[c] \in ToSet(m.vl) /\ CompOfId(m, m.sel[c]) = c
  /\ \A k \in 1 .. Len(m.cl) - 1 : m.pr[m.cl[k]] >= m.pr[m.cl[k + 1]]

(* The user is told of success only when every component has a selected     *)
(* pair, whose keep-alive runs.                                             *)
SuccessMeansSelected ==
  m.told # <<>> /\ Last(m.told) = "ok" => \A c \in ToSet(CompSeq) : m.sel[c] # 0 /\ m.ka[c]
=============================================================================
