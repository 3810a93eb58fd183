-------------------------- MODULE SipSessionProofs --------------------------
(***************************************************************************)
(* Proofs about SipSession: the references of a session add up, and an     *)
(* established session ends with a BYE, for any number of re-INVITEs, INFO *)
(* requests and unanswered 2xx.                                            *)
(*                                                                         *)
(* The operators of SipSession work on sessions that are not yet states: a *)
(* handler has taken the request off before it gives the reference of the  *)
(* request back.  So the invariant Sound is stated of a record, and Loose  *)
(* is what holds of it while one reference is still to be given back.      *)
(***************************************************************************)
EXTENDS SipSession, TLAPS

(* The references that keep a session. *)
Pending(x) == Count(x.req # "none") + Count(x.replyl # {}) + Count(x.requestl > 0)
Held(x) == Count(x.user) + (IF x.terminated = 0 THEN 0 ELSE Pending(x))

(* What a termination leaves behind: no timer and no held INVITE; once the *)
(* BYE was due nothing but the BYE is under way.                           *)
Ending(x) ==
  /\ x.bye # "none" => x.terminated = 2 /\ x.established
  /\ x.req = "BYE" => x.bye = "sent"
  /\ x.terminated > 0 => ~x.tmr /\ ~x.st
  /\ x.terminated = 2 =>
       /\ x.replyl = {} /\ x.requestl = 0 /\ x.req \in {"none", "BYE"}
       /\ x.established => x.peerterm \/ x.bye # "none"
  /\ x.closed <= 1 /\ (x.terminated = 0 => x.closed = 0)

(* A session that lives, and one that was released. *)
Alive(x) ==
  x.phase = "live" /\ x.refs = Held(x) /\ (x.terminated = 0 => x.user)
Released(x) ==
  x.phase = "freed" /\ ~Waits(x) /\ ~x.tmr /\ ~x.st /\ x.refs = 0
  /\ (x.established => x.peerterm \/ x.bye # "none")

Sound(x) == x \in Sessions /\ Ending(x) /\ (Alive(x) \/ Released(x))

(* One reference of a terminated session is to be given back. *)
Loose(x) ==
  /\ x \in Sessions /\ Ending(x) /\ x.phase = "live"
  /\ IF x.terminated = 0 THEN x.user /\ x.refs = Held(x) ELSE x.refs = Held(x) + 1

Inv ==
  /\ TypeOK
  /\ s.phase = "none" => s = Fresh
  /\ s.phase # "none" => Sound(s)
-----------------------------------------------------------------------------
(* The fields that the invariant reads. *)
Like(y, x) ==
  /\ y \in Sessions /\ y.phase = x.phase /\ y.refs = x.refs /\ y.user = x.user
  /\ y.terminated = x.terminated /\ y.established = x.established
  /\ y.peerterm = x.peerterm /\ y.req = x.req /\ y.st = x.st /\ y.tmr = x.tmr
  /\ y.replyl = x.replyl /\ y.requestl = x.requestl /\ y.closed = x.closed
  /\ y.bye = x.bye

(* What a counter or a flag does not touch. *)
LEMMA LikeKeeps ==
  ASSUME NEW x, NEW y, Like(y, x)
  PROVE  /\ Sound(x) => Sound(y)
         /\ Loose(x) => Loose(y)
         /\ Held(y) = Held(x) /\ Waits(y) = Waits(x)
  BY DEF Like, Sound, Loose, Ending, Alive, Released, Held, Pending, Waits

(* An assignment to a field keeps the type of the session. *)
LEMMA PutNumber ==
  ASSUME NEW x \in Sessions
  PROVE  /\ \A v \in Nat : [x EXCEPT !.refs = v] \in Sessions
         /\ \A v \in Nat : [x EXCEPT !.closed = v] \in Sessions
         /\ \A v \in {0, 1, 2} : [x EXCEPT !.terminated = v] \in Sessions
         /\ \A v \in 0 .. MaxSeq : [x EXCEPT !.rseq = v] \in Sessions
         /\ \A v \in 0 .. MaxInfo : [x EXCEPT !.requestl = v] \in Sessions
         /\ \A v \in 0 .. FailLimit : [x EXCEPT !.failc = v] \in Sessions
<1>1. \A v \in Nat : [x EXCEPT !.refs = v] \in Sessions
  BY DEF Sessions
<1>2. \A v \in Nat : [x EXCEPT !.closed = v] \in Sessions
  BY DEF Sessions
<1>3. \A v \in {0, 1, 2} : [x EXCEPT !.terminated = v] \in Sessions
  BY DEF Sessions
<1>4. \A v \in 0 .. MaxSeq : [x EXCEPT !.rseq = v] \in Sessions
  BY DEF Sessions
<1>5. \A v \in 0 .. MaxInfo : [x EXCEPT !.requestl = v] \in Sessions
  BY DEF Sessions
<1>6. \A v \in 0 .. FailLimit : [x EXCEPT !.failc = v] \in Sessions
  BY DEF Sessions
<1> QED
  BY <1>1, <1>2, <1>3, <1>4, <1>5, <1>6

(* The same for names and for sets. *)
LEMMA PutName ==
  ASSUME NEW x \in Sessions
  PROVE  /\ \A v \in Codes \cup {"none"} : [x EXCEPT !.last = v] \in Sessions
         /\ \A v \in SUBSET Replies : [x EXCEPT !.replyl = v] \in Sessions
         /\ \A v \in {"none", "live", "freed"} : [x EXCEPT !.phase = v] \in Sessions
         /\ \A v \in {"none", "INVITE", "REINVITE", "BYE"} :
              [x EXCEPT !.req = v] \in Sessions
         /\ \A v \in {"none", "sent", "failed"} : [x EXCEPT !.bye = v] \in Sessions
<1>1. \A v \in Codes \cup {"none"} : [x EXCEPT !.last = v] \in Sessions
  BY DEF Sessions
<1>2. \A v \in SUBSET Replies : [x EXCEPT !.replyl = v] \in Sessions
  BY DEF Sessions
<1>3. \A v \in {"none", "live", "freed"} : [x EXCEPT !.phase = v] \in Sessions
  BY DEF Sessions
<1>4. \A v \in {"none", "INVITE", "REINVITE", "BYE"} : [x EXCEPT !.req = v] \in Sessions
  BY DEF Sessions
<1>5. \A v \in {"none", "sent", "failed"} : [x EXCEPT !.bye = v] \in Sessions
  BY DEF Sessions
<1> QED
  BY <1>1, <1>2, <1>3, <1>4, <1>5

(* The same for flags. *)
LEMMA PutFlag ==
  ASSUME NEW x \in Sessions, NEW v \in BOOLEAN
  PROVE  /\ [x EXCEPT !.user = v] \in Sessions
         /\ [x EXCEPT !.owner = v] \in Sessions
         /\ [x EXCEPT !.established = v] \in Sessions
         /\ [x EXCEPT !.peerterm = v] \in Sessions
         /\ [x EXCEPT !.dialog = v] \in Sessions
         /\ [x EXCEPT !.desc = v] \in Sessions
         /\ [x EXCEPT !.sent_offer = v] \in Sessions
         /\ [x EXCEPT !.awaiting_answer = v] \in Sessions
         /\ [x EXCEPT !.modify_pending = v] \in Sessions
         /\ [x EXCEPT !.st = v] \in Sessions
         /\ [x EXCEPT !.tmr = v] \in Sessions
<1>1. [x EXCEPT !.user = v] \in Sessions /\ [x EXCEPT !.owner = v] \in Sessions
  BY DEF Sessions
<1>2. /\ [x EXCEPT !.established = v] \in Sessions
      /\ [x EXCEPT !.peerterm = v] \in Sessions /\ [x EXCEPT !.dialog = v] \in Sessions
  BY DEF Sessions
<1>3. [x EXCEPT !.desc = v] \in Sessions /\ [x EXCEPT !.sent_offer = v] \in Sessions
  BY DEF Sessions
<1>4. /\ [x EXCEPT !.awaiting_answer = v] \in Sessions
      /\ [x EXCEPT !.modify_pending = v] \in Sessions
  BY DEF Sessions
<1>5. [x EXCEPT !.st = v] \in Sessions /\ [x EXCEPT !.tmr = v] \in Sessions
  BY DEF Sessions
<1> QED
  BY <1>1, <1>2, <1>3, <1>4, <1>5

(* sip_loopstate_reset() *)
LEMMA ResetLike ==
  ASSUME NEW x \in Sessions
  PROVE  Like([x EXCEPT !.failc = 0, !.last = "none"], x)
<1>1. 0 \in 0 .. FailLimit
  BY SessionAssumption
<1>2. [x EXCEPT !.failc = 0] \in Sessions
  BY <1>1, PutNumber
<1>3. [x EXCEPT !.failc = 0, !.last = "none"] \in Sessions
  BY <1>2, PutName
<1> QED
  BY <1>3 DEF Like, Sessions

(* termwait() *)
LEMMA TermwaitFacts ==
  ASSUME NEW x \in Sessions
  PROVE  LET y == Termwait(x) IN
         /\ y \in Sessions /\ y.phase = x.phase /\ y.user = x.user
         /\ y.refs = x.refs + Pending(x) /\ y.terminated = 1
         /\ y.established = x.established /\ y.peerterm = x.peerterm
         /\ y.req = x.req /\ ~y.st /\ ~y.tmr /\ y.replyl = x.replyl
         /\ y.requestl = x.requestl /\ y.closed = x.closed /\ y.bye = x.bye
<1> DEFINE y == Termwait(x)
<1>1. Pending(x) \in Nat
  BY DEF Pending, Count
<1>2. y.refs = x.refs + Count(x.req # "none") + Count(x.replyl # {}) + Count(x.requestl > 0)
  BY DEF Sessions, Termwait
<1>3. y.refs = x.refs + Pending(x)
  BY <1>2 DEF Pending, Sessions, Count
<1>4. y.refs \in Nat
  BY <1>1, <1>3 DEF Sessions
<1>5. y \in Sessions
  BY <1>2, <1>4, PutNumber, PutFlag DEF Termwait
<1>6. /\ y.phase = x.phase /\ y.user = x.user /\ y.terminated = 1
      /\ y.established = x.established /\ y.peerterm = x.peerterm
      /\ y.req = x.req /\ y.st = FALSE /\ y.tmr = FALSE /\ y.replyl = x.replyl
      /\ y.requestl = x.requestl /\ y.closed = x.closed /\ y.bye = x.bye
  BY DEF Sessions, Termwait
<1> QED
  BY <1>3, <1>5, <1>6

(* terminate(): the session is at its end, and a BYE was due. *)
LEMMA TerminateFacts ==
  ASSUME NEW x \in Sessions, x.req = "none", x.bye = "none", NEW z \in Terminate(x)
  PROVE  /\ z \in Sessions /\ z.phase = x.phase /\ z.user = x.user
         /\ z.terminated = 2 /\ z.established = x.established
         /\ z.peerterm = x.peerterm /\ z.st = x.st /\ z.tmr = x.tmr
         /\ z.replyl = x.replyl /\ z.requestl = x.requestl /\ z.closed = x.closed
         /\ x.established => x.peerterm \/ z.bye # "none"
         /\ \/ z.req = "BYE" /\ z.refs = x.refs + 1 /\ z.bye = "sent" /\ z.established
            \/ /\ z.req = "none" /\ z.refs = x.refs
               /\ z.bye = "none" \/ (z.bye = "failed" /\ z.established)
<1> DEFINE y == [x EXCEPT !.terminated = 2]
           w == [y EXCEPT !.failc = 0, !.last = "none"]
           b == [w EXCEPT !.req = "BYE", !.bye = "sent"]
           f == [w EXCEPT !.bye = "failed"]
           r == [b EXCEPT !.refs = @ + 1]
<1>1. /\ y \in Sessions /\ y.phase = x.phase /\ y.user = x.user /\ y.refs = x.refs
      /\ y.terminated = 2 /\ y.established = x.established /\ y.peerterm = x.peerterm
      /\ y.st = x.st /\ y.tmr = x.tmr /\ y.req = "none" /\ y.bye = "none"
      /\ y.replyl = x.replyl /\ y.requestl = x.requestl /\ y.closed = x.closed
  BY DEF Sessions
<1>2. CASE ~x.established \/ x.peerterm
  BY <1>1, <1>2 DEF Terminate
<1>3. CASE ~(~x.established \/ x.peerterm)
  <2>1. Bye(y, TRUE) = {b, f}
    BY <1>1 DEF Bye
  <2>2. b.req = "BYE" /\ f.req # "BYE"
    BY <1>1 DEF Sessions
  <2>3. z \in {r, f}
    BY <1>3, <2>1, <2>2 DEF Terminate
  <2>4. Like(w, y)
    BY <1>1, ResetLike
  <2> HIDE DEF w, y
  <2>5. /\ b \in Sessions /\ b.phase = w.phase /\ b.user = w.user /\ b.refs = w.refs
        /\ b.terminated = w.terminated /\ b.established = w.established
        /\ b.peerterm = w.peerterm
        /\ b.st = w.st /\ b.tmr = w.tmr /\ b.req = "BYE" /\ b.bye = "sent"
        /\ b.replyl = w.replyl /\ b.requestl = w.requestl /\ b.closed = w.closed
    BY <2>4 DEF Like, Sessions
  <2>6. /\ f \in Sessions /\ f.phase = w.phase /\ f.user = w.user /\ f.refs = w.refs
        /\ f.terminated = w.terminated /\ f.established = w.established
        /\ f.peerterm = w.peerterm
        /\ f.st = w.st /\ f.tmr = w.tmr /\ f.req = w.req /\ f.bye = "failed"
        /\ f.replyl = w.replyl /\ f.requestl = w.requestl /\ f.closed = w.closed
    BY <2>4 DEF Like, Sessions
  <2> HIDE DEF b, f
  <2>7. /\ r \in Sessions /\ r.phase = b.phase /\ r.user = b.user /\ r.refs = b.refs + 1
        /\ r.terminated = b.terminated /\ r.established = b.established
        /\ r.peerterm = b.peerterm
        /\ r.st = b.st /\ r.tmr = b.tmr /\ r.req = b.req /\ r.bye = b.bye
        /\ r.replyl = b.replyl /\ r.requestl = b.requestl /\ r.closed = b.closed
    BY <2>5 DEF Sessions
  <2> HIDE DEF r
  <2> QED
    BY <1>1, <1>3, <2>3, <2>4, <2>5, <2>6, <2>7 DEF Like
<1> QED
  BY <1>2, <1>3
(* The last reference goes: a BYE that is sent keeps the session. *)
LEMMA LastReference ==
  ASSUME NEW w \in Sessions, Ending(w), w.phase = "live", w.refs = 0, ~w.user,
         ~Waits(w), w.terminated = 1, NEW y \in Terminate(w),
         NEW z, z = IF y.refs > 0 THEN y ELSE [y EXCEPT !.phase = "freed"]
  PROVE  Sound(z) /\ z.requestl = w.requestl
<1>1. /\ w.req = "none" /\ w.replyl = {} /\ w.requestl = 0 /\ w.bye = "none"
      /\ ~w.tmr /\ ~w.st /\ w.closed <= 1
  BY DEF Ending, Waits, Sessions
<1>2. /\ y \in Sessions /\ y.phase = "live" /\ ~y.user
      /\ y.terminated = 2 /\ y.established = w.established
      /\ y.peerterm = w.peerterm /\ ~y.st /\ ~y.tmr
      /\ y.replyl = {} /\ y.requestl = 0 /\ y.closed <= 1
      /\ w.established => w.peerterm \/ y.bye # "none"
      /\ \/ y.req = "BYE" /\ y.refs = 1 /\ y.bye = "sent" /\ y.established
         \/ /\ y.req = "none" /\ y.refs = 0
            /\ y.bye = "none" \/ (y.bye = "failed" /\ y.established)
  BY <1>1, TerminateFacts
<1>3. Ending(y)
  BY <1>2 DEF Ending
<1>4. CASE y.refs > 0
  <2>1. Alive(y)
    BY <1>2, <1>4 DEF Alive, Held, Pending, Count
  <2> QED
    BY <1>1, <1>2, <1>3, <1>4, <2>1 DEF Sound
<1>5. CASE ~(y.refs > 0)
  <2>1. /\ z \in Sessions /\ z.phase = "freed" /\ z.refs = y.refs
        /\ z.terminated = y.terminated /\ z.established = y.established
        /\ z.peerterm = y.peerterm /\ z.st = y.st /\ z.tmr = y.tmr
        /\ z.req = y.req /\ z.replyl = y.replyl /\ z.requestl = y.requestl
        /\ z.closed = y.closed /\ z.bye = y.bye
    BY <1>2, <1>5 DEF Sessions
  <2>2. Ending(z)
    BY <1>3, <2>1 DEF Ending
  <2>3. Released(z)
    BY <1>2, <1>5, <2>1 DEF Released, Waits
  <2> QED
    BY <1>1, <1>2, <2>1, <2>2, <2>3 DEF Sound
<1> QED
  BY <1>4, <1>5

(* mem_deref() and the destructor *)
LEMMA DerefFacts ==
  ASSUME NEW x \in Sessions, Ending(x), x.phase = "live", x.refs = Held(x) + 1,
         x.terminated = 0 => ~x.user, NEW z \in Deref(x)
  PROVE  Sound(z) /\ z.requestl = x.requestl
<1> DEFINE y == [x EXCEPT !.refs = @ - 1]
           Kept(q) == IF q.refs > 0 THEN q ELSE [q EXCEPT !.phase = "freed"]
<1>1. Held(x) \in Nat
  BY DEF Held, Pending, Count
<1>2. x.refs - 1 = Held(x) /\ x.refs - 1 \in Nat
  BY <1>1
<1>3. /\ y \in Sessions /\ y.refs = Held(x) /\ y.phase = x.phase /\ y.user = x.user
      /\ y.terminated = x.terminated /\ y.established = x.established
      /\ y.peerterm = x.peerterm /\ y.req = x.req /\ y.st = x.st /\ y.tmr = x.tmr
      /\ y.replyl = x.replyl /\ y.requestl = x.requestl /\ y.closed = x.closed
      /\ y.bye = x.bye
  <2>1. y \in Sessions
    BY <1>2, PutNumber
  <2> QED
    BY <1>2, <2>1 DEF Sessions
<1>4. /\ z \in CASE y.refs > 0 -> {y}
                 [] y.refs = 0 /\ y.terminated = 0 ->
                      IF Waits(y) THEN {Termwait(y)}
                      ELSE {Kept(q) : q \in Terminate(Termwait(y))}
                 [] y.refs = 0 /\ y.terminated = 1 -> {Kept(q) : q \in Terminate(y)}
                 [] OTHER -> {Kept(y)}
  BY DEF Deref
<1> HIDE DEF y
<1>5. Ending(y) /\ Held(y) = Held(x) /\ y.refs = Held(y) /\ y.phase = "live"
  BY <1>3 DEF Ending, Held, Pending
<1>6. y.terminated \in {0, 1, 2} /\ y.requestl \in 0 .. MaxInfo
  BY <1>3 DEF Sessions
<1>7. CASE y.refs > 0
  <2>1. z = y
    BY <1>4, <1>7
  <2>2. y.terminated # 0
    BY <1>3, <1>5, <1>7 DEF Held, Count
  <2>3. Alive(y)
    BY <1>5, <2>2 DEF Alive
  <2> QED
    BY <1>3, <1>5, <2>1, <2>3 DEF Sound
<1>8. CASE y.refs = 0 /\ y.terminated = 0
  <2> DEFINE w == Termwait(y)
  <2>1. /\ w \in Sessions /\ w.phase = "live" /\ ~w.user
        /\ w.refs = y.refs + Pending(y) /\ w.terminated = 1
        /\ w.established = y.established /\ w.peerterm = y.peerterm
        /\ w.req = y.req /\ ~w.st /\ ~w.tmr /\ w.replyl = y.replyl
        /\ w.requestl = y.requestl /\ w.closed = y.closed /\ w.bye = y.bye
    BY <1>3, <1>5, <1>8, TermwaitFacts
  <2>2. z \in IF Waits(y) THEN {w} ELSE {Kept(q) : q \in Terminate(w)}
    BY <1>4, <1>8
  <2> HIDE DEF w
  <2>3. Ending(w)
    BY <1>5, <1>8, <2>1 DEF Ending
  <2>4. Waits(w) <=> Waits(y)
    BY <2>1 DEF Waits
  <2>5. Pending(w) = Pending(y) /\ w.refs = Held(w)
    BY <1>8, <2>1 DEF Held, Pending, Count
  <2>6. CASE Waits(y)
    <3>1. Alive(w)
      BY <2>1, <2>5 DEF Alive
    <3> QED
      BY <1>3, <2>1, <2>2, <2>3, <2>6, <3>1 DEF Sound
  <2>7. CASE ~Waits(y)
    <3>1. w.refs = 0
      BY <1>6, <1>8, <2>1, <2>7 DEF Waits, Pending, Count
    <3>2. PICK q \in Terminate(w) : z = Kept(q)
      BY <2>2, <2>7
    <3> QED
      BY <1>3, <2>1, <2>3, <2>4, <2>7, <3>1, <3>2, LastReference
  <2> QED
    BY <2>6, <2>7
<1>9. CASE y.refs = 0 /\ y.terminated = 1
  <2>1. ~y.user /\ ~Waits(y)
    BY <1>5, <1>6, <1>9 DEF Held, Pending, Count, Waits
  <2>2. PICK q \in Terminate(y) : z = Kept(q)
    BY <1>4, <1>9
  <2> QED
    BY <1>3, <1>5, <1>9, <2>1, <2>2, LastReference
<1>10. CASE y.refs = 0 /\ y.terminated = 2
  <2>1. z = [y EXCEPT !.phase = "freed"]
    BY <1>4, <1>10
  <2>2. /\ z \in Sessions /\ z.phase = "freed" /\ z.refs = 0
        /\ z.terminated = y.terminated /\ z.established = y.established
        /\ z.peerterm = y.peerterm /\ z.st = y.st /\ z.tmr = y.tmr
        /\ z.req = y.req /\ z.replyl = y.replyl /\ z.requestl = y.requestl
        /\ z.closed = y.closed /\ z.bye = y.bye
    BY <1>3, <1>10, <2>1 DEF Sessions
  <2>3. Ending(z)
    BY <1>5, <2>2 DEF Ending
  <2>4. ~Waits(z)
    BY <1>5, <1>6, <1>10, <2>2 DEF Held, Pending, Count, Waits
  <2>5. Released(z)
    BY <1>10, <2>2, <2>3, <2>4 DEF Released, Ending
  <2> QED
    BY <1>3, <2>2, <2>3, <2>5 DEF Sound
<1> QED
  BY <1>1, <1>3, <1>6, <1>7, <1>8, <1>9, <1>10
(* The user releases the session. *)
LEMMA UserDerefsFacts ==
  ASSUME NEW x \in Sessions, Ending(x), Alive(x), x.user, NEW z \in UserDerefs(x)
  PROVE  Sound(z) /\ z.requestl = x.requestl
<1> DEFINE y == [x EXCEPT !.user = FALSE]
<1>1. /\ y \in Sessions /\ y.refs = x.refs /\ y.phase = x.phase /\ y.user = FALSE
      /\ y.terminated = x.terminated /\ y.established = x.established
      /\ y.peerterm = x.peerterm /\ y.req = x.req /\ y.st = x.st /\ y.tmr = x.tmr
      /\ y.replyl = x.replyl /\ y.requestl = x.requestl /\ y.closed = x.closed
      /\ y.bye = x.bye
  BY DEF Sessions
<1>2. z \in Deref(y)
  BY DEF UserDerefs
<1> HIDE DEF y
<1>3. Ending(y)
  BY <1>1 DEF Ending
<1>4. y.phase = "live" /\ y.refs = Held(y) + 1
  BY <1>1 DEF Alive, Held, Pending, Count
<1> QED
  BY <1>1, <1>2, <1>3, <1>4, DerefFacts

(* The user is told that the session was closed. *)
LEMMA ToldClosed ==
  ASSUME NEW y \in Sessions, Ending(y), Alive(y), y.user, y.closed = 0, y.terminated > 0,
         NEW q, q = [y EXCEPT !.closed = 1]
  PROVE  q \in Sessions /\ Ending(q) /\ Alive(q) /\ q.user /\ q.requestl = y.requestl
<1>1. q \in Sessions
  BY PutNumber
<1>2. /\ q.phase = y.phase /\ q.refs = y.refs /\ q.user = y.user
      /\ q.terminated = y.terminated /\ q.established = y.established
      /\ q.peerterm = y.peerterm /\ q.st = y.st /\ q.tmr = y.tmr
      /\ q.req = y.req /\ q.replyl = y.replyl /\ q.requestl = y.requestl
      /\ q.closed = 1 /\ q.bye = y.bye
  BY DEF Sessions
<1>3. Ending(q)
  BY <1>2 DEF Ending
<1>4. Alive(q)
  BY <1>2 DEF Alive, Held, Pending
<1> QED
  BY <1>1, <1>2, <1>3, <1>4

(* sipsess_terminate() *)
LEMMA TerminatedSound ==
  ASSUME NEW x \in Sessions, Ending(x), Alive(x), NEW z \in SipsessTerminate(x)
  PROVE  Sound(z) /\ z.requestl = x.requestl
<1>1. CASE x.terminated > 0
  BY <1>1 DEF SipsessTerminate, Sound
<1>2. CASE ~(x.terminated > 0)
  <2> DEFINE w == Termwait(x)
             told == {[y EXCEPT !.closed = @ + 1] :
                        y \in IF Waits(x) THEN {w} ELSE Terminate(w)}
  <2>1. z \in told \/ \E y \in told : z \in UserDerefs(y)
    BY <1>2 DEF SipsessTerminate
  <2>2. x.terminated = 0 /\ x.user /\ x.refs = 1 /\ x.phase = "live"
        /\ x.requestl \in 0 .. MaxInfo
    BY <1>2 DEF Alive, Held, Count, Sessions
  <2>3. x.closed = 0 /\ x.bye = "none" /\ x.req # "BYE"
    BY <2>2 DEF Ending
  <2>4. /\ w \in Sessions /\ w.phase = "live" /\ w.user
        /\ w.refs = 1 + Pending(x) /\ w.terminated = 1
        /\ w.established = x.established /\ w.peerterm = x.peerterm
        /\ w.req = x.req /\ ~w.st /\ ~w.tmr /\ w.replyl = x.replyl
        /\ w.requestl = x.requestl /\ w.closed = 0 /\ w.bye = "none"
    BY <2>2, <2>3, TermwaitFacts
  <2> HIDE DEF w
  <2>5. ASSUME NEW y \in IF Waits(x) THEN {w} ELSE Terminate(w)
        PROVE  /\ y \in Sessions /\ Ending(y) /\ Alive(y) /\ y.user
               /\ y.closed = 0 /\ y.terminated > 0 /\ y.requestl = x.requestl
    <3>1. CASE Waits(x)
      <4>1. y = w
        BY <2>5, <3>1
      <4>2. Ending(w)
        BY <2>3, <2>4 DEF Ending
      <4>3. Alive(w)
        BY <2>4 DEF Alive, Held, Pending, Count
      <4> QED
        BY <2>4, <4>1, <4>2, <4>3
    <3>2. CASE ~Waits(x)
      <4>1. w.req = "none" /\ w.replyl = {} /\ w.requestl = 0 /\ w.refs = 1
        BY <2>2, <2>4, <3>2 DEF Waits, Pending, Count
      <4>2. y \in Terminate(w)
        BY <2>5, <3>2
      <4>3. /\ y \in Sessions /\ y.phase = w.phase /\ y.user = w.user
            /\ y.terminated = 2 /\ y.established = w.established
            /\ y.peerterm = w.peerterm /\ y.st = w.st /\ y.tmr = w.tmr
            /\ y.replyl = w.replyl /\ y.requestl = w.requestl /\ y.closed = w.closed
            /\ w.established => w.peerterm \/ y.bye # "none"
            /\ \/ y.req = "BYE" /\ y.refs = w.refs + 1 /\ y.bye = "sent" /\ y.established
               \/ /\ y.req = "none" /\ y.refs = w.refs
                  /\ y.bye = "none" \/ (y.bye = "failed" /\ y.established)
        BY <2>4, <4>1, <4>2, TerminateFacts
      <4>4. Ending(y)
        BY <2>4, <4>1, <4>3 DEF Ending
      <4>5. Alive(y)
        BY <2>4, <4>1, <4>3 DEF Alive, Held, Pending, Count
      <4> QED
        BY <2>4, <4>1, <4>3, <4>4, <4>5
    <3> QED
      BY <3>1, <3>2
  <2>6. ASSUME NEW q \in told
        PROVE  /\ q \in Sessions /\ Ending(q) /\ Alive(q) /\ q.user
               /\ q.requestl = x.requestl
    <3>1. PICK y \in IF Waits(x) THEN {w} ELSE Terminate(w) : q = [y EXCEPT !.closed = @ + 1]
      BY <2>6
    <3>2. /\ y \in Sessions /\ Ending(y) /\ Alive(y) /\ y.user
          /\ y.closed = 0 /\ y.terminated > 0 /\ y.requestl = x.requestl
      BY <2>5
    <3>3. q = [y EXCEPT !.closed = 1]
      BY <3>1, <3>2
    <3> QED
      BY <3>2, <3>3, ToldClosed
  <2> HIDE DEF told
  <2>7. CASE z \in told
    BY <2>6, <2>7 DEF Sound
  <2>8. CASE \E y \in told : z \in UserDerefs(y)
    BY <2>6, <2>8, UserDerefsFacts
  <2> QED
    BY <2>1, <2>7, <2>8
<1> QED
  BY <1>1, <1>2

(* What the handlers of an answer do at "out" *)
LEMMA EndSound ==
  ASSUME NEW x, Loose(x), NEW z \in EndOrDeref(x)
  PROVE  Sound(z)
<1>1. CASE x.terminated = 0
  BY <1>1, TerminatedSound DEF EndOrDeref, Loose, Alive
<1>2. CASE x.terminated # 0
  BY <1>2, DerefFacts DEF EndOrDeref, Loose
<1> QED
  BY <1>1, <1>2
-----------------------------------------------------------------------------
(* Before a session is terminated Loose and Sound are the same. *)
LEMMA Unterminated ==
  ASSUME NEW x, x.terminated = 0
  PROVE  /\ Loose(x) => Sound(x) /\ Alive(x) /\ x \in Sessions /\ Ending(x)
         /\ x.phase = "live" /\ Sound(x) => Loose(x)
  BY DEF Loose, Sound, Alive, Released

(* A request is under way again: it keeps the reference. *)
LEMMA UnderWay ==
  ASSUME NEW x, Loose(x), x.req = "none", NEW kind \in {"INVITE", "REINVITE", "BYE"},
         IF kind = "BYE" THEN x.bye = "sent" ELSE x.terminated # 2
  PROVE  LET y == [x EXCEPT !.req = kind] IN
         Sound(y) /\ y.terminated = x.terminated /\ y.phase = "live"
<1> DEFINE y == [x EXCEPT !.req = kind]
<1>1. x \in Sessions
  BY DEF Loose
<1>2. /\ y \in Sessions /\ y.phase = x.phase /\ y.refs = x.refs /\ y.user = x.user
      /\ y.terminated = x.terminated /\ y.established = x.established
      /\ y.peerterm = x.peerterm /\ y.st = x.st /\ y.tmr = x.tmr
      /\ y.req = kind /\ y.replyl = x.replyl /\ y.requestl = x.requestl
      /\ y.closed = x.closed /\ y.bye = x.bye
  BY <1>1 DEF Sessions
<1> HIDE DEF y
<1>3. Ending(y)
  BY <1>2 DEF Ending, Loose
<1>4. Alive(y)
  BY <1>2 DEF Loose, Alive, Held, Pending, Count
<1> QED
  BY <1>2, <1>3, <1>4 DEF Sound, Alive, y

(* sip_request_loops() *)
LEMMA LoopsFacts ==
  ASSUME NEW x \in Sessions, NEW code \in Codes
  PROVE  Like(Loops(x, code)[2], x)
<1>1. CASE code = "1xx"
  <2>1. Loops(x, code)[2] = x
    BY <1>1 DEF Loops
  <2> QED
    BY <2>1 DEF Like
<1>2. ASSUME NEW n \in 0 .. FailLimit
      PROVE  Like([x EXCEPT !.failc = n, !.last = code], x)
  <2>1. [x EXCEPT !.failc = n] \in Sessions
    BY PutNumber
  <2>2. [x EXCEPT !.failc = n, !.last = code] \in Sessions
    BY <2>1, PutName
  <2> QED
    BY <2>2 DEF Like, Sessions
<1>3. CASE code = "2xx"
  <2>1. Loops(x, code)[2] = [x EXCEPT !.failc = 0, !.last = code]
    BY <1>3 DEF Loops
  <2>2. 0 \in 0 .. FailLimit
    BY SessionAssumption
  <2> QED
    BY <1>2, <2>1, <2>2
<1>4. CASE code # "1xx" /\ code # "2xx"
  <2> DEFINE n == IF x.failc < FailLimit THEN x.failc + 1 ELSE FailLimit
  <2>1. Loops(x, code)[2] = [x EXCEPT !.failc = n, !.last = code]
    BY <1>4 DEF Loops
  <2>2. x.failc \in 0 .. FailLimit
    BY DEF Sessions
  <2>3. n \in 0 .. FailLimit
    BY <2>2, SessionAssumption
  <2> HIDE DEF n
  <2> QED
    BY <1>2, <2>1, <2>3
<1> QED
  BY <1>1, <1>3, <1>4

(* invite(), up to the request *)
LEMMA NoInviteLike ==
  ASSUME NEW x \in Sessions
  PROVE  Like(NoInvite(x), x)
<1>1. x.desc \in BOOLEAN
  BY DEF Sessions
<1>2. [x EXCEPT !.sent_offer = x.desc] \in Sessions
  BY <1>1, PutFlag
<1>3. NoInvite(x) \in Sessions
  BY <1>2, PutFlag DEF NoInvite
<1> QED
  BY <1>3 DEF Like, NoInvite, Sessions

(* invite() *)
LEMMA InviteSound ==
  ASSUME NEW x, Loose(x), x.req = "none", x.terminated = 0,
         NEW kind \in {"INVITE", "REINVITE"}
  PROVE  /\ Sound(Invite(x, kind)) /\ Invite(x, kind).terminated = 0
         /\ Invite(x, kind).phase = "live"
<1> DEFINE y == [x EXCEPT !.req = kind]
<1>1. x \in Sessions /\ x.desc \in BOOLEAN
  BY DEF Loose, Sessions
<1>2. Sound(y) /\ y.terminated = 0 /\ y.phase = "live" /\ y \in Sessions
  <2>1. kind \in {"INVITE", "REINVITE", "BYE"} /\ kind # "BYE" /\ x.terminated # 2
    OBVIOUS
  <2>2. Sound(y) /\ y.terminated = 0 /\ y.phase = "live"
    BY <2>1, UnderWay
  <2> QED
    BY <2>2 DEF Sound
<1>3. Invite(x, kind) = [y EXCEPT !.sent_offer = x.desc, !.modify_pending = FALSE]
  BY DEF Invite
<1> HIDE DEF y
<1>4. [y EXCEPT !.sent_offer = x.desc] \in Sessions
  BY <1>1, <1>2, PutFlag
<1>5. Invite(x, kind) \in Sessions
  BY <1>3, <1>4, PutFlag
<1>6. Like(Invite(x, kind), y)
  BY <1>2, <1>3, <1>5 DEF Like, Sessions
<1> QED
  BY <1>2, <1>6, LikeKeeps DEF Like

(* sipsess_reinvite() *)
LEMMA ReinviteSound ==
  ASSUME NEW x, Loose(x), x.terminated = 0, NEW z \in Reinvite(x)
  PROVE  Sound(z) /\ z.terminated = 0 /\ z.phase = "live"
<1>1. x \in Sessions /\ Sound(x) /\ x.phase = "live"
  BY Unterminated DEF Loose
<1>2. CASE x.req # "none"
  BY <1>1, <1>2 DEF Reinvite
<1>3. CASE x.req = "none"
  <2>1. Like(Reset(x), x)
    BY <1>1, ResetLike DEF Reset
  <2>2. Loose(Reset(x)) /\ Reset(x).req = "none" /\ Reset(x).terminated = 0
    BY <1>3, <2>1, LikeKeeps DEF Like
  <2>3. Like(NoInvite(Reset(x)), Reset(x))
    BY <2>1, NoInviteLike DEF Like
  <2>4. CASE z = Invite(Reset(x), "REINVITE")
    BY <2>2, <2>4, InviteSound
  <2>5. CASE z = NoInvite(Reset(x))
    BY <1>1, <2>1, <2>3, <2>5, LikeKeeps DEF Like
  <2> QED
    BY <1>3, <2>4, <2>5 DEF Reinvite
<1> QED
  BY <1>2, <1>3
(* invite_resp_handler(), without the request that was answered *)
LEMMA InviteAnswered ==
  ASSUME NEW x, Loose(x), x.req = "none", x.terminated # 2,
         NEW code \in Codes, NEW created \in BOOLEAN, NEW good \in BOOLEAN,
         NEW z \in InviteAnswer(x, code, created, good)
  PROVE  Sound(z)
<1> DEFINE l == Loops(x, code)[2]
           e == [l EXCEPT !.dialog = TRUE, !.established = TRUE,
                          !.modify_pending = IF l.sent_offer THEN @ ELSE FALSE]
<1>1. x \in Sessions
  BY DEF Loose
<1>2. Like(l, x)
  BY <1>1, LoopsFacts
<1>3. \/ z \in EndOrDeref(l)
      \/ z = [l EXCEPT !.req = "INVITE"]
      \/ z \in EndOrDeref(e)
      \/ x.terminated = 0 /\ z \in Reinvite(e)
      \/ x.terminated = 0 /\ z = [e EXCEPT !.desc = FALSE]
      \/ x.terminated = 0 /\ z \in {Invite(l, "INVITE")} \cup EndOrDeref(NoInvite(l))
  <2>1. x.terminated \in {0, 1, 2} /\ l.terminated = x.terminated
    BY <1>1, <1>2 DEF Sessions, Like
  <2>2. z \in Established(l, good) =>
          \/ z \in EndOrDeref(e)
          \/ x.terminated = 0 /\ z \in Reinvite(e)
          \/ x.terminated = 0 /\ z = [e EXCEPT !.desc = FALSE]
    <3> HIDE DEF l
    <3> QED
      BY <2>1 DEF Established
  <2> HIDE DEF l, e
  <2>3. \/ z \in EndOrDeref(l)
        \/ z = [l EXCEPT !.req = "INVITE"]
        \/ z \in Established(l, good)
        \/ x.terminated = 0 /\ z \in {Invite(l, "INVITE")} \cup EndOrDeref(NoInvite(l))
    BY <2>1 DEF InviteAnswer, l
  <2> QED
    BY <2>2, <2>3
<1> HIDE DEF l
<1>4. /\ Loose(l) /\ l.req = "none" /\ l.terminated = x.terminated
      /\ l \in Sessions
  BY <1>2, LikeKeeps DEF Like
<1>5. Loose(e) /\ e.terminated = x.terminated /\ e \in Sessions
  <2>1. l.modify_pending \in BOOLEAN
    BY <1>4 DEF Sessions
  <2>2. [l EXCEPT !.dialog = TRUE] \in Sessions
    BY <1>4, PutFlag
  <2>3. [l EXCEPT !.dialog = TRUE, !.established = TRUE] \in Sessions
    BY <2>2, PutFlag
  <2>4. (IF l.sent_offer THEN l.modify_pending ELSE FALSE) \in BOOLEAN
    BY <2>1
  <2>5. e \in Sessions
    BY <2>3, <2>4, PutFlag
  <2>6. /\ e.phase = l.phase /\ e.refs = l.refs /\ e.user = l.user
        /\ e.terminated = l.terminated /\ e.established = TRUE
        /\ e.peerterm = l.peerterm /\ e.st = l.st /\ e.tmr = l.tmr
        /\ e.req = l.req /\ e.replyl = l.replyl /\ e.requestl = l.requestl
        /\ e.closed = l.closed /\ e.bye = l.bye
    BY <1>4 DEF Sessions
  <2> HIDE DEF e
  <2> QED
    BY <1>4, <2>5, <2>6 DEF Loose, Ending, Held, Pending
<1> HIDE DEF e
<1>6. CASE z \in EndOrDeref(l)
  BY <1>4, <1>6, EndSound
<1>7. CASE z = [l EXCEPT !.req = "INVITE"]
  BY <1>4, <1>7, UnderWay
<1>8. CASE z \in EndOrDeref(e)
  BY <1>5, <1>8, EndSound
<1>9. CASE x.terminated = 0 /\ z \in Reinvite(e)
  BY <1>5, <1>9, ReinviteSound
<1>10. CASE x.terminated = 0 /\ z = [e EXCEPT !.desc = FALSE]
  <2>1. z \in Sessions
    BY <1>5, <1>10, PutFlag
  <2>2. Like(z, e)
    BY <1>5, <1>10, <2>1 DEF Like, Sessions
  <2> QED
    BY <1>5, <1>10, <2>2, LikeKeeps, Unterminated
<1>11. CASE x.terminated = 0 /\ z = Invite(l, "INVITE")
  BY <1>4, <1>11, InviteSound
<1>12. CASE x.terminated = 0 /\ z \in EndOrDeref(NoInvite(l))
  <2>1. Loose(NoInvite(l))
    BY <1>4, NoInviteLike, LikeKeeps
  <2> QED
    BY <1>12, <2>1, EndSound
<1> QED
  BY <1>3, <1>6, <1>7, <1>8, <1>9, <1>10, <1>11, <1>12

(* The part "out" of reinvite_resp_handler() *)
LEMMA ReinviteOutSound ==
  ASSUME NEW x, Loose(x), NEW t \in BOOLEAN, NEW z \in ReinviteOut(x, t)
  PROVE  Sound(z)
<1>1. x \in Sessions /\ x.terminated \in {0, 1, 2}
  BY DEF Loose, Sessions
<1>2. CASE x.terminated > 0
  <2>1. z \in EndOrDeref(x)
    BY <1>2 DEF ReinviteOut, EndOrDeref
  <2> QED
    BY <2>1, EndSound
<1>3. CASE x.terminated = 0
  <2>1. CASE t
    <3>1. z \in EndOrDeref(x)
      BY <1>3, <2>1 DEF ReinviteOut, EndOrDeref
    <3> QED
      BY <3>1, EndSound
  <2>2. CASE ~t /\ x.modify_pending
    <3>1. z \in Reinvite(x)
      BY <1>3, <2>2 DEF ReinviteOut
    <3> QED
      BY <1>3, <3>1, ReinviteSound
  <2>3. CASE ~t /\ ~x.modify_pending
    <3>1. z = [x EXCEPT !.desc = FALSE]
      BY <1>3, <2>3 DEF ReinviteOut
    <3>2. z \in Sessions
      BY <1>1, <3>1, PutFlag
    <3>3. Like(z, x)
      BY <1>1, <3>1, <3>2 DEF Like, Sessions
    <3> QED
      BY <1>3, <3>3, LikeKeeps, Unterminated
  <2> QED
    BY <2>1, <2>2, <2>3
<1> QED
  BY <1>1, <1>2, <1>3

(* reinvite_resp_handler(), without the request that was answered *)
LEMMA ReinviteAnswered ==
  ASSUME NEW x, Loose(x), x.req = "none", x.terminated # 2,
         NEW code \in Codes, NEW good \in BOOLEAN, NEW z \in ReinviteAnswer(x, code, good)
  PROVE  Sound(z)
<1> DEFINE l == Loops(x, code)[2]
           p == [l EXCEPT !.modify_pending = IF x.sent_offer THEN @ ELSE FALSE]
<1>1. x \in Sessions
  BY DEF Loose
<1>2. Like(l, x)
  BY <1>1, LoopsFacts
<1>3. \/ z \in ReinviteOut(l, FALSE)
      \/ z = [l EXCEPT !.req = "REINVITE"]
      \/ z \in ReinviteOut(p, FALSE)
      \/ x.terminated = 0 /\ z = Invite(l, "REINVITE")
      \/ x.terminated = 0 /\ z \in ReinviteOut(NoInvite(l), FALSE)
      \/ x.terminated = 0 /\ z \in SipsessTerminate(l)
      \/ x.terminated = 0 /\ z = [l EXCEPT !.tmr = TRUE]
  <2> HIDE DEF l
  <2> QED
    BY DEF ReinviteAnswer, l
<1> HIDE DEF l
<1>4. /\ Loose(l) /\ l.req = "none" /\ l.terminated = x.terminated
      /\ l \in Sessions
  BY <1>2, LikeKeeps DEF Like
<1>5. CASE z \in ReinviteOut(l, FALSE)
  BY <1>4, <1>5, ReinviteOutSound
<1>6. CASE z = [l EXCEPT !.req = "REINVITE"]
  BY <1>4, <1>6, UnderWay
<1>7. CASE z \in ReinviteOut(p, FALSE)
  <2>1. l.modify_pending \in BOOLEAN
    BY <1>4 DEF Sessions
  <2>2. (IF x.sent_offer THEN l.modify_pending ELSE FALSE) \in BOOLEAN
    BY <2>1
  <2>3. p \in Sessions
    BY <1>4, <2>2, PutFlag
  <2>4. Like(p, l)
    BY <1>4, <2>3 DEF Like, Sessions
  <2> HIDE DEF p
  <2> QED
    BY <1>4, <1>7, <2>4, LikeKeeps, ReinviteOutSound
<1>8. CASE x.terminated = 0 /\ z = Invite(l, "REINVITE")
  BY <1>4, <1>8, InviteSound
<1>9. CASE x.terminated = 0 /\ z \in ReinviteOut(NoInvite(l), FALSE)
  <2>1. Loose(NoInvite(l))
    BY <1>4, NoInviteLike, LikeKeeps
  <2> QED
    BY <1>9, <2>1, ReinviteOutSound
<1>10. CASE x.terminated = 0 /\ z \in SipsessTerminate(l)
  BY <1>4, <1>10, EndSound DEF EndOrDeref
<1>11. CASE x.terminated = 0 /\ z = [l EXCEPT !.tmr = TRUE]
  <2>1. z \in Sessions
    BY <1>4, <1>11, PutFlag
  <2>2. /\ z.phase = l.phase /\ z.refs = l.refs /\ z.user = l.user
        /\ z.terminated = l.terminated /\ z.established = l.established
        /\ z.peerterm = l.peerterm /\ z.st = l.st /\ z.tmr = TRUE
        /\ z.req = l.req /\ z.replyl = l.replyl /\ z.requestl = l.requestl
        /\ z.closed = l.closed /\ z.bye = l.bye
    BY <1>4, <1>11 DEF Sessions
  <2>3. Loose(z)
    BY <1>4, <1>11, <2>1, <2>2 DEF Loose, Ending, Held
  <2> QED
    BY <1>4, <1>11, <2>2, <2>3, Unterminated
<1> QED
  BY <1>3, <1>5, <1>6, <1>7, <1>8, <1>9, <1>10, <1>11

(* bye_resp_handler(), without the BYE that was answered *)
LEMMA ByeAnswered ==
  ASSUME NEW x, Loose(x), x.req = "none", x.bye = "sent",
         NEW code \in Codes, NEW good \in BOOLEAN, NEW z \in ByeAnswer(x, code, good)
  PROVE  Sound(z)
<1> DEFINE l == Loops(x, code)[2]
<1>1. x \in Sessions /\ x.terminated = 2
  BY DEF Loose, Ending
<1>2. Like(l, x)
  BY <1>1, LoopsFacts
<1>3. \/ z \in Deref(l)
      \/ z = [l EXCEPT !.req = "BYE"]
      \/ z \in Bye(l, FALSE) /\ z.req = "BYE"
  <2> HIDE DEF l
  <2> QED
    BY DEF ByeAnswer, l
<1> HIDE DEF l
<1>4. /\ Loose(l) /\ l.req = "none" /\ l.terminated = 2 /\ l.bye = "sent"
      /\ l \in Sessions
  BY <1>1, <1>2, LikeKeeps DEF Like
<1>5. CASE z \in Deref(l)
  BY <1>4, <1>5, EndSound DEF EndOrDeref
<1>6. CASE z = [l EXCEPT !.req = "BYE"]
  BY <1>4, <1>6, UnderWay
<1>7. CASE z \in Bye(l, FALSE) /\ z.req = "BYE"
  <2> DEFINE y == [l EXCEPT !.req = "BYE"]
  <2>1. [l EXCEPT !.bye = "failed"].req # "BYE"
    BY <1>4 DEF Sessions
  <2>2. z = [y EXCEPT !.bye = "sent"]
    BY <1>4, <1>7, <2>1 DEF Bye
  <2>3. Sound(y) /\ y \in Sessions
    BY <1>4, UnderWay DEF Sound
  <2>4. y.bye = "sent"
    BY <1>4 DEF Sessions
  <2> HIDE DEF y
  <2>5. z \in Sessions
    BY <2>2, <2>3, PutName
  <2>6. Like(z, y)
    BY <2>2, <2>3, <2>4, <2>5 DEF Like, Sessions
  <2> QED
    BY <2>3, <2>6, LikeKeeps
<1> QED
  BY <1>3, <1>5, <1>6, <1>7
-----------------------------------------------------------------------------
(* Before a session is terminated only a few of its fields matter. *)
Core(y, x) ==
  /\ y \in Sessions /\ y.phase = x.phase /\ y.refs = x.refs /\ y.user = x.user
  /\ y.terminated = x.terminated /\ y.req = x.req /\ y.closed = x.closed /\ y.bye = x.bye

(* A session that is not terminated stays sound. *)
LEMMA CoreKeeps ==
  ASSUME NEW x, NEW y, Loose(x), x.terminated = 0, Core(y, x)
  PROVE  /\ Loose(y) /\ Sound(y) /\ y.terminated = 0 /\ y.phase = "live"
         /\ y \in Sessions /\ Alive(y) /\ Ending(y)
<1>1. Loose(y)
  BY DEF Core, Loose, Ending, Held
<1> QED
  BY <1>1, Unterminated DEF Core, Loose

(* The assignments of the handlers of a session that is not terminated. *)
LEMMA FlagCore ==
  ASSUME NEW x \in Sessions, NEW v \in BOOLEAN
  PROVE  /\ Core([x EXCEPT !.st = v], x) /\ Core([x EXCEPT !.tmr = v], x)
         /\ Core([x EXCEPT !.desc = v], x) /\ Core([x EXCEPT !.peerterm = v], x)
         /\ Core([x EXCEPT !.modify_pending = v], x)
         /\ Core([x EXCEPT !.established = v], x)
         /\ Core([x EXCEPT !.awaiting_answer = v], x)
<1>1. Core([x EXCEPT !.st = v], x) /\ Core([x EXCEPT !.tmr = v], x)
  BY DEF Core, Sessions
<1>2. Core([x EXCEPT !.desc = v], x) /\ Core([x EXCEPT !.peerterm = v], x)
  BY DEF Core, Sessions
<1>3. Core([x EXCEPT !.modify_pending = v], x) /\ Core([x EXCEPT !.established = v], x)
  BY DEF Core, Sessions
<1>4. Core([x EXCEPT !.awaiting_answer = v], x)
  BY DEF Core, Sessions
<1> QED
  BY <1>1, <1>2, <1>3, <1>4

(* Numbers and queues of requests and replies are such fields. *)
LEMMA OtherCore ==
  ASSUME NEW x \in Sessions
  PROVE  /\ \A v \in 0 .. MaxSeq : Core([x EXCEPT !.rseq = v], x)
         /\ \A v \in 0 .. MaxInfo : Core([x EXCEPT !.requestl = v], x)
         /\ \A v \in SUBSET Replies : Core([x EXCEPT !.replyl = v], x)
<1>1. \A v \in 0 .. MaxSeq : Core([x EXCEPT !.rseq = v], x)
  BY DEF Core, Sessions
<1>2. \A v \in 0 .. MaxInfo : Core([x EXCEPT !.requestl = v], x)
  BY DEF Core, Sessions
<1>3. \A v \in SUBSET Replies : Core([x EXCEPT !.replyl = v], x)
  BY DEF Core, Sessions
<1> QED
  BY <1>1, <1>2, <1>3

(* Two such assignments one after the other. *)
LEMMA CoreTwice ==
  ASSUME NEW x, NEW y, NEW z, Core(y, x), Core(z, y)
  PROVE  Core(z, x)
  BY DEF Core

(* sipsess_reply_2xx() *)
LEMMA Reply2xxCore ==
  ASSUME NEW x \in Sessions, NEW seq \in 0 .. MaxSeq, NEW awaits \in BOOLEAN
  PROVE  Core(Reply2xx(x, seq, awaits), x)
<1> DEFINE r == x.replyl \cup {[seq |-> seq, awaiting |-> awaits]}
           a == [x EXCEPT !.st = FALSE]
           b == [a EXCEPT !.replyl = r]
<1>1. [seq |-> seq, awaiting |-> awaits] \in Replies
  BY DEF Replies
<1>2. x.replyl \in SUBSET Replies /\ x.awaiting_answer \in BOOLEAN
  BY DEF Sessions
<1>3. r \in SUBSET Replies /\ (x.awaiting_answer \/ awaits) \in BOOLEAN
  BY <1>1, <1>2
<1>4. Reply2xx(x, seq, awaits) = [b EXCEPT !.awaiting_answer = x.awaiting_answer \/ awaits]
  BY DEF Reply2xx
<1> HIDE DEF r
<1>5. Core(a, x)
  BY FlagCore
<1> HIDE DEF a
<1>6. Core(b, a)
  BY <1>3, <1>5, OtherCore DEF Core
<1> HIDE DEF b
<1>7. Core(Reply2xx(x, seq, awaits), b)
  <2>1. b \in Sessions
    BY <1>6 DEF Core
  <2> QED
    BY <1>3, <1>4, <2>1, FlagCore
<1> QED
  BY <1>5, <1>6, <1>7, CoreTwice

-----------------------------------------------------------------------------
(* What the invariant says of a session in use. *)
LEMMA LiveSound ==
  ASSUME Inv, Live
  PROVE  /\ s \in Sessions /\ Ending(s) /\ Alive(s) /\ Sound(s)
         /\ s.terminated = 0 => Loose(s)
         /\ s.terminated \in {0, 1, 2} /\ s.requestl \in 0 .. MaxInfo
         /\ s.replyl \in SUBSET Replies
<1>1. Sound(s) /\ s.phase = "live"
  BY DEF Inv, Live
<1>2. s \in Sessions /\ Ending(s) /\ Alive(s)
  BY <1>1 DEF Sound, Released
<1>3. s.terminated = 0 => Loose(s)
  BY <1>1, Unterminated
<1>4. /\ s.terminated \in {0, 1, 2} /\ s.requestl \in 0 .. MaxInfo
      /\ s.replyl \in SUBSET Replies
  BY <1>2 DEF Sessions
<1> QED
  BY <1>1, <1>2, <1>3, <1>4

(* The request under way is taken off the session. *)
LEMMA TakenOff ==
  ASSUME Inv, Live, s.req # "none", NEW x, x = [s EXCEPT !.req = "none"]
  PROVE  /\ Loose(x) /\ x.req = "none"
         /\ IF s.req = "BYE" THEN x.bye = "sent" ELSE x.terminated # 2
<1>1. s \in Sessions /\ Ending(s) /\ Alive(s)
  BY LiveSound
<1>2. /\ x \in Sessions /\ x.phase = s.phase /\ x.refs = s.refs /\ x.user = s.user
      /\ x.terminated = s.terminated /\ x.established = s.established
      /\ x.peerterm = s.peerterm /\ x.st = s.st /\ x.tmr = s.tmr
      /\ x.req = "none" /\ x.replyl = s.replyl /\ x.requestl = s.requestl
      /\ x.closed = s.closed /\ x.bye = s.bye
  BY <1>1 DEF Sessions
<1>3. Ending(x)
  BY <1>1, <1>2 DEF Ending
<1>4. IF s.req = "BYE" THEN x.bye = "sent" ELSE x.terminated # 2
  BY <1>1, <1>2 DEF Ending
<1>5. Loose(x)
  BY <1>1, <1>2, <1>3 DEF Loose, Alive, Held, Pending, Count
<1> QED
  BY <1>2, <1>4, <1>5

(* A 2xx answer does not wait for its ACK any more. *)
LEMMA ReplyGone ==
  ASSUME Inv, Live, NEW r \in s.replyl, NEW x, x = [s EXCEPT !.replyl = @ \ {r}]
  PROVE  /\ x.replyl # {} => Sound(x)
         /\ x.replyl = {} => Loose([x EXCEPT !.established = TRUE])
         /\ s.terminated = 0 => Core(x, s)
         /\ x \in Sessions /\ x.terminated = s.terminated
<1>1. s \in Sessions /\ Ending(s) /\ Alive(s) /\ s.replyl \ {r} \in SUBSET Replies
  BY LiveSound
<1>2. x \in Sessions
  BY <1>1, PutName
<1>3. /\ x.phase = s.phase /\ x.refs = s.refs /\ x.user = s.user
      /\ x.terminated = s.terminated /\ x.established = s.established
      /\ x.peerterm = s.peerterm /\ x.st = s.st /\ x.tmr = s.tmr
      /\ x.req = s.req /\ x.replyl = s.replyl \ {r} /\ x.requestl = s.requestl
      /\ x.closed = s.closed /\ x.bye = s.bye
  BY <1>1 DEF Sessions
<1>4. s.terminated # 2
  BY <1>1 DEF Ending
<1>5. x.replyl # {} => Sound(x)
  <2> SUFFICES ASSUME x.replyl # {} PROVE Sound(x)
    OBVIOUS
  <2>1. Ending(x)
    BY <1>1, <1>3, <1>4 DEF Ending
  <2>2. Alive(x)
    BY <1>1, <1>3 DEF Alive, Held, Pending, Count
  <2> QED
    BY <1>2, <2>1, <2>2 DEF Sound
<1>6. ASSUME x.replyl = {} PROVE Loose([x EXCEPT !.established = TRUE])
  <2> DEFINE y == [x EXCEPT !.established = TRUE]
  <2>1. y \in Sessions
    BY <1>2, PutFlag
  <2>2. /\ y.phase = x.phase /\ y.refs = x.refs /\ y.user = x.user
        /\ y.terminated = x.terminated /\ y.established = TRUE
        /\ y.peerterm = x.peerterm /\ y.st = x.st /\ y.tmr = x.tmr
        /\ y.req = x.req /\ y.replyl = x.replyl /\ y.requestl = x.requestl
        /\ y.closed = x.closed /\ y.bye = x.bye
    BY <1>2 DEF Sessions
  <2> HIDE DEF y
  <2>3. Ending(y)
    BY <1>1, <1>3, <1>4, <2>2 DEF Ending
  <2>4. Loose(y)
    BY <1>1, <1>3, <1>6, <2>1, <2>2, <2>3 DEF Loose, Alive, Held, Pending, Count
  <2> QED
    BY <2>4 DEF y
<1>7. s.terminated = 0 => Core(x, s)
  BY <1>2, <1>3 DEF Core
<1> QED
  BY <1>2, <1>3, <1>5, <1>6, <1>7
-----------------------------------------------------------------------------
(* The fields of a session before it is allocated. *)
LEMMA FreshFacts ==
  /\ Fresh \in Sessions /\ Fresh.phase = "none" /\ Fresh.refs = 0
  /\ Fresh.terminated = 0 /\ Fresh.req = "none" /\ Fresh.closed = 0
  /\ Fresh.bye = "none" /\ Fresh.replyl = {} /\ Fresh.requestl = 0
  /\ ~Fresh.tmr /\ ~Fresh.st /\ ~Fresh.established
<1>1. 0 \in 0 .. MaxSeq /\ 0 \in 0 .. MaxInfo /\ 0 \in 0 .. FailLimit
  BY SessionAssumption
<1>2. Fresh \in Sessions
  BY <1>1, Zenon DEF Fresh, Sessions
<1> QED
  BY <1>2 DEF Fresh

(* sipsess_connect() or sipsess_accept() fails, or there is a new session. *)
LEMMA NewSession ==
  ASSUME NEW x, Core(x, Fresh)
  PROVE  /\ Loose(New(x)) /\ New(x).terminated = 0 /\ New(x).req = "none"
         /\ New(x) \in Sessions
<1>1. x \in Sessions /\ x.terminated = 0 /\ x.req = "none" /\ x.closed = 0 /\ x.bye = "none"
  BY FreshFacts DEF Core
<1>2. New(x) \in Sessions
  <2>1. [x EXCEPT !.phase = "live"] \in Sessions
    BY <1>1, PutName
  <2>2. [x EXCEPT !.phase = "live", !.refs = 1] \in Sessions
    BY <2>1, PutNumber
  <2> QED
    BY <2>2, PutFlag DEF New
<1>3. /\ New(x).phase = "live" /\ New(x).refs = 1 /\ New(x).user = TRUE
      /\ New(x).terminated = 0 /\ New(x).req = "none" /\ New(x).closed = 0
      /\ New(x).bye = "none"
  BY <1>1 DEF New, Sessions
<1> QED
  BY <1>2, <1>3 DEF Loose, Ending, Held, Count

(* sipsess_alloc() has failed. *)
LEMMA NeverBegan ==
  ASSUME NEW x, x = [Fresh EXCEPT !.phase = "freed"]
  PROVE  Sound(x)
<1>1. x \in Sessions
  BY FreshFacts, PutName
<1>2. /\ x.phase = "freed" /\ x.refs = 0
      /\ x.terminated = 0 /\ x.req = "none" /\ x.closed = 0
      /\ x.bye = "none" /\ x.replyl = {} /\ x.requestl = 0
      /\ ~x.tmr /\ ~x.st /\ ~x.established
  BY DEF Fresh
<1> QED
  BY <1>1, <1>2 DEF Sound, Released, Ending, Waits

(* sipsess_connect() and sipsess_accept() *)
LEMMA BeginStep == ASSUME Inv, Connect \/ Accept PROVE Sound(s')
<1>1. s = Fresh
  BY DEF Inv, Connect, Accept
<1>2. CASE s' = [s EXCEPT !.phase = "freed"]
  BY <1>1, <1>2, NeverBegan
<1>3. CASE \E d \in BOOLEAN :
             s' = Invite(New([s EXCEPT !.owner = TRUE, !.desc = d]), "INVITE")
  <2>1. PICK d \in BOOLEAN :
          s' = Invite(New([s EXCEPT !.owner = TRUE, !.desc = d]), "INVITE")
    BY <1>3
  <2>2. [s EXCEPT !.owner = TRUE] \in Sessions /\ Core([s EXCEPT !.owner = TRUE], s)
    BY <1>1, FreshFacts DEF Core, Sessions
  <2>3. Core([s EXCEPT !.owner = TRUE, !.desc = d], [s EXCEPT !.owner = TRUE])
    BY <2>2, FlagCore
  <2>4. Core([s EXCEPT !.owner = TRUE, !.desc = d], Fresh)
    BY <1>1, <2>2, <2>3, CoreTwice
  <2> QED
    BY <2>1, <2>4, NewSession, InviteSound
<1>4. CASE s' \in {[New([s EXCEPT !.dialog = TRUE]) EXCEPT !.st = TRUE]}
                  \cup {Reply2xx(New([s EXCEPT !.dialog = TRUE]), 0, awaits) :
                          awaits \in BOOLEAN}
  <2> DEFINE x == New([s EXCEPT !.dialog = TRUE])
  <2>1. Core([s EXCEPT !.dialog = TRUE], Fresh)
    BY <1>1, FreshFacts DEF Core, Sessions
  <2>2. Loose(x) /\ x.terminated = 0 /\ x \in Sessions
    BY <2>1, NewSession
  <2>3. s' = [x EXCEPT !.st = TRUE] \/ \E awaits \in BOOLEAN : s' = Reply2xx(x, 0, awaits)
    BY <1>4
  <2> HIDE DEF x
  <2>4. 0 \in 0 .. MaxSeq
    BY SessionAssumption
  <2>5. Core(s', x)
    BY <2>2, <2>3, <2>4, FlagCore, Reply2xxCore
  <2> QED
    BY <2>2, <2>5, CoreKeeps
<1> QED
  BY <1>2, <1>3, <1>4 DEF Connect, Accept

(* Progress, Answer, Info, PeerInfo, PeerReinvite: the session is not      *)
(* terminated and nothing ends.                                            *)
LEMMA QuietStep ==
  ASSUME Inv, Progress \/ Answer \/ Info \/ PeerInfo \/ PeerReinvite
  PROVE  Sound(s')
<1>1. Live /\ s \in Sessions
  BY LiveSound DEF Progress, Answer, Info, PeerInfo, PeerReinvite
<1>2. s.terminated = 0 /\ Loose(s)
  <2>1. s.st \/ s.terminated = 0
    BY DEF Progress, Answer, Info, PeerInfo, PeerReinvite
  <2>2. Ending(s) /\ s.terminated \in {0, 1, 2} /\ (s.terminated = 0 => Loose(s))
    BY <1>1, LiveSound
  <2> QED
    BY <2>1, <2>2 DEF Ending
<1>3. Core(s, s)
  BY <1>1 DEF Core
<1>4. CASE Progress
  BY <1>1, <1>2, <1>3, <1>4, FlagCore, CoreKeeps DEF Progress
<1>5. CASE Answer
  <2>1. s' = [s EXCEPT !.st = FALSE] \/ \E awaits \in BOOLEAN : s' = Reply2xx(s, 0, awaits)
    BY <1>5 DEF Answer
  <2>2. 0 \in 0 .. MaxSeq
    BY SessionAssumption
  <2>3. Core(s', s)
    BY <1>1, <2>1, <2>2, FlagCore, Reply2xxCore
  <2> QED
    BY <1>2, <2>3, CoreKeeps
<1>6. CASE Info
  <2>1. s.requestl + 1 \in 0 .. MaxInfo
    BY <1>1, <1>6, LiveSound, SessionAssumption DEF Info
  <2>2. s' = [s EXCEPT !.requestl = s.requestl + 1]
    BY <1>6 DEF Info
  <2> QED
    BY <1>1, <1>2, <2>1, <2>2, OtherCore, CoreKeeps
<1>7. CASE PeerInfo
  BY <1>1, <1>2, <1>7, OtherCore, CoreKeeps DEF PeerInfo
<1>8. CASE PeerReinvite
  <2>1. PICK seq \in 0 .. MaxSeq :
          LET x == [s EXCEPT !.rseq = seq]
              y == [x EXCEPT !.desc = FALSE, !.modify_pending = FALSE, !.tmr = FALSE]
          IN s' \in {x, y} \cup {Reply2xx(y, seq, awaits) : awaits \in BOOLEAN}
    BY <1>8 DEF PeerReinvite
  <2> DEFINE x == [s EXCEPT !.rseq = seq]
             a == [x EXCEPT !.desc = FALSE]
             b == [a EXCEPT !.modify_pending = FALSE]
             y == [b EXCEPT !.tmr = FALSE]
  <2>2. s' = x \/ s' = y \/ \E awaits \in BOOLEAN : s' = Reply2xx(y, seq, awaits)
    BY <2>1
  <2>3. Core(x, s)
    BY <1>1, OtherCore
  <2> HIDE DEF x
  <2>4. Core(a, x)
    BY <2>3, FlagCore DEF Core
  <2> HIDE DEF a
  <2>5. Core(b, a)
    BY <2>4, FlagCore DEF Core
  <2> HIDE DEF b
  <2>6. Core(y, b)
    BY <2>5, FlagCore DEF Core
  <2> HIDE DEF y
  <2>7. Core(y, s) /\ y \in Sessions
    BY <2>3, <2>4, <2>5, <2>6, CoreTwice DEF Core
  <2>8. \A awaits \in BOOLEAN : Core(Reply2xx(y, seq, awaits), s)
    BY <2>7, Reply2xxCore, CoreTwice
  <2> QED
    BY <1>2, <2>2, <2>3, <2>7, <2>8, CoreKeeps
<1> QED
  BY <1>4, <1>5, <1>6, <1>7, <1>8

(* sipsess_modify(), its timer, and the release by the user *)
LEMMA UserStep ==
  ASSUME Inv, Modify \/ ModifyTimer \/ Release
  PROVE  Sound(s')
<1>1. Live /\ s \in Sessions /\ Ending(s) /\ Alive(s)
  BY LiveSound DEF Modify, ModifyTimer, Release
<1>2. CASE Modify
  <2> DEFINE x == [s EXCEPT !.desc = TRUE]
  <2>1. s' = [x EXCEPT !.modify_pending = TRUE] \/ s' \in Reinvite(x)
    BY <1>2 DEF Modify
  <2>2. Core(x, s) /\ s.terminated = 0 /\ Loose(s)
    BY <1>1, <1>2, FlagCore, LiveSound DEF Modify
  <2> HIDE DEF x
  <2>3. Loose(x) /\ x.terminated = 0 /\ x \in Sessions
    BY <2>2, CoreKeeps
  <2>4. CASE s' = [x EXCEPT !.modify_pending = TRUE]
    BY <2>3, <2>4, FlagCore, CoreKeeps
  <2>5. CASE s' \in Reinvite(x)
    BY <2>3, <2>5, ReinviteSound
  <2> QED
    BY <2>1, <2>4, <2>5
<1>3. CASE ModifyTimer
  <2> DEFINE x == [s EXCEPT !.tmr = FALSE]
  <2>1. s' \in Reinvite(x)
    BY <1>3 DEF ModifyTimer
  <2>2. s.terminated = 0 /\ Loose(s)
    BY <1>1, <1>3, LiveSound DEF ModifyTimer, Ending
  <2>3. Core(x, s)
    BY <1>1, FlagCore
  <2> HIDE DEF x
  <2> QED
    BY <2>1, <2>2, <2>3, CoreKeeps, ReinviteSound
<1>4. CASE Release
  BY <1>1, <1>4, UserDerefsFacts DEF Release
<1> QED
  BY <1>2, <1>3, <1>4

(* The request under way is answered, or fails. *)
LEMMA RequestStep == ASSUME Inv, Answered \/ Failed PROVE Sound(s')
<1> DEFINE x == [s EXCEPT !.req = "none"]
<1>1. Live /\ s.req # "none" /\ s.req \in {"INVITE", "REINVITE", "BYE"}
  <2>1. Live /\ s.req # "none"
    BY DEF Answered, Failed
  <2> QED
    BY <2>1, LiveSound DEF Sessions
<1>2. /\ Loose(x) /\ x.req = "none"
      /\ IF s.req = "BYE" THEN x.bye = "sent" ELSE x.terminated # 2
  BY <1>1, TakenOff
<1>3. CASE Answered
  <2>1. \E code \in Codes, created, good \in BOOLEAN :
          s' \in CASE s.req = "INVITE" -> InviteAnswer(x, code, created, good)
                   [] s.req = "REINVITE" -> ReinviteAnswer(x, code, good)
                   [] s.req = "BYE" -> ByeAnswer(x, code, good)
    <3>1. PICK code \in Codes, created \in BOOLEAN, taken \in BOOLEAN, acked \in BOOLEAN :
            s' \in LET good == taken /\ (code = "2xx" => acked) IN
                   CASE s.req = "INVITE" -> InviteAnswer(x, code, created, good)
                     [] s.req = "REINVITE" -> ReinviteAnswer(x, code, good)
                     [] s.req = "BYE" -> ByeAnswer(x, code, good)
      BY <1>3 DEF Answered
    <3> DEFINE good == taken /\ (code = "2xx" => acked)
    <3>2. good \in BOOLEAN
      OBVIOUS
    <3> QED
      BY <3>1, <3>2
  <2>5. PICK code \in Codes, created \in BOOLEAN, good \in BOOLEAN :
          s' \in CASE s.req = "INVITE" -> InviteAnswer(x, code, created, good)
                   [] s.req = "REINVITE" -> ReinviteAnswer(x, code, good)
                   [] s.req = "BYE" -> ByeAnswer(x, code, good)
    BY <2>1
  <2> HIDE DEF x
  <2>2. CASE s.req = "INVITE"
    BY <1>2, <2>5, <2>2, InviteAnswered
  <2>3. CASE s.req = "REINVITE"
    BY <1>2, <2>5, <2>3, ReinviteAnswered
  <2>4. CASE s.req = "BYE"
    BY <1>2, <2>5, <2>4, ByeAnswered
  <2> QED
    BY <1>1, <2>2, <2>3, <2>4
<1>4. CASE Failed
  <2>1. s' \in CASE s.req = "INVITE" -> EndOrDeref(x)
                 [] s.req = "REINVITE" -> UNION {ReinviteOut(x, t) : t \in BOOLEAN}
                 [] s.req = "BYE" -> Deref(x)
    BY <1>4 DEF Failed
  <2> HIDE DEF x
  <2>2. CASE s.req = "INVITE"
    BY <1>2, <2>1, <2>2, EndSound
  <2>3. CASE s.req = "REINVITE"
    <3>1. PICK t \in BOOLEAN : s' \in ReinviteOut(x, t)
      BY <2>1, <2>3
    <3> QED
      BY <1>2, <3>1, ReinviteOutSound
  <2>4. CASE s.req = "BYE"
    <3>1. x.terminated # 0
      BY <1>2, <2>4 DEF Loose, Ending
    <3> QED
      BY <1>2, <2>1, <2>4, <3>1, EndSound DEF EndOrDeref
  <2> QED
    BY <1>1, <2>2, <2>3, <2>4
<1> QED
  BY <1>3, <1>4
(* An INFO request ends, and may end the session. *)
LEMMA InfoStep == ASSUME Inv, InfoEnds PROVE Sound(s')
<1>1. Live /\ s.requestl > 0 /\ s \in Sessions /\ Ending(s) /\ Alive(s) /\ Sound(s)
  BY LiveSound DEF InfoEnds
<1>2. PICK x \in SipsessTerminate(s) \cup {s} : s' \in RequestReleased(x)
  BY DEF InfoEnds
<1>3. Sound(x) /\ x.requestl = s.requestl
  BY <1>1, <1>2, TerminatedSound
<1>4. x \in Sessions /\ Ending(x) /\ Alive(x) /\ x.requestl \in 1 .. MaxInfo
  <2>1. x.requestl > 0
    BY <1>1, <1>3
  <2>2. x \in Sessions /\ Ending(x) /\ Alive(x)
    BY <1>3, <2>1 DEF Sound, Released, Waits
  <2> QED
    BY <2>1, <2>2 DEF Sessions
<1> DEFINE y == [x EXCEPT !.requestl = @ - 1]
<1>5. x.requestl - 1 \in 0 .. MaxInfo
  BY <1>4, SessionAssumption
<1>6. y \in Sessions
  BY <1>4, <1>5, PutNumber
<1>7. /\ y.phase = x.phase /\ y.refs = x.refs /\ y.user = x.user
      /\ y.terminated = x.terminated /\ y.established = x.established
      /\ y.peerterm = x.peerterm /\ y.st = x.st /\ y.tmr = x.tmr
      /\ y.req = x.req /\ y.replyl = x.replyl /\ y.requestl = x.requestl - 1
      /\ y.closed = x.closed /\ y.bye = x.bye
  BY <1>4 DEF Sessions
<1>8. s' \in IF y.terminated > 0 /\ y.requestl = 0 THEN Deref(y) ELSE {y}
  BY <1>2 DEF RequestReleased
<1> HIDE DEF y
<1>9. Ending(y)
  BY <1>4, <1>7 DEF Ending
<1>10. CASE y.terminated > 0 /\ y.requestl = 0
  <2>1. y.refs = Held(y) + 1
    BY <1>4, <1>7, <1>10 DEF Alive, Held, Pending, Count
  <2>2. y.phase = "live" /\ y.terminated # 0 /\ s' \in Deref(y)
    BY <1>4, <1>7, <1>8, <1>10 DEF Alive
  <2> QED
    BY <1>6, <1>9, <2>1, <2>2, DerefFacts
<1>11. CASE ~(y.terminated > 0 /\ y.requestl = 0)
  <2>1. y.terminated \in {0, 1, 2}
    BY <1>6 DEF Sessions
  <2>2. Alive(y)
    BY <1>4, <1>5, <1>7, <1>11, <2>1 DEF Alive, Held, Pending, Count
  <2> QED
    BY <1>6, <1>8, <1>9, <1>11, <2>2 DEF Sound
<1> QED
  BY <1>10, <1>11

(* bye_handler() and cancel_handler() *)
LEMMA PeerEndsStep == ASSUME Inv, PeerBye \/ PeerCancel PROVE Sound(s')
<1>1. Live /\ s \in Sessions /\ Ending(s) /\ Alive(s)
  BY LiveSound DEF PeerBye, PeerCancel
<1>2. PICK x : /\ s' \in SipsessTerminate(x)
               /\ \/ \E seq \in 0 .. MaxSeq :
                       x = [s EXCEPT !.rseq = seq, !.peerterm = TRUE, !.st = FALSE]
                  \/ x = [s EXCEPT !.st = FALSE, !.peerterm = TRUE]
  BY DEF PeerBye, PeerCancel
<1>3. /\ x \in Sessions /\ x.phase = s.phase /\ x.refs = s.refs /\ x.user = s.user
      /\ x.terminated = s.terminated /\ x.established = s.established
      /\ x.peerterm = TRUE /\ x.st = FALSE /\ x.tmr = s.tmr
      /\ x.req = s.req /\ x.replyl = s.replyl /\ x.requestl = s.requestl
      /\ x.closed = s.closed /\ x.bye = s.bye
  <2>1. CASE \E seq \in 0 .. MaxSeq :
               x = [s EXCEPT !.rseq = seq, !.peerterm = TRUE, !.st = FALSE]
    <3>1. PICK seq \in 0 .. MaxSeq :
            x = [s EXCEPT !.rseq = seq, !.peerterm = TRUE, !.st = FALSE]
      BY <2>1
    <3>2. [s EXCEPT !.rseq = seq] \in Sessions
      BY <1>1, PutNumber
    <3>3. [s EXCEPT !.rseq = seq, !.peerterm = TRUE] \in Sessions
      BY <3>2, PutFlag
    <3>4. x \in Sessions
      BY <3>1, <3>3, PutFlag
    <3> QED
      BY <1>1, <3>1, <3>4 DEF Sessions
  <2>2. CASE x = [s EXCEPT !.st = FALSE, !.peerterm = TRUE]
    <3>1. [s EXCEPT !.st = FALSE] \in Sessions
      BY <1>1, PutFlag
    <3>2. x \in Sessions
      BY <2>2, <3>1, PutFlag
    <3> QED
      BY <1>1, <2>2, <3>2 DEF Sessions
  <2> QED
    BY <1>2, <2>1, <2>2
<1>4. Ending(x)
  BY <1>1, <1>3 DEF Ending
<1>5. Alive(x)
  BY <1>1, <1>3 DEF Alive, Held, Pending
<1> QED
  BY <1>2, <1>3, <1>4, <1>5, TerminatedSound

(* ack_handler() and tmr_handler() of reply.c *)
LEMMA ReplyStep == ASSUME Inv, PeerAck \/ NoAck PROVE Sound(s')
<1>1. Live
  BY DEF PeerAck, NoAck
<1>2. CASE NoAck
  <2>1. PICK r \in s.replyl :
          LET x == [s EXCEPT !.replyl = @ \ {r}] IN
          s' \in IF x.replyl # {} THEN {x}
                 ELSE EndOrDeref([x EXCEPT !.established = TRUE])
    BY <1>2 DEF NoAck
  <2> DEFINE x == [s EXCEPT !.replyl = @ \ {r}]
  <2>2. s' \in IF x.replyl # {} THEN {x}
               ELSE EndOrDeref([x EXCEPT !.established = TRUE])
    BY <2>1
  <2>3. /\ x.replyl # {} => Sound(x)
        /\ x.replyl = {} => Loose([x EXCEPT !.established = TRUE])
    BY <1>1, ReplyGone
  <2> HIDE DEF x
  <2> QED
    BY <2>2, <2>3, EndSound
<1>3. CASE PeerAck
  <2>1. PICK r \in s.replyl, good \in BOOLEAN : s' \in AckFor(r, good)
    BY <1>3 DEF PeerAck
  <2> DEFINE x == [s EXCEPT !.replyl = @ \ {r}]
             y == IF r.awaiting THEN [x EXCEPT !.awaiting_answer = FALSE] ELSE x
             m == IF y.modify_pending /\ y.replyl = {} THEN Reinvite(y) ELSE {y}
  <2>2. /\ x.replyl # {} => Sound(x)
        /\ x.replyl = {} => Loose([x EXCEPT !.established = TRUE])
        /\ s.terminated = 0 => Core(x, s)
        /\ x \in Sessions /\ x.terminated = s.terminated
    BY <1>1, ReplyGone
  <2>3. /\ s.terminated > 0 =>
             s' \in IF x.replyl = {} THEN Deref([x EXCEPT !.established = TRUE]) ELSE {x}
        /\ ~(s.terminated > 0) =>
             \/ s' \in m
             \/ \E z \in m : \/ s' = [z EXCEPT !.established = TRUE]
                             \/ s' \in SipsessTerminate([z EXCEPT !.established = TRUE])
    BY <2>1 DEF AckFor
  <2> HIDE DEF x
  <2>4. CASE s.terminated > 0
    <3>1. CASE x.replyl = {}
      <4> DEFINE e == [x EXCEPT !.established = TRUE]
      <4>1. Loose(e) /\ s' \in Deref(e)
        BY <2>2, <2>3, <2>4, <3>1
      <4>2. e.terminated # 0
        BY <2>2, <2>4 DEF Sessions
      <4> HIDE DEF e
      <4> QED
        BY <4>1, <4>2, EndSound DEF EndOrDeref
    <3>2. CASE x.replyl # {}
      BY <2>2, <2>3, <2>4, <3>2
    <3> QED
      BY <3>1, <3>2
  <2>5. CASE ~(s.terminated > 0)
    <3>1. s.terminated = 0 /\ Loose(s)
      BY <1>1, <2>5, LiveSound
    <3>2. Core(y, x)
      BY <2>2, FlagCore DEF Core
    <3> HIDE DEF y
    <3>3. Loose(y) /\ y.terminated = 0 /\ Sound(y) /\ y.phase = "live"
      BY <2>2, <3>1, <3>2, CoreTwice, CoreKeeps
    <3>4. \A z \in m : Sound(z) /\ z.terminated = 0 /\ z.phase = "live"
      BY <3>3, ReinviteSound
    <3> HIDE DEF m
    <3>5. CASE s' \in m
      BY <3>4, <3>5
    <3>6. CASE \E z \in m : \/ s' = [z EXCEPT !.established = TRUE]
                            \/ s' \in SipsessTerminate([z EXCEPT !.established = TRUE])
      <4>1. PICK z \in m : \/ s' = [z EXCEPT !.established = TRUE]
                           \/ s' \in SipsessTerminate([z EXCEPT !.established = TRUE])
        BY <3>6
      <4> DEFINE e == [z EXCEPT !.established = TRUE]
      <4>2. Loose(z) /\ z.terminated = 0 /\ z \in Sessions
        BY <3>4, Unterminated DEF Loose
      <4>3. Core(e, z)
        BY <4>2, FlagCore
      <4>4. s' = e \/ s' \in SipsessTerminate(e)
        BY <4>1
      <4> HIDE DEF e
      <4> QED
        BY <4>2, <4>3, <4>4, CoreKeeps, TerminatedSound
    <3> QED
      BY <2>3, <2>5, <3>5, <3>6
  <2> QED
    BY <2>4, <2>5
<1> QED
  BY <1>2, <1>3

-----------------------------------------------------------------------------
(* The invariant holds of a session that was not allocated. *)
LEMMA InvInit == Init => Inv
  BY FreshFacts, SessionAssumption DEF Init, Inv, TypeOK

(* One step of the specification. *)
LEMMA InvStep == Inv /\ [Next]_vars => Inv'
<1> SUFFICES ASSUME Inv, [Next]_vars PROVE Inv'
  OBVIOUS
<1>1. TypeOK
  BY DEF Inv
<1>2. ASSUME Sound(s'), acks' \in 0 .. MaxAcks, modified' \in 0 .. MaxLoop PROVE Inv'
  BY <1>2 DEF Inv, TypeOK, Sound, Alive, Released
<1>3. CASE Answered
  <2>1. modified' = modified /\ acks' \in {acks, acks + 1}
        /\ (acks' = acks + 1 => acks < MaxAcks)
    BY <1>1, <1>3 DEF Answered, Ack, TypeOK
  <2>2. modified' \in 0 .. MaxLoop /\ acks' \in 0 .. MaxAcks
    BY <1>1, <2>1, SessionAssumption DEF TypeOK
  <2> QED
    BY <1>2, <1>3, <2>2, RequestStep
<1>4. CASE Modify
  <2>1. modified' \in 0 .. MaxLoop /\ acks' \in 0 .. MaxAcks
    BY <1>1, <1>4, SessionAssumption DEF TypeOK, Modify
  <2> QED
    BY <1>2, <1>4, <2>1, UserStep
<1>5. CASE AckExpires
  <2>1. acks' \in 0 .. MaxAcks /\ s' = s /\ modified' = modified
    BY <1>1, <1>5, SessionAssumption DEF TypeOK, AckExpires
  <2> QED
    BY <2>1 DEF Inv, TypeOK
<1>6. CASE UNCHANGED vars
  BY <1>6 DEF Inv, TypeOK, vars
<1>7. CASE UNCHANGED <<modified, acks>> /\ Sound(s')
  BY <1>1, <1>2, <1>7 DEF TypeOK
<1>8. CASE Connect \/ Accept
  BY <1>7, <1>8, BeginStep DEF Connect, Accept
<1>9. CASE Progress \/ Answer \/ Info \/ PeerInfo \/ PeerReinvite
  BY <1>7, <1>9, QuietStep DEF Progress, Answer, Info, PeerInfo, PeerReinvite
<1>10. CASE ModifyTimer \/ Release
  BY <1>7, <1>10, UserStep DEF ModifyTimer, Release
<1>11. CASE Failed
  BY <1>7, <1>11, RequestStep DEF Failed
<1>12. CASE InfoEnds
  BY <1>7, <1>12, InfoStep DEF InfoEnds
<1>13. CASE PeerBye \/ PeerCancel
  BY <1>7, <1>13, PeerEndsStep DEF PeerBye, PeerCancel
<1>14. CASE PeerAck \/ NoAck
  BY <1>7, <1>14, ReplyStep DEF PeerAck, NoAck
<1> QED
  BY <1>3, <1>4, <1>5, <1>6, <1>8, <1>9, <1>10, <1>11, <1>12, <1>13, <1>14 DEF Next

(* Inv is an invariant of the specification. *)
THEOREM Invariance == Spec => []Inv
  BY InvInit, InvStep, PTL DEF Spec

(* The references of the invariant are those of the property. *)
LEMMA InvReferences == Inv => ReferencesAddUp
<1> SUFFICES ASSUME Inv PROVE ReferencesAddUp
  OBVIOUS
<1>1. s.phase \in {"none", "live", "freed"}
  BY DEF Inv, TypeOK, Sessions
<1>2. CASE s.phase = "none"
  BY <1>2 DEF ReferencesAddUp, Live
<1>3. CASE s.phase = "live"
  <2>1. Alive(s)
    BY <1>3, LiveSound DEF Live
  <2> QED
    BY <1>3, <2>1 DEF ReferencesAddUp, Alive, Held, Pending
<1>4. CASE s.phase = "freed"
  <2>1. Released(s)
    BY <1>4 DEF Inv, Sound, Alive
  <2> QED
    BY <1>4, <2>1 DEF ReferencesAddUp, Released, Live
<1> QED
  BY <1>1, <1>2, <1>3, <1>4

(* The ending of the invariant is that of the property. *)
LEMMA InvBye == Inv => EstablishedEndsWithBye
<1> SUFFICES ASSUME Inv PROVE EstablishedEndsWithBye
  OBVIOUS
<1>1. CASE s.phase = "none"
  <2>1. s.bye = "none" /\ s.closed = 0
    BY <1>1, FreshFacts DEF Inv
  <2> QED
    BY <1>1, <2>1 DEF EstablishedEndsWithBye
<1>2. CASE s.phase # "none"
  <2>1. Ending(s) /\ (Alive(s) \/ Released(s))
    BY <1>2 DEF Inv, Sound
  <2> QED
    BY <2>1 DEF EstablishedEndsWithBye, Ending, Alive, Released
<1> QED
  BY <1>1, <1>2

(* The references of a session add up in every state: it is released       *)
(* neither while an answer, an ACK or an INFO can still reach it, nor      *)
(* never (termwait, terminate and the handlers of sipsess).                *)
THEOREM AddUp == Spec => []ReferencesAddUp
  BY Invariance, InvReferences, PTL

(* An established session is not released without a BYE of one of the two  *)
(* sides, a BYE belongs to an established session that is terminated, and  *)
(* the user is told at most once that its session was closed.              *)
THEOREM EndsWithBye == Spec => []EstablishedEndsWithBye
  BY Invariance, InvBye, PTL
=============================================================================
