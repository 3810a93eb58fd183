---------------------------- MODULE DialerProofs ----------------------------
(***************************************************************************)
(* Proofs about Dialer, for every number of contacts and of RTP sessions   *)
(* and every setting of the campaign.  Inv is the inductive invariant of   *)
(* the calls, their RTP sessions and their rows; ListInv, on top of it,    *)
(* that of the two lists, the pool and what becomes of a contact; and      *)
(* SpacingInv that of the retry delay.                                     *)
(***************************************************************************)
EXTENDS Dialer, FiniteSetTheorems, SequenceTheorems, TLAPS

-----------------------------------------------------------------------------
(* Lists without repetition *)

Distinct(l) == \A i, j \in DOMAIN l : i # j => l[i] # l[j]

(* list_append puts one element more at the end. *)
LEMMA AppendFacts ==
    ASSUME NEW S, NEW l \in Seq(S), NEW e \in S
    PROVE  /\ Append(l, e) \in Seq(S) /\ Len(Append(l, e)) = Len(l) + 1
           /\ ToSet(Append(l, e)) = ToSet(l) \cup {e}
           /\ Distinct(l) /\ e \notin ToSet(l) => Distinct(Append(l, e))
<1>1. /\ Append(l, e) \in Seq(S) /\ Len(Append(l, e)) = Len(l) + 1
      /\ Len(l) \in Nat /\ DOMAIN l = 1..Len(l)
      /\ DOMAIN Append(l, e) = 1..Len(l) + 1
      /\ \A i \in 1..Len(l) : Append(l, e)[i] = l[i]
      /\ Append(l, e)[Len(l) + 1] = e
  BY AppendProperties, LenProperties
<1>2. ToSet(Append(l, e)) = ToSet(l) \cup {e}
  <2>1. ASSUME NEW x \in ToSet(Append(l, e)) PROVE x \in ToSet(l) \cup {e}
    BY <2>1, <1>1 DEF ToSet
  <2>2. ASSUME NEW x \in ToSet(l) \cup {e} PROVE x \in ToSet(Append(l, e))
    <3>1. CASE x \in ToSet(l)
      <4>1. PICK i \in 1..Len(l) : l[i] = x BY <3>1, <1>1 DEF ToSet
      <4>2. i \in 1..Len(l) + 1 /\ Append(l, e)[i] = x BY <4>1, <1>1
      <4> QED BY <4>2, <1>1 DEF ToSet
    <3>2. CASE x = e
      <4>1. Len(l) + 1 \in 1..Len(l) + 1 BY <1>1
      <4> QED BY <3>2, <4>1, <1>1 DEF ToSet
    <3> QED BY <2>2, <3>1, <3>2
  <2> QED BY <2>1, <2>2
<1>3. ASSUME Distinct(l), e \notin ToSet(l) PROVE Distinct(Append(l, e))
  <2>1. \A i \in 1..Len(l) : l[i] # e BY <1>1, <1>3 DEF ToSet
  <2> QED BY <1>1, <1>3, <2>1 DEF Distinct
<1> QED BY <1>1, <1>2, <1>3

(* The list without its first element. *)
LEMMA TailFacts ==
    ASSUME NEW S, NEW l \in Seq(S), l # << >>
    PROVE  /\ Head(l) \in S /\ Head(l) \in ToSet(l)
           /\ Tail(l) \in Seq(S) /\ Len(Tail(l)) = Len(l) - 1
           /\ ToSet(Tail(l)) \subseteq ToSet(l)
           /\ ToSet(l) = ToSet(Tail(l)) \cup {Head(l)}
           /\ Distinct(l) => Distinct(Tail(l)) /\ Head(l) \notin ToSet(Tail(l))
<1>1. /\ Len(l) \in Nat \ {0} /\ DOMAIN l = 1..Len(l)
      /\ Head(l) \in S /\ Head(l) = l[1]
      /\ Tail(l) \in Seq(S) /\ Len(Tail(l)) = Len(l) - 1
      /\ DOMAIN Tail(l) = 1..Len(l) - 1
      /\ \A i \in 1..Len(l) - 1 : Tail(l)[i] = l[i + 1]
  BY HeadTailProperties, LenProperties, EmptySeq
<1>2. Head(l) \in ToSet(l) BY <1>1 DEF ToSet
<1>3. ASSUME NEW x \in ToSet(Tail(l)) PROVE x \in ToSet(l)
  <2>1. PICK i \in 1..Len(l) - 1 : l[i + 1] = x BY <1>1, <1>3 DEF ToSet
  <2>2. i + 1 \in DOMAIN l BY <1>1
  <2> QED BY <2>1, <2>2 DEF ToSet
<1>4. ASSUME NEW x \in ToSet(l) PROVE x \in ToSet(Tail(l)) \cup {Head(l)}
  <2>1. PICK i \in 1..Len(l) : l[i] = x BY <1>1, <1>4 DEF ToSet
  <2>2. CASE i = 1 BY <2>1, <2>2, <1>1
  <2>3. CASE i # 1
    <3>1. i - 1 \in 1..Len(l) - 1 /\ Tail(l)[i - 1] = x BY <2>1, <2>3, <1>1
    <3> QED BY <3>1, <1>1 DEF ToSet
  <2> QED BY <2>2, <2>3
<1>5. ASSUME Distinct(l) PROVE Distinct(Tail(l)) /\ Head(l) \notin ToSet(Tail(l))
  <2>1. \A i, j \in 1..Len(l) : i # j => l[i] # l[j] BY <1>1, <1>5 DEF Distinct
  <2>2. Distinct(Tail(l))
    <3>1. SUFFICES ASSUME NEW i \in 1..Len(l) - 1, NEW j \in 1..Len(l) - 1, i # j
                   PROVE Tail(l)[i] # Tail(l)[j]
      BY <1>1 DEF Distinct
    <3>2. i + 1 \in 1..Len(l) /\ j + 1 \in 1..Len(l) /\ i + 1 # j + 1 BY <1>1, <3>1
    <3> QED BY <2>1, <3>2, <1>1
  <2>3. ASSUME NEW i \in 1..Len(l) - 1 PROVE Tail(l)[i] # Head(l)
    <3>1. i + 1 \in 1..Len(l) /\ 1 \in 1..Len(l) /\ i + 1 # 1 BY <1>1
    <3> QED BY <2>1, <3>1, <1>1
  <2> QED BY <2>2, <2>3, <1>1 DEF ToSet
<1> QED BY <1>1, <1>2, <1>3, <1>4, <1>5

(* list_unlink takes one element out and keeps the others apart. *)
LEMMA UnlinkFacts ==
    ASSUME NEW S, NEW l \in Seq(S), NEW e
    PROVE  /\ Unlink(l, e) \in Seq(S) /\ Len(Unlink(l, e)) <= Len(l)
           /\ Distinct(l) => /\ ToSet(Unlink(l, e)) = ToSet(l) \ {e}
                             /\ Distinct(Unlink(l, e))
<1>1. Len(l) \in Nat /\ DOMAIN l = 1..Len(l) /\ \A i \in 1..Len(l) : l[i] \in S
  BY LenProperties, ElementOfSeq
<1>2. CASE e \notin ToSet(l)
  BY <1>1, <1>2 DEF Unlink
<1>3. CASE e \in ToSet(l)
  <2> DEFINE k == CHOOSE i \in DOMAIN l : l[i] = e
             u == Unlink(l, e)
  <2>1. k \in 1..Len(l) /\ l[k] = e BY <1>1, <1>3 DEF ToSet
  <2>2. u = SubSeq(l, 1, k - 1) \o SubSeq(l, k + 1, Len(l))
    BY <1>3 DEF Unlink, RemoveAt
  <2> DEFINE a == SubSeq(l, 1, k - 1)
             b == SubSeq(l, k + 1, Len(l))
  <2> HIDE DEF k, u
  <2>3. a \in Seq(S) /\ Len(a) = k - 1 /\ \A i \in 1..k - 1 : a[i] = l[i]
    <3>1. \A i \in 1..k - 1 : l[i] \in S BY <1>1, <2>1
    <3>2. 1 \in Int /\ k - 1 \in Int BY <1>1, <2>1
    <3>3. /\ a \in Seq(S) /\ Len(a) = IF 1 <= k - 1 THEN (k - 1) - 1 + 1 ELSE 0
          /\ \A i \in 1..(k - 1) - 1 + 1 : a[i] = l[1 + i - 1]
      BY <3>1, <3>2, SubSeqProperties
    <3> HIDE DEF a
    <3> QED BY <3>3, <1>1, <2>1
  <2>4. b \in Seq(S) /\ Len(b) = Len(l) - k /\ \A i \in 1..Len(l) - k : b[i] = l[k + i]
    <3>1. \A i \in k + 1..Len(l) : l[i] \in S BY <1>1, <2>1
    <3>2. k + 1 \in Int /\ Len(l) \in Int BY <1>1, <2>1
    <3>3. /\ b \in Seq(S)
          /\ Len(b) = IF k + 1 <= Len(l) THEN Len(l) - (k + 1) + 1 ELSE 0
          /\ \A i \in 1..Len(l) - (k + 1) + 1 : b[i] = l[k + 1 + i - 1]
      BY <3>1, <3>2, SubSeqProperties
    <3> HIDE DEF b
    <3>4. Len(b) = Len(l) - k
      <4>1. Len(b) = IF k + 1 <= Len(l) THEN Len(l) - (k + 1) + 1 ELSE 0 BY <3>3
      <4>2. Len(l) \in Nat /\ k \in 1..Len(l) BY <1>1, <2>1
      <4> QED BY <4>1, <4>2
    <3>5. ASSUME NEW i \in 1..Len(l) - k PROVE b[i] = l[k + i]
      <4>1. i \in 1..Len(l) - (k + 1) + 1 /\ k + 1 + i - 1 = k + i BY <1>1, <2>1
      <4> QED BY <4>1, <3>3
    <3> QED BY <3>3, <3>4, <3>5
  <2>5. /\ u \in Seq(S) /\ Len(u) = Len(l) - 1
        /\ \A i \in 1..Len(l) - 1 : u[i] = IF i < k THEN l[i] ELSE l[i + 1]
    <3> HIDE DEF a, b
    <3>1. /\ u \in Seq(S) /\ Len(u) = Len(a) + Len(b)
          /\ \A i \in 1..Len(a) + Len(b) :
                u[i] = IF i <= Len(a) THEN a[i] ELSE b[i - Len(a)]
      BY <2>2, <2>3, <2>4, ConcatProperties DEF a, b
    <3>2. u \in Seq(S) /\ Len(u) = Len(l) - 1 BY <3>1, <2>1, <2>3, <2>4, <1>1
    <3>3. ASSUME NEW i \in 1..Len(l) - 1
          PROVE u[i] = IF i < k THEN l[i] ELSE l[i + 1]
      <4>1. CASE i < k
        <5>1. i \in 1..k - 1 /\ i <= k - 1 /\ i \in 1..Len(a) + Len(b)
          BY <4>1, <2>1, <2>3, <2>4, <1>1
        <5>2. u[i] = a[i] BY <5>1, <3>1, <2>3
        <5> QED BY <5>1, <5>2, <4>1, <2>3
      <4>2. CASE ~(i < k)
        <5>1. /\ i - (k - 1) \in 1..Len(l) - k /\ ~(i <= k - 1)
              /\ k + (i - (k - 1)) = i + 1 /\ i \in 1..Len(a) + Len(b)
          BY <4>2, <2>1, <2>3, <2>4, <1>1
        <5>2. u[i] = b[i - (k - 1)] BY <5>1, <3>1, <2>3
        <5>3. b[i - (k - 1)] = l[k + (i - (k - 1))] BY <5>1, <2>4
        <5> QED BY <5>1, <5>2, <5>3, <4>2
      <4> QED BY <4>1, <4>2
    <3> QED BY <3>2, <3>3
  <2>6. DOMAIN u = 1..Len(l) - 1 BY <2>5, LenProperties
  <2>7. CASE ~Distinct(l) BY <2>5, <2>7, <1>1 DEF u
  <2>8. SUFFICES ASSUME Distinct(l)
                 PROVE  Distinct(u) /\ ToSet(u) = ToSet(l) \ {e}
    BY <2>5, <2>7, <1>1 DEF u
  <2>11. \A i, j \in 1..Len(l) : i # j => l[i] # l[j] BY <2>8, <1>1 DEF Distinct
  <2>12. Distinct(u) BY <2>1, <2>5, <2>6, <2>11, <1>1 DEF Distinct
  <2>9. ASSUME NEW x \in ToSet(u) PROVE x \in ToSet(l) \ {e}
    <3>1. PICK i \in 1..Len(l) - 1 : u[i] = x BY <2>6, <2>9 DEF ToSet
    <3>2. \E j \in 1..Len(l) : j # k /\ l[j] = x
      <4>1. CASE i < k BY <4>1, <3>1, <2>5, <2>1, <1>1
      <4>2. CASE ~(i < k)
        <5>1. i + 1 \in 1..Len(l) /\ i + 1 # k BY <4>2, <2>1, <1>1
        <5> QED BY <4>2, <5>1, <3>1, <2>5
      <4> QED BY <4>1, <4>2
    <3> QED BY <3>2, <2>11, <2>1, <1>1 DEF ToSet
  <2>10. ASSUME NEW x \in ToSet(l) \ {e} PROVE x \in ToSet(u)
    <3>1. PICK j \in 1..Len(l) : l[j] = x BY <1>1, <2>10 DEF ToSet
    <3>2. CASE j < k
      <4>1. j \in 1..Len(l) - 1 /\ u[j] = x BY <3>1, <3>2, <2>5, <2>1, <1>1
      <4> QED BY <4>1, <2>6 DEF ToSet
    <3>3. CASE j > k
      <4>1. j - 1 \in 1..Len(l) - 1 /\ u[j - 1] = x BY <3>1, <3>3, <2>5, <2>1, <1>1
      <4> QED BY <4>1, <2>6 DEF ToSet
    <3>4. j # k BY <3>1, <2>1, <2>10
    <3> QED BY <3>2, <3>3, <3>4, <2>1
  <2> QED BY <2>9, <2>10, <2>12
<1> QED BY <1>2, <1>3

(* list_sort only changes the order. *)
LEMMA SortFacts ==
    ASSUME NEW l \in Seq(Dest), NEW t \in SortByTries(l),
           try_count \in [Dest -> Nat]
    PROVE  /\ t \in Seq(Dest) /\ Len(t) = Len(l) /\ ToSet(t) = ToSet(l)
           /\ Distinct(l) => Distinct(t)
<1>1. Len(l) \in Nat /\ DOMAIN l = 1..Len(l) /\ \A i \in 1..Len(l) : l[i] \in Dest
  BY LenProperties, ElementOfSeq
<1>2. PICK p \in [1..Len(l) -> 1..Len(l)] :
         /\ t = [i \in 1..Len(l) |-> l[p[i]]]
         /\ \A k \in 1..Len(l) : \E i \in 1..Len(l) : p[i] = k
         /\ \A i, j \in 1..Len(l) : i < j =>
               \/ try_count[l[p[i]]] < try_count[l[p[j]]]
               \/ try_count[l[p[i]]] = try_count[l[p[j]]] /\ p[i] < p[j]
  BY DEF SortByTries
<1>3. \A i \in 1..Len(l) : p[i] \in 1..Len(l) /\ t[i] = l[p[i]] /\ t[i] \in Dest
  BY <1>1, <1>2
<1>4. t \in Seq(Dest) /\ Len(t) = Len(l) /\ DOMAIN t = 1..Len(l)
  <2>1. t \in [1..Len(l) -> Dest] BY <1>2, <1>3
  <2> QED BY <2>1, <1>1
<1>5. ASSUME NEW i \in 1..Len(l), NEW j \in 1..Len(l), i < j PROVE p[i] # p[j]
  <2>1. try_count[l[p[i]]] \in Nat /\ p[i] \in Nat BY <1>1, <1>3
  <2>2. \/ try_count[l[p[i]]] < try_count[l[p[j]]]
        \/ try_count[l[p[i]]] = try_count[l[p[j]]] /\ p[i] < p[j]
    BY <1>2, <1>5
  <2> QED BY <2>1, <2>2
<1>6. ToSet(t) = ToSet(l) BY <1>1, <1>2, <1>3, <1>4 DEF ToSet
<1>7. ASSUME Distinct(l) PROVE Distinct(t)
  <2>1. SUFFICES ASSUME NEW i \in 1..Len(l), NEW j \in 1..Len(l), i # j
                 PROVE t[i] # t[j]
    BY <1>4 DEF Distinct
  <2>2. p[i] # p[j]
    <3>1. i < j \/ j < i BY <2>1, <1>1
    <3> QED BY <3>1, <1>5
  <2> QED BY <2>2, <1>1, <1>3, <1>7 DEF Distinct
<1> QED BY <1>4, <1>6, <1>7

(* A list without repetition has as many elements as it is long. *)
LEMMA CountFacts ==
    ASSUME NEW S, NEW l \in Seq(S), Distinct(l)
    PROVE  IsFiniteSet(ToSet(l)) /\ Cardinality(ToSet(l)) = Len(l)
<1>1. Len(l) \in Nat /\ DOMAIN l = 1..Len(l) BY LenProperties
<1>2. l \in Bijection(1..Len(l), ToSet(l))
  BY <1>1, LenProperties DEF Bijection, Injection, Surjection, IsInjective, ToSet, Distinct
<1>3. ExistsBijection(1..Len(l), ToSet(l)) BY <1>2 DEF ExistsBijection
<1> QED BY <1>1, <1>3, FS_CountingElements, FS_NatBijection

(* SetToSeqs(S) are the lists of all elements of S without repetition. *)
LEMMA AllFacts ==
    ASSUME NEW S, IsFiniteSet(S), NEW l \in SetToSeqs(S)
    PROVE  l \in Seq(S) /\ Distinct(l) /\ ToSet(l) = S
<1> DEFINE n == Cardinality(S)
<1>1. n \in Nat BY FS_CardinalityType
<1>2. l \in [1..n -> S] /\ \A i, j \in 1..n : i # j => l[i] # l[j]
  BY DEF SetToSeqs
<1> HIDE DEF n
<1>3. l \in Seq(S) /\ Len(l) = n /\ DOMAIN l = 1..n BY <1>1, <1>2
<1>4. Distinct(l) BY <1>2, <1>3 DEF Distinct
<1>5. IsFiniteSet(ToSet(l)) /\ Cardinality(ToSet(l)) = n
  BY <1>3, <1>4, CountFacts
<1>6. ToSet(l) \in SUBSET S BY <1>2, <1>3 DEF ToSet
<1>7. ToSet(l) = S BY <1>5, <1>6, FS_Subset DEF n
<1> QED BY <1>3, <1>4, <1>7

-----------------------------------------------------------------------------
(* The fields of a call *)

(* AgeCap is above the three timeouts. *)
LEMMA AgeCapNat == AgeCap \in Nat \ {0}
<1> DEFINE T == {ConnectTimeout, BridgeTimeout, MaxCallDuration}
<1>1. ConnectTimeout \in Nat /\ BridgeTimeout \in Nat /\ MaxCallDuration \in Nat
  BY DialerConstants
<1>2. \E m \in T : \A n \in T : n <= m BY <1>1
<1> DEFINE M == CHOOSE m \in T : \A n \in T : n <= m
<1>3. M \in T BY <1>2
<1>4. AgeCap = 1 + M BY DEF AgeCap
<1> HIDE DEF M
<1> QED BY <1>1, <1>3, <1>4

(* One field of a call is assigned. *)
LEMMA PutStatus ==
    ASSUME NEW c \in CallType,
           NEW v \in {"none", "connecting", "established", "disconnected"}
    PROVE  [c EXCEPT !.status = v] \in CallType
BY DEF CallType

(* The same for ended. *)
LEMMA PutEnded ==
    ASSUME NEW c \in CallType, NEW v \in BOOLEAN
    PROVE  [c EXCEPT !.ended = v] \in CallType
BY DEF CallType

(* The same for sess. *)
LEMMA PutSess ==
    ASSUME NEW c \in CallType, NEW v \in {"none", "inviting", "up", "closed"}
    PROVE  [c EXCEPT !.sess = v] \in CallType
BY DEF CallType

(* The same for age. *)
LEMMA PutAge ==
    ASSUME NEW c \in CallType, NEW v \in 0..AgeCap
    PROVE  [c EXCEPT !.age = v] \in CallType
BY DEF CallType

(* The same for rtp_sess. *)
LEMMA PutRtp ==
    ASSUME NEW c \in CallType, NEW v \in Rtp \cup {None}
    PROVE  [c EXCEPT !.rtp_sess = v] \in CallType
BY DEF CallType

(* The same for num_play. *)
LEMMA PutPlay ==
    ASSUME NEW c \in CallType, NEW v \in 0..MaxPlay
    PROVE  [c EXCEPT !.num_play = v] \in CallType
BY DEF CallType

(* The same for event. *)
LEMMA PutEvent ==
    ASSUME NEW c \in CallType, NEW v \in {"none"} \cup Actions
    PROVE  [c EXCEPT !.event = v] \in CallType
BY DEF CallType

(* The same for join_pbx. *)
LEMMA PutJoin ==
    ASSUME NEW c \in CallType, NEW v \in BOOLEAN
    PROVE  [c EXCEPT !.join_pbx = v] \in CallType
BY DEF CallType

(* The same for forwarded. *)
LEMMA PutForwarded ==
    ASSUME NEW c \in CallType, NEW v \in BOOLEAN
    PROVE  [c EXCEPT !.forwarded = v] \in CallType
BY DEF CallType

(* The fields of NULL. *)
LEMMA NoCallFacts ==
    /\ NoCall \in CallType /\ NoCall.rtp_sess = None /\ NoCall.status = "none"
    /\ NoCall.sess = "none" /\ NoCall.forwarded = FALSE /\ NoCall.ended = FALSE
<1>1. AgeCap \in Nat /\ MaxPlay \in Nat BY AgeCapNat, DialerConstants
<1>2. 0 \in 0..AgeCap /\ 0 \in 0..MaxPlay BY <1>1
<1>3. NoCall \in CallType BY <1>2 DEF NoCall, CallType
<1> QED BY <1>3 DEF NoCall

(* What may be assigned to a call in use keeps its session and its leg. *)
Like(b, c) ==
    b \in CallType /\ b.rtp_sess = c.rtp_sess /\ b.forwarded = c.forwarded

(* establish_handler *)
LEMMA AnsweredFacts ==
    ASSUME NEW c \in CallType
    PROVE  /\ Like(Answered(c), c) /\ Answered(c).status = "established"
           /\ Answered(c).sess = "up"
           /\ Like(Unusable(c), c) /\ Unusable(c).status = "established"
           /\ Unusable(c).sess = "none"
<1> DEFINE c1 == [c EXCEPT !.status = "established"]
           c2 == [c1 EXCEPT !.sess = "up"]
           c3 == [c2 EXCEPT !.age = 0]
           c4 == [c3 EXCEPT !.sess = "none"]
<1>1. Answered(c) = c3 /\ Unusable(c) = [c4 EXCEPT !.ended = TRUE]
  BY DEF Answered, Unusable
<1>2. 0 \in 0..AgeCap BY AgeCapNat
<1>3. c1 \in CallType BY PutStatus
<1>4. c2 \in CallType BY <1>3, PutSess
<1>5. c3 \in CallType BY <1>4, <1>2, PutAge
<1>6. c4 \in CallType BY <1>5, PutSess
<1>7. [c4 EXCEPT !.ended = TRUE] \in CallType BY <1>6, PutEnded
<1>8. /\ c3.rtp_sess = c.rtp_sess /\ c3.forwarded = c.forwarded
      /\ c3.status = "established" /\ c3.sess = "up"
      /\ [c4 EXCEPT !.ended = TRUE].rtp_sess = c.rtp_sess
      /\ [c4 EXCEPT !.ended = TRUE].forwarded = c.forwarded
      /\ [c4 EXCEPT !.ended = TRUE].status = "established"
      /\ [c4 EXCEPT !.ended = TRUE].sess = "none"
  BY DEF CallType
<1> HIDE DEF c3, c4
<1> QED BY <1>1, <1>5, <1>7, <1>8 DEF Like

(* close_handler *)
LEMMA ClosedFacts ==
    ASSUME NEW c \in CallType
    PROVE  /\ Like(Closed(c), c) /\ Closed(c).status = c.status
           /\ Closed(c).sess = "closed"
<1> DEFINE c1 == [c EXCEPT !.sess = "closed"]
<1>1. Closed(c) = [c1 EXCEPT !.ended = TRUE] BY DEF Closed
<1>2. c1 \in CallType BY PutSess
<1>3. [c1 EXCEPT !.ended = TRUE] \in CallType BY <1>2, PutEnded
<1>4. /\ [c1 EXCEPT !.ended = TRUE].rtp_sess = c.rtp_sess
      /\ [c1 EXCEPT !.ended = TRUE].forwarded = c.forwarded
      /\ [c1 EXCEPT !.ended = TRUE].status = c.status
      /\ [c1 EXCEPT !.ended = TRUE].sess = "closed"
  BY DEF CallType
<1> HIDE DEF c1
<1> QED BY <1>1, <1>3, <1>4 DEF Like

(* One second passes. *)
LEMMA OlderFacts ==
    ASSUME NEW c \in CallType
    PROVE  /\ Like(Older(c), c) /\ Older(c).status = c.status
           /\ Older(c).sess = c.sess /\ (c = NoCall => Older(c) = NoCall)
<1>1. CASE c = NoCall BY <1>1 DEF Older, Like
<1>2. CASE c # NoCall
  <2> DEFINE b == [c EXCEPT !.age = Up(c.age, AgeCap)]
  <2>1. Older(c) = b BY <1>2 DEF Older
  <2>2. c.age \in 0..AgeCap BY DEF CallType
  <2>3. Up(c.age, AgeCap) \in 0..AgeCap BY <2>2, AgeCapNat DEF Up
  <2>4. b \in CallType BY <2>3, PutAge
  <2>5. /\ b.rtp_sess = c.rtp_sess /\ b.forwarded = c.forwarded
        /\ b.status = c.status /\ b.sess = c.sess
    BY DEF CallType
  <2> HIDE DEF b
  <2> QED BY <1>2, <2>1, <2>4, <2>5 DEF Like
<1> QED BY <1>1, <1>2

(* rtp_recv_handler *)
LEMMA PressedFacts ==
    ASSUME NEW c \in CallType, NEW action \in Actions
    PROVE  /\ Like(Pressed(c, action), c) /\ Pressed(c, action).status = c.status
           /\ Pressed(c, action).sess = c.sess
<1> DEFINE c1 == [c EXCEPT !.event = action]
           v == c.ended \/ action = "hangup"
           b == [c1 EXCEPT !.ended = v]
<1>1. c1 \in CallType BY PutEvent
<1>2. v \in BOOLEAN OBVIOUS
<1>3. b \in CallType BY <1>1, <1>2, PutEnded
<1>4. /\ b.rtp_sess = c.rtp_sess /\ b.forwarded = c.forwarded
      /\ b.status = c.status /\ b.sess = c.sess
  BY DEF CallType
<1>5. Pressed(c, action) = b BY DEF Pressed
<1> HIDE DEF b
<1> QED BY <1>3, <1>4, <1>5 DEF Like

(* rtpThread counts the recording. *)
LEMMA PlayedFacts ==
    ASSUME NEW c \in CallType
    PROVE  /\ LET b == [c EXCEPT !.num_play = Up(@, MaxPlay)]
              IN  Like(b, c) /\ b.status = c.status /\ b.sess = c.sess
           /\ c.num_play < MaxPlay =>
                LET b == [c EXCEPT !.num_play = @ + 1]
                IN  Like(b, c) /\ b.status = c.status /\ b.sess = c.sess
<1>1. c.num_play \in 0..MaxPlay /\ MaxPlay \in Nat BY DialerConstants DEF CallType
<1>2. Up(c.num_play, MaxPlay) \in 0..MaxPlay BY <1>1 DEF Up
<1>3. c.num_play < MaxPlay => c.num_play + 1 \in 0..MaxPlay BY <1>1
<1>4. ASSUME NEW n \in 0..MaxPlay
      PROVE  LET b == [c EXCEPT !.num_play = n]
             IN  Like(b, c) /\ b.status = c.status /\ b.sess = c.sess
  <2> DEFINE b == [c EXCEPT !.num_play = n]
  <2>1. b \in CallType BY PutPlay
  <2>2. /\ b.rtp_sess = c.rtp_sess /\ b.forwarded = c.forwarded
        /\ b.status = c.status /\ b.sess = c.sess
    BY DEF CallType
  <2> QED BY <2>1, <2>2 DEF Like
<1> QED BY <1>2, <1>3, <1>4

(* on_call_end ends the call. *)
LEMMA EndedFacts ==
    ASSUME NEW c \in CallType
    PROVE  LET b == [c EXCEPT !.ended = TRUE, !.sess = "none",
                              !.status = "disconnected"]
           IN  Like(b, c) /\ b.status = "disconnected" /\ b.sess = "none"
<1> DEFINE c1 == [c EXCEPT !.ended = TRUE]
           c2 == [c1 EXCEPT !.sess = "none"]
           b == [c2 EXCEPT !.status = "disconnected"]
<1>1. c1 \in CallType BY PutEnded
<1>2. c2 \in CallType BY <1>1, PutSess
<1>3. b \in CallType BY <1>2, PutStatus
<1>4. /\ b.rtp_sess = c.rtp_sess /\ b.forwarded = c.forwarded
      /\ b.status = "disconnected" /\ b.sess = "none"
  BY DEF CallType
<1> QED BY <1>3, <1>4 DEF Like

(* on_call_end marks the call as forwarded. *)
LEMMA ForwardedFacts ==
    ASSUME NEW c \in CallType
    PROVE  LET b == [c EXCEPT !.forwarded = TRUE]
           IN  /\ b \in CallType /\ b.rtp_sess = c.rtp_sess /\ b.forwarded = TRUE
               /\ b.status = c.status /\ b.sess = c.sess
<1> DEFINE b == [c EXCEPT !.forwarded = TRUE]
<1>1. b \in CallType BY PutForwarded
<1>2. /\ b.rtp_sess = c.rtp_sess /\ b.forwarded = TRUE
      /\ b.status = c.status /\ b.sess = c.sess
  BY DEF CallType
<1> QED BY <1>1, <1>2

(* call_alloc makes a call with the first free session. *)
LEMMA NewCallFacts ==
    ASSUME free \in Seq(Rtp), free # << >>, NEW sess \in {"inviting", "none"},
           NEW v \in BOOLEAN
    PROVE  \A b \in {NewCall(sess), [NewCall(sess) EXCEPT !.join_pbx = v]} :
               /\ b \in CallType /\ b.rtp_sess = Head(free) /\ b.forwarded = FALSE
               /\ b.status = "connecting" /\ b.sess = sess
<1> DEFINE c1 == [NoCall EXCEPT !.status = "connecting"]
           c2 == [c1 EXCEPT !.sess = sess]
           c3 == [c2 EXCEPT !.rtp_sess = Head(free)]
           b == [c3 EXCEPT !.join_pbx = v]
<1>1. Head(free) \in Rtp BY TailFacts
<1>2. c1 \in CallType BY NoCallFacts, PutStatus
<1>3. c2 \in CallType BY <1>2, PutSess
<1>4. c3 \in CallType BY <1>1, <1>3, PutRtp
<1>5. b \in CallType BY <1>4, PutJoin
<1>6. /\ c3.rtp_sess = Head(free) /\ c3.forwarded = FALSE
      /\ c3.status = "connecting" /\ c3.sess = sess
      /\ b.rtp_sess = Head(free) /\ b.forwarded = FALSE
      /\ b.status = "connecting" /\ b.sess = sess
  BY DEF NoCall
<1>7. NewCall(sess) = c3 BY DEF NewCall
<1> HIDE DEF c3
<1> QED BY <1>4, <1>5, <1>6, <1>7

-----------------------------------------------------------------------------
(* The inductive invariant *)

(* A call in use has a session, and a status that fits its INVITE. *)
Shape(c) ==
    \/ c = NoCall
    \/ /\ c.rtp_sess # None /\ c.status # "none"
       /\ (c.sess = "inviting" => c.status = "connecting")

(* The PBX leg hangs on a call that knows of it. *)
ShapeInv ==
    \A d \in Dest : /\ Shape(call[d]) /\ Shape(pbx_call[d])
                    /\ (pbx_call[d] # NoCall => call[d].forwarded = TRUE)

(* A session and its leg point at each other; the other sessions are reset.*)
Owns(d, r) ==
    \/ rtp[r].arg = <<d, "call">> /\ call[d].rtp_sess = r
    \/ rtp[r].arg = <<d, "pbx_call">> /\ pbx_call[d].rtp_sess = r

PoolInv ==
    /\ Distinct(free)
    /\ \A d \in Dest : call[d].rtp_sess # None =>
            /\ rtp[call[d].rtp_sess].arg = <<d, "call">>
            /\ call[d].rtp_sess \notin ToSet(free)
    /\ \A d \in Dest : pbx_call[d].rtp_sess # None =>
            /\ rtp[pbx_call[d].rtp_sess].arg = <<d, "pbx_call">>
            /\ pbx_call[d].rtp_sess \notin ToSet(free)
    /\ \A r \in Rtp : rtp[r] = IdleSession \/ \E d \in Dest : Owns(d, r)

(* The relay connects the two legs of one call, in both directions. *)
Pair(d, r, q) ==
    \/ r = call[d].rtp_sess /\ q = pbx_call[d].rtp_sess
    \/ r = pbx_call[d].rtp_sess /\ q = call[d].rtp_sess

MediaInv ==
    \A r \in Rtp : rtp[r].remote # None =>
        /\ rtp[rtp[r].remote].remote = r
        /\ \E d \in Dest : Pair(d, r, rtp[r].remote)

PlayerInv == \A d \in Dest : thread[d] = "playing" => call[d] # NoCall

(* The row follows the call at every moment. *)
RowInv ==
    \A d \in Dest :
        /\ (call[d] = NoCall => row[d].status \in {"created", "disconnected"})
        /\ (call[d].status = "connecting" => row[d].status = "connecting")
        /\ (call[d].status = "disconnected" => row[d].status = "disconnected")
        /\ (row[d].status = "established" => call[d].status = "established")

(* The destructor works on a call that has been ended. *)
JoinInv ==
    pc = "join" => \E d \in Dest : /\ todo = <<d>> /\ call[d].status = "disconnected"
                                   /\ (row[d].forwarded <=> pbx_call[d] # NoCall)

(* The calls, their sessions, threads and rows. *)
Core == /\ ShapeInv /\ PoolInv /\ MediaInv /\ DigitsNeedAnswer
        /\ PlayerInv /\ RowInv

Inv == TypeOK /\ Core /\ JoinInv

(* What the session facts need of the types. *)
LEMMA SessionTypes ==
    ASSUME TypeOK
    PROVE  /\ \A d \in Dest : /\ call[d] \in CallType /\ pbx_call[d] \in CallType
                              /\ call[d].rtp_sess \in Rtp \cup {None}
                              /\ pbx_call[d].rtp_sess \in Rtp \cup {None}
           /\ \A r \in Rtp : rtp[r].remote \in Rtp \cup {None}
           /\ free \in Seq(Rtp) /\ None \notin Rtp
<1>1. \A d \in Dest : call[d] \in CallType /\ pbx_call[d] \in CallType BY DEF TypeOK
<1>2. \A c \in CallType : c.rtp_sess \in Rtp \cup {None} BY DEF CallType
<1>3. \A r \in Rtp : rtp[r] \in SessionType BY DEF TypeOK
<1>4. \A r \in Rtp : rtp[r].remote \in Rtp \cup {None} BY <1>3 DEF SessionType
<1>5. free \in Seq(Rtp) /\ None \notin Rtp BY DialerConstants DEF TypeOK
<1> QED BY <1>1, <1>2, <1>4, <1>5

(* No leg gets or loses a session, and none goes to the pool. *)
LEMMA SessionsKept ==
    ASSUME TypeOK, PoolInv, MediaInv, DigitsNeedAnswer, UNCHANGED rtp,
           Distinct(free'), ToSet(free') \subseteq ToSet(free),
           \A d \in Dest : /\ call'[d].rtp_sess = call[d].rtp_sess
                           /\ pbx_call'[d].rtp_sess = pbx_call[d].rtp_sess
                           /\ (call[d].status \in {"established", "disconnected"} =>
                                call'[d].status \in {"established", "disconnected"})
    PROVE  PoolInv' /\ MediaInv' /\ DigitsNeedAnswer'
<1>1. PoolInv'
  <2>1. ASSUME NEW d \in Dest, call'[d].rtp_sess # None
        PROVE  /\ rtp'[call'[d].rtp_sess].arg = <<d, "call">>
               /\ call'[d].rtp_sess \notin ToSet(free')
    BY <2>1 DEF PoolInv
  <2>2. ASSUME NEW d \in Dest, pbx_call'[d].rtp_sess # None
        PROVE  /\ rtp'[pbx_call'[d].rtp_sess].arg = <<d, "pbx_call">>
               /\ pbx_call'[d].rtp_sess \notin ToSet(free')
    BY <2>2 DEF PoolInv
  <2>3. ASSUME NEW r \in Rtp PROVE rtp'[r] = IdleSession \/ \E d \in Dest : Owns(d, r)'
    BY DEF PoolInv, Owns
  <2> QED BY <2>1, <2>2, <2>3 DEF PoolInv
<1>2. MediaInv' BY DEF MediaInv, Pair
<1>3. DigitsNeedAnswer' BY DEF DigitsNeedAnswer
<1> QED BY <1>1, <1>2, <1>3

(* A leg d without session gets the first free one. *)
LEMMA SessionTaken ==
    ASSUME TypeOK, PoolInv, MediaInv, DigitsNeedAnswer, free # << >>,
           NEW d \in Dest,
           \/ /\ TakeSession(<<d, "call">>) /\ call[d].rtp_sess = None
              /\ call'[d].rtp_sess = Head(free)
              /\ pbx_call'[d].rtp_sess = pbx_call[d].rtp_sess
           \/ /\ TakeSession(<<d, "pbx_call">>) /\ pbx_call[d].rtp_sess = None
              /\ pbx_call'[d].rtp_sess = Head(free)
              /\ call'[d].rtp_sess = call[d].rtp_sess
              /\ call'[d].status = call[d].status,
           \A e \in Dest \ {d} : call'[e] = call[e] /\ pbx_call'[e] = pbx_call[e]
    PROVE  PoolInv' /\ MediaInv' /\ DigitsNeedAnswer'
<1> DEFINE h == Head(free)
<1>1. /\ h \in Rtp /\ h \in ToSet(free) /\ h \notin ToSet(Tail(free))
      /\ ToSet(Tail(free)) \subseteq ToSet(free) /\ Distinct(Tail(free))
  BY SessionTypes, TailFacts DEF PoolInv
<1>2. rtp[h] = IdleSession
  BY <1>1, SessionTypes DEF PoolInv, Owns
<1>3. PICK leg : /\ leg \in {<<d, "call">>, <<d, "pbx_call">>}
                 /\ free' = Tail(free) /\ rtp' = [rtp EXCEPT ![h].arg = leg]
                 /\ (leg = <<d, "call">> =>
                        /\ call[d].rtp_sess = None /\ call'[d].rtp_sess = h
                        /\ pbx_call'[d].rtp_sess = pbx_call[d].rtp_sess)
                 /\ (leg = <<d, "pbx_call">> =>
                        /\ pbx_call[d].rtp_sess = None /\ pbx_call'[d].rtp_sess = h
                        /\ call'[d].rtp_sess = call[d].rtp_sess
                        /\ call'[d].status = call[d].status)
  BY DEF TakeSession
<1>4. rtp \in [Rtp -> SessionType] BY DEF TypeOK
<1>5. /\ rtp'[h].arg = leg /\ rtp'[h].remote = None /\ rtp'[h].telev_recv = FALSE
      /\ \A r \in Rtp : r # h => rtp'[r] = rtp[r]
  BY <1>1, <1>2, <1>3, <1>4 DEF IdleSession
<1>6. \A e \in Dest : call[e].rtp_sess # h /\ pbx_call[e].rtp_sess # h
  BY <1>1, SessionTypes DEF PoolInv
<1> HIDE DEF h
<1>7. PoolInv'
  <2>1. Distinct(free') BY <1>1, <1>3
  <2>2. ASSUME NEW e \in Dest, call'[e].rtp_sess # None
        PROVE  /\ rtp'[call'[e].rtp_sess].arg = <<e, "call">>
               /\ call'[e].rtp_sess \notin ToSet(free')
    <3>1. CASE call'[e].rtp_sess = call[e].rtp_sess
      <4>1. call[e].rtp_sess \in Rtp \ {h} BY <2>2, <3>1, <1>6, SessionTypes
      <4>2. /\ rtp[call[e].rtp_sess].arg = <<e, "call">>
            /\ call[e].rtp_sess \notin ToSet(free)
        BY <4>1, SessionTypes DEF PoolInv
      <4> QED BY <4>1, <4>2, <3>1, <1>1, <1>3, <1>5
    <3>2. CASE call'[e].rtp_sess # call[e].rtp_sess
      BY <3>2, <1>1, <1>3, <1>5
    <3> QED BY <3>1, <3>2
  <2>3. ASSUME NEW e \in Dest, pbx_call'[e].rtp_sess # None
        PROVE  /\ rtp'[pbx_call'[e].rtp_sess].arg = <<e, "pbx_call">>
               /\ pbx_call'[e].rtp_sess \notin ToSet(free')
    <3>1. CASE pbx_call'[e].rtp_sess = pbx_call[e].rtp_sess
      <4>1. pbx_call[e].rtp_sess \in Rtp \ {h} BY <2>3, <3>1, <1>6, SessionTypes
      <4>2. /\ rtp[pbx_call[e].rtp_sess].arg = <<e, "pbx_call">>
            /\ pbx_call[e].rtp_sess \notin ToSet(free)
        BY <4>1, SessionTypes DEF PoolInv
      <4> QED BY <4>1, <4>2, <3>1, <1>1, <1>3, <1>5
    <3>2. CASE pbx_call'[e].rtp_sess # pbx_call[e].rtp_sess
      BY <3>2, <1>1, <1>3, <1>5
    <3> QED BY <3>1, <3>2
  <2>4. ASSUME NEW r \in Rtp
        PROVE  rtp'[r] = IdleSession \/ \E e \in Dest : Owns(e, r)'
    <3>1. CASE r = h BY <3>1, <1>3, <1>5 DEF Owns
    <3>2. CASE r # h
      <4>1. rtp'[r] = rtp[r] BY <3>2, <1>5
      <4>2. rtp[r] = IdleSession \/ \E e \in Dest : Owns(e, r) BY DEF PoolInv
      <4>3. ASSUME NEW e \in Dest, Owns(e, r) PROVE Owns(e, r)'
        BY <4>1, <4>3, <1>3, SessionTypes DEF Owns
      <4> QED BY <4>1, <4>2, <4>3
    <3> QED BY <3>1, <3>2
  <2> QED BY <2>1, <2>2, <2>3, <2>4 DEF PoolInv
<1>8. MediaInv'
  <2>1. SUFFICES ASSUME NEW r \in Rtp, rtp'[r].remote # None
                 PROVE  /\ rtp'[rtp'[r].remote].remote = r
                        /\ \E e \in Dest : Pair(e, r, rtp[r].remote)'
    BY DEF MediaInv
  <2>2. r # h /\ rtp'[r] = rtp[r] /\ rtp[r].remote # None BY <2>1, <1>5
  <2>3. PICK e \in Dest : Pair(e, r, rtp[r].remote) /\ rtp[rtp[r].remote].remote = r
    BY <2>2 DEF MediaInv
  <2>4. rtp[r].remote \in Rtp \ {h} BY <2>2, <2>3, <1>6, SessionTypes DEF Pair
  <2>5. Pair(e, r, rtp[r].remote)' BY <2>2, <2>3, <2>4, <1>3, SessionTypes DEF Pair
  <2>6. rtp'[rtp'[r].remote].remote = r BY <2>2, <2>3, <2>4, <1>5
  <2> QED BY <2>5, <2>6
<1>9. DigitsNeedAnswer'
  <2>1. SUFFICES ASSUME NEW r \in Rtp, rtp'[r].telev_recv
                 PROVE  \E e \in Dest :
                           /\ rtp'[r].arg = <<e, "call">> /\ call'[e].rtp_sess = r
                           /\ call'[e].status \in {"established", "disconnected"}
    BY DEF DigitsNeedAnswer
  <2>2. r # h /\ rtp'[r] = rtp[r] BY <2>1, <1>5
  <2>3. PICK e \in Dest : /\ rtp[r].arg = <<e, "call">> /\ call[e].rtp_sess = r
                          /\ call[e].status \in {"established", "disconnected"}
    BY <2>1, <2>2 DEF DigitsNeedAnswer
  <2>4. CASE e # d BY <2>2, <2>3, <2>4
  <2>5. CASE e = d BY <2>2, <2>3, <2>5, <1>3, SessionTypes
  <2> QED BY <2>4, <2>5
<1> QED BY <1>7, <1>8, <1>9

(* call_destructor and release_rtp_session: the pool gets the sessions of  *)
(* the call and of its PBX leg, reset.                                     *)
LEMMA ReleaseFacts ==
    ASSUME TypeOK, PoolInv, NEW d \in Dest, call[d].rtp_sess # None,
           ReleaseSessions(d)
    PROVE  \E A \in SUBSET Rtp :
              /\ \A r \in Rtp : r \in A <=> r \in {call[d].rtp_sess, pbx_call[d].rtp_sess}
              /\ free' \in Seq(Rtp) /\ Distinct(free') /\ ToSet(free') = ToSet(free) \cup A
              /\ rtp' = [r \in Rtp |-> IF r \in A THEN IdleSession ELSE rtp[r]]
<1> DEFINE a == call[d].rtp_sess
           b == pbx_call[d].rtp_sess
<1>1. a \in Rtp /\ b \in Rtp \cup {None} /\ None \notin Rtp /\ free \in Seq(Rtp)
  BY SessionTypes
<1>2. a \notin ToSet(free) /\ rtp[a].arg = <<d, "call">> /\ Distinct(free)
  BY DEF PoolInv
<1>3. b # None => b \notin ToSet(free) /\ rtp[b].arg = <<d, "pbx_call">>
  BY DEF PoolInv
<1>4. /\ SessionsOf(d) = IF b = None THEN <<a>> ELSE <<a, b>>
      /\ free' = free \o SessionsOf(d)
      /\ rtp' = [r \in Rtp |-> IF r \in ToSet(SessionsOf(d)) THEN IdleSession
                                                            ELSE rtp[r]]
  BY DEF SessionsOf, ReleaseSessions
<1>5. a # b
  <2>1. <<d, "call">> # <<d, "pbx_call">> OBVIOUS
  <2> QED BY <2>1, <1>1, <1>2, <1>3
<1> HIDE DEF a, b
<1>6. Append(free, a) = free \o <<a>> BY <1>1, AppendIsConcat
<1>7. /\ Append(free, a) \in Seq(Rtp) /\ ToSet(Append(free, a)) = ToSet(free) \cup {a}
      /\ Distinct(Append(free, a))
  BY <1>1, <1>2, AppendFacts
<1>8. CASE b = None
  <2>1. ToSet(<<a>>) = {a} BY DEF ToSet
  <2>2. /\ {a} \in SUBSET Rtp /\ free' = Append(free, a)
        /\ rtp' = [r \in Rtp |-> IF r \in {a} THEN IdleSession ELSE rtp[r]]
        /\ \A r \in Rtp : r \in {a} <=> r \in {a, b}
    BY <1>1, <1>4, <1>6, <1>8, <2>1
  <2> QED BY <2>2, <1>7 DEF a, b
<1>9. CASE b # None
  <2>1. ToSet(<<a, b>>) = {a, b} BY DEF ToSet
  <2>2. free' = Append(Append(free, a), b)
    <3>1. <<a>> \in Seq(Rtp) /\ <<b>> \in Seq(Rtp) /\ <<a>> \o <<b>> = <<a, b>>
      <4>1. b \in Rtp BY <1>1, <1>9
      <4>2. /\ <<a>> \in Seq(Rtp) /\ <<b>> \in Seq(Rtp) /\ <<a, b>> \in Seq(Rtp)
            /\ Len(<<a>>) = 1 /\ Len(<<b>>) = 1 /\ Len(<<a, b>>) = 2
        BY <4>1, <1>1
      <4>3. /\ <<a>> \o <<b>> \in Seq(Rtp)
            /\ Len(<<a>> \o <<b>>) = Len(<<a>>) + Len(<<b>>)
            /\ \A i \in 1..Len(<<a>>) + Len(<<b>>) : (<<a>> \o <<b>>)[i] =
                  IF i <= Len(<<a>>) THEN <<a>>[i] ELSE <<b>>[i - Len(<<a>>)]
        BY <4>2, ConcatProperties
      <4>4. (<<a>> \o <<b>>)[1] = <<a>>[1] /\ (<<a>> \o <<b>>)[2] = <<b>>[1]
        BY <4>2, <4>3
      <4>5. \A i \in 1..2 : (<<a>> \o <<b>>)[i] = <<a, b>>[i]
        BY <4>4
      <4> DEFINE x == <<a>> \o <<b>>
                 y == <<a, b>>
      <4>6. /\ x \in Seq(Rtp) /\ y \in Seq(Rtp) /\ Len(x) = 2 /\ Len(y) = 2
            /\ \A i \in 1..2 : x[i] = y[i]
        BY <4>2, <4>3, <4>5
      <4>7. x = y
        <5> HIDE DEF x, y
        <5> QED BY <4>6, SeqEqual
      <4> QED BY <4>2, <4>7
    <3>2. Append(Append(free, a), b) = (free \o <<a>>) \o <<b>>
      BY <1>1, <1>6, <1>7, <1>9, AppendIsConcat
    <3>3. (free \o <<a>>) \o <<b>> = free \o (<<a>> \o <<b>>)
      BY <1>1, <3>1, ConcatAssociative
    <3> QED BY <3>1, <3>2, <3>3, <1>4, <1>9
  <2>3. /\ free' \in Seq(Rtp) /\ Distinct(free')
        /\ ToSet(free') = (ToSet(free) \cup {a}) \cup {b}
    <3>1. b \in Rtp /\ b \notin ToSet(free) \cup {a} BY <1>1, <1>3, <1>5, <1>9
    <3> DEFINE f == Append(free, a)
    <3>2. f \in Seq(Rtp) /\ ToSet(f) = ToSet(free) \cup {a} /\ Distinct(f) BY <1>7
    <3>3. free' = Append(f, b) BY <2>2
    <3> HIDE DEF f
    <3> QED BY <3>1, <3>2, <3>3, AppendFacts
  <2>4. /\ {a, b} \in SUBSET Rtp
        /\ rtp' = [r \in Rtp |-> IF r \in {a, b} THEN IdleSession ELSE rtp[r]]
        /\ ToSet(free') = ToSet(free) \cup {a, b}
    BY <1>1, <1>4, <1>9, <2>1, <2>3
  <2> QED BY <2>3, <2>4 DEF a, b
<1> QED BY <1>8, <1>9

(* The two legs of d are freed. *)
LEMMA SessionsReleased ==
    ASSUME TypeOK, PoolInv, MediaInv, DigitsNeedAnswer, NEW d \in Dest,
           call[d].rtp_sess # None, ReleaseSessions(d),
           call' = [call EXCEPT ![d] = NoCall],
           pbx_call' = [pbx_call EXCEPT ![d] = NoCall]
    PROVE  PoolInv' /\ MediaInv' /\ DigitsNeedAnswer'
<1>1. PICK A \in SUBSET Rtp :
         /\ \A r \in Rtp : r \in A <=> r \in {call[d].rtp_sess, pbx_call[d].rtp_sess}
         /\ free' \in Seq(Rtp) /\ Distinct(free') /\ ToSet(free') = ToSet(free) \cup A
         /\ rtp' = [r \in Rtp |-> IF r \in A THEN IdleSession ELSE rtp[r]]
  BY ReleaseFacts
<1>2. /\ call'[d].rtp_sess = None /\ pbx_call'[d].rtp_sess = None
      /\ \A e \in Dest : e # d => call'[e] = call[e] /\ pbx_call'[e] = pbx_call[e]
  BY NoCallFacts DEF TypeOK
<1>3. /\ \A r \in A : rtp'[r] = IdleSession
      /\ \A r \in Rtp \ A : rtp'[r] = rtp[r]
  BY <1>1
<1>4. IdleSession.remote = None /\ IdleSession.telev_recv = FALSE BY DEF IdleSession
<1>5. ASSUME NEW e \in Dest, e # d
      PROVE  call[e].rtp_sess \notin A /\ pbx_call[e].rtp_sess \notin A
  <2>1. <<e, "call">> # <<d, "call">> /\ <<e, "call">> # <<d, "pbx_call">>
    BY <1>5
  <2>2. <<e, "pbx_call">> # <<d, "call">> /\ <<e, "pbx_call">> # <<d, "pbx_call">>
    BY <1>5
  <2>3. \A r \in A : rtp[r].arg = <<d, "call">> \/ rtp[r].arg = <<d, "pbx_call">>
    BY <1>1, SessionTypes DEF PoolInv
  <2> QED BY <2>1, <2>2, <2>3, SessionTypes DEF PoolInv
<1>6. PoolInv'
  <2>1. ASSUME NEW e \in Dest, call'[e].rtp_sess # None
        PROVE  /\ rtp'[call'[e].rtp_sess].arg = <<e, "call">>
               /\ call'[e].rtp_sess \notin ToSet(free')
    <3>1. e # d /\ call'[e] = call[e] BY <2>1, <1>2
    <3>2. call[e].rtp_sess \in Rtp \ A BY <2>1, <3>1, <1>5, SessionTypes
    <3> QED BY <2>1, <3>1, <3>2, <1>1, <1>3 DEF PoolInv
  <2>2. ASSUME NEW e \in Dest, pbx_call'[e].rtp_sess # None
        PROVE  /\ rtp'[pbx_call'[e].rtp_sess].arg = <<e, "pbx_call">>
               /\ pbx_call'[e].rtp_sess \notin ToSet(free')
    <3>1. e # d /\ pbx_call'[e] = pbx_call[e] BY <2>2, <1>2
    <3>2. pbx_call[e].rtp_sess \in Rtp \ A BY <2>2, <3>1, <1>5, SessionTypes
    <3> QED BY <2>2, <3>1, <3>2, <1>1, <1>3 DEF PoolInv
  <2>3. ASSUME NEW r \in Rtp
        PROVE  rtp'[r] = IdleSession \/ \E e \in Dest : Owns(e, r)'
    <3>1. CASE r \in A BY <3>1, <1>3
    <3>2. CASE r \notin A
      <4>1. rtp'[r] = rtp[r] BY <3>2, <1>3
      <4>2. rtp[r] = IdleSession \/ \E e \in Dest : Owns(e, r) BY DEF PoolInv
      <4>3. ASSUME NEW e \in Dest, Owns(e, r) PROVE Owns(e, r)'
        <5>1. e # d BY <4>3, <3>2, <1>1 DEF Owns
        <5> QED BY <4>1, <4>3, <5>1, <1>2 DEF Owns
      <4> QED BY <4>1, <4>2, <4>3
    <3> QED BY <3>1, <3>2
  <2> QED BY <2>1, <2>2, <2>3, <1>1 DEF PoolInv
<1>7. MediaInv'
  <2>1. SUFFICES ASSUME NEW r \in Rtp, rtp'[r].remote # None
                 PROVE  /\ rtp'[rtp'[r].remote].remote = r
                        /\ \E e \in Dest : Pair(e, r, rtp[r].remote)'
    BY DEF MediaInv
  <2>2. r \notin A /\ rtp'[r] = rtp[r] /\ rtp[r].remote # None
    BY <2>1, <1>3, <1>4
  <2>3. PICK e \in Dest : Pair(e, r, rtp[r].remote) /\ rtp[rtp[r].remote].remote = r
    BY <2>2 DEF MediaInv
  <2>4. e # d BY <2>2, <2>3, <1>1 DEF Pair
  <2>5. rtp[r].remote \in Rtp \ A BY <2>2, <2>3, <2>4, <1>5, SessionTypes DEF Pair
  <2>6. Pair(e, r, rtp[r].remote)' BY <2>2, <2>3, <2>4, <1>2 DEF Pair
  <2>7. rtp'[rtp'[r].remote].remote = r BY <2>2, <2>3, <2>5, <1>3
  <2> QED BY <2>6, <2>7
<1>8. DigitsNeedAnswer'
  <2>1. SUFFICES ASSUME NEW r \in Rtp, rtp'[r].telev_recv
                 PROVE  \E e \in Dest :
                           /\ rtp'[r].arg = <<e, "call">> /\ call'[e].rtp_sess = r
                           /\ call'[e].status \in {"established", "disconnected"}
    BY DEF DigitsNeedAnswer
  <2>2. r \notin A /\ rtp'[r] = rtp[r] BY <2>1, <1>3, <1>4
  <2>3. PICK e \in Dest : /\ rtp[r].arg = <<e, "call">> /\ call[e].rtp_sess = r
                          /\ call[e].status \in {"established", "disconnected"}
    BY <2>1, <2>2 DEF DigitsNeedAnswer
  <2>4. e # d BY <2>2, <2>3, <1>1
  <2> QED BY <2>2, <2>3, <2>4, <1>2
<1> QED BY <1>6, <1>7, <1>8

(* Fields of owned sessions change, and no owner does. *)
LEMMA OwnersKept ==
    ASSUME TypeOK, PoolInv, UNCHANGED free,
           \A d \in Dest : /\ call'[d].rtp_sess = call[d].rtp_sess
                           /\ pbx_call'[d].rtp_sess = pbx_call[d].rtp_sess,
           \A r \in Rtp : /\ rtp'[r].arg = rtp[r].arg
                          /\ (rtp'[r] = rtp[r] \/ \E d \in Dest : Owns(d, r))
    PROVE  PoolInv'
<1>1. ASSUME NEW d \in Dest, call'[d].rtp_sess # None
      PROVE  /\ rtp'[call'[d].rtp_sess].arg = <<d, "call">>
             /\ call'[d].rtp_sess \notin ToSet(free')
  BY <1>1, SessionTypes DEF PoolInv
<1>2. ASSUME NEW d \in Dest, pbx_call'[d].rtp_sess # None
      PROVE  /\ rtp'[pbx_call'[d].rtp_sess].arg = <<d, "pbx_call">>
             /\ pbx_call'[d].rtp_sess \notin ToSet(free')
  BY <1>2, SessionTypes DEF PoolInv
<1>3. ASSUME NEW r \in Rtp PROVE rtp'[r] = IdleSession \/ \E d \in Dest : Owns(d, r)'
  <2>1. ASSUME NEW d \in Dest, Owns(d, r) PROVE Owns(d, r)'
    BY <2>1 DEF Owns
  <2>2. CASE \E d \in Dest : Owns(d, r) BY <2>1, <2>2
  <2>3. CASE rtp'[r] = rtp[r] BY <2>1, <2>3 DEF PoolInv
  <2> QED BY <2>2, <2>3
<1>4. Distinct(free') BY DEF PoolInv
<1> QED BY <1>1, <1>2, <1>3, <1>4 DEF PoolInv

(* establish_handler takes digits from now on. *)
LEMMA DigitsOpened ==
    ASSUME TypeOK, PoolInv, MediaInv, DigitsNeedAnswer, NEW d \in Dest,
           call[d].rtp_sess # None, UNCHANGED <<free, pbx_call>>,
           call' = [call EXCEPT ![d] = Answered(@)],
           rtp' = [rtp EXCEPT ![call[d].rtp_sess].telev_recv = TRUE]
    PROVE  PoolInv' /\ MediaInv' /\ DigitsNeedAnswer' /\ rtp' \in [Rtp -> SessionType]
<1> DEFINE q == call[d].rtp_sess
<1>1. q \in Rtp /\ rtp[q].arg = <<d, "call">> /\ Owns(d, q)
  BY SessionTypes DEF PoolInv, Owns
<1>2. rtp \in [Rtp -> SessionType] /\ rtp[q] \in SessionType BY <1>1 DEF TypeOK
<1>3. [rtp[q] EXCEPT !.telev_recv = TRUE] \in SessionType BY <1>2 DEF SessionType
<1>4. rtp' \in [Rtp -> SessionType] BY <1>1, <1>2, <1>3
<1>5. /\ rtp'[q].arg = rtp[q].arg /\ rtp'[q].remote = rtp[q].remote
      /\ \A r \in Rtp : r # q => rtp'[r] = rtp[r]
  BY <1>1, <1>2 DEF SessionType
<1>6. /\ call'[d].rtp_sess = q /\ call'[d].status = "established"
      /\ \A e \in Dest : e # d => call'[e] = call[e]
  <2>1. call \in [Dest -> CallType] /\ call[d] \in CallType BY DEF TypeOK
  <2>2. call'[d] = Answered(call[d]) /\ \A e \in Dest : e # d => call'[e] = call[e]
    BY <2>1
  <2> QED BY <2>1, <2>2, AnsweredFacts DEF Like
<1>7. \A e \in Dest : call'[e].rtp_sess = call[e].rtp_sess BY <1>6
<1> HIDE DEF q
<1>8. PoolInv' BY <1>1, <1>5, <1>7, OwnersKept
<1>9. MediaInv'
  <2>1. \A r \in Rtp : rtp'[r].remote = rtp[r].remote BY <1>1, <1>5
  <2> QED BY <2>1, <1>7, SessionTypes DEF MediaInv, Pair
<1>10. DigitsNeedAnswer'
  <2>1. SUFFICES ASSUME NEW r \in Rtp, rtp'[r].telev_recv
                 PROVE  \E e \in Dest :
                           /\ rtp'[r].arg = <<e, "call">> /\ call'[e].rtp_sess = r
                           /\ call'[e].status \in {"established", "disconnected"}
    BY DEF DigitsNeedAnswer
  <2>2. CASE r = q BY <2>2, <1>1, <1>5, <1>6
  <2>3. CASE r # q
    <3>1. PICK e \in Dest : /\ rtp[r].arg = <<e, "call">> /\ call[e].rtp_sess = r
                            /\ call[e].status \in {"established", "disconnected"}
      BY <2>1, <2>3, <1>5 DEF DigitsNeedAnswer
    <3>2. e # d BY <2>3, <3>1 DEF q
    <3> QED BY <2>3, <3>1, <3>2, <1>5, <1>6
  <2> QED BY <2>2, <2>3
<1> QED BY <1>4, <1>8, <1>9, <1>10

(* The relay as establish_handler of the PBX leg sets it up. *)
Bridge(d) ==
    rtp' = [rtp EXCEPT ![call[d].rtp_sess].remote = pbx_call[d].rtp_sess,
                       ![pbx_call[d].rtp_sess].remote = call[d].rtp_sess]

(* establish_handler of the PBX leg connects the two sessions. *)
LEMMA SessionsBridged ==
    ASSUME TypeOK, PoolInv, MediaInv, DigitsNeedAnswer, NEW d \in Dest,
           call[d].rtp_sess # None, pbx_call[d].rtp_sess # None,
           UNCHANGED <<free, call>>,
           \A e \in Dest : pbx_call'[e].rtp_sess = pbx_call[e].rtp_sess,
           Bridge(d)
    PROVE  PoolInv' /\ MediaInv' /\ DigitsNeedAnswer' /\ rtp' \in [Rtp -> SessionType]
<1> DEFINE a == call[d].rtp_sess
           b == pbx_call[d].rtp_sess
           rtp1 == [rtp EXCEPT ![a].remote = b]
<1>1. /\ a \in Rtp /\ b \in Rtp /\ Owns(d, a) /\ Owns(d, b)
      /\ rtp[a].arg = <<d, "call">> /\ rtp[b].arg = <<d, "pbx_call">>
  BY SessionTypes DEF PoolInv, Owns
<1>2. a # b
  <2>1. <<d, "call">> # <<d, "pbx_call">> OBVIOUS
  <2> QED BY <2>1, <1>1
<1>3. rtp \in [Rtp -> SessionType] /\ rtp[a] \in SessionType /\ rtp[b] \in SessionType
  BY <1>1 DEF TypeOK
<1>4. rtp' = [rtp1 EXCEPT ![b].remote = a] BY DEF Bridge
<1> HIDE DEF a, b
<1>5. /\ rtp1 \in [Rtp -> SessionType] /\ rtp1[b] = rtp[b]
      /\ rtp1[a].remote = b /\ rtp1[a].arg = rtp[a].arg
      /\ rtp1[a].telev_recv = rtp[a].telev_recv
      /\ \A r \in Rtp : r # a => rtp1[r] = rtp[r]
  <2>1. [rtp[a] EXCEPT !.remote = b] \in SessionType BY <1>1, <1>3 DEF SessionType
  <2>2. rtp1 \in [Rtp -> SessionType] BY <2>1, <1>1, <1>3
  <2>3. /\ rtp1[a].remote = b /\ rtp1[a].arg = rtp[a].arg
        /\ rtp1[a].telev_recv = rtp[a].telev_recv
    BY <1>1, <1>3 DEF SessionType
  <2> QED BY <2>2, <2>3, <1>1, <1>2, <1>3
<1> HIDE DEF rtp1
<1>6. /\ rtp' \in [Rtp -> SessionType] /\ rtp'[a] = rtp1[a]
      /\ rtp'[b].remote = a /\ rtp'[b].arg = rtp[b].arg
      /\ rtp'[b].telev_recv = rtp[b].telev_recv
      /\ \A r \in Rtp : r # b => rtp'[r] = rtp1[r]
  <2>1. [rtp[b] EXCEPT !.remote = a] \in SessionType BY <1>1, <1>3 DEF SessionType
  <2>2. rtp' \in [Rtp -> SessionType] BY <2>1, <1>1, <1>4, <1>5
  <2>3. /\ rtp'[b].remote = a /\ rtp'[b].arg = rtp[b].arg
        /\ rtp'[b].telev_recv = rtp[b].telev_recv
    BY <1>1, <1>3, <1>4, <1>5 DEF SessionType
  <2> QED BY <2>2, <2>3, <1>1, <1>2, <1>4, <1>5
<1>7. /\ \A r \in Rtp \ {a, b} : rtp'[r] = rtp[r]
      /\ \A r \in Rtp : rtp'[r].arg = rtp[r].arg /\ rtp'[r].telev_recv = rtp[r].telev_recv
      /\ rtp'[a].remote = b /\ rtp'[b].remote = a
  BY <1>1, <1>2, <1>5, <1>6
<1>8. PoolInv' BY <1>1, <1>7, OwnersKept
<1>9. MediaInv'
  <2>1. SUFFICES ASSUME NEW r \in Rtp, rtp'[r].remote # None
                 PROVE  /\ rtp'[rtp'[r].remote].remote = r
                        /\ \E e \in Dest : Pair(e, r, rtp[r].remote)'
    BY DEF MediaInv
  <2>2. CASE r \in {a, b}
    <3>1. rtp'[rtp'[r].remote].remote = r BY <2>2, <1>7
    <3>2. Pair(d, r, rtp[r].remote)' BY <2>2, <1>7 DEF Pair, a, b
    <3> QED BY <3>1, <3>2
  <2>3. CASE r \notin {a, b}
    <3>1. rtp'[r] = rtp[r] /\ rtp[r].remote # None BY <2>1, <2>3, <1>7
    <3>2. PICK e \in Dest : Pair(e, r, rtp[r].remote) /\ rtp[rtp[r].remote].remote = r
      BY <3>1 DEF MediaInv
    <3>3. rtp[r].remote \in Rtp BY <3>1, SessionTypes
    <3>4. rtp[r].remote \notin {a, b}
      <4>1. e # d BY <2>3, <3>2 DEF Pair, a, b
      <4>2. \/ rtp[rtp[r].remote].arg = <<e, "call">>
            \/ rtp[rtp[r].remote].arg = <<e, "pbx_call">>
        BY <3>1, <3>2, SessionTypes DEF Pair, PoolInv
      <4>3. /\ <<e, "call">> # <<d, "call">> /\ <<e, "call">> # <<d, "pbx_call">>
            /\ <<e, "pbx_call">> # <<d, "call">> /\ <<e, "pbx_call">> # <<d, "pbx_call">>
        BY <4>1
      <4> QED BY <4>2, <4>3, <1>1
    <3>5. rtp'[rtp'[r].remote].remote = r BY <3>1, <3>2, <3>3, <3>4, <1>7
    <3>6. Pair(e, r, rtp[r].remote)' BY <3>1, <3>2 DEF Pair
    <3> QED BY <3>5, <3>6
  <2> QED BY <2>2, <2>3
<1>10. DigitsNeedAnswer' BY <1>7 DEF DigitsNeedAnswer
<1> QED BY <1>6, <1>8, <1>9, <1>10

-----------------------------------------------------------------------------
(* Every step keeps the invariant *)

(* A step that touches no call and no session. *)
LEMMA LegsSame ==
    ASSUME Core, UNCHANGED <<call, pbx_call, thread, free, rtp>>
    PROVE  ShapeInv' /\ PoolInv' /\ MediaInv' /\ DigitsNeedAnswer' /\ PlayerInv'
<1>1. ShapeInv' BY DEF Core, ShapeInv
<1>2. PoolInv' BY DEF Core, PoolInv, Owns
<1>3. MediaInv' BY DEF Core, MediaInv, Pair
<1>4. DigitsNeedAnswer' /\ PlayerInv' BY DEF Core, DigitsNeedAnswer, PlayerInv
<1> QED BY <1>1, <1>2, <1>3, <1>4

(* A step that touches no call, session or row. *)
LEMMA CoreSame ==
    ASSUME Core, UNCHANGED <<call, pbx_call, thread, rtpVars, row>>
    PROVE  Core'
<1>1. ShapeInv' /\ PoolInv' /\ MediaInv' /\ DigitsNeedAnswer' /\ PlayerInv'
  BY LegsSame DEF rtpVars
<1>2. RowInv' BY DEF Core, RowInv
<1> QED BY <1>1, <1>2 DEF Core

(* A call is in use exactly if it has a session. *)
LEMMA InUse ==
    ASSUME ShapeInv, NEW d \in Dest
    PROVE  /\ (call[d] = NoCall <=> call[d].rtp_sess = None)
           /\ (call[d] = NoCall <=> call[d].status = "none")
           /\ (pbx_call[d] = NoCall <=> pbx_call[d].rtp_sess = None)
           /\ (pbx_call[d] # NoCall => call[d] # NoCall)
           /\ (call[d].sess = "inviting" => call[d].status = "connecting")
           /\ (pbx_call[d].sess = "inviting" => pbx_call[d].status = "connecting")
BY NoCallFacts DEF ShapeInv, Shape

(* One call is assigned. *)
LEMMA OneCall ==
    ASSUME TypeOK, NEW d \in Dest, NEW b \in CallType
    PROVE  /\ [call EXCEPT ![d] = b] \in [Dest -> CallType]
           /\ [call EXCEPT ![d] = b][d] = b
           /\ \A e \in Dest : e # d => [call EXCEPT ![d] = b][e] = call[e]
           /\ [pbx_call EXCEPT ![d] = b] \in [Dest -> CallType]
           /\ [pbx_call EXCEPT ![d] = b][d] = b
           /\ \A e \in Dest : e # d => [pbx_call EXCEPT ![d] = b][e] = pbx_call[e]
BY DEF TypeOK

(* The steps of start_fake_calling before the first INVITE. *)
LEMMA RoundStep ==
    ASSUME Inv, StartRound \/ Pick \/ StartDialling \/ DialSkips \/ EndRound
    PROVE  Inv'
<1>1. UNCHANGED <<call, pbx_call, thread, rtpVars, row, since, try_count, tmr,
                  faults, crashed>>
  BY DEF StartRound, Pick, StartDialling, DialSkips, EndRound, destVars
<1>2. Core' BY <1>1, CoreSame DEF Inv
<1>3. pc' \in {"idle", "pick", "dial"} /\ cpTmr' \in {"off", "armed", "due"}
  BY DEF StartRound, Pick, StartDialling, DialSkips, EndRound, destVars, Inv, TypeOK
<1>4. JoinInv' BY <1>3 DEF JoinInv
<1>5. /\ destinations \in Seq(Dest) /\ processl \in Seq(Dest) /\ todo \in Seq(Dest)
      /\ try_count \in [Dest -> Nat]
  BY DialerConstants DEF Inv, TypeOK
<1>6. /\ destinations' \in Seq(Dest) /\ processl' \in Seq(Dest)
      /\ todo' \in Seq(Dest)
  <2>1. CASE StartRound
    <3>1. processl' = processl BY <2>1 DEF StartRound
    <3>2. CASE Full(processl)
      <4>1. destinations' = destinations /\ todo' = << >> BY <2>1, <3>2 DEF StartRound
      <4> QED BY <3>1, <4>1, <1>5
    <3>3. CASE ~Full(processl)
      <4>1. destinations' \in SortByTries(destinations) /\ todo' = destinations'
        BY <2>1, <3>3 DEF StartRound
      <4>2. destinations' \in Seq(Dest) BY <4>1, <1>5, SortFacts
      <4> QED BY <3>1, <4>1, <4>2, <1>5
    <3> QED BY <3>2, <3>3
  <2>2. CASE Pick
    <3>1. Head(todo) \in Dest /\ Tail(todo) \in Seq(Dest)
      BY <2>2, <1>5, TailFacts DEF Pick
    <3>2. todo' \in {<< >>, Tail(todo)} BY <2>2 DEF Pick
    <3>3. todo' \in Seq(Dest) BY <3>1, <3>2, EmptySeq
    <3>4. CASE MayDial(Head(todo))
      <4>1. /\ destinations' = Unlink(destinations, Head(todo))
            /\ processl' = Append(processl, Head(todo))
        BY <2>2, <3>4 DEF Pick
      <4> QED BY <4>1, <3>1, <3>3, <1>5, UnlinkFacts, AppendFacts
    <3>5. CASE ~MayDial(Head(todo))
      BY <2>2, <3>5, <3>3, <1>5 DEF Pick
    <3> QED BY <3>4, <3>5
  <2>3. CASE StartDialling BY <2>3, <1>5 DEF StartDialling, destVars
  <2>4. CASE DialSkips
    <3>1. Tail(todo) \in Seq(Dest) BY <2>4, <1>5, TailFacts DEF DialSkips
    <3> QED BY <2>4, <3>1, <1>5 DEF DialSkips, destVars
  <2>5. CASE EndRound BY <2>5, <1>5 DEF EndRound, destVars
  <2> QED BY <2>1, <2>2, <2>3, <2>4, <2>5
<1>7. TypeOK' BY <1>1, <1>3, <1>6 DEF Inv, TypeOK, rtpVars
<1> QED BY <1>2, <1>4, <1>7 DEF Inv

(* call_alloc fails: a session is lost or goes to the end of the pool. *)
LEMMA AllocFailsFacts ==
    ASSUME TypeOK, Core, CallAllocFails
    PROVE  /\ free' \in Seq(Rtp) /\ Distinct(free') /\ ToSet(free') \subseteq ToSet(free)
           /\ UNCHANGED rtp /\ faults' \in 0..MaxFault
<1>1. free \in Seq(Rtp) /\ Distinct(free) /\ faults \in 0..MaxFault /\ MaxFault \in Nat
  BY DialerConstants DEF TypeOK, Core, PoolInv
<1>2. CASE free = << >> /\ UNCHANGED <<rtpVars, faults>>
  BY <1>1, <1>2 DEF rtpVars
<1>3. CASE free # << >> /\ Fault /\ free' = Tail(free) /\ UNCHANGED rtp
  BY <1>1, <1>3, TailFacts DEF Fault
<1>4. CASE free # << >> /\ Fault /\ free' = Append(Tail(free), Head(free)) /\ UNCHANGED rtp
  <2>1. /\ Head(free) \in Rtp /\ Tail(free) \in Seq(Rtp) /\ Distinct(Tail(free))
        /\ Head(free) \notin ToSet(Tail(free))
        /\ ToSet(free) = ToSet(Tail(free)) \cup {Head(free)}
    BY <1>1, <1>4, TailFacts
  <2>2. /\ free' \in Seq(Rtp) /\ Distinct(free')
        /\ ToSet(free') = ToSet(Tail(free)) \cup {Head(free)}
    <3> DEFINE t == Tail(free)
               h == Head(free)
    <3>1. /\ h \in Rtp /\ t \in Seq(Rtp) /\ Distinct(t) /\ h \notin ToSet(t)
          /\ free' = Append(t, h)
      BY <1>4, <2>1
    <3>2. free' \in Seq(Rtp) /\ Distinct(free') /\ ToSet(free') = ToSet(t) \cup {h}
      <4> HIDE DEF t, h
      <4> QED BY <3>1, AppendFacts
    <3> QED BY <3>2
  <2> QED BY <1>1, <1>4, <2>1, <2>2 DEF Fault
<1>5. CASE Fault /\ UNCHANGED rtpVars
  BY <1>1, <1>5 DEF Fault, rtpVars
<1> QED BY <1>2, <1>3, <1>4, <1>5 DEF CallAllocFails

(* b may follow c in the life of one leg. *)
KinCall(b, c) == Like(b, c) /\ Shape(b) /\ (b = NoCall <=> c = NoCall)

(* Every leg goes on, and none begins or ends. *)
Kin == \A e \in Dest : KinCall(call'[e], call[e]) /\ KinCall(pbx_call'[e], pbx_call[e])

(* A leg may stay as it is. *)
LEMMA KinSelf ==
    ASSUME TypeOK, ShapeInv, NEW e \in Dest
    PROVE  KinCall(call[e], call[e]) /\ KinCall(pbx_call[e], pbx_call[e])
BY SessionTypes DEF KinCall, Like, ShapeInv

(* A leg in use may change its status and its INVITE. *)
LEMMA KinPut ==
    ASSUME NEW c \in CallType, Shape(c), c # NoCall, NEW b, Like(b, c),
           b.status # "none", b.sess = "inviting" => b.status = "connecting"
    PROVE  KinCall(b, c)
BY NoCallFacts DEF KinCall, Like, Shape

(* The callee's leg of d changes. *)
LEMMA KinCallee ==
    ASSUME TypeOK, ShapeInv, NEW d \in Dest, NEW b, KinCall(b, call[d]),
           call' = [call EXCEPT ![d] = b], UNCHANGED pbx_call
    PROVE  /\ Kin /\ call' \in [Dest -> CallType] /\ pbx_call' \in [Dest -> CallType]
           /\ call'[d] = b /\ \A e \in Dest : e # d => call'[e] = call[e]
<1>1. b \in CallType BY DEF KinCall, Like
<1>2. /\ call' \in [Dest -> CallType] /\ call'[d] = b
      /\ \A e \in Dest : e # d => call'[e] = call[e]
  BY <1>1, OneCall
<1>3. Kin BY <1>2, KinSelf DEF Kin
<1>4. pbx_call' \in [Dest -> CallType] BY DEF TypeOK
<1> QED BY <1>2, <1>3, <1>4

(* The PBX leg of d changes. *)
LEMMA KinPbx ==
    ASSUME TypeOK, ShapeInv, NEW d \in Dest, NEW b, KinCall(b, pbx_call[d]),
           pbx_call' = [pbx_call EXCEPT ![d] = b], UNCHANGED call
    PROVE  /\ Kin /\ call' \in [Dest -> CallType] /\ pbx_call' \in [Dest -> CallType]
           /\ pbx_call'[d] = b
<1>1. b \in CallType BY DEF KinCall, Like
<1>2. /\ pbx_call' \in [Dest -> CallType] /\ pbx_call'[d] = b
      /\ \A e \in Dest : e # d => pbx_call'[e] = pbx_call[e]
  BY <1>1, OneCall
<1>3. Kin BY <1>2, KinSelf DEF Kin
<1>4. call' \in [Dest -> CallType] BY DEF TypeOK
<1> QED BY <1>2, <1>3, <1>4

(* What the life of the legs leaves alone. *)
LEMMA KinKeeps ==
    ASSUME Core, Kin,
           \A e \in Dest : thread'[e] = "playing" =>
                             thread[e] = "playing" \/ call[e] # NoCall
    PROVE  /\ ShapeInv' /\ PlayerInv'
           /\ \A e \in Dest : /\ call'[e].rtp_sess = call[e].rtp_sess
                              /\ pbx_call'[e].rtp_sess = pbx_call[e].rtp_sess
                              /\ (call'[e] = NoCall <=> call[e] = NoCall)
                              /\ (pbx_call'[e] = NoCall <=> pbx_call[e] = NoCall)
<1>1. \A e \in Dest : /\ call'[e].rtp_sess = call[e].rtp_sess
                      /\ pbx_call'[e].rtp_sess = pbx_call[e].rtp_sess
                      /\ call'[e].forwarded = call[e].forwarded
                      /\ (call'[e] = NoCall <=> call[e] = NoCall)
                      /\ (pbx_call'[e] = NoCall <=> pbx_call[e] = NoCall)
                      /\ Shape(call'[e]) /\ Shape(pbx_call'[e])
  BY DEF Kin, KinCall, Like
<1>2. ShapeInv'
  <2>1. ASSUME NEW e \in Dest
        PROVE /\ Shape(call[e])' /\ Shape(pbx_call[e])'
              /\ (pbx_call'[e] # NoCall => call'[e].forwarded = TRUE)
    <3>1. Shape(call[e])' /\ Shape(pbx_call[e])' BY <1>1 DEF Shape, NoCall
    <3>2. pbx_call[e] # NoCall => call[e].forwarded = TRUE BY DEF Core, ShapeInv
    <3> QED BY <1>1, <3>1, <3>2
  <2> QED BY <2>1, Zenon DEF ShapeInv, NoCall
<1>3. PlayerInv' BY <1>1 DEF Core, PlayerInv
<1> QED BY <1>1, <1>2, <1>3

(* One second passes. *)
LEMMA TickStep == ASSUME Inv, Tick PROVE Inv'
<1>1. /\ call' = [d \in Dest |-> Older(call[d])]
      /\ pbx_call' = [d \in Dest |-> Older(pbx_call[d])]
      /\ since' = [d \in Dest |-> Up(since[d], RetryDelay)]
      /\ tmr' = [d \in Dest |-> IF tmr[d] = "armed" THEN "due" ELSE tmr[d]]
      /\ cpTmr' = IF cpTmr = "armed" THEN "due" ELSE cpTmr
      /\ UNCHANGED <<destinations, processl, try_count, thread, free, rtp, row, pc,
                     todo, faults, crashed>> /\ pc = "idle"
  BY DEF Tick, Idle, rtpVars
<1>2. TypeOK /\ Core BY DEF Inv
<1>3. ASSUME NEW e \in Dest
      PROVE  /\ KinCall(Older(call[e]), call[e]) /\ KinCall(Older(pbx_call[e]), pbx_call[e])
             /\ Older(call[e]).status = call[e].status
  <2>1. call[e] \in CallType /\ pbx_call[e] \in CallType BY <1>2, SessionTypes
  <2>2. Shape(call[e]) /\ Shape(pbx_call[e]) BY <1>2 DEF Core, ShapeInv
  <2>3. ASSUME NEW c \in CallType, Shape(c) PROVE KinCall(Older(c), c)
    <3>1. CASE c = NoCall
      <4>1. Older(c) = NoCall /\ Like(Older(c), c) BY <3>1, OlderFacts
      <4> QED BY <3>1, <4>1 DEF KinCall, Shape
    <3>2. CASE c # NoCall
      <4>1. /\ Like(Older(c), c) /\ Older(c).status = c.status
            /\ Older(c).sess = c.sess
        BY OlderFacts
      <4>2. c.status # "none" /\ (c.sess = "inviting" => c.status = "connecting")
        BY <2>3, <3>2 DEF Shape
      <4> QED BY <2>3, <3>2, <4>1, <4>2, KinPut
    <3> QED BY <3>1, <3>2
  <2> QED BY <2>1, <2>2, <2>3, OlderFacts
<1>4. Kin BY <1>1, <1>3 DEF Kin
<1>5. \A e \in Dest : call'[e].status = call[e].status BY <1>1, <1>3
<1>6. /\ ShapeInv' /\ PlayerInv'
      /\ \A e \in Dest : /\ call'[e].rtp_sess = call[e].rtp_sess
                         /\ pbx_call'[e].rtp_sess = pbx_call[e].rtp_sess
                         /\ (call'[e] = NoCall <=> call[e] = NoCall)
  BY <1>1, <1>2, <1>4, KinKeeps
<1>7. Distinct(free') /\ ToSet(free') \subseteq ToSet(free) BY <1>1, <1>2 DEF Core, PoolInv
<1>8. PoolInv' /\ MediaInv' /\ DigitsNeedAnswer'
  BY <1>1, <1>2, <1>5, <1>6, <1>7, SessionsKept DEF Core
<1>9. RowInv' BY <1>1, <1>2, <1>5, <1>6 DEF Core, RowInv
<1>10. JoinInv' BY <1>1 DEF JoinInv
<1>11. call' \in [Dest -> CallType] /\ pbx_call' \in [Dest -> CallType]
  BY <1>1, <1>3 DEF KinCall, Like
<1>12. since' \in [Dest -> 0..RetryDelay]
  <2>1. ASSUME NEW e \in Dest PROVE Up(since[e], RetryDelay) \in 0..RetryDelay
    <3>1. since[e] \in 0..RetryDelay /\ RetryDelay \in Nat
      BY <1>2, DialerConstants DEF TypeOK
    <3> QED BY <3>1 DEF Up
  <2> QED BY <1>1, <2>1
<1>13. TypeOK' BY <1>1, <1>2, <1>11, <1>12 DEF TypeOK
<1> QED BY <1>6, <1>8, <1>9, <1>10, <1>13 DEF Inv, Core

(* A queued statement about the row of d. *)
LEMMA RowFacts ==
    ASSUME TypeOK, NEW d \in Dest, NEW b \in RowType, row' = [row EXCEPT ![d] = b]
    PROVE  /\ row' \in [Dest -> RowType] /\ row'[d] = b
           /\ \A e \in Dest : e # d => row'[e] = row[e]
BY DEF TypeOK

(* update_call_status makes a row of the right type. *)
LEMMA StatusFacts ==
    ASSUME TypeOK, NEW d \in Dest, NEW v \in {"connecting", "established"},
           UpdateCallStatus(d, v)
    PROVE  /\ row' \in [Dest -> RowType] /\ row'[d].status = v
           /\ row'[d].talked = FALSE /\ \A e \in Dest : e # d => row'[e] = row[e]
<1> DEFINE b == [status |-> v, talked |-> FALSE, forwarded |-> FALSE]
<1>1. b \in RowType BY DEF RowType
<1>2. row' = [row EXCEPT ![d] = b] BY DEF UpdateCallStatus
<1>3. b.status = v /\ b.talked = FALSE OBVIOUS
<1> HIDE DEF b
<1> QED BY <1>1, <1>2, <1>3, RowFacts

(* progress_handler *)
LEMMA ProgressStep == ASSUME Inv, NEW d \in Dest, Progress(d) PROVE Inv'
<1>1. /\ pc = "idle" /\ call[d].sess = "inviting" /\ UpdateCallStatus(d, call[d].status)
      /\ UNCHANGED <<destinations, processl, try_count, since, tmr, call, pbx_call,
                     thread, free, rtp, cpTmr, pc, todo, faults, crashed>>
  BY DEF Progress, Idle, destVars, rtpVars
<1>2. TypeOK /\ Core BY DEF Inv
<1>3. call[d].status = "connecting" /\ call[d] # NoCall
  BY <1>1, <1>2, InUse, NoCallFacts DEF Core
<1>4. UpdateCallStatus(d, "connecting") BY <1>1, <1>3
<1>5. /\ row' \in [Dest -> RowType] /\ row'[d].status = "connecting"
      /\ \A e \in Dest : e # d => row'[e] = row[e]
  BY <1>2, <1>4, StatusFacts
<1>6. ShapeInv' /\ PoolInv' /\ MediaInv' /\ DigitsNeedAnswer' /\ PlayerInv'
  BY <1>1, <1>2, LegsSame
<1>7. RowInv' BY <1>1, <1>2, <1>3, <1>5 DEF Core, RowInv
<1>8. JoinInv' BY <1>1 DEF JoinInv
<1>9. TypeOK' BY <1>1, <1>2, <1>5 DEF TypeOK
<1> QED BY <1>6, <1>7, <1>8, <1>9 DEF Inv, Core

(* The callee's leg of d changes and no session does. *)
LEMMA CalleeStep ==
    ASSUME TypeOK, Core, NEW d \in Dest, call[d] # NoCall, NEW b, Like(b, call[d]),
           b.status # "none", b.sess = "inviting" => b.status = "connecting",
           call[d].status \in {"established", "disconnected"} =>
               b.status \in {"established", "disconnected"},
           call' = [call EXCEPT ![d] = b], UNCHANGED <<pbx_call, free, rtp>>,
           thread' \in [Dest -> {"none", "playing"}],
           \A e \in Dest : e # d => thread'[e] = thread[e]
    PROVE  /\ ShapeInv' /\ PoolInv' /\ MediaInv' /\ DigitsNeedAnswer' /\ PlayerInv'
           /\ call' \in [Dest -> CallType] /\ call'[d] = b /\ b # NoCall
           /\ \A e \in Dest : e # d => call'[e] = call[e]
<1>1. ShapeInv /\ Shape(call[d]) /\ call[d] \in CallType
  BY SessionTypes DEF Core, ShapeInv
<1>2. KinCall(b, call[d]) BY <1>1, KinPut
<1>3. /\ Kin /\ call' \in [Dest -> CallType]
      /\ call'[d] = b /\ \A e \in Dest : e # d => call'[e] = call[e]
  BY <1>1, <1>2, KinCallee
<1>4. \A e \in Dest : thread'[e] = "playing" => thread[e] = "playing" \/ call[e] # NoCall
  OBVIOUS
<1>5. /\ ShapeInv' /\ PlayerInv'
      /\ \A e \in Dest : /\ call'[e].rtp_sess = call[e].rtp_sess
                         /\ pbx_call'[e].rtp_sess = pbx_call[e].rtp_sess
  BY <1>3, <1>4, KinKeeps
<1>6. Distinct(free') /\ ToSet(free') \subseteq ToSet(free) BY DEF Core, PoolInv
<1>7. \A e \in Dest : call[e].status \in {"established", "disconnected"} =>
                       call'[e].status \in {"established", "disconnected"}
  BY <1>3
<1>8. PoolInv' /\ MediaInv' /\ DigitsNeedAnswer'
  BY <1>5, <1>6, <1>7, SessionsKept DEF Core
<1>9. b # NoCall BY <1>2 DEF KinCall
<1> QED BY <1>3, <1>5, <1>8, <1>9

(* The PBX leg of d changes and no session does. *)
LEMMA PbxStep ==
    ASSUME TypeOK, Core, NEW d \in Dest, pbx_call[d] # NoCall, NEW b,
           Like(b, pbx_call[d]),
           b.status # "none", b.sess = "inviting" => b.status = "connecting",
           pbx_call' = [pbx_call EXCEPT ![d] = b], UNCHANGED <<call, thread>>
    PROVE  /\ ShapeInv' /\ PlayerInv' /\ pbx_call' \in [Dest -> CallType]
           /\ \A e \in Dest : pbx_call'[e].rtp_sess = pbx_call[e].rtp_sess
           /\ UNCHANGED <<free, rtp>> => PoolInv' /\ MediaInv' /\ DigitsNeedAnswer'
<1>1. ShapeInv /\ Shape(pbx_call[d]) /\ pbx_call[d] \in CallType
  BY SessionTypes DEF Core, ShapeInv
<1>2. KinCall(b, pbx_call[d]) BY <1>1, KinPut
<1>3. Kin /\ pbx_call' \in [Dest -> CallType] BY <1>1, <1>2, KinPbx
<1>4. /\ ShapeInv' /\ PlayerInv'
      /\ \A e \in Dest : /\ call'[e].rtp_sess = call[e].rtp_sess
                         /\ pbx_call'[e].rtp_sess = pbx_call[e].rtp_sess
  BY <1>3, KinKeeps
<1>5. ASSUME UNCHANGED <<free, rtp>> PROVE PoolInv' /\ MediaInv' /\ DigitsNeedAnswer'
  <2>1. Distinct(free') /\ ToSet(free') \subseteq ToSet(free) BY <1>5 DEF Core, PoolInv
  <2> QED BY <1>4, <1>5, <2>1, SessionsKept DEF Core
<1> QED BY <1>3, <1>4, <1>5

(* establish_handler of the callee's leg *)
LEMMA EstablishStep == ASSUME Inv, NEW d \in Dest, Establish(d) PROVE Inv'
<1>1. /\ pc = "idle" /\ call[d].sess = "inviting"
      /\ UNCHANGED <<destinations, processl, try_count, since, tmr, pbx_call, free,
                     cpTmr, pc, todo, faults, crashed>>
  BY DEF Establish, Idle, destVars
<1>2. TypeOK /\ Core BY DEF Inv
<1>3. /\ call[d].status = "connecting" /\ call[d] # NoCall /\ call[d].rtp_sess # None
      /\ call[d] \in CallType /\ row[d].status = "connecting"
  BY <1>1, <1>2, InUse, NoCallFacts, SessionTypes DEF Core, RowInv
<1>4. thread \in [Dest -> {"none", "playing"}] /\ row \in [Dest -> RowType]
      /\ rtp \in [Rtp -> SessionType]
  BY <1>2 DEF TypeOK
<1>5. JoinInv' BY <1>1 DEF JoinInv
<1>6. SUFFICES /\ ShapeInv' /\ PoolInv' /\ MediaInv' /\ DigitsNeedAnswer' /\ PlayerInv'
               /\ RowInv' /\ call' \in [Dest -> CallType]
               /\ thread' \in [Dest -> {"none", "playing"}]
               /\ rtp' \in [Rtp -> SessionType] /\ row' \in [Dest -> RowType]
  BY <1>1, <1>2, <1>5 DEF Inv, Core, TypeOK
<1>7. CASE /\ call' = [call EXCEPT ![d] = Answered(@)]
           /\ UpdateCallStatus(d, "established")
           /\ \/ UNCHANGED <<thread, rtp>>
              \/ /\ thread' \in {[thread EXCEPT ![d] = "playing"], thread}
                 /\ rtp' = [rtp EXCEPT ![call[d].rtp_sess].telev_recv = TRUE]
  <2> DEFINE b == Answered(call[d])
  <2>1. Like(b, call[d]) /\ b.status = "established" /\ b.sess = "up"
    BY <1>3, AnsweredFacts
  <2>2. call' = [call EXCEPT ![d] = b] BY <1>7
  <2> HIDE DEF b
  <2>3. /\ thread' \in [Dest -> {"none", "playing"}]
        /\ \A e \in Dest : e # d => thread'[e] = thread[e]
    BY <1>4, <1>7
  <2>4. KinCall(b, call[d])
    BY <1>2, <1>3, <2>1, KinPut DEF Core, ShapeInv
  <2>5. /\ Kin /\ call' \in [Dest -> CallType]
        /\ call'[d] = b /\ \A e \in Dest : e # d => call'[e] = call[e]
    BY <1>1, <1>2, <2>2, <2>4, KinCallee DEF Core
  <2>6. \A e \in Dest : thread'[e] = "playing" => thread[e] = "playing" \/ call[e] # NoCall
    BY <1>3, <2>3
  <2>7. ShapeInv' /\ PlayerInv' BY <1>2, <2>5, <2>6, KinKeeps
  <2>8. /\ row' \in [Dest -> RowType] /\ row'[d].status = "established"
        /\ \A e \in Dest : e # d => row'[e] = row[e]
    BY <1>2, <1>7, StatusFacts
  <2>9. b # NoCall BY <1>3, <2>4 DEF KinCall
  <2>10. RowInv' BY <1>2, <2>1, <2>5, <2>8, <2>9 DEF Core, RowInv
  <2>11. CASE UNCHANGED <<thread, rtp>>
    <3>1. PoolInv' /\ MediaInv' /\ DigitsNeedAnswer'
      BY <1>1, <1>2, <1>3, <2>1, <2>2, <2>3, <2>11, CalleeStep
    <3> QED BY <3>1, <2>3, <2>5, <2>7, <2>8, <2>10, <2>11, <1>4
  <2>12. CASE rtp' = [rtp EXCEPT ![call[d].rtp_sess].telev_recv = TRUE]
    <3>1. /\ PoolInv' /\ MediaInv' /\ DigitsNeedAnswer' /\ rtp' \in [Rtp -> SessionType]
      BY <1>1, <1>2, <1>3, <1>7, <2>12, DigitsOpened DEF Core
    <3> QED BY <3>1, <2>3, <2>5, <2>7, <2>8, <2>10
  <2> QED BY <1>7, <2>11, <2>12
<1>8. CASE /\ call' = [call EXCEPT ![d] = Unusable(@)] /\ UNCHANGED <<thread, rtp, row>>
  <2> DEFINE b == Unusable(call[d])
  <2>1. Like(b, call[d]) /\ b.status = "established" /\ b.sess = "none"
    BY <1>3, AnsweredFacts
  <2>2. call' = [call EXCEPT ![d] = b] BY <1>8
  <2> HIDE DEF b
  <2>3. /\ ShapeInv' /\ PoolInv' /\ MediaInv' /\ DigitsNeedAnswer' /\ PlayerInv'
        /\ call' \in [Dest -> CallType] /\ call'[d] = b /\ b # NoCall
        /\ \A e \in Dest : e # d => call'[e] = call[e]
    BY <1>1, <1>2, <1>3, <1>4, <1>8, <2>1, <2>2, CalleeStep
  <2>4. RowInv' BY <1>2, <1>3, <1>8, <2>1, <2>3 DEF Core, RowInv
  <2> QED BY <2>3, <2>4, <1>4, <1>8
<1> QED BY <1>7, <1>8 DEF Establish

(* establish_handler of the PBX leg *)
LEMMA EstablishPbxStep == ASSUME Inv, NEW d \in Dest, EstablishPbx(d) PROVE Inv'
<1>1. /\ pc = "idle" /\ pbx_call[d].sess = "inviting"
      /\ UNCHANGED <<destinations, processl, try_count, since, tmr, call, thread, free,
                     row, cpTmr, pc, todo, faults, crashed>>
  BY DEF EstablishPbx, Idle, destVars
<1>2. TypeOK /\ Core BY DEF Inv
<1>3. /\ pbx_call[d] # NoCall /\ pbx_call[d].rtp_sess # None
      /\ pbx_call[d] \in CallType /\ call[d].rtp_sess # None
  BY <1>1, <1>2, InUse, NoCallFacts, SessionTypes DEF Core
<1>4. JoinInv' BY <1>1 DEF JoinInv
<1>5. RowInv' BY <1>1, <1>2 DEF Core, RowInv
<1>6. SUFFICES /\ ShapeInv' /\ PoolInv' /\ MediaInv' /\ DigitsNeedAnswer' /\ PlayerInv'
               /\ pbx_call' \in [Dest -> CallType] /\ rtp' \in [Rtp -> SessionType]
  BY <1>1, <1>2, <1>4, <1>5 DEF Inv, Core, TypeOK
<1>7. CASE pbx_call' = [pbx_call EXCEPT ![d] = Answered(@)] /\ Bridge(d)
  <2> DEFINE b == Answered(pbx_call[d])
  <2>1. Like(b, pbx_call[d]) /\ b.status = "established" /\ b.sess = "up"
    BY <1>3, AnsweredFacts
  <2>2. pbx_call' = [pbx_call EXCEPT ![d] = b] BY <1>7
  <2> HIDE DEF b
  <2>3. /\ ShapeInv' /\ PlayerInv' /\ pbx_call' \in [Dest -> CallType]
        /\ \A e \in Dest : pbx_call'[e].rtp_sess = pbx_call[e].rtp_sess
    BY <1>1, <1>2, <1>3, <2>1, <2>2, PbxStep
  <2>4. PoolInv' /\ MediaInv' /\ DigitsNeedAnswer' /\ rtp' \in [Rtp -> SessionType]
    BY <1>1, <1>2, <1>3, <1>7, <2>3, SessionsBridged DEF Core
  <2> QED BY <2>3, <2>4
<1>8. CASE pbx_call' = [pbx_call EXCEPT ![d] = Unusable(@)] /\ UNCHANGED rtp
  <2> DEFINE b == Unusable(pbx_call[d])
  <2>1. Like(b, pbx_call[d]) /\ b.status = "established" /\ b.sess = "none"
    BY <1>3, AnsweredFacts
  <2>2. pbx_call' = [pbx_call EXCEPT ![d] = b] BY <1>8
  <2> HIDE DEF b
  <2>3. /\ ShapeInv' /\ PlayerInv' /\ pbx_call' \in [Dest -> CallType]
        /\ PoolInv' /\ MediaInv' /\ DigitsNeedAnswer'
    BY <1>1, <1>2, <1>3, <1>8, <2>1, <2>2, PbxStep
  <2>4. rtp' \in [Rtp -> SessionType] BY <1>2, <1>8 DEF TypeOK
  <2> QED BY <2>3, <2>4
<1> QED BY <1>7, <1>8 DEF EstablishPbx, Bridge

(* close_handler *)
LEMMA CloseStep == ASSUME Inv, NEW d \in Dest, Close(d) PROVE Inv'
<1>1. /\ pc = "idle"
      /\ UNCHANGED <<destinations, processl, try_count, since, tmr, thread, free, rtp,
                     row, cpTmr, pc, todo, faults, crashed>>
  BY DEF Close, Idle, destVars, rtpVars
<1>2. TypeOK /\ Core BY DEF Inv
<1>3. JoinInv' BY <1>1 DEF JoinInv
<1>4. call[d] \in CallType /\ pbx_call[d] \in CallType BY <1>2, SessionTypes
<1>5. thread' \in [Dest -> {"none", "playing"}] BY <1>1, <1>2 DEF TypeOK
<1>6. CASE /\ call[d].sess \in {"inviting", "up"}
           /\ call' = [call EXCEPT ![d] = Closed(@)] /\ UNCHANGED pbx_call
  <2> DEFINE b == Closed(call[d])
  <2>1. Like(b, call[d]) /\ b.status = call[d].status /\ b.sess = "closed"
    BY <1>4, ClosedFacts
  <2>2. call' = [call EXCEPT ![d] = b] /\ call[d] # NoCall BY <1>6, NoCallFacts
  <2>3. call[d].status # "none" BY <1>2, <2>2, InUse DEF Core
  <2> HIDE DEF b
  <2>4. /\ ShapeInv' /\ PoolInv' /\ MediaInv' /\ DigitsNeedAnswer' /\ PlayerInv'
        /\ call' \in [Dest -> CallType] /\ call'[d] = b /\ b # NoCall
        /\ \A e \in Dest : e # d => call'[e] = call[e]
    BY <1>1, <1>2, <1>5, <1>6, <2>1, <2>2, <2>3, CalleeStep
  <2>5. RowInv' BY <1>1, <1>2, <2>1, <2>2, <2>4 DEF Core, RowInv
  <2>6. TypeOK' BY <1>1, <1>2, <1>6, <2>4 DEF TypeOK
  <2> QED BY <2>4, <2>5, <2>6, <1>3 DEF Inv, Core
<1>7. CASE /\ pbx_call[d].sess \in {"inviting", "up"}
           /\ pbx_call' = [pbx_call EXCEPT ![d] = Closed(@)] /\ UNCHANGED call
  <2> DEFINE b == Closed(pbx_call[d])
  <2>1. Like(b, pbx_call[d]) /\ b.status = pbx_call[d].status /\ b.sess = "closed"
    BY <1>4, ClosedFacts
  <2>2. pbx_call' = [pbx_call EXCEPT ![d] = b] /\ pbx_call[d] # NoCall BY <1>7, NoCallFacts
  <2>3. pbx_call[d].status # "none" BY <1>2, <2>2 DEF Core, ShapeInv, Shape
  <2> HIDE DEF b
  <2>4. /\ ShapeInv' /\ PlayerInv' /\ pbx_call' \in [Dest -> CallType]
        /\ PoolInv' /\ MediaInv' /\ DigitsNeedAnswer'
    BY <1>1, <1>2, <1>7, <2>1, <2>2, <2>3, PbxStep
  <2>5. RowInv' BY <1>1, <1>2, <1>7 DEF Core, RowInv
  <2>6. TypeOK' BY <1>1, <1>2, <1>7, <2>4 DEF TypeOK
  <2> QED BY <2>4, <2>5, <2>6, <1>3 DEF Inv, Core
<1> QED BY <1>6, <1>7 DEF Close

(* A leg changes neither its status nor its session: keys and the player. *)
LEMMA QuietStep ==
    ASSUME Inv, NEW d \in Dest, call[d] # NoCall, NEW b, Like(b, call[d]),
           b.status = call[d].status, b.sess = call[d].sess,
           call' = [call EXCEPT ![d] = b],
           thread' \in [Dest -> {"none", "playing"}],
           \A e \in Dest : e # d => thread'[e] = thread[e],
           UNCHANGED <<destVars, tmr, pbx_call, rtpVars, row, cpTmr, pc, todo, faults,
                       crashed>>
    PROVE  Inv'
<1>1. TypeOK /\ Core /\ JoinInv BY DEF Inv
<1>2. UNCHANGED <<free, rtp>> BY DEF rtpVars
<1>3. /\ b.status # "none" /\ (b.sess = "inviting" => b.status = "connecting")
  BY <1>1, InUse DEF Core
<1>4. /\ ShapeInv' /\ PoolInv' /\ MediaInv' /\ DigitsNeedAnswer' /\ PlayerInv'
      /\ call' \in [Dest -> CallType] /\ call'[d] = b /\ b # NoCall
      /\ \A e \in Dest : e # d => call'[e] = call[e]
  BY <1>1, <1>2, <1>3, CalleeStep
<1>5. RowInv' BY <1>1, <1>4 DEF Core, RowInv
<1>6. JoinInv' BY <1>1, <1>4 DEF JoinInv
<1>7. TypeOK' BY <1>1, <1>4 DEF TypeOK, destVars, rtpVars
<1> QED BY <1>4, <1>5, <1>6, <1>7 DEF Inv, Core

(* rtp_recv_handler *)
LEMMA KeyPressStep == ASSUME Inv, NEW r \in Rtp, KeyPress(r) PROVE Inv'
<1>1. TypeOK /\ Core BY DEF Inv
<1>2. PICK d \in Dest : rtp[r].arg = <<d, "call">> /\ call[d].rtp_sess = r
  BY <1>1 DEF KeyPress, Core, DigitsNeedAnswer
<1>3. rtp[r].arg[1] = d BY <1>2
<1>4. PICK action \in Actions :
         call' = [call EXCEPT ![d] = Pressed(@, action)]
  BY <1>3 DEF KeyPress
<1>5. UNCHANGED <<destVars, tmr, pbx_call, thread, rtpVars, row, cpTmr, pc, todo,
                  faults, crashed>>
  BY DEF KeyPress
<1>6. call[d] # NoCall /\ call[d] \in CallType
  BY <1>1, <1>2, SessionTypes, NoCallFacts
<1>7. thread' \in [Dest -> {"none", "playing"}] BY <1>1, <1>5 DEF TypeOK
<1> DEFINE b == Pressed(call[d], action)
<1>8. Like(b, call[d]) /\ b.status = call[d].status /\ b.sess = call[d].sess
  BY <1>6, PressedFacts
<1>9. call' = [call EXCEPT ![d] = b] BY <1>4
<1> HIDE DEF b
<1> QED BY <1>5, <1>6, <1>7, <1>8, <1>9, QuietStep

(* rtpThread *)
LEMMA PlayerStep ==
    ASSUME Inv, NEW d \in Dest, PlayOnce(d) \/ ThreadExits(d) PROVE Inv'
<1>1. TypeOK /\ Core BY DEF Inv
<1>2. thread[d] = "playing" /\ UNCHANGED <<destVars, tmr, pbx_call, rtpVars, row, cpTmr, pc,
                                           todo, faults, crashed>>
  BY DEF PlayOnce, ThreadExits
<1>3. call[d] # NoCall /\ call[d] \in CallType
  BY <1>1, <1>2, SessionTypes DEF Core, PlayerInv
<1>4. /\ thread' \in [Dest -> {"none", "playing"}]
      /\ \A e \in Dest : e # d => thread'[e] = thread[e]
  BY <1>1 DEF PlayOnce, ThreadExits, TypeOK
<1>5. CASE /\ call[d].num_play < MaxPlay
           /\ call' = [call EXCEPT ![d].num_play = @ + 1]
  <2> DEFINE b == [call[d] EXCEPT !.num_play = @ + 1]
  <2>1. Like(b, call[d]) /\ b.status = call[d].status /\ b.sess = call[d].sess
    BY <1>3, <1>5, PlayedFacts
  <2>2. call' = [call EXCEPT ![d] = b] BY <1>5
  <2> HIDE DEF b
  <2> QED BY <1>2, <1>3, <1>4, <2>1, <2>2, QuietStep
<1>6. CASE call' = [call EXCEPT ![d].num_play = Up(@, MaxPlay)]
  <2> DEFINE b == [call[d] EXCEPT !.num_play = Up(@, MaxPlay)]
  <2>1. Like(b, call[d]) /\ b.status = call[d].status /\ b.sess = call[d].sess
    BY <1>3, PlayedFacts
  <2>2. call' = [call EXCEPT ![d] = b] BY <1>6
  <2> HIDE DEF b
  <2> QED BY <1>2, <1>3, <1>4, <2>1, <2>2, QuietStep
<1>7. CASE UNCHANGED call
  <2>1. Like(call[d], call[d]) BY <1>3 DEF Like
  <2>2. call' = [call EXCEPT ![d] = call[d]] BY <1>1, <1>7 DEF TypeOK
  <2> QED BY <1>2, <1>3, <1>4, <2>1, <2>2, QuietStep
<1> QED BY <1>5, <1>6, <1>7 DEF PlayOnce, ThreadExits

(* on_call_end finds nothing to do. *)
LEMMA GoesOnStep == ASSUME Inv, NEW d \in Dest, CallGoesOn(d) PROVE Inv'
<1>1. /\ pc = "idle" /\ tmr' = [tmr EXCEPT ![d] = "armed"]
      /\ UNCHANGED <<destVars, call, pbx_call, thread, rtpVars, row, cpTmr, pc, todo,
                     faults, crashed>>
  BY DEF CallGoesOn, Due, Idle
<1>2. Core' BY <1>1, CoreSame DEF Inv
<1>3. JoinInv' BY <1>1 DEF JoinInv
<1>4. TypeOK' BY <1>1 DEF Inv, TypeOK, destVars, rtpVars
<1> QED BY <1>2, <1>3, <1>4 DEF Inv

(* on_call_end crashes. *)
LEMMA CrashStep == ASSUME Inv, NEW d \in Dest, HandlerCrashes(d) PROVE Inv'
<1>1. /\ pc = "idle" /\ faults' \in 0..MaxFault /\ crashed' = TRUE
      /\ UNCHANGED <<destVars, tmr, call, pbx_call, thread, rtpVars, row, cpTmr, pc, todo>>
  BY DialerConstants DEF HandlerCrashes, Due, Idle, Fault, Inv, TypeOK
<1>2. Core' BY <1>1, CoreSame DEF Inv
<1>3. JoinInv' BY <1>1 DEF JoinInv
<1>4. TypeOK' BY <1>1 DEF Inv, TypeOK, destVars, rtpVars
<1> QED BY <1>2, <1>3, <1>4 DEF Inv

(* on_call_end ends the call. *)
LEMMA CallEndsStep == ASSUME Inv, NEW d \in Dest, CallEnds(d) PROVE Inv'
<1>1. TypeOK /\ Core BY DEF Inv
<1> DEFINE b == [call[d] EXCEPT !.ended = TRUE, !.sess = "none",
                                !.status = "disconnected"]
           v == [status |-> "disconnected", talked |-> Talked(call[d]),
                 forwarded |-> pbx_call[d] # NoCall]
<1>2. /\ MustEnd(d) /\ call' = [call EXCEPT ![d] = b] /\ row' = [row EXCEPT ![d] = v]
      /\ tmr' = [tmr EXCEPT ![d] = "off"] /\ pc' = "join" /\ todo' = <<d>>
      /\ UNCHANGED <<destVars, pbx_call, thread, free, rtp, cpTmr, faults, crashed>>
  BY DEF CallEnds, rtpVars
<1>3. call[d] # NoCall /\ call[d] \in CallType /\ call[d].status # "none"
  <2>1. call[d] # NoCall
    <3>1. CASE call[d] = NoCall
      <4>1. call[d].ended = FALSE /\ call[d].status = "none" BY <3>1, NoCallFacts
      <4> QED BY <1>2, <4>1 DEF MustEnd, PlayedOut, Bridging
    <3> QED BY <3>1
  <2> QED BY <1>1, <2>1, SessionTypes, InUse DEF Core
<1>4. Like(b, call[d]) /\ b.status = "disconnected" /\ b.sess = "none"
  BY <1>3, EndedFacts
<1>5. v \in RowType /\ v.status = "disconnected" /\ (v.forwarded <=> pbx_call[d] # NoCall)
  <2>1. Talked(call[d]) \in BOOLEAN /\ (pbx_call[d] # NoCall) \in BOOLEAN BY DEF Talked
  <2> QED BY <2>1 DEF RowType
<1>6. thread' \in [Dest -> {"none", "playing"}] BY <1>1, <1>2 DEF TypeOK
<1> HIDE DEF b, v
<1>7. /\ ShapeInv' /\ PoolInv' /\ MediaInv' /\ DigitsNeedAnswer' /\ PlayerInv'
      /\ call' \in [Dest -> CallType] /\ call'[d] = b /\ b # NoCall
      /\ \A e \in Dest : e # d => call'[e] = call[e]
  BY <1>1, <1>2, <1>3, <1>4, <1>6, CalleeStep
<1>8. /\ row' \in [Dest -> RowType] /\ row'[d] = v
      /\ \A e \in Dest : e # d => row'[e] = row[e]
  BY <1>1, <1>2, <1>5, RowFacts
<1>9. RowInv' BY <1>1, <1>4, <1>5, <1>7, <1>8 DEF Core, RowInv
<1>10. JoinInv' BY <1>2, <1>4, <1>5, <1>7, <1>8 DEF JoinInv
<1>11. todo' \in Seq(Dest) BY <1>2
<1>12. TypeOK' BY <1>1, <1>2, <1>7, <1>8, <1>11 DEF TypeOK, destVars
<1> QED BY <1>7, <1>9, <1>10, <1>12 DEF Inv, Core

(* start_fake_calling frees a destination it cannot call. *)
LEMMA DialFailsStep == ASSUME Inv, DialFails PROVE Inv'
<1>1. TypeOK /\ Core BY DEF Inv
<1>2. /\ pc = "dial" /\ CallAllocFails /\ processl' = Unlink(processl, Head(todo))
      /\ todo' \in {<< >>, todo} /\ crashed' \in {TRUE, crashed}
      /\ UNCHANGED <<destinations, try_count, since, tmr, call, pbx_call, thread, row,
                     cpTmr, pc>>
  BY DEF DialFails
<1>3. /\ free' \in Seq(Rtp) /\ Distinct(free') /\ ToSet(free') \subseteq ToSet(free)
      /\ UNCHANGED rtp /\ faults' \in 0..MaxFault
  BY <1>1, <1>2, AllocFailsFacts
<1>4. PoolInv' /\ MediaInv' /\ DigitsNeedAnswer'
  BY <1>1, <1>2, <1>3, SessionsKept DEF Core
<1>5. ShapeInv' BY <1>1, <1>2 DEF Core, ShapeInv
<1>6. PlayerInv' /\ RowInv' BY <1>1, <1>2 DEF Core, PlayerInv, RowInv
<1>7. JoinInv' BY <1>2 DEF JoinInv
<1>8. processl' \in Seq(Dest) /\ todo' \in Seq(Dest)
  <2>1. processl \in Seq(Dest) /\ todo \in Seq(Dest) BY <1>1 DEF TypeOK
  <2>2. processl' \in Seq(Dest) BY <1>2, <2>1, UnlinkFacts
  <2>3. todo' \in Seq(Dest) BY <1>2, <2>1, EmptySeq
  <2> QED BY <2>2, <2>3
<1>9. TypeOK' BY <1>1, <1>2, <1>3, <1>8 DEF TypeOK
<1> QED BY <1>4, <1>5, <1>6, <1>7, <1>9 DEF Inv, Core

(* Taking a session gives it to a leg of the right type. *)
LEMMA TakeType ==
    ASSUME TypeOK, free # << >>, NEW leg \in Legs, TakeSession(leg)
    PROVE  free' \in Seq(Rtp) /\ rtp' \in [Rtp -> SessionType]
<1>1. Head(free) \in Rtp /\ Tail(free) \in Seq(Rtp) BY SessionTypes, TailFacts
<1>2. rtp \in [Rtp -> SessionType] /\ rtp[Head(free)] \in SessionType
  BY <1>1 DEF TypeOK
<1>3. [rtp[Head(free)] EXCEPT !.arg = leg] \in SessionType BY <1>2 DEF SessionType
<1>4. free' = Tail(free) /\ rtp' = [rtp EXCEPT ![Head(free)].arg = leg]
  BY DEF TakeSession
<1> QED BY <1>1, <1>2, <1>3, <1>4

(* start_fake_calling calls a destination. *)
LEMMA DialOkStep ==
    ASSUME Inv, NEW media \in Media, NEW sess \in {"inviting", "none"},
           DialOk(media, sess)
    PROVE  Inv'
<1> DEFINE d == Head(todo)
<1>1. TypeOK /\ Core BY DEF Inv
<1>2. /\ pc = "dial" /\ todo # << >> /\ call[d] = NoCall /\ free # << >>
      /\ since' = [since EXCEPT ![d] = 0] /\ todo' = Tail(todo)
      /\ UNCHANGED <<destinations, processl, pbx_call, thread, cpTmr, pc, faults,
                     crashed>>
  BY DEF DialOk
<1>3. d \in Dest /\ Tail(todo) \in Seq(Dest) BY <1>1, <1>2, TailFacts DEF TypeOK
<1>4. since' \in [Dest -> 0..RetryDelay]
  <2>1. 0 \in 0..RetryDelay BY DialerConstants
  <2> QED BY <1>1, <1>2, <2>1 DEF TypeOK
<1>5. JoinInv' BY <1>2 DEF JoinInv
<1>6. CASE media = "missing"
  <2>1. free' = Append(Tail(free), Head(free)) /\ UNCHANGED <<try_count, tmr, call, rtp, row>>
    BY <1>6 DEF DialOk
  <2> DEFINE t == Tail(free)
             h == Head(free)
  <2>2. free \in Seq(Rtp) /\ Distinct(free) BY <1>1 DEF TypeOK, Core, PoolInv
  <2>3. /\ h \in Rtp /\ t \in Seq(Rtp) /\ Distinct(t) /\ h \notin ToSet(t)
        /\ ToSet(free) = ToSet(t) \cup {h} /\ free' = Append(t, h)
    BY <1>2, <2>1, <2>2, TailFacts
  <2> HIDE DEF t, h
  <2>4. free' \in Seq(Rtp) /\ Distinct(free') /\ ToSet(free') = ToSet(t) \cup {h}
    BY <2>3, AppendFacts
  <2>5. ToSet(free') \subseteq ToSet(free) BY <2>3, <2>4
  <2>6. PoolInv' /\ MediaInv' /\ DigitsNeedAnswer'
    BY <1>1, <1>2, <2>1, <2>4, <2>5, SessionsKept DEF Core
  <2>7. ShapeInv' BY <1>1, <1>2, <2>1 DEF Core, ShapeInv
  <2>8. PlayerInv' /\ RowInv' BY <1>1, <1>2, <2>1 DEF Core, PlayerInv, RowInv
  <2>9. TypeOK' BY <1>1, <1>2, <1>3, <1>4, <2>1, <2>4 DEF TypeOK
  <2> QED BY <1>5, <2>6, <2>7, <2>8, <2>9 DEF Inv, Core
<1>7. CASE media # "missing"
  <2> DEFINE b == [NewCall(sess) EXCEPT !.join_pbx = (media = "pbx")]
  <2>1. /\ TakeSession(<<d, "call">>) /\ call' = [call EXCEPT ![d] = b]
        /\ try_count' = [try_count EXCEPT ![d] = (@ + 1) % TryWrap]
        /\ tmr' = [tmr EXCEPT ![d] = "armed"]
        /\ UpdateCallStatus(d, "connecting")
    BY <1>7 DEF DialOk
  <2>2. /\ b \in CallType /\ b.rtp_sess = Head(free) /\ b.forwarded = FALSE
        /\ b.status = "connecting" /\ b.sess = sess
    <3>1. (media = "pbx") \in BOOLEAN /\ free \in Seq(Rtp) BY <1>1 DEF TypeOK
    <3> QED BY <3>1, <1>2, NewCallFacts
  <2> HIDE DEF b, d
  <2>3. /\ call' \in [Dest -> CallType] /\ call'[d] = b
        /\ \A e \in Dest : e # d => call'[e] = call[e]
    BY <1>1, <1>3, <2>1, <2>2, OneCall
  <2>4. Head(free) \in Rtp /\ None \notin Rtp BY <1>1, <1>2, SessionTypes, TailFacts
  <2>5. b # NoCall BY <2>2, NoCallFacts
  <2>6. pbx_call[d] = NoCall BY <1>1, <1>2, <1>3, InUse DEF Core
  <2>7. PoolInv' /\ MediaInv' /\ DigitsNeedAnswer'
    <3>1. call[d].rtp_sess = None BY <1>2, NoCallFacts
    <3>2. /\ call'[d].rtp_sess = Head(free)
          /\ pbx_call'[d].rtp_sess = pbx_call[d].rtp_sess
          /\ \A e \in Dest \ {d} : call'[e] = call[e] /\ pbx_call'[e] = pbx_call[e]
      BY <1>2, <2>2, <2>3
    <3> QED BY <1>1, <1>2, <1>3, <2>1, <3>1, <3>2, SessionTaken DEF Core
  <2>8. ShapeInv'
    <3>1. ASSUME NEW e \in Dest
          PROVE /\ Shape(call[e])' /\ Shape(pbx_call[e])'
                /\ (pbx_call'[e] # NoCall => call'[e].forwarded = TRUE)
      <4>1. CASE e = d
        BY <4>1, <1>2, <2>2, <2>3, <2>4, <2>6 DEF Shape, NoCall
      <4>2. CASE e # d
        BY <4>2, <1>1, <1>2, <2>3 DEF Core, ShapeInv, Shape, NoCall
      <4> QED BY <4>1, <4>2
    <3> QED BY <3>1, Zenon DEF ShapeInv, NoCall
  <2>9. PlayerInv' BY <1>1, <1>2, <2>3, <2>5 DEF Core, PlayerInv
  <2>10. /\ row' \in [Dest -> RowType] /\ row'[d].status = "connecting"
         /\ \A e \in Dest : e # d => row'[e] = row[e]
    BY <1>1, <1>3, <2>1, StatusFacts
  <2>11. RowInv' BY <1>1, <2>2, <2>3, <2>5, <2>10 DEF Core, RowInv
  <2>12. try_count' \in [Dest -> 0..TryWrap - 1]
    <3>1. try_count[d] \in 0..TryWrap - 1 /\ TryWrap \in Nat \ {0}
      BY <1>1, <1>3, DialerConstants DEF TypeOK
    <3>2. (try_count[d] + 1) % TryWrap \in 0..TryWrap - 1 BY <3>1
    <3> QED BY <1>1, <1>3, <2>1, <3>2 DEF TypeOK
  <2>13. free' \in Seq(Rtp) /\ rtp' \in [Rtp -> SessionType]
    BY <1>1, <1>2, <1>3, <2>1, TakeType DEF Legs
  <2>14. TypeOK' BY <1>1, <1>2, <1>3, <1>4, <2>1, <2>3, <2>10, <2>12, <2>13 DEF TypeOK, d
  <2> QED BY <1>5, <2>7, <2>8, <2>9, <2>11, <2>14 DEF Inv, Core
<1> QED BY <1>6, <1>7

(* on_call_end starts the PBX leg. *)
LEMMA ForwardStep == ASSUME Inv, NEW d \in Dest, Forward(d) PROVE Inv'
<1>1. TypeOK /\ Core BY DEF Inv
<1>2. /\ pc = "idle" /\ Bridging(call[d]) /\ ~call[d].forwarded
      /\ tmr' = [tmr EXCEPT ![d] = "armed"]
      /\ UNCHANGED <<destinations, processl, try_count, since, thread, row, cpTmr, pc,
                     todo, crashed>>
  BY DEF Forward, Due, Idle, destVars
<1>3. JoinInv' BY <1>2 DEF JoinInv
<1>4. /\ call[d] # NoCall /\ call[d] \in CallType /\ pbx_call[d] = NoCall
      /\ call[d].status = "established"
  BY <1>1, <1>2, NoCallFacts, SessionTypes DEF Bridging, Core, ShapeInv
<1>5. CASE /\ free # << >> /\ TakeSession(<<d, "pbx_call">>)
           /\ \E sess \in {"inviting", "none"} :
                 pbx_call' = [pbx_call EXCEPT ![d] = NewCall(sess)]
           /\ call' = [call EXCEPT ![d].forwarded = TRUE] /\ UNCHANGED faults
  <2>1. PICK sess \in {"inviting", "none"} :
           pbx_call' = [pbx_call EXCEPT ![d] = NewCall(sess)]
    BY <1>5
  <2> DEFINE p == NewCall(sess)
             b == [call[d] EXCEPT !.forwarded = TRUE]
  <2>2. /\ p \in CallType /\ p.rtp_sess = Head(free)
        /\ p.status = "connecting" /\ p.sess = sess
    <3>1. free \in Seq(Rtp) BY <1>1 DEF TypeOK
    <3>2. TRUE \in BOOLEAN OBVIOUS
    <3> QED BY <3>1, <3>2, <1>5, NewCallFacts
  <2>3. /\ b \in CallType /\ b.rtp_sess = call[d].rtp_sess /\ b.forwarded = TRUE
        /\ b.status = call[d].status /\ b.sess = call[d].sess
    BY <1>4, ForwardedFacts
  <2>4. pbx_call' = [pbx_call EXCEPT ![d] = p] /\ call' = [call EXCEPT ![d] = b]
    BY <1>5, <2>1
  <2> HIDE DEF p, b
  <2>5. /\ call' \in [Dest -> CallType] /\ call'[d] = b
        /\ \A e \in Dest : e # d => call'[e] = call[e]
        /\ pbx_call' \in [Dest -> CallType] /\ pbx_call'[d] = p
        /\ \A e \in Dest : e # d => pbx_call'[e] = pbx_call[e]
    BY <1>1, <2>2, <2>3, <2>4, OneCall
  <2>6. Head(free) \in Rtp /\ None \notin Rtp BY <1>1, <1>5, SessionTypes, TailFacts
  <2>7. /\ call[d].rtp_sess # None /\ call[d].status # "none"
        /\ (call[d].sess = "inviting" => call[d].status = "connecting")
    BY <1>1, <1>4, InUse DEF Core
  <2>8. b # NoCall BY <2>3, <2>7, NoCallFacts
  <2>9. PoolInv' /\ MediaInv' /\ DigitsNeedAnswer'
    <3>1. pbx_call[d].rtp_sess = None BY <1>4, NoCallFacts
    <3>2. /\ pbx_call'[d].rtp_sess = Head(free)
          /\ call'[d].rtp_sess = call[d].rtp_sess /\ call'[d].status = call[d].status
          /\ \A e \in Dest \ {d} : call'[e] = call[e] /\ pbx_call'[e] = pbx_call[e]
      BY <2>2, <2>3, <2>5
    <3> QED BY <1>1, <1>5, <3>1, <3>2, SessionTaken DEF Core
  <2>10. ShapeInv'
    <3>1. ASSUME NEW e \in Dest
          PROVE /\ Shape(call[e])' /\ Shape(pbx_call[e])'
                /\ (pbx_call'[e] # NoCall => call'[e].forwarded = TRUE)
      <4>1. CASE e = d
        BY <4>1, <2>2, <2>3, <2>5, <2>6, <2>7 DEF Shape, NoCall
      <4>2. CASE e # d
        BY <4>2, <1>1, <2>5 DEF Core, ShapeInv, Shape, NoCall
      <4> QED BY <4>1, <4>2
    <3> QED BY <3>1, Zenon DEF ShapeInv, NoCall
  <2>11. PlayerInv' BY <1>1, <1>2, <2>5, <2>8 DEF Core, PlayerInv
  <2>12. RowInv' BY <1>1, <1>2, <1>4, <2>3, <2>5, <2>8 DEF Core, RowInv
  <2>13. free' \in Seq(Rtp) /\ rtp' \in [Rtp -> SessionType]
    BY <1>1, <1>5, TakeType DEF Legs
  <2>14. TypeOK' BY <1>1, <1>2, <1>5, <2>5, <2>13 DEF TypeOK
  <2> QED BY <1>3, <2>9, <2>10, <2>11, <2>12, <2>14 DEF Inv, Core
<1>6. CASE CallAllocFails /\ UNCHANGED <<call, pbx_call>>
  <2>1. /\ free' \in Seq(Rtp) /\ Distinct(free') /\ ToSet(free') \subseteq ToSet(free)
        /\ UNCHANGED rtp /\ faults' \in 0..MaxFault
    BY <1>1, <1>6, AllocFailsFacts
  <2>2. PoolInv' /\ MediaInv' /\ DigitsNeedAnswer'
    BY <1>1, <1>6, <2>1, SessionsKept DEF Core
  <2>3. ShapeInv' BY <1>1, <1>6 DEF Core, ShapeInv
  <2>4. PlayerInv' /\ RowInv' BY <1>1, <1>2, <1>6 DEF Core, PlayerInv, RowInv
  <2>5. TypeOK' BY <1>1, <1>2, <1>6, <2>1 DEF TypeOK
  <2> QED BY <1>3, <2>2, <2>3, <2>4, <2>5 DEF Inv, Core
<1> QED BY <1>5, <1>6 DEF Forward

(* thrd_join returns and the call is freed. *)
LEMMA JoinStep == ASSUME Inv, Join PROVE Inv'
<1>1. TypeOK /\ Core /\ JoinInv BY DEF Inv
<1>2. PICK d \in Dest : todo = <<d>> /\ call[d].status = "disconnected"
  BY <1>1 DEF Join, JoinInv
<1>3. /\ thread[d] = "none" /\ ReleaseSessions(d)
      /\ call' = [call EXCEPT ![d] = NoCall] /\ pbx_call' = [pbx_call EXCEPT ![d] = NoCall]
      /\ processl' = Unlink(processl, d)
      /\ destinations' \in {destinations, Append(destinations, d)}
      /\ pc' = "idle" /\ todo' = << >>
      /\ UNCHANGED <<try_count, since, tmr, thread, row, cpTmr, faults, crashed>>
  BY <1>2 DEF Join, Destroy
<1>4. call[d] # NoCall /\ call[d].rtp_sess # None
  BY <1>1, <1>2, InUse, NoCallFacts DEF Core
<1>5. /\ call' \in [Dest -> CallType] /\ call'[d] = NoCall
      /\ \A e \in Dest : e # d => call'[e] = call[e]
      /\ pbx_call' \in [Dest -> CallType] /\ pbx_call'[d] = NoCall
      /\ \A e \in Dest : e # d => pbx_call'[e] = pbx_call[e]
  BY <1>1, <1>3, OneCall, NoCallFacts
<1>6. PoolInv' /\ MediaInv' /\ DigitsNeedAnswer'
  BY <1>1, <1>3, <1>4, SessionsReleased DEF Core
<1>7. ShapeInv'
  <2>1. ASSUME NEW e \in Dest
        PROVE /\ Shape(call[e])' /\ Shape(pbx_call[e])'
              /\ (pbx_call'[e] # NoCall => call'[e].forwarded = TRUE)
    BY <1>1, <1>5 DEF Core, ShapeInv, Shape, NoCall
  <2> QED BY <2>1, Zenon DEF ShapeInv, NoCall
<1>8. PlayerInv' BY <1>1, <1>3, <1>5 DEF Core, PlayerInv
<1>9. RowInv'
  <2>1. row[d].status = "disconnected" BY <1>1, <1>2 DEF Core, RowInv
  <2> QED BY <1>1, <1>3, <1>5, <2>1, NoCallFacts DEF Core, RowInv
<1>10. JoinInv' BY <1>3 DEF JoinInv
<1>11. /\ destinations' \in Seq(Dest) /\ processl' \in Seq(Dest) /\ todo' \in Seq(Dest)
  <2>1. destinations \in Seq(Dest) /\ processl \in Seq(Dest) BY <1>1 DEF TypeOK
  <2>2. processl' \in Seq(Dest) BY <1>3, <2>1, UnlinkFacts
  <2>3. destinations' \in Seq(Dest) BY <1>3, <2>1, AppendFacts
  <2> QED BY <1>3, <2>2, <2>3, EmptySeq
<1>12. free' \in Seq(Rtp) /\ rtp' \in [Rtp -> SessionType]
  <2>1. IdleSession \in SessionType BY DEF IdleSession, SessionType
  <2>2. free' \in Seq(Rtp) BY <1>1, <1>3, <1>4, ReleaseFacts DEF Core
  <2>3. rtp \in [Rtp -> SessionType] BY <1>1 DEF TypeOK
  <2> QED BY <1>3, <2>1, <2>2, <2>3 DEF ReleaseSessions
<1>13. TypeOK' BY <1>1, <1>3, <1>5, <1>11, <1>12 DEF TypeOK
<1> QED BY <1>6, <1>7, <1>8, <1>9, <1>10, <1>13 DEF Inv, Core

(* A campaign begins with all sessions free and no call. *)
LEMMA InvInit == ASSUME Init PROVE Inv
<1>1. /\ destinations \in Seq(Dest) /\ free \in Seq(Rtp) /\ Distinct(free)
  BY AllFacts, DialerConstants DEF Init
<1>2. /\ call = [d \in Dest |-> NoCall] /\ pbx_call = [d \in Dest |-> NoCall]
      /\ rtp = [r \in Rtp |-> IdleSession]
  BY DEF Init
<1>3. NoCall \in CallType /\ NoCall.rtp_sess = None /\ NoCall.status = "none"
      /\ NoCall.forwarded = FALSE
  BY NoCallFacts
<1>4. IdleSession \in SessionType /\ IdleSession.remote = None
      /\ IdleSession.telev_recv = FALSE
  BY DEF IdleSession, SessionType
<1> DEFINE v == [status |-> "created", talked |-> FALSE, forwarded |-> FALSE]
<1>5. v \in RowType /\ v.status = "created" BY DEF RowType
<1>6. row = [d \in Dest |-> v] BY DEF Init
<1> HIDE DEF v
<1>7. TypeOK
  <2>1. 0 \in 0..TryWrap - 1 /\ 0 \in 0..RetryDelay /\ 0 \in 0..MaxFault
    BY DialerConstants
  <2>2. << >> \in Seq(Dest) BY EmptySeq
  <2>3. /\ call \in [Dest -> CallType] /\ pbx_call \in [Dest -> CallType]
        /\ rtp \in [Rtp -> SessionType] /\ row \in [Dest -> RowType]
    BY <1>2, <1>3, <1>4, <1>5, <1>6
  <2> QED BY <1>1, <2>1, <2>2, <2>3 DEF Init, TypeOK
<1>8. ShapeInv BY <1>2 DEF ShapeInv, Shape
<1>9. PoolInv BY <1>1, <1>2, <1>3 DEF PoolInv
<1>10. MediaInv BY <1>2, <1>4 DEF MediaInv
<1>11. DigitsNeedAnswer BY <1>2, <1>4 DEF DigitsNeedAnswer
<1>12. PlayerInv BY DEF Init, PlayerInv
<1>13. RowInv BY <1>2, <1>3, <1>5, <1>6 DEF RowInv
<1>14. JoinInv BY DEF Init, JoinInv
<1> QED BY <1>7, <1>8, <1>9, <1>10, <1>11, <1>12, <1>13, <1>14 DEF Inv, Core

(* One step of the specification. *)
LEMMA InvStep == ASSUME Inv, [Next]_vars PROVE Inv'
<1>1. CASE Tick BY <1>1, TickStep
<1>2. CASE StartRound BY <1>2, RoundStep
<1>3. CASE Dialling
  <2>1. CASE Pick \/ StartDialling \/ DialSkips \/ EndRound BY <2>1, RoundStep
  <2>2. CASE DialFails BY <2>2, DialFailsStep
  <2>3. ASSUME NEW media \in Media \ {"nogateway"}, NEW sess \in {"inviting", "none"},
               DialOk(media, sess)
        PROVE  Inv'
    BY <2>3, DialOkStep
  <2> QED BY <1>3, <2>1, <2>2, <2>3 DEF Dialling
<1>4. CASE Join BY <1>4, JoinStep
<1>5. ASSUME NEW d \in Dest,
             \/ Progress(d) \/ Establish(d) \/ EstablishPbx(d) \/ Close(d)
             \/ OnCallEnd(d) \/ PlayOnce(d) \/ ThreadExits(d)
      PROVE  Inv'
  BY <1>5, ProgressStep, EstablishStep, EstablishPbxStep, CloseStep, PlayerStep,
     GoesOnStep, ForwardStep, CallEndsStep, CrashStep DEF OnCallEnd
<1>6. ASSUME NEW r \in Rtp, KeyPress(r) PROVE Inv' BY <1>6, KeyPressStep
<1>7. CASE UNCHANGED vars
  <2>1. UNCHANGED <<call, pbx_call, thread, rtpVars, row, pc, todo>>
    BY <1>7 DEF vars
  <2>2. Core' BY <2>1, CoreSame DEF Inv
  <2>3. JoinInv' BY <2>1 DEF Inv, JoinInv
  <2>4. TypeOK' BY <1>7 DEF Inv, TypeOK, vars, destVars, rtpVars
  <2> QED BY <2>2, <2>3, <2>4 DEF Inv
<1> QED BY <1>1, <1>2, <1>3, <1>4, <1>5, <1>6, <1>7 DEF Next

-----------------------------------------------------------------------------
(* Inv holds in every state of every run: the types of all variables, and  *)
(* that calls, sessions, player threads and rows fit together.             *)
THEOREM Invariance == Spec => []Inv
<1>1. Init => Inv BY InvInit
<1>2. Inv /\ [Next]_vars => Inv' BY InvStep
<1> QED BY <1>1, <1>2, PTL DEF Spec

(* rtp_recv_handler relays media only between the two legs of one call, in *)
(* both directions, with any number of calls and sessions, however often   *)
(* a session went through the pool.                                        *)
THEOREM MediaStays == Spec => []MediaStaysInCall
<1>1. Inv => MediaStaysInCall
  BY DEF Inv, Core, MediaInv, MediaStaysInCall, Pair
<1> QED BY <1>1, Invariance, PTL

(* Digits count only for the call that owns the session, once answered. *)
THEOREM DigitsSafe == Spec => []DigitsNeedAnswer
<1>1. Inv => DigitsNeedAnswer BY DEF Inv, Core
<1> QED BY <1>1, Invariance, PTL

(* rtpThread never plays on a call that is freed. *)
THEOREM PlayerSafe == Spec => []PlayerHoldsCall
<1>1. Inv => PlayerHoldsCall
  BY InUse DEF Inv, Core, PlayerInv, PlayerHoldsCall
<1> QED BY <1>1, Invariance, PTL

(* The calls row follows the call. *)
THEOREM RowTracks == Spec => []RowTracksCall
<1>1. Inv => RowTracksCall
  BY DEF Inv, Core, RowInv, RowTracksCall
<1> QED BY <1>1, Invariance, PTL

-----------------------------------------------------------------------------
(* The two lists and what becomes of a contact *)

(* The sessions that neither the pool nor a leg has. *)
Lost == Rtp \ (ToSet(free) \cup Owned)

(* Each destination is in one list at most, and the loops of               *)
(* start_fake_calling visit elements of the list they walk along.          *)
ListsInv ==
    /\ Distinct(destinations) /\ Distinct(processl)
    /\ \A d \in Dest : ~(d \in ToSet(destinations) /\ d \in ToSet(processl))
    /\ \A d \in Dest : call[d] # NoCall => d \in ToSet(processl)
    /\ (pc = "pick" => Distinct(todo) /\ ToSet(todo) \subseteq ToSet(destinations))
    /\ (pc = "dial" /\ ~crashed => ToSet(todo) \subseteq ToSet(processl))

(* A destination that may still be called has a try left. *)
LimitInv ==
    /\ Len(processl) <= CallLimit
    /\ (pc = "pick" /\ todo # << >> => Len(processl) < CallLimit)
    /\ (MaxTry > 0 => \A d \in Dest :
            /\ try_count[d] <= MaxTry
            /\ (d \in ToSet(destinations) \cup ToSet(processl) /\ call[d] = NoCall
                    => try_count[d] < MaxTry))

(* What is lost was lost by a failed allocation. *)
LostInv == Cardinality(Lost) <= faults

ListInv == ListsInv /\ LimitInv /\ LostInv /\ AnsweredOnce /\ NoContactDropped

(* A destination on its way to the INVITE has waited long enough. *)
SpacingInv ==
    \A d \in ToSet(processl) : call[d] = NoCall => MayDial(d)

(* Each leg keeps its session, or stays without one. *)
SameLegs == \A e \in Dest : /\ call'[e].rtp_sess = call[e].rtp_sess
                            /\ pbx_call'[e].rtp_sess = pbx_call[e].rtp_sess

(* The sessions in use are those the legs point at. *)
LEMMA OwnedFacts ==
    \A r \in Rtp : /\ r \in Owned <=> \E d \in Dest : \/ call[d].rtp_sess = r
                                                      \/ pbx_call[d].rtp_sess = r
                   /\ r \in Owned' <=> \E d \in Dest : \/ call'[d].rtp_sess = r
                                                       \/ pbx_call'[d].rtp_sess = r
<1>1. None \notin Rtp BY DialerConstants
<1>2. ASSUME NEW d \in Dest
      PROVE  <<d, "call">> \in Legs /\ <<d, "pbx_call">> \in Legs
  BY DEF Legs
<1>3. ASSUME NEW r \in Rtp
      PROVE  r \in Owned <=> \E d \in Dest : call[d].rtp_sess = r \/ pbx_call[d].rtp_sess = r
  <2>1. ASSUME r \in Owned
        PROVE  \E d \in Dest : call[d].rtp_sess = r \/ pbx_call[d].rtp_sess = r
    <3>1. PICK leg \in Legs : SessionOf(leg) = r BY <2>1 DEF Owned
    <3> QED BY <3>1 DEF Legs, SessionOf
  <2>2. ASSUME NEW d \in Dest, call[d].rtp_sess = r PROVE r \in Owned
    <3>1. SessionOf(<<d, "call">>) = r BY <2>2 DEF SessionOf
    <3> QED BY <3>1, <1>1, <1>2 DEF Owned
  <2>3. ASSUME NEW d \in Dest, pbx_call[d].rtp_sess = r PROVE r \in Owned
    <3>1. SessionOf(<<d, "pbx_call">>) = r BY <2>3 DEF SessionOf
    <3> QED BY <3>1, <1>1, <1>2 DEF Owned
  <2> QED BY <2>1, <2>2, <2>3
<1>4. ASSUME NEW r \in Rtp
      PROVE  r \in Owned' <=> \E d \in Dest : call'[d].rtp_sess = r \/ pbx_call'[d].rtp_sess = r
  <2>1. ASSUME r \in Owned'
        PROVE  \E d \in Dest : call'[d].rtp_sess = r \/ pbx_call'[d].rtp_sess = r
    <3>1. PICK leg \in Legs : SessionOf(leg)' = r BY <2>1 DEF Owned
    <3> QED BY <3>1 DEF Legs, SessionOf
  <2>2. ASSUME NEW d \in Dest, call'[d].rtp_sess = r PROVE r \in Owned'
    <3>1. SessionOf(<<d, "call">>)' = r BY <2>2 DEF SessionOf
    <3> QED BY <3>1, <1>1, <1>2 DEF Owned
  <2>3. ASSUME NEW d \in Dest, pbx_call'[d].rtp_sess = r PROVE r \in Owned'
    <3>1. SessionOf(<<d, "pbx_call">>)' = r BY <2>3 DEF SessionOf
    <3> QED BY <3>1, <1>1, <1>2 DEF Owned
  <2> QED BY <2>1, <2>2, <2>3
<1> QED BY <1>3, <1>4

(* Nothing more is lost. *)
LEMMA LostLess ==
    ASSUME LostInv, Lost' \subseteq Lost, faults \in Nat, faults' \in Nat,
           faults <= faults'
    PROVE  LostInv'
<1>1. IsFiniteSet(Lost) /\ Lost \in SUBSET Rtp
  BY DialerConstants, FS_Subset DEF Lost
<1>2. Lost' \in SUBSET Lost OBVIOUS
<1>3. Cardinality(Lost') <= Cardinality(Lost) /\ IsFiniteSet(Lost')
  BY <1>1, <1>2, FS_Subset
<1>4. Cardinality(Lost) \in Nat /\ Cardinality(Lost') \in Nat
  BY <1>1, <1>3, FS_CardinalityType
<1> QED BY <1>3, <1>4 DEF LostInv

(* One session more is lost. *)
LEMMA LostMore ==
    ASSUME LostInv, NEW r, Lost' \subseteq Lost \cup {r}, faults \in Nat,
           faults' = faults + 1
    PROVE  LostInv'
<1>1. IsFiniteSet(Lost) BY DialerConstants, FS_Subset DEF Lost
<1>2. /\ IsFiniteSet(Lost \cup {r}) /\ Cardinality(Lost) \in Nat
      /\ Cardinality(Lost \cup {r}) <= Cardinality(Lost) + 1
  <2>1. Cardinality(Lost) \in Nat BY <1>1, FS_CardinalityType
  <2>2. /\ IsFiniteSet(Lost \cup {r})
        /\ Cardinality(Lost \cup {r}) = IF r \in Lost THEN Cardinality(Lost)
                                                     ELSE Cardinality(Lost) + 1
    BY <1>1, FS_AddElement, Zenon
  <2> QED BY <2>1, <2>2
<1> DEFINE S == Lost \cup {r}
<1>3. Lost' \in SUBSET S /\ IsFiniteSet(S) BY <1>2
<1> HIDE DEF S
<1>4. Cardinality(Lost') <= Cardinality(S) /\ IsFiniteSet(Lost')
  BY <1>3, FS_Subset
<1>5. Cardinality(S) \in Nat /\ Cardinality(Lost') \in Nat
  BY <1>3, <1>4, FS_CardinalityType
<1>6. Cardinality(S) <= Cardinality(Lost) + 1 BY <1>2 DEF S
<1> QED BY <1>2, <1>4, <1>5, <1>6 DEF LostInv

(* A leg with the same session is in use as before. *)
LEMMA SameUse ==
    ASSUME ShapeInv, ShapeInv', NEW d \in Dest, call'[d].rtp_sess = call[d].rtp_sess
    PROVE  call'[d] = NoCall <=> call[d] = NoCall
<1>1. call[d] = NoCall <=> call[d].rtp_sess = None BY InUse
<1>2. call'[d] = NoCall <=> call'[d].rtp_sess = None
  BY NoCallFacts DEF ShapeInv, Shape, NoCall
<1> QED BY <1>1, <1>2

(* A step that begins and ends no call and moves no destination. *)
LEMMA SteadyLists ==
    ASSUME Inv, ListInv, UNCHANGED <<destinations, processl, try_count>>,
           \A e \in Dest : call'[e] = NoCall <=> call[e] = NoCall,
           \A e \in Dest : call[e] = NoCall => row'[e] = row[e],
           LostInv', faults' = 0 => faults = 0,
           pc' = "join" \/ UNCHANGED <<pc, todo, crashed>>
    PROVE  ListInv'
<1>1. destinations \in Seq(Dest) /\ processl \in Seq(Dest) BY DEF Inv, TypeOK
<1>2. ListsInv' BY DEF ListInv, ListsInv
<1>3. LimitInv' BY DEF ListInv, LimitInv
<1>4. ASSUME NEW d \in Dest, d \notin ToSet(processl) PROVE row'[d] = row[d]
  BY <1>4 DEF ListInv, ListsInv
<1>5. AnsweredOnce'
  <2>1. ToSet(destinations) \subseteq Dest BY <1>1, ElementOfSeq DEF ToSet
  <2> QED BY <1>4, <2>1 DEF ListInv, ListsInv, AnsweredOnce
<1>6. NoContactDropped' BY <1>4 DEF ListInv, NoContactDropped
<1> QED BY <1>2, <1>3, <1>5, <1>6 DEF ListInv

(* A step that takes no session either. *)
LEMMA Steady ==
    ASSUME Inv, Inv', ListInv, SameLegs,
           UNCHANGED <<destinations, processl, try_count, free, faults>>,
           \A e \in Dest : call[e] = NoCall => row'[e] = row[e],
           pc' = "join" \/ UNCHANGED <<pc, todo, crashed>>
    PROVE  ListInv'
<1>1. TypeOK /\ ShapeInv /\ ShapeInv' BY DEF Inv, Core
<1>2. \A e \in Dest : call'[e] = NoCall <=> call[e] = NoCall
  BY <1>1, SameUse DEF SameLegs
<1>3. LostInv'
  <2>1. Lost' \subseteq Lost BY OwnedFacts DEF SameLegs, Lost
  <2>2. faults \in Nat BY <1>1, DialerConstants DEF TypeOK
  <2> QED BY <2>1, <2>2, LostLess DEF ListInv
<1> QED BY <1>2, <1>3, SteadyLists

(* The callee's leg changes and keeps its session. *)
LEMMA CalleeLegs ==
    ASSUME TypeOK, NEW d \in Dest, NEW b, Like(b, call[d]),
           call' = [call EXCEPT ![d] = b], UNCHANGED pbx_call
    PROVE  SameLegs
<1>1. b \in CallType /\ b.rtp_sess = call[d].rtp_sess BY DEF Like
<1> QED BY <1>1, OneCall DEF SameLegs

(* The PBX leg changes and keeps its session. *)
LEMMA PbxLegs ==
    ASSUME TypeOK, NEW d \in Dest, NEW b, Like(b, pbx_call[d]),
           pbx_call' = [pbx_call EXCEPT ![d] = b], UNCHANGED call
    PROVE  SameLegs
<1>1. b \in CallType /\ b.rtp_sess = pbx_call[d].rtp_sess BY DEF Like
<1> QED BY <1>1, OneCall DEF SameLegs

(* The handlers of a call in progress, the player and the clock leave the  *)
(* legs their sessions.                                                    *)
LEMMA HandlerLegs ==
    ASSUME Inv, NEW d \in Dest,
           \/ Tick \/ Progress(d) \/ Establish(d) \/ EstablishPbx(d) \/ Close(d)
           \/ CallGoesOn(d) \/ PlayOnce(d) \/ ThreadExits(d)
    PROVE  SameLegs
<1>1. TypeOK /\ Core BY DEF Inv
<1>2. call[d] \in CallType /\ pbx_call[d] \in CallType BY <1>1, SessionTypes
<1>3. SameLegs
  <2>1. CASE Tick
    <3>1. \A e \in Dest : /\ call'[e] = Older(call[e]) /\ pbx_call'[e] = Older(pbx_call[e])
                          /\ call[e] \in CallType /\ pbx_call[e] \in CallType
      BY <2>1, <1>1, SessionTypes DEF Tick
    <3>2. \A c \in CallType : Older(c).rtp_sess = c.rtp_sess BY OlderFacts DEF Like
    <3> QED BY <3>1, <3>2 DEF SameLegs
  <2>3. CASE Establish(d)
    <3> DEFINE a == Answered(call[d])
               u == Unusable(call[d])
    <3>1. Like(a, call[d]) /\ Like(u, call[d]) BY <1>2, AnsweredFacts
    <3>2. \/ call' = [call EXCEPT ![d] = a] \/ call' = [call EXCEPT ![d] = u]
      BY <2>3 DEF Establish
    <3>3. UNCHANGED pbx_call BY <2>3 DEF Establish
    <3> HIDE DEF a, u
    <3> QED BY <1>1, <3>1, <3>2, <3>3, CalleeLegs
  <2>4. CASE EstablishPbx(d)
    <3> DEFINE a == Answered(pbx_call[d])
               u == Unusable(pbx_call[d])
    <3>1. Like(a, pbx_call[d]) /\ Like(u, pbx_call[d]) BY <1>2, AnsweredFacts
    <3>2. \/ pbx_call' = [pbx_call EXCEPT ![d] = a]
          \/ pbx_call' = [pbx_call EXCEPT ![d] = u]
      BY <2>4 DEF EstablishPbx
    <3>3. UNCHANGED call BY <2>4 DEF EstablishPbx
    <3> HIDE DEF a, u
    <3> QED BY <1>1, <3>1, <3>2, <3>3, PbxLegs
  <2>5. CASE Close(d)
    <3> DEFINE a == Closed(call[d])
               b == Closed(pbx_call[d])
    <3>1. Like(a, call[d]) /\ Like(b, pbx_call[d]) BY <1>2, ClosedFacts
    <3>2. \/ call' = [call EXCEPT ![d] = a] /\ UNCHANGED pbx_call
          \/ pbx_call' = [pbx_call EXCEPT ![d] = b] /\ UNCHANGED call
      BY <2>5 DEF Close
    <3> HIDE DEF a, b
    <3>3. CASE call' = [call EXCEPT ![d] = a] /\ UNCHANGED pbx_call
      BY <1>1, <3>1, <3>3, CalleeLegs
    <3>4. CASE pbx_call' = [pbx_call EXCEPT ![d] = b] /\ UNCHANGED call
      BY <1>1, <3>1, <3>4, PbxLegs
    <3> QED BY <3>2, <3>3, <3>4
  <2>6. CASE (PlayOnce(d) \/ ThreadExits(d)) /\ ~UNCHANGED call
    <3> DEFINE a == [call[d] EXCEPT !.num_play = @ + 1]
               b == [call[d] EXCEPT !.num_play = Up(@, MaxPlay)]
    <3>1. Like(b, call[d]) /\ (call[d].num_play < MaxPlay => Like(a, call[d]))
      BY <1>2, PlayedFacts
    <3>2. \/ call[d].num_play < MaxPlay /\ call' = [call EXCEPT ![d] = a]
          \/ call' = [call EXCEPT ![d] = b]
      BY <2>6 DEF PlayOnce, ThreadExits
    <3>3. UNCHANGED pbx_call BY <2>6 DEF PlayOnce, ThreadExits
    <3> HIDE DEF a, b
    <3>4. CASE call[d].num_play < MaxPlay /\ call' = [call EXCEPT ![d] = a]
      BY <1>1, <3>1, <3>3, <3>4, CalleeLegs
    <3>5. CASE call' = [call EXCEPT ![d] = b] BY <1>1, <3>1, <3>3, <3>5, CalleeLegs
    <3> QED BY <3>2, <3>4, <3>5
  <2>7. CASE (PlayOnce(d) \/ ThreadExits(d)) /\ UNCHANGED call
    BY <2>7 DEF PlayOnce, ThreadExits, SameLegs
  <2>8. CASE Progress(d) \/ CallGoesOn(d)
    BY <2>8 DEF Progress, CallGoesOn, SameLegs
  <2> QED BY <2>1, <2>3, <2>4, <2>5, <2>6, <2>7, <2>8
<1> QED BY <1>3

(* They move no destination either. *)
LEMMA HandlerLists ==
    ASSUME Inv, Inv', ListInv, NEW d \in Dest,
           \/ Tick \/ Progress(d) \/ Establish(d) \/ EstablishPbx(d) \/ Close(d)
           \/ CallGoesOn(d) \/ PlayOnce(d) \/ ThreadExits(d)
    PROVE  ListInv'
<1>1. TypeOK /\ Core BY DEF Inv
<1>3. UNCHANGED <<destinations, processl, try_count, free, faults, pc, todo, crashed>>
  BY DEF Tick, Progress, Establish, EstablishPbx, Close, CallGoesOn, PlayOnce,
         ThreadExits, destVars, rtpVars
<1>4. ASSUME NEW e \in Dest, call[e] = NoCall PROVE row'[e] = row[e]
  <2>1. CASE UNCHANGED row BY <2>1
  <2>2. CASE ~UNCHANGED row
    <3>1. call[d].sess = "inviting" /\ \E v : UpdateCallStatus(d, v)
      BY <2>2 DEF Tick, Progress, Establish, EstablishPbx, Close, CallGoesOn, PlayOnce,
                  ThreadExits
    <3>2. e # d BY <3>1, <1>4, NoCallFacts
    <3> QED BY <3>1, <3>2, <1>1 DEF UpdateCallStatus, TypeOK
  <2> QED BY <2>1, <2>2
<1>5. SameLegs BY HandlerLegs
<1> QED BY <1>3, <1>4, <1>5, Steady

(* The same for rtp_recv_handler. *)
LEMMA KeyPressLegs == ASSUME Inv, NEW r \in Rtp, KeyPress(r) PROVE SameLegs
<1>1. TypeOK /\ Core BY DEF Inv
<1>2. PICK d \in Dest : rtp[r].arg = <<d, "call">> /\ call[d].rtp_sess = r
  BY <1>1 DEF KeyPress, Core, DigitsNeedAnswer
<1>3. rtp[r].arg[1] = d BY <1>2
<1>4. PICK action \in Actions : call' = [call EXCEPT ![d] = Pressed(@, action)]
  BY <1>3 DEF KeyPress
<1>5. UNCHANGED pbx_call BY DEF KeyPress
<1> DEFINE b == Pressed(call[d], action)
<1>6. Like(b, call[d])
  <2>1. call[d] \in CallType BY <1>1, SessionTypes
  <2> QED BY <2>1, PressedFacts
<1>7. call' = [call EXCEPT ![d] = b] BY <1>4
<1> HIDE DEF b
<1> QED BY <1>1, <1>5, <1>6, <1>7, CalleeLegs

(* It moves no destination. *)
LEMMA KeyPressLists ==
    ASSUME Inv, Inv', ListInv, NEW r \in Rtp, KeyPress(r) PROVE ListInv'
<1>1. SameLegs BY KeyPressLegs
<1>2. UNCHANGED <<destinations, processl, try_count, free, faults, row, pc, todo, crashed>>
  BY DEF KeyPress, destVars, rtpVars
<1> QED BY <1>1, <1>2, Steady

(* The same where on_call_end ends a call. *)
LEMMA CallEndsLegs == ASSUME Inv, NEW d \in Dest, CallEnds(d) PROVE SameLegs
<1>1. TypeOK BY DEF Inv
<1> DEFINE b == [call[d] EXCEPT !.ended = TRUE, !.sess = "none",
                                !.status = "disconnected"]
<1>2. call' = [call EXCEPT ![d] = b] /\ UNCHANGED pbx_call BY DEF CallEnds
<1>3. Like(b, call[d])
  <2>1. call[d] \in CallType BY <1>1, SessionTypes
  <2> QED BY <2>1, EndedFacts
<1> HIDE DEF b
<1> QED BY <1>1, <1>2, <1>3, CalleeLegs

(* The destination stays where it is until the destructor has run. *)
LEMMA CallEndsLists ==
    ASSUME Inv, Inv', ListInv, NEW d \in Dest, CallEnds(d) PROVE ListInv'
<1>1. TypeOK BY DEF Inv
<1>2. SameLegs BY CallEndsLegs
<1>3. UNCHANGED <<destinations, processl, try_count, free, faults>> /\ pc' = "join"
  BY DEF CallEnds, destVars, rtpVars
<1>4. ASSUME NEW e \in Dest, call[e] = NoCall PROVE row'[e] = row[e]
  <2>1. call[d] # NoCall
    <3>1. CASE call[d] = NoCall
      <4>1. call[d].ended = FALSE /\ call[d].status = "none" BY <3>1, NoCallFacts
      <4> QED BY <4>1 DEF CallEnds, MustEnd, PlayedOut, Bridging
    <3> QED BY <3>1
  <2> QED BY <1>1, <1>4, <2>1 DEF CallEnds, TypeOK
<1> QED BY <1>2, <1>3, <1>4, Steady

(* The empty list. *)
LEMMA EmptyFacts == Distinct(<< >>) /\ ToSet(<< >>) = {} /\ Len(<< >>) = 0
BY DEF Distinct, ToSet

(* Destinations move from one list to the other and no call changes. *)
LEMMA Moved ==
    ASSUME Inv, ListInv, UNCHANGED <<call, pbx_call, row, try_count, faults>>,
           ToSet(free) \subseteq ToSet(free'),
           ToSet(destinations') \subseteq ToSet(destinations),
           ToSet(destinations') \cup ToSet(processl')
              = ToSet(destinations) \cup ToSet(processl)
    PROVE  /\ LostInv' /\ AnsweredOnce' /\ NoContactDropped'
           /\ MaxTry > 0 => \A d \in Dest :
                /\ try_count'[d] <= MaxTry
                /\ (d \in ToSet(destinations') \cup ToSet(processl') /\ call'[d] = NoCall
                        => try_count'[d] < MaxTry)
<1>1. LostInv'
  <2>1. Lost' \subseteq Lost BY OwnedFacts DEF Lost
  <2>2. faults \in Nat BY DialerConstants DEF Inv, TypeOK
  <2> QED BY <2>1, <2>2, LostLess DEF ListInv
<1>2. AnsweredOnce' BY DEF ListInv, AnsweredOnce
<1>3. NoContactDropped' BY DEF ListInv, NoContactDropped
<1> QED BY <1>1, <1>2, <1>3 DEF ListInv, LimitInv

(* start_fake_calling sorts the waiting destinations. *)
LEMMA StartRoundLists == ASSUME Inv, ListInv, StartRound PROVE ListInv'
<1>1. /\ destinations \in Seq(Dest) /\ processl \in Seq(Dest)
      /\ try_count \in [Dest -> Nat]
  BY DialerConstants DEF Inv, TypeOK
<1>2. /\ pc' = "pick"
      /\ UNCHANGED <<processl, call, pbx_call, row, try_count, free, faults>>
  BY DEF StartRound, rtpVars
<1>3. /\ Distinct(destinations') /\ ToSet(destinations') = ToSet(destinations)
      /\ todo' \in {<< >>, destinations'}
      /\ (todo' # << >> => ~Full(processl))
  <2>1. CASE Full(processl) BY <2>1 DEF StartRound, ListInv, ListsInv
  <2>2. CASE ~Full(processl)
    <3>1. destinations' \in SortByTries(destinations) /\ todo' = destinations'
      BY <2>2 DEF StartRound
    <3>2. PICK t \in SortByTries(destinations) : t = destinations' BY <3>1
    <3>3. ToSet(t) = ToSet(destinations) /\ (Distinct(destinations) => Distinct(t))
      BY <1>1, SortFacts
    <3> QED BY <2>2, <3>1, <3>2, <3>3 DEF ListInv, ListsInv
  <2> QED BY <2>1, <2>2
<1>4. Distinct(todo') /\ ToSet(todo') \subseteq ToSet(destinations')
  BY <1>3, EmptyFacts
<1>5. ListsInv' BY <1>2, <1>3, <1>4 DEF ListInv, ListsInv
<1>6. /\ LostInv' /\ AnsweredOnce' /\ NoContactDropped'
      /\ MaxTry > 0 => \A d \in Dest :
           /\ try_count'[d] <= MaxTry
           /\ (d \in ToSet(destinations') \cup ToSet(processl') /\ call'[d] = NoCall
                   => try_count'[d] < MaxTry)
  BY <1>2, <1>3, Moved
<1>7. Len(processl) \in Nat /\ CallLimit \in Nat BY <1>1, DialerConstants, LenProperties
<1>8. LimitInv' BY <1>2, <1>3, <1>6, <1>7 DEF ListInv, LimitInv, Full
<1> QED BY <1>5, <1>6, <1>8 DEF ListInv

(* start_fake_calling moves a destination, or passes it over. *)
LEMMA PickLists == ASSUME Inv, ListInv, Pick PROVE ListInv'
<1> DEFINE h == Head(todo)
           t == Tail(todo)
<1>1. /\ destinations \in Seq(Dest) /\ processl \in Seq(Dest) /\ todo \in Seq(Dest)
      /\ CallLimit \in Nat /\ Len(processl) \in Nat
  BY DialerConstants, LenProperties DEF Inv, TypeOK
<1>2. /\ pc = "pick" /\ pc' = "pick" /\ todo # << >>
      /\ UNCHANGED <<call, pbx_call, row, try_count, free, faults>>
      /\ IF MayDial(h) THEN /\ destinations' = Unlink(destinations, h)
                            /\ processl' = Append(processl, h)
                       ELSE UNCHANGED <<destinations, processl>>
      /\ todo' = IF Full(processl') THEN << >> ELSE t
  BY DEF Pick, rtpVars
<1>3. /\ h \in Dest /\ h \in ToSet(todo) /\ ToSet(todo) = ToSet(t) \cup {h}
      /\ Distinct(t) /\ h \notin ToSet(t)
  BY <1>1, <1>2, TailFacts DEF ListInv, ListsInv
<1>4. /\ Len(processl) < CallLimit /\ ToSet(todo) \subseteq ToSet(destinations)
      /\ Distinct(destinations) /\ Distinct(processl)
      /\ h \in ToSet(destinations) /\ h \notin ToSet(processl)
  BY <1>2, <1>3 DEF ListInv, ListsInv, LimitInv
<1> HIDE DEF h, t
<1>5. /\ Distinct(destinations') /\ Distinct(processl')
      /\ ToSet(destinations') \subseteq ToSet(destinations)
      /\ ToSet(destinations') \cup ToSet(processl')
           = ToSet(destinations) \cup ToSet(processl)
      /\ ToSet(t) \subseteq ToSet(destinations')
      /\ \A d \in Dest : ~(d \in ToSet(destinations') /\ d \in ToSet(processl'))
      /\ ToSet(processl) \subseteq ToSet(processl')
      /\ Len(processl') <= CallLimit /\ Len(processl') \in Nat
  <2>1. CASE MayDial(h)
    <3>1. ToSet(destinations') = ToSet(destinations) \ {h} /\ Distinct(destinations')
      BY <1>1, <1>2, <1>4, <2>1, UnlinkFacts
    <3>2. /\ ToSet(processl') = ToSet(processl) \cup {h} /\ Distinct(processl')
          /\ Len(processl') = Len(processl) + 1
      <4>1. processl' = Append(processl, h) BY <1>2, <2>1
      <4>2. processl \in Seq(Dest) /\ h \in Dest BY <1>1, <1>3
      <4>3. /\ ToSet(Append(processl, h)) = ToSet(processl) \cup {h}
            /\ Len(Append(processl, h)) = Len(processl) + 1
            /\ Distinct(processl) /\ h \notin ToSet(processl)
                  => Distinct(Append(processl, h))
        BY <4>2, AppendFacts
      <4> QED BY <4>1, <4>3, <1>4
    <3>3. \A d \in Dest : ~(d \in ToSet(destinations) /\ d \in ToSet(processl))
      BY DEF ListInv, ListsInv
    <3> QED BY <1>1, <1>3, <1>4, <3>1, <3>2, <3>3
  <2>2. CASE ~MayDial(h)
    BY <1>1, <1>2, <1>3, <1>4, <2>2 DEF ListInv, ListsInv
  <2> QED BY <2>1, <2>2
<1>6. /\ Distinct(todo') /\ ToSet(todo') \subseteq ToSet(destinations')
      /\ (todo' # << >> => Len(processl') < CallLimit)
  <2>1. CASE Full(processl') BY <1>2, <2>1, EmptyFacts
  <2>2. CASE ~Full(processl')
    <3>1. todo' = t BY <1>2, <2>2
    <3>2. Len(processl') < CallLimit BY <1>1, <1>5, <2>2 DEF Full
    <3> QED BY <1>3, <1>5, <3>1, <3>2
  <2> QED BY <2>1, <2>2
<1>7. \A d \in Dest : call'[d] # NoCall => d \in ToSet(processl')
  BY <1>2, <1>5 DEF ListInv, ListsInv
<1>8. ListsInv' BY <1>2, <1>5, <1>6, <1>7 DEF ListsInv
<1>9. /\ LostInv' /\ AnsweredOnce' /\ NoContactDropped'
      /\ MaxTry > 0 => \A d \in Dest :
           /\ try_count'[d] <= MaxTry
           /\ (d \in ToSet(destinations') \cup ToSet(processl') /\ call'[d] = NoCall
                   => try_count'[d] < MaxTry)
  BY <1>2, <1>5, Moved
<1>10. LimitInv' BY <1>2, <1>5, <1>6, <1>9 DEF LimitInv
<1> QED BY <1>8, <1>9, <1>10 DEF ListInv

(* The loop over the process list, where it makes no call. *)
LEMMA RoundLists ==
    ASSUME Inv, ListInv, StartDialling \/ DialSkips \/ EndRound PROVE ListInv'
<1>1. /\ pc' \in {"dial", "idle"} /\ ~crashed
      /\ UNCHANGED <<destinations, processl, call, pbx_call, row, try_count, free,
                     faults, crashed>>
  BY DEF StartDialling, DialSkips, EndRound, destVars, rtpVars
<1>2. pc' = "dial" => ToSet(todo') \subseteq ToSet(processl)
  <2>1. CASE StartDialling BY <2>1 DEF StartDialling
  <2>2. CASE DialSkips
    <3>1. pc = "dial" /\ todo # << >> /\ todo' = Tail(todo) /\ todo \in Seq(Dest)
      BY <2>2 DEF DialSkips, Inv, TypeOK
    <3>2. ToSet(todo) \subseteq ToSet(processl) BY <1>1, <3>1 DEF ListInv, ListsInv
    <3> QED BY <3>1, <3>2, TailFacts
  <2>3. CASE EndRound BY <2>3 DEF EndRound
  <2> QED BY <2>1, <2>2, <2>3
<1>3. ListsInv' BY <1>1, <1>2 DEF ListInv, ListsInv
<1>4. LimitInv' BY <1>1 DEF ListInv, LimitInv
<1>5. LostInv' /\ AnsweredOnce' /\ NoContactDropped' BY <1>1, Moved
<1> QED BY <1>3, <1>4, <1>5 DEF ListInv

(* The first element goes to the end. *)
LEMMA Rotated ==
    ASSUME NEW S, NEW l \in Seq(S), l # << >>
    PROVE  ToSet(Append(Tail(l), Head(l))) = ToSet(l)
<1> DEFINE t == Tail(l)
           h == Head(l)
<1>1. t \in Seq(S) /\ h \in S /\ ToSet(l) = ToSet(t) \cup {h} BY TailFacts
<1> HIDE DEF t, h
<1>2. ToSet(Append(t, h)) = ToSet(t) \cup {h} BY <1>1, AppendFacts
<1> QED BY <1>1, <1>2 DEF t, h

(* call_alloc fails: at most one session is lost, and only by a fault. *)
LEMMA AllocLost ==
    ASSUME TypeOK, Core, LostInv, CallAllocFails, UNCHANGED <<call, pbx_call>>
    PROVE  LostInv' /\ (faults' = 0 => faults = 0 /\ free = << >>)
<1>1. free \in Seq(Rtp) /\ faults \in Nat BY DialerConstants DEF TypeOK
<1>2. Owned' \cap Rtp = Owned \cap Rtp BY OwnedFacts
<1>3. CASE free = << >> /\ UNCHANGED <<rtpVars, faults>>
  <2>1. Lost' \subseteq Lost BY <1>2, <1>3 DEF Lost, rtpVars
  <2> QED BY <1>1, <1>3, <2>1, LostLess
<1>4. CASE free # << >> /\ Fault /\ free' = Tail(free) /\ UNCHANGED rtp
  <2>1. ToSet(free) = ToSet(Tail(free)) \cup {Head(free)} BY <1>1, <1>4, TailFacts
  <2>2. Lost' \subseteq Lost \cup {Head(free)} BY <1>2, <1>4, <2>1 DEF Lost
  <2>3. faults' = faults + 1 BY <1>4 DEF Fault
  <2> QED BY <1>1, <2>2, <2>3, LostMore
<1>5. CASE free # << >> /\ Fault /\ free' = Append(Tail(free), Head(free)) /\ UNCHANGED rtp
  <2>2. ToSet(free') = ToSet(free) BY <1>1, <1>5, Rotated
  <2>3. Lost' \subseteq Lost BY <1>2, <2>2 DEF Lost
  <2>4. faults' = faults + 1 BY <1>5 DEF Fault
  <2>5. faults' \in Nat /\ faults <= faults' /\ faults' # 0 BY <1>1, <2>4
  <2> QED BY <1>1, <2>3, <2>5, LostLess
<1>6. CASE Fault /\ UNCHANGED rtpVars
  <2>1. Lost' \subseteq Lost BY <1>2, <1>6 DEF Lost, rtpVars
  <2>2. faults' = faults + 1 BY <1>6 DEF Fault
  <2>3. faults' \in Nat /\ faults <= faults' /\ faults' # 0 BY <1>1, <2>2
  <2> QED BY <1>1, <2>1, <2>3, LostLess
<1> QED BY <1>3, <1>4, <1>5, <1>6 DEF CallAllocFails

(* The image of a finite set under a function is no larger. *)
LEMMA ImageSize ==
    ASSUME NEW S, IsFiniteSet(S), NEW f, f \in [S -> {f[x] : x \in S}]
    PROVE  /\ IsFiniteSet({f[x] : x \in S}) /\ Cardinality({f[x] : x \in S}) \in Nat
           /\ Cardinality({f[x] : x \in S}) <= Cardinality(S)
<1> DEFINE T == {f[x] : x \in S}
<1>1. f \in Surjection(S, T) BY DEF Surjection
<1> HIDE DEF T
<1>2. IsFiniteSet(T) /\ Cardinality(T) <= Cardinality(S) BY <1>1, FS_Surjection
<1>3. Cardinality(T) \in Nat BY <1>2, FS_CardinalityType
<1> QED BY <1>2, <1>3 DEF T

(* With two sessions for each call of the limit and none lost, there is    *)
(* one for a destination that waits to be called.                          *)
LEMMA PoolSuffices ==
    ASSUME Inv, ListInv, Cardinality(Rtp) >= 2 * CallLimit, faults = 0,
           NEW h \in Dest, h \in ToSet(processl), call[h] = NoCall
    PROVE  free # << >>
<1> SUFFICES ASSUME free = << >> PROVE FALSE OBVIOUS
<1>1. TypeOK /\ Core /\ processl \in Seq(Dest) BY DEF Inv, TypeOK
<1> DEFINE C == ToSet(processl) \ {h}
           f == [d \in C |-> call[d].rtp_sess]
           g == [d \in C |-> pbx_call[d].rtp_sess]
           A == {f[d] : d \in C}
           B == {g[d] : d \in C}
<1>2. IsFiniteSet(C) /\ Cardinality(C) = Len(processl) - 1
  <2> DEFINE P == ToSet(processl)
  <2>1. IsFiniteSet(P) /\ Cardinality(P) = Len(processl) /\ h \in P
    BY <1>1, CountFacts DEF ListInv, ListsInv
  <2> HIDE DEF P
  <2>2. IsFiniteSet(P \ {h}) /\ Cardinality(P \ {h}) = Cardinality(P) - 1
    BY <2>1, FS_RemoveElement
  <2> QED BY <2>1, <2>2 DEF P
<1>3. Rtp \subseteq A \cup B
  <2>1. Lost = {}
    <3>1. IsFiniteSet(Lost) BY DialerConstants, FS_Subset DEF Lost
    <3>2. Cardinality(Lost) \in Nat BY <3>1, FS_CardinalityType
    <3>3. Cardinality(Lost) = 0 BY <3>2 DEF ListInv, LostInv
    <3> QED BY <3>1, <3>3, FS_EmptySet
  <2>2. ASSUME NEW r \in Rtp PROVE r \in A \cup B
    <3>1. r \in Owned BY <2>1, EmptyFacts DEF Lost
    <3>2. PICK d \in Dest : call[d].rtp_sess = r \/ pbx_call[d].rtp_sess = r
      BY <3>1, OwnedFacts
    <3>3. call[d] # NoCall
      <4>1. r # None BY DialerConstants
      <4> QED BY <1>1, <3>2, <4>1, InUse DEF Core
    <3>4. d \in C BY <3>3 DEF ListInv, ListsInv
    <3>5. f[d] = call[d].rtp_sess /\ g[d] = pbx_call[d].rtp_sess BY <3>4
    <3> QED BY <3>2, <3>4, <3>5
  <2> QED BY <2>2
<1>4. /\ IsFiniteSet(A) /\ Cardinality(A) \in Nat /\ Cardinality(A) <= Cardinality(C)
      /\ IsFiniteSet(B) /\ Cardinality(B) \in Nat /\ Cardinality(B) <= Cardinality(C)
  <2>1. f \in [C -> A] /\ g \in [C -> B] OBVIOUS
  <2> HIDE DEF f, g, C
  <2> QED BY <1>2, <2>1, ImageSize
<1> HIDE DEF A, B, C, f, g
<1>5. /\ IsFiniteSet(A \cup B) /\ Cardinality(A \cap B) \in Nat
      /\ Cardinality(A \cup B) = Cardinality(A) + Cardinality(B) - Cardinality(A \cap B)
  <2>1. A \cap B \in SUBSET A OBVIOUS
  <2>2. IsFiniteSet(A \cap B) BY <1>4, <2>1, FS_Subset
  <2> QED BY <1>4, <2>2, FS_Union, FS_CardinalityType
<1>6. Cardinality(Rtp) <= Cardinality(A \cup B)
  <2> DEFINE U == A \cup B
  <2>1. IsFiniteSet(U) /\ Rtp \in SUBSET U BY <1>3, <1>5
  <2> HIDE DEF U
  <2>2. Cardinality(Rtp) <= Cardinality(U) BY <2>1, FS_Subset
  <2> QED BY <2>2 DEF U
<1>7. /\ Len(processl) \in Nat /\ Len(processl) <= CallLimit /\ CallLimit \in Nat
      /\ Cardinality(Rtp) \in Nat
  BY <1>1, DialerConstants, LenProperties, FS_CardinalityType DEF ListInv, LimitInv
<1> QED BY <1>2, <1>4, <1>5, <1>6, <1>7

(* start_fake_calling frees a destination it cannot call; with a pool of   *)
(* two sessions for each call that takes a failed allocation.              *)
LEMMA DialFailsLists == ASSUME Inv, ListInv, DialFails PROVE ListInv'
<1> DEFINE h == Head(todo)
<1>1. TypeOK /\ Core /\ processl \in Seq(Dest) /\ todo \in Seq(Dest) BY DEF Inv, TypeOK
<1>2. /\ pc = "dial" /\ ~crashed /\ todo # << >> /\ call[h] = NoCall /\ CallAllocFails
      /\ processl' = Unlink(processl, h) /\ (todo' = << >> \/ crashed' = TRUE)
      /\ UNCHANGED <<destinations, try_count, call, pbx_call, row, pc>>
  BY DEF DialFails
<1>3. h \in Dest /\ h \in ToSet(processl)
  <2>1. h \in Dest /\ h \in ToSet(todo) BY <1>1, <1>2, TailFacts
  <2> QED BY <1>2, <2>1 DEF ListInv, ListsInv
<1> HIDE DEF h
<1>4. /\ ToSet(processl') = ToSet(processl) \ {h} /\ Distinct(processl')
      /\ Len(processl') <= Len(processl) /\ processl' \in Seq(Dest)
  BY <1>1, <1>2, UnlinkFacts DEF ListInv, ListsInv
<1>5. Len(processl) \in Nat /\ Len(processl') \in Nat /\ CallLimit \in Nat
  BY <1>1, <1>4, DialerConstants, LenProperties
<1>6. ListsInv' BY <1>2, <1>3, <1>4, EmptyFacts DEF ListInv, ListsInv
<1>7. LimitInv'
  <2>1. Len(processl') <= CallLimit BY <1>4, <1>5 DEF ListInv, LimitInv
  <2> QED BY <1>2, <1>4, <2>1 DEF ListInv, LimitInv
<1>8. LostInv' /\ (faults' = 0 => faults = 0 /\ free = << >>)
  BY <1>1, <1>2, AllocLost DEF ListInv
<1>9. AnsweredOnce' BY <1>2 DEF ListInv, AnsweredOnce
<1>10. NoContactDropped'
  <2>1. CASE Cardinality(Rtp) >= 2 * CallLimit /\ faults' = 0
    BY <1>2, <1>3, <1>8, <2>1, PoolSuffices
  <2>2. CASE ~(Cardinality(Rtp) >= 2 * CallLimit /\ faults' = 0)
    BY <2>2 DEF NoContactDropped
  <2> QED BY <2>1, <2>2
<1> QED BY <1>6, <1>7, <1>8, <1>9, <1>10 DEF ListInv

(* start_fake_calling calls a destination. *)
LEMMA DialOkLists ==
    ASSUME Inv, Inv', ListInv, NEW media \in Media, NEW sess \in {"inviting", "none"},
           DialOk(media, sess)
    PROVE  ListInv'
<1> DEFINE h == Head(todo)
           t == Tail(todo)
<1>1. /\ TypeOK /\ Core /\ todo \in Seq(Dest) /\ destinations \in Seq(Dest)
      /\ free \in Seq(Rtp) /\ None \notin Rtp
  BY DialerConstants DEF Inv, TypeOK
<1>2. /\ pc = "dial" /\ ~crashed /\ todo # << >> /\ call[h] = NoCall /\ free # << >>
      /\ todo' = t
      /\ UNCHANGED <<destinations, processl, pbx_call, pc, faults, crashed>>
  BY DEF DialOk
<1>3. h \in Dest /\ h \in ToSet(processl) /\ ToSet(t) \subseteq ToSet(processl)
  <2>1. h \in Dest /\ h \in ToSet(todo) /\ ToSet(t) \subseteq ToSet(todo)
    BY <1>1, <1>2, TailFacts
  <2> QED BY <1>2, <2>1 DEF ListInv, ListsInv
<1>4. CASE media = "missing"
  <2>1. /\ UNCHANGED <<try_count, call, row>> /\ free' = Append(Tail(free), Head(free))
    BY <1>4 DEF DialOk
  <2>2. ToSet(free) \subseteq ToSet(free') BY <1>1, <1>2, <2>1, Rotated
  <2>3. LostInv' /\ AnsweredOnce' /\ NoContactDropped' BY <1>2, <2>1, <2>2, Moved
  <2>4. ListsInv' BY <1>2, <1>3, <2>1 DEF ListInv, ListsInv
  <2>5. LimitInv' BY <1>2, <2>1 DEF ListInv, LimitInv
  <2> QED BY <2>3, <2>4, <2>5 DEF ListInv
<1>5. CASE media # "missing"
  <2> DEFINE b == [NewCall(sess) EXCEPT !.join_pbx = (media = "pbx")]
  <2>1. /\ TakeSession(<<h, "call">>) /\ call' = [call EXCEPT ![h] = b]
        /\ try_count' = [try_count EXCEPT ![h] = (@ + 1) % TryWrap]
        /\ UpdateCallStatus(h, "connecting")
    BY <1>5 DEF DialOk
  <2>2. b \in CallType /\ b.rtp_sess = Head(free)
    <3>1. (media = "pbx") \in BOOLEAN OBVIOUS
    <3> QED BY <3>1, <1>1, <1>2, NewCallFacts
  <2> HIDE DEF b, h, t
  <2>3. /\ call'[h] = b /\ \A e \in Dest : e # h => call'[e] = call[e]
    BY <1>1, <1>3, <2>1, <2>2, OneCall
  <2>4. /\ Head(free) \in Rtp /\ ToSet(free) = ToSet(Tail(free)) \cup {Head(free)}
    BY <1>1, <1>2, TailFacts
  <2>5. b # NoCall BY <1>1, <2>2, <2>4, NoCallFacts
  <2>6. LostInv'
    <3>1. ASSUME NEW r \in Rtp, r \in Lost' PROVE r \in Lost
      <4>1. r \notin ToSet(Tail(free)) /\ r \notin Owned'
        BY <3>1, <2>1 DEF Lost, TakeSession
      <4>2. r # Head(free) BY <4>1, <1>3, <2>2, <2>3, OwnedFacts
      <4>3. r \notin Owned
        <5>1. ASSUME NEW e \in Dest, call[e].rtp_sess = r \/ pbx_call[e].rtp_sess = r
              PROVE  r \in Owned'
          <6>1. call[h].rtp_sess = None BY <1>2, NoCallFacts
          <6>2. call'[e].rtp_sess = r \/ pbx_call'[e].rtp_sess = r
            BY <5>1, <6>1, <1>1, <1>2, <2>3
          <6> QED BY <6>2, OwnedFacts
        <5> QED BY <4>1, <5>1, OwnedFacts
      <4> QED BY <4>1, <4>2, <4>3, <2>4 DEF Lost
    <3>2. Lost' \subseteq Lost BY <3>1 DEF Lost
    <3>3. faults \in Nat BY <1>1, DialerConstants DEF TypeOK
    <3> QED BY <3>2, <3>3, <1>2, LostLess DEF ListInv
  <2>7. /\ row'[h].talked = FALSE /\ \A e \in Dest : e # h => row'[e] = row[e]
    BY <1>1, <1>3, <2>1, StatusFacts
  <2>8. AnsweredOnce'
    <3>1. ToSet(destinations) \subseteq Dest BY <1>1, ElementOfSeq DEF ToSet
    <3> QED BY <1>2, <2>7, <3>1 DEF ListInv, AnsweredOnce
  <2>9. NoContactDropped' BY <1>2, <1>3, <2>7 DEF ListInv, NoContactDropped
  <2>10. ListsInv' BY <1>2, <1>3, <2>3 DEF ListInv, ListsInv
  <2>11. LimitInv'
    <3>1. ASSUME MaxTry > 0, NEW e \in Dest
          PROVE  /\ try_count'[e] <= MaxTry
                 /\ (e \in ToSet(destinations) \cup ToSet(processl) /\ call'[e] = NoCall
                        => try_count'[e] < MaxTry)
      <4>1. CASE e # h
        BY <1>1, <2>1, <2>3, <3>1, <4>1 DEF ListInv, LimitInv, TypeOK
      <4>2. CASE e = h
        <5>1. /\ try_count[h] \in Nat /\ MaxTry \in Nat /\ TryWrap \in Nat
              /\ MaxTry < TryWrap
          BY <1>1, <1>3, DialerConstants DEF TypeOK
        <5>2. try_count[h] < MaxTry BY <1>2, <1>3, <3>1 DEF ListInv, LimitInv
        <5>3. (try_count[h] + 1) % TryWrap = try_count[h] + 1
          <6>1. try_count[h] + 1 \in 0..TryWrap - 1 BY <5>1, <5>2
          <6> QED BY <6>1, <5>1
        <5>4. try_count'[h] = try_count[h] + 1 BY <1>1, <1>3, <2>1, <5>3 DEF TypeOK
        <5> QED BY <4>2, <5>1, <5>2, <5>4, <2>3, <2>5
      <4> QED BY <4>1, <4>2
    <3> QED BY <1>2, <3>1 DEF ListInv, LimitInv
  <2> QED BY <2>6, <2>8, <2>9, <2>10, <2>11 DEF ListInv
<1> QED BY <1>4, <1>5

(* on_call_end starts the PBX leg, or cannot. *)
LEMMA ForwardLists ==
    ASSUME Inv, Inv', ListInv, NEW d \in Dest, Forward(d) PROVE ListInv'
<1>1. /\ TypeOK /\ Core /\ free \in Seq(Rtp) /\ None \notin Rtp /\ ShapeInv /\ ShapeInv'
  BY DialerConstants DEF Inv, TypeOK, Core
<1>2. /\ Bridging(call[d]) /\ ~call[d].forwarded
      /\ UNCHANGED <<destinations, processl, try_count, row, pc, todo, crashed>>
  BY DEF Forward, destVars
<1>3. call[d] \in CallType /\ pbx_call[d] = NoCall
  BY <1>1, <1>2, SessionTypes DEF ShapeInv
<1>4. CASE /\ free # << >> /\ TakeSession(<<d, "pbx_call">>)
           /\ \E sess \in {"inviting", "none"} :
                 pbx_call' = [pbx_call EXCEPT ![d] = NewCall(sess)]
           /\ call' = [call EXCEPT ![d].forwarded = TRUE] /\ UNCHANGED faults
  <2>1. PICK sess \in {"inviting", "none"} :
           pbx_call' = [pbx_call EXCEPT ![d] = NewCall(sess)]
    BY <1>4
  <2> DEFINE p == NewCall(sess)
             b == [call[d] EXCEPT !.forwarded = TRUE]
  <2>2. p \in CallType /\ p.rtp_sess = Head(free)
    <3>1. TRUE \in BOOLEAN OBVIOUS
    <3> QED BY <3>1, <1>1, <1>4, NewCallFacts
  <2>3. b \in CallType /\ b.rtp_sess = call[d].rtp_sess BY <1>3, ForwardedFacts
  <2>4. pbx_call' = [pbx_call EXCEPT ![d] = p] /\ call' = [call EXCEPT ![d] = b]
    BY <1>4, <2>1
  <2> HIDE DEF p, b
  <2>5. /\ call'[d] = b /\ \A e \in Dest : e # d => call'[e] = call[e]
        /\ pbx_call'[d] = p /\ \A e \in Dest : e # d => pbx_call'[e] = pbx_call[e]
    BY <1>1, <2>2, <2>3, <2>4, OneCall
  <2>6. \A e \in Dest : call'[e].rtp_sess = call[e].rtp_sess BY <2>3, <2>5
  <2>7. \A e \in Dest : call'[e] = NoCall <=> call[e] = NoCall
    BY <1>1, <2>6, SameUse
  <2>8. Head(free) \in Rtp /\ ToSet(free) = ToSet(Tail(free)) \cup {Head(free)}
    BY <1>1, <1>4, TailFacts
  <2>9. ASSUME NEW r \in Rtp, r \in Lost' PROVE r \in Lost
    <3>1. r \notin ToSet(Tail(free)) /\ r \notin Owned'
      BY <2>9, <1>4 DEF Lost, TakeSession
    <3>2. r # Head(free) BY <3>1, <2>2, <2>5, OwnedFacts
    <3>3. r \notin Owned
      <4>1. ASSUME NEW e \in Dest, call[e].rtp_sess = r \/ pbx_call[e].rtp_sess = r
            PROVE  r \in Owned'
        <5>1. pbx_call[d].rtp_sess = None BY <1>3, NoCallFacts
        <5>2. call'[e].rtp_sess = r \/ pbx_call'[e].rtp_sess = r
          BY <4>1, <5>1, <1>1, <2>5, <2>6
        <5> QED BY <5>2, OwnedFacts
      <4> QED BY <3>1, <4>1, OwnedFacts
    <3> QED BY <3>1, <3>2, <3>3, <2>8 DEF Lost
  <2>10. LostInv'
    <3>1. Lost' \subseteq Lost BY <2>9 DEF Lost
    <3>2. faults \in Nat BY <1>1, DialerConstants DEF TypeOK
    <3> QED BY <1>4, <3>1, <3>2, LostLess DEF ListInv
  <2> QED BY <1>2, <1>4, <2>7, <2>10, SteadyLists
<1>5. CASE CallAllocFails /\ UNCHANGED <<call, pbx_call>>
  <2>1. LostInv' /\ (faults' = 0 => faults = 0) BY <1>1, <1>5, AllocLost DEF ListInv
  <2> QED BY <1>2, <1>5, <2>1, SteadyLists
<1> QED BY <1>4, <1>5 DEF Forward

(* on_call_end crashes, with an allocation that failed or without. *)
LEMMA CrashLists ==
    ASSUME Inv, Inv', ListInv, NEW d \in Dest, HandlerCrashes(d) PROVE ListInv'
<1>1. TypeOK /\ Core BY DEF Inv
<1>2. /\ UNCHANGED <<destinations, processl, try_count, free, call, pbx_call, row, pc, todo>>
      /\ pc = "idle" /\ UNCHANGED rtpVars
  BY DEF HandlerCrashes, Due, Idle, destVars, rtpVars
<1>3. UNCHANGED faults \/ Fault BY DEF HandlerCrashes
<1>4. LostInv' /\ (faults' = 0 => faults = 0)
  <2>1. CASE Fault
    <3>1. CallAllocFails BY <1>2, <2>1 DEF CallAllocFails
    <3> QED BY <1>1, <1>2, <3>1, AllocLost DEF ListInv
  <2>2. CASE UNCHANGED faults
    <3>1. Lost' = Lost BY <1>2 DEF Lost, Owned, SessionOf
    <3> QED BY <2>2, <3>1 DEF ListInv, LostInv
  <2> QED BY <1>3, <2>1, <2>2
<1> QED BY <1>2, <1>4 DEF ListInv, ListsInv, LimitInv, AnsweredOnce, NoContactDropped

(* The call is freed; its destination is freed too, or waits again. *)
LEMMA JoinLists == ASSUME Inv, ListInv, Join PROVE ListInv'
<1>1. TypeOK /\ Core /\ JoinInv BY DEF Inv
<1>2. PICK d \in Dest : /\ todo = <<d>> /\ call[d].status = "disconnected"
                        /\ (row[d].forwarded <=> pbx_call[d] # NoCall)
  BY <1>1 DEF Join, JoinInv
<1>3. /\ ReleaseSessions(d) /\ pc' = "idle" /\ processl' = Unlink(processl, d)
      /\ call' = [call EXCEPT ![d] = NoCall] /\ pbx_call' = [pbx_call EXCEPT ![d] = NoCall]
      /\ destinations' = IF DoneWith(d) THEN destinations ELSE Append(destinations, d)
      /\ UNCHANGED <<try_count, row, faults>>
  BY <1>2 DEF Join, Destroy
<1>4. call[d] # NoCall /\ call[d].rtp_sess # None
  BY <1>1, <1>2, InUse, NoCallFacts DEF Core
<1>5. /\ call'[d] = NoCall /\ \A e \in Dest : e # d => call'[e] = call[e]
      /\ \A e \in Dest : e # d => pbx_call'[e] = pbx_call[e]
  BY <1>1, <1>3, OneCall, NoCallFacts
<1>6. d \in ToSet(processl) /\ d \notin ToSet(destinations)
  BY <1>4 DEF ListInv, ListsInv
<1>7. destinations \in Seq(Dest) /\ processl \in Seq(Dest) BY <1>1 DEF TypeOK
<1>8. /\ ToSet(processl') = ToSet(processl) \ {d} /\ Distinct(processl')
      /\ Len(processl') <= Len(processl) /\ processl' \in Seq(Dest)
  BY <1>3, <1>7, UnlinkFacts DEF ListInv, ListsInv
<1>9. /\ Distinct(destinations')
      /\ ToSet(destinations') = IF DoneWith(d) THEN ToSet(destinations)
                                               ELSE ToSet(destinations) \cup {d}
  <2>1. CASE DoneWith(d) BY <1>3, <2>1 DEF ListInv, ListsInv
  <2>2. CASE ~DoneWith(d)
    <3>1. destinations' = Append(destinations, d) BY <1>3, <2>2
    <3>2. /\ ToSet(Append(destinations, d)) = ToSet(destinations) \cup {d}
          /\ Distinct(destinations) /\ d \notin ToSet(destinations)
                => Distinct(Append(destinations, d))
      BY <1>7, AppendFacts
    <3> QED BY <1>6, <2>2, <3>1, <3>2 DEF ListInv, ListsInv
  <2> QED BY <2>1, <2>2
<1>10. ListsInv' BY <1>3, <1>5, <1>6, <1>8, <1>9 DEF ListInv, ListsInv
<1>11. LimitInv'
  <2>1. Len(processl') <= CallLimit
    <3>1. Len(processl) \in Nat /\ Len(processl') \in Nat /\ CallLimit \in Nat
      BY <1>7, <1>8, DialerConstants, LenProperties
    <3> QED BY <1>8, <3>1 DEF ListInv, LimitInv
  <2>2. ASSUME MaxTry > 0, NEW e \in Dest
        PROVE  /\ try_count[e] <= MaxTry
               /\ (e \in ToSet(destinations') \cup ToSet(processl') /\ call'[e] = NoCall
                      => try_count[e] < MaxTry)
    <3>1. CASE e # d BY <1>5, <1>8, <1>9, <2>2, <3>1 DEF ListInv, LimitInv
    <3>2. CASE e = d
      <4>1. try_count[d] \in Nat /\ MaxTry \in Nat /\ try_count[d] <= MaxTry
        BY <1>1, <2>2, DialerConstants DEF TypeOK, ListInv, LimitInv
      <4>2. ~DoneWith(d) => try_count[d] < MaxTry BY <2>2, <4>1 DEF DoneWith
      <4>3. d \in ToSet(destinations') \cup ToSet(processl') => ~DoneWith(d)
        BY <1>6, <1>8, <1>9
      <4> QED BY <3>2, <4>1, <4>2, <4>3
    <3> QED BY <3>1, <3>2
  <2> QED BY <1>3, <2>1, <2>2 DEF LimitInv
<1>12. LostInv'
  <2>1. PICK A \in SUBSET Rtp :
           /\ \A r \in Rtp : r \in A <=> r \in {call[d].rtp_sess, pbx_call[d].rtp_sess}
           /\ ToSet(free') = ToSet(free) \cup A
    BY <1>1, <1>3, <1>4, ReleaseFacts DEF Core
  <2>2. ASSUME NEW r \in Rtp, r \in Lost' PROVE r \in Lost
    <3>1. r \notin ToSet(free) /\ r \notin A /\ r \notin Owned' BY <2>1, <2>2 DEF Lost
    <3>2. ASSUME NEW e \in Dest, call[e].rtp_sess = r \/ pbx_call[e].rtp_sess = r
          PROVE  FALSE
      <4>1. e # d BY <2>1, <3>1, <3>2
      <4>2. call'[e].rtp_sess = r \/ pbx_call'[e].rtp_sess = r BY <1>5, <3>2, <4>1
      <4> QED BY <3>1, <4>2, OwnedFacts
    <3> QED BY <3>1, <3>2, OwnedFacts DEF Lost
  <2>3. Lost' \subseteq Lost BY <2>2 DEF Lost
  <2>4. faults \in Nat BY <1>1, DialerConstants DEF TypeOK
  <2> QED BY <1>3, <2>3, <2>4, LostLess DEF ListInv
<1>13. AnsweredOnce'
  <2>1. ~DoneWith(d) => (row[d].talked => row[d].forwarded) BY <1>2 DEF DoneWith
  <2> QED BY <1>3, <1>9, <2>1 DEF ListInv, AnsweredOnce
<1>14. NoContactDropped'
  <2>1. row[d].status = "disconnected" BY <1>1, <1>2 DEF Core, RowInv
  <2> QED BY <1>3, <1>8, <1>9, <2>1 DEF ListInv, NoContactDropped
<1> QED BY <1>10, <1>11, <1>12, <1>13, <1>14 DEF ListInv

(* A campaign begins with every contact waiting and the whole pool free. *)
LEMMA ListInit == ASSUME Init PROVE ListInv
<1>1. /\ destinations \in Seq(Dest) /\ Distinct(destinations) /\ ToSet(destinations) = Dest
      /\ ToSet(free) = Rtp
  BY AllFacts, DialerConstants DEF Init
<1>2. /\ processl = << >> /\ pc = "idle" /\ faults = 0
      /\ \A d \in Dest : /\ call[d] = NoCall /\ try_count[d] = 0
                         /\ row[d].talked = FALSE
  BY DEF Init
<1>3. ListsInv BY <1>1, <1>2, EmptyFacts DEF ListsInv
<1>4. LimitInv BY <1>2, EmptyFacts, DialerConstants DEF LimitInv
<1>5. LostInv
  <2>1. Lost = {} BY <1>1 DEF Lost
  <2> QED BY <1>2, <2>1, FS_EmptySet DEF LostInv
<1>6. AnsweredOnce BY <1>1, <1>2 DEF AnsweredOnce
<1>7. NoContactDropped BY <1>1 DEF NoContactDropped
<1> QED BY <1>3, <1>4, <1>5, <1>6, <1>7 DEF ListInv

(* One step of the specification. *)
LEMMA ListStep == ASSUME Inv, Inv', ListInv, [Next]_vars PROVE ListInv'
<1>1. CASE Tick
  <2>1. CASE Dest = {}
    <3>1. /\ SameLegs /\ UNCHANGED <<destinations, processl, try_count, free, faults>>
          /\ UNCHANGED <<pc, todo, crashed>>
      BY <1>1, <2>1 DEF SameLegs, Tick, rtpVars
    <3> QED BY <2>1, <3>1, Steady
  <2>2. CASE Dest # {}
    <3>1. PICK d : d \in Dest BY <2>2
    <3> QED BY <1>1, <3>1, HandlerLists
  <2> QED BY <2>1, <2>2
<1>2. CASE StartRound BY <1>2, StartRoundLists
<1>3. CASE Dialling
  <2>1. CASE Pick BY <2>1, PickLists
  <2>2. CASE StartDialling \/ DialSkips \/ EndRound BY <2>2, RoundLists
  <2>3. CASE DialFails BY <2>3, DialFailsLists
  <2>4. ASSUME NEW media \in Media \ {"nogateway"}, NEW sess \in {"inviting", "none"},
               DialOk(media, sess)
        PROVE  ListInv'
    BY <2>4, DialOkLists
  <2> QED BY <1>3, <2>1, <2>2, <2>3, <2>4 DEF Dialling
<1>4. CASE Join BY <1>4, JoinLists
<1>5. ASSUME NEW d \in Dest,
             \/ Progress(d) \/ Establish(d) \/ EstablishPbx(d) \/ Close(d)
             \/ OnCallEnd(d) \/ PlayOnce(d) \/ ThreadExits(d)
      PROVE  ListInv'
  <2>1. CASE \/ Progress(d) \/ Establish(d) \/ EstablishPbx(d) \/ Close(d)
             \/ CallGoesOn(d) \/ PlayOnce(d) \/ ThreadExits(d)
    BY <2>1, HandlerLists
  <2>2. CASE Forward(d) BY <2>2, ForwardLists
  <2>3. CASE CallEnds(d) BY <2>3, CallEndsLists
  <2>4. CASE HandlerCrashes(d) BY <2>4, CrashLists
  <2> QED BY <1>5, <2>1, <2>2, <2>3, <2>4 DEF OnCallEnd
<1>6. ASSUME NEW r \in Rtp, KeyPress(r) PROVE ListInv' BY <1>6, KeyPressLists
<1>7. CASE UNCHANGED vars
  <2>1. /\ SameLegs /\ UNCHANGED <<destinations, processl, try_count, free, faults>>
        /\ UNCHANGED <<pc, todo, crashed, row>>
    BY <1>7 DEF SameLegs, vars, destVars, rtpVars
  <2> QED BY <2>1, Steady
<1> QED BY <1>1, <1>2, <1>3, <1>4, <1>5, <1>6, <1>7 DEF Next

(* ListInv holds in every state of every run. *)
THEOREM ListInvariance == Spec => []ListInv
<1>1. Init => ListInv BY ListInit
<1>2. Inv /\ Inv' /\ ListInv /\ [Next]_vars => ListInv' BY ListStep
<1> QED BY <1>1, <1>2, Invariance, PTL DEF Spec

(* No RTP session is handed out twice, and only a failed allocation can    *)
(* lose one: the pool never leaks, however many calls go through it.       *)
THEOREM PoolSafe == Spec => []PoolConserved
<1>1. ASSUME Inv, ListInv PROVE PoolConserved
  <2>1. TypeOK /\ PoolInv /\ free \in Seq(Rtp) /\ None \notin Rtp
    BY <1>1, DialerConstants DEF Inv, Core, TypeOK
  <2>2. Len(free) = Cardinality(ToSet(free)) BY <2>1, CountFacts DEF PoolInv
  <2>3. ASSUME NEW l \in Legs, SessionOf(l) # None
        PROVE  rtp[SessionOf(l)].arg = l /\ SessionOf(l) \notin ToSet(free)
    <3>1. PICK d \in Dest : l = <<d, "call">> \/ l = <<d, "pbx_call">> BY DEF Legs
    <3>2. CASE l = <<d, "call">>
      <4>1. SessionOf(l) = call[d].rtp_sess BY <3>2 DEF SessionOf
      <4> QED BY <2>1, <2>3, <3>2, <4>1 DEF PoolInv
    <3>3. CASE l = <<d, "pbx_call">>
      <4>1. SessionOf(l) = pbx_call[d].rtp_sess BY <3>3 DEF SessionOf
      <4> QED BY <2>1, <2>3, <3>3, <4>1 DEF PoolInv
    <3> QED BY <3>1, <3>2, <3>3
  <2>4. ToSet(free) \cap Owned = {} BY <2>3 DEF Owned
  <2>5. ASSUME NEW l \in Legs, NEW m \in Legs, l # m, SessionOf(l) # None
        PROVE  SessionOf(l) # SessionOf(m)
    BY <2>3, <2>5
  <2>6. Cardinality(Rtp \ (ToSet(free) \cup Owned)) <= faults
    BY <1>1 DEF ListInv, LostInv, Lost
  <2> QED BY <2>2, <2>4, <2>5, <2>6 DEF PoolConserved
<1> QED BY <1>1, Invariance, ListInvariance, PTL

(* A destination is in one of the two lists at most, and only once; the    *)
(* ones with a call are in the process list.                               *)
THEOREM InOneList == Spec => []OneList
<1>1. ASSUME Inv, ListInv PROVE OneList
  <2> DEFINE b == destinations \o processl
             m == Len(destinations)
             n == Len(processl)
  <2>1. destinations \in Seq(Dest) /\ processl \in Seq(Dest) BY <1>1 DEF Inv, TypeOK
  <2>2. /\ m \in Nat /\ n \in Nat /\ DOMAIN destinations = 1..m /\ DOMAIN processl = 1..n
    BY <2>1, LenProperties
  <2>3. /\ b \in Seq(Dest) /\ Len(b) = m + n
        /\ \A i \in 1..m + n : b[i] = IF i <= m THEN destinations[i] ELSE processl[i - m]
    BY <2>1, ConcatProperties
  <2> HIDE DEF b, m, n
  <2>4. DOMAIN b = 1..m + n BY <2>3, LenProperties
  <2>5. /\ \A i, j \in 1..m : i # j => destinations[i] # destinations[j]
        /\ \A i, j \in 1..n : i # j => processl[i] # processl[j]
    BY <1>1, <2>2 DEF ListInv, ListsInv, Distinct
  <2>6. \A i \in 1..m, j \in 1..n : destinations[i] # processl[j]
    <3>1. \A i \in 1..m : destinations[i] \in ToSet(destinations) /\ destinations[i] \in Dest
      BY <2>1, <2>2, ElementOfSeq DEF ToSet, m
    <3>2. \A j \in 1..n : processl[j] \in ToSet(processl) BY <2>2 DEF ToSet
    <3> QED BY <1>1, <3>1, <3>2 DEF ListInv, ListsInv
  <2>7. ASSUME NEW i \in 1..m + n, NEW j \in 1..m + n, i < j PROVE b[i] # b[j]
    <3>1. CASE j <= m
      <4>1. i \in 1..m /\ j \in 1..m /\ i # j /\ i <= m BY <2>2, <2>7, <3>1
      <4>2. b[i] = destinations[i] /\ b[j] = destinations[j] BY <2>3, <3>1, <4>1
      <4> QED BY <2>5, <4>1, <4>2
    <3>2. CASE i <= m /\ ~(j <= m)
      <4>1. i \in 1..m /\ j - m \in 1..n BY <2>2, <3>2
      <4>2. b[i] = destinations[i] /\ b[j] = processl[j - m] BY <2>3, <3>2
      <4> QED BY <2>6, <4>1, <4>2
    <3>3. CASE ~(i <= m)
      <4>1. ~(j <= m) /\ i - m \in 1..n /\ j - m \in 1..n /\ i - m # j - m
        BY <2>2, <2>7, <3>3
      <4>2. b[i] = processl[i - m] /\ b[j] = processl[j - m] BY <2>3, <3>3, <4>1
      <4> QED BY <2>5, <4>1, <4>2
    <3> QED BY <3>1, <3>2, <3>3
  <2>8. ASSUME NEW i \in 1..m + n, NEW j \in 1..m + n, i # j PROVE b[i] # b[j]
    <3>1. i < j \/ j < i BY <2>2, <2>8
    <3> QED BY <2>7, <3>1
  <2>9. \A i, j \in DOMAIN b : i # j => b[i] # b[j] BY <2>4, <2>8
  <2> QED BY <1>1, <2>9 DEF OneList, ListInv, ListsInv, b
<1> QED BY <1>1, Invariance, ListInvariance, PTL

(* The limits on the calls at a time and on the tries of a contact hold,   *)
(* although try_count is a byte that wraps.                                *)
THEOREM Limited == Spec => []LimitsHeld
<1>1. ListInv => LimitsHeld BY DEF ListInv, LimitInv, LimitsHeld
<1> QED BY <1>1, ListInvariance, PTL

(* A contact that talked is not called again, unless its call was bridged. *)
THEOREM OnceAnswered == Spec => []AnsweredOnce
<1>1. ListInv => AnsweredOnce BY DEF ListInv
<1> QED BY <1>1, ListInvariance, PTL

(* With two sessions per call and no failed allocation, no contact leaves  *)
(* the campaign without a completed call.                                  *)
THEOREM NobodyDropped == Spec => []NoContactDropped
<1>1. ListInv => NoContactDropped BY DEF ListInv
<1> QED BY <1>1, ListInvariance, PTL

-----------------------------------------------------------------------------
(* The retry delay *)

(* No call begins or ends, nobody joins the process list, time goes on. *)
Still ==
    /\ \A e \in Dest : call'[e] = NoCall <=> call[e] = NoCall
    /\ UNCHANGED try_count /\ \A e \in Dest : since'[e] >= since[e]
    /\ ToSet(processl') \subseteq ToSet(processl)

(* Calls begin and end, and destinations join the process list, only in    *)
(* three places, if the recording is never missing.                        *)
LEMMA Kinds ==
    ASSUME Inv, Inv', ListInv, [Next]_vars, "missing" \notin Media
    PROVE  \/ Still \/ Pick \/ Join
           \/ \E media \in Media, sess \in {"inviting", "none"} :
                 media # "missing" /\ DialOk(media, sess)
<1>1. TypeOK /\ Core /\ ShapeInv /\ ShapeInv' BY DEF Inv, Core
<1>2. /\ processl \in Seq(Dest) /\ RetryDelay \in Nat
      /\ \A e \in Dest : since[e] \in 0..RetryDelay /\ since[e] >= since[e]
  BY <1>1, DialerConstants DEF TypeOK
<1>3. ASSUME SameLegs, UNCHANGED destVars PROVE Still
  <2>1. \A e \in Dest : call'[e] = NoCall <=> call[e] = NoCall
    BY <1>1, <1>3, SameUse DEF SameLegs
  <2> QED BY <1>2, <1>3, <2>1 DEF Still, destVars
<1>4. CASE Tick
  <2>1. \A e \in Dest : call'[e] = NoCall <=> call[e] = NoCall
    BY <1>1, <1>4, HandlerLegs, SameUse DEF SameLegs
  <2>2. \A e \in Dest : since'[e] >= since[e] BY <1>2, <1>4 DEF Tick, Up
  <2> QED BY <1>4, <2>1, <2>2 DEF Still, Tick
<1>5. CASE StartRound \/ StartDialling \/ DialSkips \/ EndRound
  BY <1>2, <1>5 DEF StartRound, StartDialling, DialSkips, EndRound, Still, destVars
<1>6. CASE DialFails
  <2>1. ToSet(processl') \subseteq ToSet(processl)
    <3>1. ToSet(Unlink(processl, Head(todo))) = ToSet(processl) \ {Head(todo)}
      BY <1>2, UnlinkFacts DEF ListInv, ListsInv
    <3> QED BY <1>6, <3>1 DEF DialFails
  <2> QED BY <1>2, <1>6, <2>1 DEF DialFails, Still
<1>7. CASE Dialling
  BY <1>5, <1>6, <1>7 DEF Dialling
<1>8. ASSUME NEW d \in Dest,
             \/ Progress(d) \/ Establish(d) \/ EstablishPbx(d) \/ Close(d)
             \/ OnCallEnd(d) \/ PlayOnce(d) \/ ThreadExits(d)
      PROVE  Still
  <2>1. UNCHANGED destVars
    BY <1>8 DEF Progress, Establish, EstablishPbx, Close, OnCallEnd, CallGoesOn,
                Forward, CallEnds, HandlerCrashes, PlayOnce, ThreadExits
  <2>2. CASE \/ Progress(d) \/ Establish(d) \/ EstablishPbx(d) \/ Close(d)
             \/ CallGoesOn(d) \/ PlayOnce(d) \/ ThreadExits(d)
    BY <1>3, <2>1, <2>2, HandlerLegs
  <2>3. CASE CallEnds(d) BY <1>3, <2>1, <2>3, CallEndsLegs
  <2>4. CASE Forward(d)
    <3>1. \A e \in Dest : call'[e].rtp_sess = call[e].rtp_sess
      <4>1. CASE UNCHANGED call BY <4>1
      <4>2. CASE call' = [call EXCEPT ![d].forwarded = TRUE]
        <5> DEFINE b == [call[d] EXCEPT !.forwarded = TRUE]
        <5>1. call[d] \in CallType BY <1>1, SessionTypes
        <5>2. b \in CallType /\ b.rtp_sess = call[d].rtp_sess BY <5>1, ForwardedFacts
        <5>3. call' = [call EXCEPT ![d] = b] BY <4>2
        <5> HIDE DEF b
        <5> QED BY <1>1, <5>2, <5>3, OneCall
      <4> QED BY <2>4, <4>1, <4>2 DEF Forward
    <3>2. \A e \in Dest : call'[e] = NoCall <=> call[e] = NoCall BY <1>1, <3>1, SameUse
    <3> QED BY <1>2, <2>1, <3>2 DEF Still, destVars
  <2>5. CASE HandlerCrashes(d)
    <3>1. UNCHANGED <<call, pbx_call>> BY <2>5 DEF HandlerCrashes
    <3>2. SameLegs BY <3>1 DEF SameLegs
    <3> QED BY <1>3, <2>1, <3>2
  <2> QED BY <1>8, <2>2, <2>3, <2>4, <2>5 DEF OnCallEnd
<1>9. ASSUME NEW r \in Rtp, KeyPress(r) PROVE Still
  <2>1. UNCHANGED destVars BY <1>9 DEF KeyPress
  <2> QED BY <1>3, <1>9, <2>1, KeyPressLegs
<1>10. CASE UNCHANGED vars BY <1>2, <1>10 DEF vars, destVars, Still
<1> QED BY <1>4, <1>5, <1>7, <1>8, <1>9, <1>10 DEF Next

(* The call that begins is that of the head of todo. *)
LEMMA Begins ==
    ASSUME Inv, ListInv, NEW media, media # "missing", NEW sess,
           DialOk(media, sess)
    PROVE  /\ Head(todo) \in Dest /\ Head(todo) \in ToSet(processl)
           /\ call[Head(todo)] = NoCall /\ UNCHANGED processl
           /\ \A e \in Dest : e # Head(todo) =>
                call'[e] = call[e] /\ try_count'[e] = try_count[e] /\ since'[e] = since[e]
<1>1. TypeOK /\ todo \in Seq(Dest) BY DEF Inv, TypeOK
<1>2. pc = "dial" /\ ~crashed /\ todo # << >> /\ call[Head(todo)] = NoCall
  BY DEF DialOk
<1>3. Head(todo) \in Dest /\ Head(todo) \in ToSet(todo) BY <1>1, <1>2, TailFacts
<1>4. Head(todo) \in ToSet(processl) BY <1>2, <1>3 DEF ListInv, ListsInv
<1>5. ASSUME NEW e \in Dest, e # Head(todo)
      PROVE  call'[e] = call[e] /\ try_count'[e] = try_count[e] /\ since'[e] = since[e]
  BY <1>1, <1>5 DEF DialOk, TypeOK
<1> QED BY <1>2, <1>3, <1>4, <1>5 DEF DialOk

(* Whoever is in the process list without a call may be dialled. *)
LEMMA SpacingStep ==
    ASSUME Inv, Inv', ListInv, SpacingInv, [Next]_vars, "missing" \notin Media
    PROVE  SpacingInv'
<1>1. /\ TypeOK /\ processl \in Seq(Dest) /\ destinations \in Seq(Dest)
      /\ todo \in Seq(Dest) /\ processl' \in Seq(Dest) /\ RetryDelay \in Nat
      /\ \A e \in Dest : since[e] \in Nat /\ since'[e] \in Nat
  BY DialerConstants DEF Inv, TypeOK
<1>2. SUFFICES ASSUME NEW d \in Dest, d \in ToSet(processl'), call'[d] = NoCall
               PROVE  try_count'[d] = 0 \/ since'[d] >= RetryDelay
  <2>1. ToSet(processl') \subseteq Dest BY <1>1, ElementOfSeq DEF ToSet
  <2> QED BY <2>1 DEF SpacingInv, MayDial, NoCall
<1>3. CASE Still
  BY <1>1, <1>2, <1>3 DEF Still, SpacingInv, MayDial
<1>4. CASE Pick
  <2>1. UNCHANGED <<call, try_count, since>> BY <1>4 DEF Pick
  <2>2. CASE d \in ToSet(processl) BY <1>2, <2>1, <2>2 DEF SpacingInv, MayDial
  <2>3. CASE d \notin ToSet(processl)
    <3> DEFINE h == Head(todo)
    <3>1. h \in Dest BY <1>1, <1>4, TailFacts DEF Pick
    <3>2. MayDial(h) /\ processl' = Append(processl, h)
      BY <1>2, <1>4, <2>3 DEF Pick
    <3> HIDE DEF h
    <3>3. ToSet(Append(processl, h)) = ToSet(processl) \cup {h} BY <1>1, <3>1, AppendFacts
    <3> QED BY <1>2, <2>1, <2>3, <3>2, <3>3 DEF MayDial
  <2> QED BY <2>2, <2>3
<1>5. CASE Join
  <2>1. PICK e \in Dest : todo = <<e>> /\ call[e].status = "disconnected"
    BY <1>5 DEF Inv, Join, JoinInv
  <2>2. /\ processl' = Unlink(processl, e) /\ call' = [call EXCEPT ![e] = NoCall]
        /\ UNCHANGED <<try_count, since>>
    BY <1>5, <2>1 DEF Join, Destroy
  <2>3. ToSet(processl') = ToSet(processl) \ {e}
    BY <1>1, <2>2, UnlinkFacts DEF ListInv, ListsInv
  <2>4. call[d] = NoCall BY <1>1, <1>2, <2>2, <2>3 DEF TypeOK
  <2> QED BY <1>2, <2>2, <2>3, <2>4 DEF SpacingInv, MayDial
<1>6. ASSUME NEW media \in Media, NEW sess \in {"inviting", "none"},
             media # "missing", DialOk(media, sess)
      PROVE  try_count'[d] = 0 \/ since'[d] >= RetryDelay
  <2>1. d # Head(todo)
    <3> DEFINE b == [NewCall(sess) EXCEPT !.join_pbx = (media = "pbx")]
               h == Head(todo)
    <3>1. call' = [call EXCEPT ![h] = b] /\ free # << >> BY <1>6 DEF DialOk
    <3>2. /\ free \in Seq(Rtp) /\ None \notin Rtp /\ (media = "pbx") \in BOOLEAN
      BY <1>1, DialerConstants DEF TypeOK
    <3>3. b \in CallType /\ b.status = "connecting" BY <3>1, <3>2, NewCallFacts
    <3>4. h \in Dest BY <1>6, Begins
    <3> HIDE DEF b, h
    <3>5. call'[h] = b BY <1>1, <3>1, <3>3, <3>4, OneCall
    <3>6. call'[h] # NoCall BY <3>3, <3>5, NoCallFacts
    <3> QED BY <1>2, <3>6 DEF h
  <2>2. /\ call[d] = NoCall /\ try_count'[d] = try_count[d] /\ since'[d] = since[d]
        /\ UNCHANGED processl
    BY <1>2, <1>6, <2>1, Begins
  <2> QED BY <1>2, <2>2 DEF SpacingInv, MayDial
<1> QED BY <1>3, <1>4, <1>5, <1>6, Kinds

(* A contact is called again only after the retry delay, in a campaign     *)
(* whose recording can be opened: where it cannot, start_fake_calling sets *)
(* last_try although it keeps no call (main.c:552-578), and the next round *)
(* does not look at it again.                                              *)
THEOREM Spaced ==
    ASSUME "missing" \notin Media PROVE Spec => RetrySpacing
<1>1. ASSUME Init PROVE SpacingInv
  BY <1>1, EmptyFacts DEF Init, SpacingInv
<1>2. ASSUME Inv, Inv', ListInv, SpacingInv, [Next]_vars PROVE SpacingInv'
  BY <1>2, SpacingStep
<1>3. ASSUME Inv, Inv', ListInv, SpacingInv, [Next]_vars
      PROVE  \A d \in Dest : call[d] = NoCall /\ call'[d] # NoCall /\ try_count[d] > 0
                               => since[d] >= RetryDelay
  <2>1. SUFFICES ASSUME NEW d \in Dest, call[d] = NoCall, call'[d] # NoCall,
                        try_count[d] > 0
                 PROVE  since[d] >= RetryDelay
    OBVIOUS
  <2>2. ~Still BY <2>1 DEF Still
  <2>3. ~Pick BY <2>1 DEF Pick
  <2>4. ~Join
    <3>1. SUFFICES ASSUME Join PROVE FALSE OBVIOUS
    <3>2. call \in [Dest -> CallType] /\ call' = [call EXCEPT ![todo[1]] = NoCall]
      BY <1>3, <3>1 DEF Join, Destroy, Inv, TypeOK
    <3>3. call'[d] = NoCall
      <4>1. CASE d = todo[1] BY <3>2, <4>1
      <4>2. CASE d # todo[1] BY <2>1, <3>2, <4>2
      <4> QED BY <4>1, <4>2
    <3> QED BY <2>1, <3>3
  <2>5. PICK media \in Media, sess \in {"inviting", "none"} :
           media # "missing" /\ DialOk(media, sess)
    BY <1>3, <2>2, <2>3, <2>4, Kinds
  <2>6. d = Head(todo) /\ d \in ToSet(processl) BY <1>3, <2>1, <2>5, Begins
  <2>7. MayDial(d) BY <1>3, <2>1, <2>6 DEF SpacingInv
  <2> QED BY <2>1, <2>7 DEF MayDial
<1>4. Spec => []SpacingInv
  BY <1>1, <1>2, Invariance, ListInvariance, PTL DEF Spec
<1> QED BY <1>3, <1>4, Invariance, ListInvariance, PTL DEF Spec, RetrySpacing

=============================================================================
