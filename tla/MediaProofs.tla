----------------------------- MODULE MediaProofs ------------------------------
(***************************************************************************)
(* Proofs about offer and answer in module Exchanges (Media, the module    *)
(* Sdp): the inductive invariant MediaInv, that it holds at first and that *)
(* every step keeps it, and what it says of the two ends.                  *)
(***************************************************************************)
EXTENDS Exchanges, SequenceTheorems, WellFoundedInduction, NaturalsInduction, TLAPS

(* An order whose least elements stand for induction: an induction over the
   naturals is an argument about the least number for which it fails. *)
Below == {ss \in Nat \X Nat : ss[1] < ss[2]}

(* The order of the naturals is well-founded: what a least element is taken from. *)
LEMMA BelowWellFounded == IsWellFoundedOn(Below, Nat)
BY NatLessThanWellFounded DEF OpToRel, Below

-------------------------------------------------------------------------------
(* Sdp: offer and answer. *)

(* Induction over the naturals, for a property that is a set of them. *)
LEMMA SetInduction ==
  ASSUME NEW S, 0 \in S, \A n \in Nat : n \in S => n + 1 \in S
  PROVE  \A n \in Nat : n \in S
<1> SUFFICES ASSUME NEW z \in Nat, z \notin S PROVE FALSE
  OBVIOUS
<1> DEFINE T == Nat \ S
<1>1. T \subseteq Nat /\ z \in T
  OBVIOUS
<1>2. PICK x \in T : \A y \in T : ~(<<y, x>> \in Below)
  BY <1>1, BelowWellFounded, WFMin
<1>3. \A y \in T : ~(y < x)
  BY <1>1, <1>2 DEF Below
<1>4. x # 0 /\ x \in Nat
  OBVIOUS
<1>5. x - 1 \in Nat /\ x - 1 < x /\ (x - 1) + 1 = x
  BY <1>4
<1>6. x - 1 \in S
  BY <1>3, <1>5
<1> QED BY <1>5, <1>6

(* What the walk of Pick has taken after k elements. *)
PickFn(s, I, n, f) ==
    f = [k \in 0 .. n |->
            IF k = 0 THEN <<>>
            ELSE IF k \in I THEN Append(f[k - 1], s[k]) ELSE f[k - 1]]

(* There is such a walk. *)
LEMMA PickFnExists ==
  ASSUME NEW s, NEW I, NEW n \in Nat
  PROVE  \E f : PickFn(s, I, n, f)
<1> DEFINE S == {k \in Nat : \E f : PickFn(s, I, k, f)}
<1>1. 0 \in S
  <2> DEFINE f == [k \in 0 .. 0 |-> <<>>]
  <2>1. \A k \in 0 .. 0 : k = 0
    OBVIOUS
  <2>2. PickFn(s, I, 0, f)
    BY <2>1 DEF PickFn
  <2> QED BY <2>2
<1>2. ASSUME NEW k \in Nat, k \in S PROVE k + 1 \in S
  <2>1. PICK f : PickFn(s, I, k, f)
    BY <1>2
  <2> DEFINE e == IF k + 1 \in I THEN Append(f[k], s[k + 1]) ELSE f[k]
             g == [j \in 0 .. k + 1 |-> IF j = k + 1 THEN e ELSE f[j]]
             h == [j \in 0 .. k + 1 |->
                     IF j = 0 THEN <<>>
                     ELSE IF j \in I THEN Append(g[j - 1], s[j]) ELSE g[j - 1]]
  <2>2. \A j \in 0 .. k + 1 : j = k + 1 \/ j \in 0 .. k
    OBVIOUS
  <2>3. ASSUME NEW j \in 0 .. k PROVE g[j] = h[j]
    <3>1. g[j] = f[j]
      OBVIOUS
    <3>2. CASE j = 0
      <4>1. 0 \in 0 .. k /\ 0 \in 0 .. k + 1
        OBVIOUS
      <4>2. f[0] = <<>> /\ h[0] = <<>>
        BY <2>1, <4>1 DEF PickFn
      <4> QED BY <3>1, <3>2, <4>2
    <3>3. CASE j # 0
      <4>1. j - 1 \in 0 .. k /\ j - 1 # k + 1 /\ j - 1 \in 0 .. k + 1
        BY <3>3
      <4>2. g[j - 1] = f[j - 1]
        BY <4>1
      <4>3. f[j] = IF j \in I THEN Append(f[j - 1], s[j]) ELSE f[j - 1]
        BY <2>1, <3>3 DEF PickFn
      <4> QED BY <3>1, <3>3, <4>2, <4>3
    <3> QED BY <3>2, <3>3
  <2>4. g[k + 1] = h[k + 1]
    <3>1. k + 1 \in 0 .. k + 1 /\ k + 1 # 0 /\ (k + 1) - 1 = k /\ k \in 0 .. k + 1 /\ k # k + 1
      OBVIOUS
    <3>2. g[k] = f[k]
      BY <3>1
    <3> QED BY <3>1, <3>2
  <2>5. g = h
    BY <2>2, <2>3, <2>4
  <2> HIDE DEF g
  <2>6. PickFn(s, I, k + 1, g)
    BY <2>5 DEF PickFn
  <2> QED BY <2>6
<1>3. \A k \in Nat : k \in S
  BY <1>1, <1>2, SetInduction
<1> QED BY <1>3

(* Pick, in terms of the walk. *)
LEMMA PickIsFn ==
  ASSUME NEW s, NEW I, Len(s) \in Nat
  PROVE  \E f : PickFn(s, I, Len(s), f) /\ Media!Pick(s, I) = f[Len(s)]
<1> DEFINE P(g) == g = [k \in 0 .. Len(s) |->
            IF k = 0 THEN <<>>
            ELSE IF k \in I THEN Append(g[k - 1], s[k]) ELSE g[k - 1]]
<1>1. Media!Pick(s, I) = (CHOOSE g : P(g))[Len(s)]
  BY DEF Media!Pick
<1>2. PICK f : PickFn(s, I, Len(s), f)
  BY PickFnExists
<1>3. P(f)
  BY <1>2 DEF PickFn
<1> HIDE DEF P
<1>4. P(CHOOSE g : P(g))
  BY <1>3
<1>5. PickFn(s, I, Len(s), CHOOSE g : P(g))
  BY <1>4 DEF PickFn, P
<1> QED BY <1>1, <1>5

(* r is what stands in s at the first n places of I: element j of r comes
   from place p[j]. *)
Picked(s, I, n, r, p) ==
    /\ p \in [1 .. Len(r) -> 1 .. n]
    /\ \A j \in 1 .. Len(r) : p[j] \in I /\ r[j] = s[p[j]]
    /\ \A i, j \in 1 .. Len(r) : i < j => p[i] < p[j]
    /\ \A i \in 1 .. n : i \in I => \E j \in 1 .. Len(r) : p[j] = i

(* Nothing is taken of no elements. *)
LEMMA PickedNone ==
  ASSUME NEW s, NEW I
  PROVE  \E p : Picked(s, I, 0, <<>>, p)
<1> DEFINE p == [j \in 1 .. 0 |-> j]
<1>1. Picked(s, I, 0, <<>>, p)
  BY DEF Picked
<1> QED BY <1>1

(* One more element that is not taken. *)
LEMMA PickedSkip ==
  ASSUME NEW s, NEW I, NEW n \in Nat, NEW r, NEW p, Picked(s, I, n, r, p), n + 1 \notin I
  PROVE  Picked(s, I, n + 1, r, p)
<1>1. 1 .. n \subseteq 1 .. n + 1 /\ \A i \in 1 .. n + 1 : i \in 1 .. n \/ i = n + 1
  OBVIOUS
<1>2. p \in [1 .. Len(r) -> 1 .. n + 1]
  BY <1>1 DEF Picked
<1> QED BY <1>1, <1>2 DEF Picked

(* One more that is. *)
LEMMA PickedTake ==
  ASSUME NEW T, NEW s, NEW I, NEW n \in Nat, NEW r \in Seq(T), NEW p,
         Picked(s, I, n, r, p), n + 1 \in I, s[n + 1] \in T
  PROVE  \E q : Picked(s, I, n + 1, Append(r, s[n + 1]), q)
<1> DEFINE t == Append(r, s[n + 1])
           m == Len(r)
           q == [j \in 1 .. m + 1 |-> IF j = m + 1 THEN n + 1 ELSE p[j]]
<1>1. t \in Seq(T) /\ m \in Nat /\ Len(t) = m + 1 /\ t[m + 1] = s[n + 1] /\ \A j \in 1 .. m : t[j] = r[j]
  OBVIOUS
<1>2. \A j \in 1 .. m : p[j] \in 1 .. n
  BY DEF Picked
<1>3. \A j \in 1 .. m + 1 : j = m + 1 \/ j \in 1 .. m
  BY <1>1
<1>4. q[m + 1] = n + 1 /\ \A j \in 1 .. m : q[j] = p[j]
  BY <1>1
<1>5. \A j \in 1 .. m + 1 : q[j] \in 1 .. n + 1
  BY <1>1, <1>2, <1>3, <1>4
<1>6. q \in [1 .. m + 1 -> 1 .. n + 1]
  BY <1>5
<1> HIDE DEF q, t, m
<1>7. \A j \in 1 .. m + 1 : q[j] \in I /\ t[j] = s[q[j]]
  BY <1>1, <1>3, <1>4 DEF Picked, m
<1>8. ASSUME NEW i \in 1 .. m + 1, NEW j \in 1 .. m + 1, i < j PROVE q[i] < q[j]
  <2>1. i \in 1 .. m
    BY <1>8, <1>1
  <2>2. CASE j = m + 1
    BY <1>2, <1>4, <2>1, <2>2
  <2>3. CASE j \in 1 .. m
    BY <1>8, <1>4, <2>1, <2>3 DEF Picked, m
  <2> QED BY <1>3, <2>2, <2>3
<1>9. ASSUME NEW i \in 1 .. n + 1, i \in I PROVE \E j \in 1 .. m + 1 : q[j] = i
  <2>1. CASE i = n + 1
    BY <1>1, <1>4, <2>1
  <2>2. CASE i \in 1 .. n
    <3>1. PICK j \in 1 .. m : p[j] = i
      BY <1>9, <2>2 DEF Picked, m
    <3> QED BY <1>1, <1>4, <3>1
  <2> QED BY <2>1, <2>2
<1>10. Picked(s, I, n + 1, t, q)
  BY <1>1, <1>6, <1>7, <1>8, <1>9 DEF Picked
<1> QED BY <1>10 DEF t

(* What Pick returns. *)
LEMMA PickPicks ==
  ASSUME NEW T, NEW s \in Seq(T), NEW I
  PROVE  Media!Pick(s, I) \in Seq(T) /\ \E p : Picked(s, I, Len(s), Media!Pick(s, I), p)
<1>1. PICK f : PickFn(s, I, Len(s), f) /\ Media!Pick(s, I) = f[Len(s)]
  BY PickIsFn
<1> DEFINE Good(k) == f[k] \in Seq(T) /\ \E p : Picked(s, I, k, f[k], p)
           S == {k \in Nat : k <= Len(s) => Good(k)}
<1>2. f[0] = <<>> /\ \A k \in 1 .. Len(s) : f[k] = IF k \in I THEN Append(f[k - 1], s[k]) ELSE f[k - 1]
  <2>1. Len(s) \in Nat /\ 0 \in 0 .. Len(s) /\ \A k \in 1 .. Len(s) : k \in 0 .. Len(s) /\ k # 0
    OBVIOUS
  <2> QED BY <1>1, <2>1 DEF PickFn
<1>3. 0 \in S
  <2>1. f[0] \in Seq(T)
    BY <1>2
  <2>2. \E p : Picked(s, I, 0, f[0], p)
    BY <1>2, PickedNone
  <2> QED BY <2>1, <2>2
<1>4. ASSUME NEW k \in Nat, k \in S PROVE k + 1 \in S
  <2> SUFFICES ASSUME k + 1 <= Len(s) PROVE Good(k + 1)
    OBVIOUS
  <2>1. k <= Len(s) /\ k + 1 \in 1 .. Len(s) /\ (k + 1) - 1 = k
    OBVIOUS
  <2>2. PICK p : Picked(s, I, k, f[k], p)
    BY <1>4, <2>1
  <2>3. f[k] \in Seq(T) /\ s[k + 1] \in T
    BY <1>4, <2>1
  <2>4. CASE k + 1 \in I
    <3>1. f[k + 1] = Append(f[k], s[k + 1])
      BY <1>2, <2>1, <2>4
    <3>2. \E q : Picked(s, I, k + 1, Append(f[k], s[k + 1]), q)
      BY <2>2, <2>3, <2>4, PickedTake
    <3>3. Append(f[k], s[k + 1]) \in Seq(T)
      BY <2>3
    <3> QED BY <3>1, <3>2, <3>3
  <2>5. CASE k + 1 \notin I
    <3>1. f[k + 1] = f[k]
      BY <1>2, <2>1, <2>5
    <3>2. Picked(s, I, k + 1, f[k], p)
      BY <2>2, <2>5, PickedSkip
    <3> QED BY <2>3, <3>1, <3>2
  <2> QED BY <2>4, <2>5
<1>5. \A k \in Nat : k \in S
  <2> HIDE DEF S
  <2> QED BY <1>3, <1>4, SetInduction
<1>6. Good(Len(s))
  BY <1>5
<1> QED BY <1>1, <1>6

MediaCodec == {f.codec : f \in Payload} \cup {"none"}
MediaFmt == [id : Nat, codec : MediaCodec, sup : BOOLEAN]
MediaWire == [id : Nat, codec : MediaCodec]
MediaName == UNION {DOMAIN Formats[x] : x \in Agent}

(* a payload type and a codec that belong together *)
MediaKnown(f) == \E g \in Payload : g.id = f.id /\ g.codec = f.codec

(* The formats of a user: a codec stands once, and no format before a
   supported one has its payload type. *)
MediaOwn(lf) ==
    /\ \A i \in 1 .. Len(lf) : MediaKnown(lf[i])
    /\ \A i, j \in 1 .. Len(lf) : lf[i].codec = lf[j].codec => i = j
    /\ \A i, j \in 1 .. Len(lf) : lf[i].sup /\ j < i => lf[j].id # lf[i].id

(* Those of a message: codecs and payload types stand once. *)
MediaSent(rf) ==
    /\ \A i \in 1 .. Len(rf) : MediaKnown(rf[i])
    /\ \A i, j \in 1 .. Len(rf) : rf[i].codec = rf[j].codec => i = j
    /\ \A i, j \in 1 .. Len(rf) : rf[i].id = rf[j].id => i = j

MediaLf == {lf \in Seq(MediaFmt) : MediaOwn(lf)}
MediaLine ==
    [name : MediaName, lf : MediaLf, rf : Seq(MediaFmt), ldir : Media!Dirs, rdir : Media!Dirs,
     rport : BOOLEAN, disabled : BOOLEAN]
MediaMsg == [name : MediaName, port : BOOLEAN, dir : Media!Dirs, fmts : Seq(MediaWire)]

(* Formats that are known are compared by their codec. *)
LEMMA MediaStatic ==
  ASSUME NEW f, NEW g, MediaKnown(f), MediaKnown(g)
  PROVE  Media!FormatCmp(f, g) <=> f.codec = g.codec
BY MediaAssumption DEF Media!FormatCmp, MediaKnown, Media!DYNPT_START

(* l is what an end writes of its line m. *)
MediaWrote(m, offer, l) ==
    /\ l.name = m.name
    /\ l.port =>
          /\ MediaSent(l.fmts) /\ Len(l.fmts) # 0
          /\ ~m.disabled /\ (offer \/ m.rport)
          /\ l.dir = IF offer THEN m.ldir ELSE m.ldir \cap m.rdir
          /\ \A k \in 1 .. Len(l.fmts) : \E i \in 1 .. Len(m.lf) :
                m.lf[i].sup /\ m.lf[i].id = l.fmts[k].id /\ m.lf[i].codec = l.fmts[k].codec
          /\ \A i \in 1 .. Len(m.lf) : m.lf[i].sup => \E k \in 1 .. Len(l.fmts) :
                m.lf[i].id = l.fmts[k].id /\ m.lf[i].codec = l.fmts[k].codec
    /\ ~l.port => m.disabled \/ (~offer /\ ~m.rport) \/ \A i \in 1 .. Len(m.lf) : ~m.lf[i].sup

(* media_encode() writes every supported format once, and nothing else. *)
LEMMA MediaEncodes ==
  ASSUME NEW m \in MediaLine, NEW offer
  PROVE  Media!MediaEncode(m, offer) \in MediaMsg /\ MediaWrote(m, offer, Media!MediaEncode(m, offer))
<1> DEFINE q == Media!Pick(m.lf, Media!Supported(m))
           l == Media!MediaEncode(m, offer)
           w == [i \in DOMAIN q |-> [id |-> q[i].id, codec |-> q[i].codec]]
           e == IF offer THEN m.ldir ELSE m.ldir \cap m.rdir
<1>1. m.lf \in Seq(MediaFmt) /\ MediaOwn(m.lf) /\ m.name \in MediaName
  BY DEF MediaLine, MediaLf
<1>2. q \in Seq(MediaFmt) /\ \E p : Picked(m.lf, Media!Supported(m), Len(m.lf), q, p)
  BY <1>1, PickPicks
<1>3. PICK p : Picked(m.lf, Media!Supported(m), Len(m.lf), q, p)
  BY <1>2
<1> HIDE DEF q
<1>4. q = <<>> <=> Len(q) = 0
  BY <1>2
<1>5. CASE m.disabled \/ q = <<>> \/ (~offer /\ ~m.rport)
  <2>1. l = [name |-> m.name, port |-> FALSE, dir |-> Media!SENDRECV, fmts |-> <<[id |-> 0, codec |-> "none"]>>]
    BY <1>5 DEF Media!MediaEncode, q
  <2>2. ~l.port /\ l.name = m.name
    BY <2>1
  <2>3. <<[id |-> 0, codec |-> "none"]>> \in Seq(MediaWire)
    <3>1. [id |-> 0, codec |-> "none"] \in MediaWire
      BY DEF MediaWire, MediaCodec
    <3> QED BY <3>1
  <2>4. l \in MediaMsg
    BY <1>1, <2>1, <2>3 DEF MediaMsg, Media!Dirs
  <2>5. q = <<>> => \A i \in 1 .. Len(m.lf) : ~m.lf[i].sup
    BY <1>1, <1>3, <1>4 DEF Picked, Media!Supported
  <2> HIDE DEF l
  <2> QED BY <1>5, <2>2, <2>4, <2>5 DEF MediaWrote, l
<1>6. CASE ~(m.disabled \/ q = <<>> \/ (~offer /\ ~m.rport))
  <2>1. l = [name |-> m.name, port |-> TRUE, dir |-> e, fmts |-> w]
    BY <1>6 DEF Media!MediaEncode, q
  <2>2. \A i \in 1 .. Len(q) : q[i] \in MediaFmt
    BY <1>2
  <2>3. \A i \in 1 .. Len(q) : [id |-> q[i].id, codec |-> q[i].codec] \in MediaWire
    BY <2>2 DEF MediaFmt, MediaWire
  <2>4. w \in Seq(MediaWire) /\ Len(w) = Len(q) /\ \A i \in 1 .. Len(q) : w[i].id = q[i].id /\ w[i].codec = q[i].codec
    BY <1>2, <2>3
  <2> HIDE DEF w
  <2>5. e \in Media!Dirs
    BY DEF MediaLine, Media!Dirs
  <2> HIDE DEF e
  <2>6. l \in MediaMsg
    BY <1>1, <2>1, <2>4, <2>5 DEF MediaMsg
  <2>7. l.port /\ l.name = m.name /\ l.dir = e /\ l.fmts = w
    BY <2>1
  <2>8. \A k \in 1 .. Len(w) : /\ p[k] \in 1 .. Len(m.lf) /\ m.lf[p[k]].sup
                               /\ m.lf[p[k]].id = w[k].id /\ m.lf[p[k]].codec = w[k].codec
    BY <1>1, <1>3, <2>4 DEF Picked, Media!Supported
  <2>9. \A i \in 1 .. Len(m.lf) : m.lf[i].sup => \E k \in 1 .. Len(w) : p[k] = i
    BY <1>1, <1>3, <2>4 DEF Picked, Media!Supported
  <2>10. \A i, j \in 1 .. Len(w) : i < j => p[i] < p[j]
    BY <1>3, <2>4 DEF Picked
  <2>11. Len(w) \in Nat /\ Len(w) # 0
    BY <1>2, <1>4, <1>6, <2>4
  <2>12. MediaSent(w)
    <3>1. \A i \in 1 .. Len(w) : MediaKnown(w[i])
      BY <1>1, <2>8 DEF MediaOwn, MediaKnown
    <3>2. ASSUME NEW i \in 1 .. Len(w), NEW j \in 1 .. Len(w), i < j
          PROVE  w[i].id # w[j].id /\ w[i].codec # w[j].codec
      <4>1. p[i] < p[j] /\ p[i] \in 1 .. Len(m.lf) /\ p[j] \in 1 .. Len(m.lf) /\ m.lf[p[j]].sup
        BY <2>8, <2>10, <3>2
      <4>2. m.lf[p[i]].id # m.lf[p[j]].id
        BY <1>1, <4>1 DEF MediaOwn
      <4>3. m.lf[p[i]].codec # m.lf[p[j]].codec
        BY <1>1, <4>1 DEF MediaOwn
      <4> QED BY <2>8, <4>2, <4>3
    <3>3. ASSUME NEW i \in 1 .. Len(w), NEW j \in 1 .. Len(w), i # j
          PROVE  w[i].id # w[j].id /\ w[i].codec # w[j].codec
      <4>1. i < j \/ j < i
        BY <2>11, <3>3
      <4> QED BY <3>2, <4>1
    <3> QED BY <3>1, <3>3 DEF MediaSent
  <2>13. ~m.disabled /\ (offer \/ m.rport)
    BY <1>6
  <2>14. MediaWrote(m, offer, l)
    <3> HIDE DEF l
    <3>1. MediaSent(l.fmts) /\ Len(l.fmts) # 0
      BY <2>7, <2>11, <2>12
    <3>2. l.dir = IF offer THEN m.ldir ELSE m.ldir \cap m.rdir
      BY <2>7 DEF e
    <3>3. \A k \in 1 .. Len(l.fmts) : \E i \in 1 .. Len(m.lf) :
            m.lf[i].sup /\ m.lf[i].id = l.fmts[k].id /\ m.lf[i].codec = l.fmts[k].codec
      BY <2>7, <2>8
    <3>4. \A i \in 1 .. Len(m.lf) : m.lf[i].sup => \E k \in 1 .. Len(l.fmts) :
            m.lf[i].id = l.fmts[k].id /\ m.lf[i].codec = l.fmts[k].codec
      BY <2>7, <2>8, <2>9
    <3> QED BY <2>7, <2>13, <3>1, <3>2, <3>3, <3>4 DEF MediaWrote
  <2> QED BY <2>6, <2>14
<1> QED BY <1>5, <1>6

(* X is s with f in the place of element h, in the order q. *)
MediaMoved(s, h, f, X, q) ==
    /\ X \in Seq(MediaFmt) /\ Len(X) = Len(s)
    /\ \A j \in 1 .. Len(s) : q[j] \in 1 .. Len(s) /\ X[j] = IF q[j] = h THEN f ELSE s[q[j]]
    /\ \A i, j \in 1 .. Len(s) : q[i] = q[j] => i = j
    /\ \A i \in 1 .. Len(s) : \E j \in 1 .. Len(s) : q[j] = i

(* A format that goes to the tail leaves the order of the others. *)
LEMMA MediaToTail ==
  ASSUME NEW s \in Seq(MediaFmt), NEW h \in 1 .. Len(s), NEW f \in MediaFmt
  PROVE  \E q : MediaMoved(s, h, f, Media!ToTail(s, h, f), q)
<1>1. PICK n \in Nat : n = Len(s) /\ DOMAIN s = 1 .. n /\ \A j \in 1 .. n : s[j] \in MediaFmt
  OBVIOUS
<1>2. h \in 1 .. n /\ h \in Nat
  BY <1>1
<1> DEFINE X == Media!ToTail(s, h, f)
           q == [j \in 1 .. n |-> IF j = n THEN h ELSE IF j < h THEN j ELSE j + 1]
<1>3. X = [j \in 1 .. n |-> IF j = n THEN f ELSE IF j < h THEN s[j] ELSE s[j + 1]]
  BY <1>1 DEF Media!ToTail
<1>4. ASSUME NEW j \in 1 .. n, j # n PROVE j + 1 \in 1 .. n
  BY <1>4
<1>5. ASSUME NEW j \in 1 .. n PROVE X[j] \in MediaFmt
  BY <1>1, <1>3, <1>4
<1>6. X \in Seq(MediaFmt) /\ Len(X) = n
  <2> HIDE DEF X
  <2>1. X \in [1 .. n -> MediaFmt]
    BY <1>3, <1>5
  <2> QED BY <2>1
<1>7. \A j \in 1 .. n : q[j] = IF j = n THEN h ELSE IF j < h THEN j ELSE j + 1
  OBVIOUS
<1>8. \A j \in 1 .. n : X[j] = IF j = n THEN f ELSE IF j < h THEN s[j] ELSE s[j + 1]
  BY <1>3
<1> HIDE DEF q, X
<1>9. ASSUME NEW j \in 1 .. n PROVE q[j] \in 1 .. n /\ (q[j] = h <=> j = n)
  BY <1>2, <1>4, <1>7
<1>10. ASSUME NEW j \in 1 .. n PROVE X[j] = IF q[j] = h THEN f ELSE s[q[j]]
  BY <1>7, <1>8, <1>9
<1>11. ASSUME NEW i \in 1 .. n, NEW j \in 1 .. n, q[i] = q[j] PROVE i = j
  BY <1>2, <1>7, <1>11
<1>12. ASSUME NEW i \in 1 .. n PROVE \E j \in 1 .. n : q[j] = i
  <2>1. CASE i = h
    BY <1>1, <1>2, <1>7, <2>1
  <2>2. CASE i < h
    <3>1. i # n
      BY <1>2, <2>2
    <3> QED BY <1>7, <2>2, <3>1
  <2>3. CASE i > h
    <3>1. i - 1 \in 1 .. n /\ i - 1 # n /\ ~(i - 1 < h) /\ (i - 1) + 1 = i
      BY <1>2, <2>3
    <3>2. q[i - 1] = i
      BY <1>7, <3>1
    <3> QED BY <3>1, <3>2
  <2> QED BY <1>2, <2>1, <2>2, <2>3
<1>13. MediaMoved(s, h, f, X, q)
  BY <1>1, <1>6, <1>9, <1>10, <1>11, <1>12 DEF MediaMoved
<1> QED BY <1>13 DEF X

(* One that stays leaves it, too. *)
LEMMA MediaInPlace ==
  ASSUME NEW s \in Seq(MediaFmt), NEW h \in 1 .. Len(s), NEW f \in MediaFmt
  PROVE  MediaMoved(s, h, f, [s EXCEPT ![h] = f], [j \in 1 .. Len(s) |-> j])
<1> DEFINE X == [s EXCEPT ![h] = f]
           q == [j \in 1 .. Len(s) |-> j]
<1>1. X \in Seq(MediaFmt) /\ Len(X) = Len(s)
  OBVIOUS
<1>2. \A j \in 1 .. Len(s) : q[j] = j /\ X[j] = IF j = h THEN f ELSE s[j]
  OBVIOUS
<1> HIDE DEF X, q
<1>3. MediaMoved(s, h, f, X, q)
  BY <1>1, <1>2 DEF MediaMoved
<1> QED BY <1>3 DEF X, q

(* a line while its formats are aligned *)
MediaTurning ==
    [name : MediaName, lf : Seq(MediaFmt), rf : Seq(MediaFmt), ldir : Media!Dirs, rdir : Media!Dirs,
     rport : BOOLEAN, disabled : BOOLEAN]

(* a line but for its formats *)
MediaSame(m, t) ==
    /\ t.name = m.name /\ t.ldir = m.ldir /\ t.rdir = m.rdir
    /\ (t.rport <=> m.rport) /\ (t.disabled <=> m.disabled)

(* Line m after k turns of the alignment. *)
MediaTurned(m, offer, k, t) ==
    /\ t \in MediaTurning /\ MediaSame(m, t)
    /\ Len(t.rf) = Len(m.rf) /\ Len(t.lf) = Len(m.lf)
    /\ \A j \in 1 .. Len(m.rf) : t.rf[j].id = m.rf[j].id /\ t.rf[j].codec = m.rf[j].codec
    /\ \A j \in 1 .. Len(m.rf) : j <= k =>
          (t.rf[j].sup <=> \E i \in 1 .. Len(m.lf) : t.lf[i].codec = m.rf[j].codec)
    /\ \A i \in 1 .. Len(m.lf) : MediaKnown(t.lf[i])
    /\ \A i, j \in 1 .. Len(m.lf) : t.lf[i].codec = t.lf[j].codec => i = j
    /\ \A i \in 1 .. Len(m.lf) :
          t.lf[i].sup <=> \E j \in 1 .. Len(m.rf) : j <= k /\ m.rf[j].codec = t.lf[i].codec
    /\ \A i \in 1 .. Len(m.lf) : \A j \in 1 .. Len(m.rf) :
          j <= k /\ m.rf[j].codec = t.lf[i].codec /\ offer => m.rf[j].id = t.lf[i].id
    /\ ~offer => \A i \in 1 .. Len(m.lf) : t.lf[i].id = m.lf[i].id /\ t.lf[i].codec = m.lf[i].codec

(* The formats of the line at first. *)
LEMMA MediaTurnedNone ==
  ASSUME NEW m \in MediaLine, NEW offer
  PROVE  MediaTurned(m, offer, 0, [m EXCEPT !.lf = [i \in DOMAIN @ |-> [@[i] EXCEPT !.sup = FALSE]]])
<1> DEFINE X == [i \in DOMAIN m.lf |-> [m.lf[i] EXCEPT !.sup = FALSE]]
           t == [m EXCEPT !.lf = [i \in DOMAIN @ |-> [@[i] EXCEPT !.sup = FALSE]]]
<1>1. m.lf \in Seq(MediaFmt) /\ MediaOwn(m.lf) /\ m.rf \in Seq(MediaFmt)
  BY DEF MediaLine, MediaLf
<1>2. \A i \in 1 .. Len(m.lf) : m.lf[i] \in MediaFmt
  BY <1>1
<1>3. \A i \in 1 .. Len(m.lf) : /\ [m.lf[i] EXCEPT !.sup = FALSE] \in MediaFmt
                                /\ ~[m.lf[i] EXCEPT !.sup = FALSE].sup
                                /\ [m.lf[i] EXCEPT !.sup = FALSE].id = m.lf[i].id
                                /\ [m.lf[i] EXCEPT !.sup = FALSE].codec = m.lf[i].codec
  BY <1>2 DEF MediaFmt
<1>4. X \in Seq(MediaFmt) /\ Len(X) = Len(m.lf)
  <2>1. X \in [1 .. Len(m.lf) -> MediaFmt]
    BY <1>1, <1>3
  <2>2. Len(m.lf) \in Nat
    BY <1>1
  <2> HIDE DEF X
  <2> QED BY <2>1, <2>2
<1>5. \A i \in 1 .. Len(m.lf) : ~X[i].sup /\ X[i].id = m.lf[i].id /\ X[i].codec = m.lf[i].codec
  BY <1>1, <1>3
<1>6. t = [m EXCEPT !.lf = X]
  OBVIOUS
<1> HIDE DEF X, t
<1>7. t \in MediaTurning /\ t.lf = X /\ t.rf = m.rf /\ MediaSame(m, t)
  BY <1>1, <1>4, <1>6 DEF MediaLine, MediaTurning, MediaSame
<1>8. \A i \in 1 .. Len(m.lf) : MediaKnown(X[i])
  BY <1>1, <1>5 DEF MediaOwn, MediaKnown
<1>9. \A i, j \in 1 .. Len(m.lf) : X[i].codec = X[j].codec => i = j
  BY <1>1, <1>5 DEF MediaOwn
<1>10. \A j \in 1 .. Len(m.rf) : ~(j <= 0)
  BY <1>1
<1>11. MediaTurned(m, offer, 0, t)
  BY <1>4, <1>5, <1>7, <1>8, <1>9, <1>10 DEF MediaTurned
<1> QED BY <1>11 DEF t

(* What one turn does, found or not found. *)
MediaTurn(t, k, offer, u) ==
    \/ /\ \A i \in 1 .. Len(t.lf) : t.lf[i].codec # t.rf[k].codec
       /\ u = [t EXCEPT !.rf[k].sup = FALSE]
    \/ \E h \in 1 .. Len(t.lf) : \E f \in MediaFmt : \E X, q :
          /\ t.lf[h].codec = t.rf[k].codec
          /\ f.codec = t.rf[k].codec /\ f.sup
          /\ IF offer THEN f.id = t.rf[k].id
             ELSE f.id = t.lf[h].id /\ \A j \in 1 .. Len(t.lf) : q[j] = j
          /\ MediaMoved(t.lf, h, f, X, q)
          /\ u = [t EXCEPT !.rf[k].sup = TRUE, !.lf = X]

(* The format that is found is the only one of that codec. *)
LEMMA MediaAlignOne ==
  ASSUME NEW m \in MediaLine, MediaSent(m.rf), NEW offer, NEW k \in 1 .. Len(m.rf), NEW t,
         MediaTurned(m, offer, k - 1, t)
  PROVE  MediaTurn(t, k, offer, Media!AlignOne(t, k, offer))
<1> DEFINE r == t.rf[k]
           hits == {i \in DOMAIN t.lf : Media!FormatCmp(t.lf[i], r)}
           h == CHOOSE i \in hits : \A j \in hits : i <= j
           l == [t.lf[h] EXCEPT !.sup = TRUE]
           f == IF offer THEN [l EXCEPT !.id = r.id] ELSE l
           X == IF offer THEN Media!ToTail(t.lf, h, f) ELSE [t.lf EXCEPT ![h] = f]
<1>1. t.lf \in Seq(MediaFmt) /\ t.rf \in Seq(MediaFmt) /\ DOMAIN t.lf = 1 .. Len(t.lf) /\ k \in 1 .. Len(t.rf)
  BY DEF MediaTurned, MediaTurning
<1>2. MediaKnown(r) /\ \A i \in 1 .. Len(t.lf) : MediaKnown(t.lf[i])
  BY DEF MediaTurned, MediaSent, MediaKnown
<1>3. hits = {i \in 1 .. Len(t.lf) : t.lf[i].codec = r.codec}
  BY <1>1, <1>2, MediaStatic
<1>4. r \in MediaFmt
  BY <1>1
<1>5. CASE hits = {}
  <2>1. Media!AlignOne(t, k, offer) = [t EXCEPT !.rf[k].sup = FALSE]
    BY <1>5 DEF Media!AlignOne
  <2> QED BY <1>3, <1>5, <2>1 DEF MediaTurn
<1>6. CASE hits # {}
  <2>1. PICK g \in hits : TRUE
    BY <1>6
  <2>2. \A i, j \in 1 .. Len(t.lf) : t.lf[i].codec = t.lf[j].codec => i = j
    BY DEF MediaTurned
  <2>3. \A i \in hits : i = g
    BY <1>3, <2>1, <2>2
  <2>4. g \in hits /\ \A j \in hits : g <= j
    BY <1>1, <1>3, <2>1, <2>3
  <2>5. h \in hits
    <3> HIDE DEF hits
    <3> QED BY <2>4
  <2>6. h \in 1 .. Len(t.lf) /\ t.lf[h].codec = r.codec
    BY <1>3, <2>5
  <2>7. Media!AlignOne(t, k, offer) =
          [t EXCEPT !.rf[k].sup = TRUE,
                    !.lf = IF offer THEN Media!ToTail(@, h, [l EXCEPT !.id = r.id])
                           ELSE [@ EXCEPT ![h] = l]]
    BY <1>6 DEF Media!AlignOne
  <2> HIDE DEF h, hits
  <2>8. Media!AlignOne(t, k, offer) = [t EXCEPT !.rf[k].sup = TRUE, !.lf = X]
    BY <2>7
  <2>9. t.lf[h] \in MediaFmt
    BY <1>1, <2>6
  <2>10. f \in MediaFmt /\ f.codec = r.codec /\ f.sup /\ (offer => f.id = r.id) /\ (~offer => f.id = t.lf[h].id)
    BY <1>4, <2>6, <2>9 DEF MediaFmt
  <2> HIDE DEF f, r
  <2>11. CASE offer
    <3>1. X = Media!ToTail(t.lf, h, f)
      BY <2>11
    <3>2. PICK q : MediaMoved(t.lf, h, f, X, q)
      BY <1>1, <2>6, <2>10, <3>1, MediaToTail
    <3> HIDE DEF X
    <3> QED BY <2>6, <2>8, <2>10, <2>11, <3>2 DEF MediaTurn, r
  <2>12. CASE ~offer
    <3>1. X = [t.lf EXCEPT ![h] = f]
      BY <2>12
    <3> DEFINE q == [j \in 1 .. Len(t.lf) |-> j]
    <3>2. MediaMoved(t.lf, h, f, X, q)
      BY <1>1, <2>6, <2>10, <3>1, MediaInPlace
    <3>3. \A j \in 1 .. Len(t.lf) : q[j] = j
      OBVIOUS
    <3> HIDE DEF X, q
    <3> QED BY <2>6, <2>8, <2>10, <2>12, <3>2, <3>3 DEF MediaTurn, r
  <2> QED BY <2>11, <2>12
<1> QED BY <1>5, <1>6

(* A turn that finds nothing keeps what MediaTurned says. *)
LEMMA MediaTurnMiss ==
  ASSUME NEW m \in MediaLine, MediaSent(m.rf), NEW offer, NEW k \in 1 .. Len(m.rf), NEW t,
         MediaTurned(m, offer, k - 1, t),
         \A i \in 1 .. Len(t.lf) : t.lf[i].codec # t.rf[k].codec
  PROVE  MediaTurned(m, offer, k, [t EXCEPT !.rf[k].sup = FALSE])
<1> DEFINE R == [t.rf EXCEPT ![k].sup = FALSE]
           u == [t EXCEPT !.rf[k].sup = FALSE]
<1>1. t \in MediaTurning /\ Len(t.rf) = Len(m.rf) /\ Len(t.lf) = Len(m.lf)
  BY DEF MediaTurned
<1>2. m.rf \in Seq(MediaFmt) /\ t.rf \in Seq(MediaFmt) /\ k \in 1 .. Len(t.rf)
  BY <1>1 DEF MediaLine, MediaTurning
<1>3. t.rf[k] \in MediaFmt
  BY <1>2
<1>4. [t.rf[k] EXCEPT !.sup = FALSE] \in MediaFmt
  BY <1>3 DEF MediaFmt
<1>5. R \in Seq(MediaFmt) /\ Len(R) = Len(t.rf)
  BY <1>2, <1>4
<1>6. \A j \in 1 .. Len(t.rf) : R[j].id = t.rf[j].id /\ R[j].codec = t.rf[j].codec
  <2> TAKE j \in 1 .. Len(t.rf)
  <2>1. CASE j = k
    <3>1. R[k] = [t.rf[k] EXCEPT !.sup = FALSE]
      BY <1>2
    <3> QED BY <1>3, <2>1, <3>1 DEF MediaFmt
  <2>2. CASE j # k
    BY <1>2, <2>2
  <2> QED BY <2>1, <2>2
<1>7. ~R[k].sup /\ \A j \in 1 .. Len(t.rf) : j # k => R[j] = t.rf[j]
  BY <1>2, <1>3 DEF MediaFmt
<1>8. u = [t EXCEPT !.rf = R]
  OBVIOUS
<1> HIDE DEF u, R
<1>9. u \in MediaTurning /\ u.rf = R /\ u.lf = t.lf /\ MediaSame(m, u)
  BY <1>1, <1>5, <1>8 DEF MediaTurned, MediaTurning, MediaSame
<1>10. \A j \in 1 .. Len(m.rf) : j <= k <=> j <= k - 1 \/ j = k
  BY <1>2
<1>11. \A i \in 1 .. Len(m.lf) : t.lf[i].codec # m.rf[k].codec
  BY <1>1 DEF MediaTurned
<1>12. \A j \in 1 .. Len(m.rf) : R[j].id = m.rf[j].id /\ R[j].codec = m.rf[j].codec
  BY <1>1, <1>6 DEF MediaTurned
<1>13. ASSUME NEW j \in 1 .. Len(m.rf), j <= k
       PROVE  R[j].sup <=> \E i \in 1 .. Len(m.lf) : t.lf[i].codec = m.rf[j].codec
  <2>1. CASE j = k
    BY <1>7, <1>11, <2>1
  <2>2. CASE j # k
    <3>1. R[j] = t.rf[j] /\ j <= k - 1
      BY <1>1, <1>7, <1>10, <1>13, <2>2
    <3> QED BY <3>1 DEF MediaTurned
  <2> QED BY <2>1, <2>2
<1>14. ASSUME NEW i \in 1 .. Len(m.lf)
       PROVE  t.lf[i].sup <=> \E j \in 1 .. Len(m.rf) : j <= k /\ m.rf[j].codec = t.lf[i].codec
  BY <1>10, <1>11 DEF MediaTurned
<1>15. ASSUME NEW i \in 1 .. Len(m.lf), NEW j \in 1 .. Len(m.rf), j <= k, m.rf[j].codec = t.lf[i].codec, offer
       PROVE  m.rf[j].id = t.lf[i].id
  BY <1>10, <1>11, <1>15 DEF MediaTurned
<1>16. MediaTurned(m, offer, k, u)
  <2>1. /\ \A i \in 1 .. Len(m.lf) : MediaKnown(t.lf[i])
        /\ \A i, j \in 1 .. Len(m.lf) : t.lf[i].codec = t.lf[j].codec => i = j
        /\ ~offer => \A i \in 1 .. Len(m.lf) : t.lf[i].id = m.lf[i].id /\ t.lf[i].codec = m.lf[i].codec
    BY DEF MediaTurned
  <2>2. /\ \A j \in 1 .. Len(m.rf) : u.rf[j].id = m.rf[j].id /\ u.rf[j].codec = m.rf[j].codec
        /\ \A j \in 1 .. Len(m.rf) : j <= k =>
              (u.rf[j].sup <=> \E i \in 1 .. Len(m.lf) : u.lf[i].codec = m.rf[j].codec)
    <3>1. u.rf = R /\ u.lf = t.lf
      BY <1>9
    <3>2. ASSUME NEW j \in 1 .. Len(m.rf), j <= k
          PROVE  u.rf[j].sup <=> \E i \in 1 .. Len(m.lf) : u.lf[i].codec = m.rf[j].codec
      BY <1>13, <3>1, <3>2
    <3> QED BY <1>12, <3>1, <3>2
  <2>3. /\ \A i \in 1 .. Len(m.lf) :
              u.lf[i].sup <=> \E j \in 1 .. Len(m.rf) : j <= k /\ m.rf[j].codec = u.lf[i].codec
        /\ \A i \in 1 .. Len(m.lf) : \A j \in 1 .. Len(m.rf) :
              j <= k /\ m.rf[j].codec = u.lf[i].codec /\ offer => m.rf[j].id = u.lf[i].id
    BY <1>9, <1>14, <1>15
  <2>4. Len(u.rf) = Len(m.rf) /\ Len(u.lf) = Len(m.lf)
    BY <1>1, <1>5, <1>9
  <2> QED BY <1>9, <2>1, <2>2, <2>3, <2>4 DEF MediaTurned
<1> QED BY <1>16 DEF u

(* So does one that finds a format. *)
LEMMA MediaTurnHit ==
  ASSUME NEW m \in MediaLine, MediaSent(m.rf), NEW offer, NEW k \in 1 .. Len(m.rf), NEW t,
         MediaTurned(m, offer, k - 1, t),
         NEW h \in 1 .. Len(t.lf), NEW f \in MediaFmt, NEW X, NEW q,
         t.lf[h].codec = t.rf[k].codec, f.codec = t.rf[k].codec, f.sup,
         IF offer THEN f.id = t.rf[k].id
         ELSE f.id = t.lf[h].id /\ \A j \in 1 .. Len(t.lf) : q[j] = j,
         MediaMoved(t.lf, h, f, X, q)
  PROVE  MediaTurned(m, offer, k, [t EXCEPT !.rf[k].sup = TRUE, !.lf = X])
<1> DEFINE R == [t.rf EXCEPT ![k].sup = TRUE]
           u == [t EXCEPT !.rf[k].sup = TRUE, !.lf = X]
<1>1. t \in MediaTurning /\ Len(t.rf) = Len(m.rf) /\ Len(t.lf) = Len(m.lf)
  BY DEF MediaTurned
<1>2. m.rf \in Seq(MediaFmt) /\ t.rf \in Seq(MediaFmt) /\ k \in 1 .. Len(t.rf) /\ h \in 1 .. Len(m.lf)
  BY <1>1 DEF MediaLine, MediaTurning
<1>3. t.rf[k] \in MediaFmt
  BY <1>2
<1>4. [t.rf[k] EXCEPT !.sup = TRUE] \in MediaFmt
  BY <1>3 DEF MediaFmt
<1>5. R \in Seq(MediaFmt) /\ Len(R) = Len(t.rf)
  BY <1>2, <1>4
<1>6. \A j \in 1 .. Len(t.rf) : R[j].id = t.rf[j].id /\ R[j].codec = t.rf[j].codec
  <2> TAKE j \in 1 .. Len(t.rf)
  <2>1. CASE j = k
    <3>1. R[k] = [t.rf[k] EXCEPT !.sup = TRUE]
      BY <1>2
    <3> QED BY <1>3, <2>1, <3>1 DEF MediaFmt
  <2>2. CASE j # k
    BY <1>2, <2>2
  <2> QED BY <2>1, <2>2
<1>7. R[k].sup /\ \A j \in 1 .. Len(t.rf) : j # k => R[j] = t.rf[j]
  <2>1. R[k] = [t.rf[k] EXCEPT !.sup = TRUE]
    BY <1>2
  <2>2. R[k].sup
    BY <1>3, <2>1 DEF MediaFmt
  <2>3. \A j \in 1 .. Len(t.rf) : j # k => R[j] = t.rf[j]
    BY <1>2
  <2> QED BY <2>2, <2>3
<1>8. u = [t EXCEPT !.rf = R, !.lf = X]
  OBVIOUS
<1>q. /\ X \in Seq(MediaFmt) /\ Len(X) = Len(m.lf)
      /\ \A j \in 1 .. Len(m.lf) : q[j] \in 1 .. Len(m.lf) /\ X[j] = IF q[j] = h THEN f ELSE t.lf[q[j]]
      /\ \A i, j \in 1 .. Len(m.lf) : q[i] = q[j] => i = j
      /\ \A i \in 1 .. Len(m.lf) : \E j \in 1 .. Len(m.lf) : q[j] = i
  BY <1>1 DEF MediaMoved
<1> HIDE DEF u, R
<1>9. u \in MediaTurning /\ u.rf = R /\ u.lf = X /\ MediaSame(m, u)
  BY <1>1, <1>5, <1>8, <1>q DEF MediaTurned, MediaTurning, MediaSame
<1>10. \A j \in 1 .. Len(m.rf) : j <= k <=> j <= k - 1 \/ j = k
  BY <1>2
<1>11. t.rf[k].id = m.rf[k].id /\ t.rf[k].codec = m.rf[k].codec
  BY DEF MediaTurned
<1>12. \A j \in 1 .. Len(m.rf) : R[j].id = m.rf[j].id /\ R[j].codec = m.rf[j].codec
  BY <1>1, <1>6 DEF MediaTurned
<1>c. \A j \in 1 .. Len(m.lf) : X[j].codec = t.lf[q[j]].codec
  BY <1>q
<1>d. \A i, j \in 1 .. Len(m.lf) : t.lf[i].codec = t.lf[j].codec => i = j
  BY DEF MediaTurned
<1>e. \A i, j \in 1 .. Len(m.rf) : m.rf[i].codec = m.rf[j].codec => i = j
  BY DEF MediaSent
<1>13. ASSUME NEW j \in 1 .. Len(m.rf), j <= k
       PROVE  R[j].sup <=> \E i \in 1 .. Len(m.lf) : X[i].codec = m.rf[j].codec
  <2>1. CASE j = k
    <3>1. PICK i \in 1 .. Len(m.lf) : q[i] = h
      BY <1>2, <1>q
    <3>2. X[i].codec = m.rf[k].codec
      BY <1>11, <1>q, <3>1
    <3> QED BY <1>7, <2>1, <3>1, <3>2
  <2>2. CASE j # k
    <3>1. R[j] = t.rf[j] /\ j <= k - 1
      BY <1>1, <1>7, <1>10, <1>13, <2>2
    <3>2. R[j].sup <=> \E i \in 1 .. Len(m.lf) : t.lf[i].codec = m.rf[j].codec
      BY <3>1 DEF MediaTurned
    <3>3. (\E i \in 1 .. Len(m.lf) : t.lf[i].codec = m.rf[j].codec) <=> \E i \in 1 .. Len(m.lf) : X[i].codec = m.rf[j].codec
      <4>1. ASSUME NEW i \in 1 .. Len(m.lf), t.lf[i].codec = m.rf[j].codec
            PROVE  \E g \in 1 .. Len(m.lf) : X[g].codec = m.rf[j].codec
        <5>1. PICK g \in 1 .. Len(m.lf) : q[g] = i
          BY <1>q
        <5> QED BY <1>c, <4>1, <5>1
      <4>2. ASSUME NEW i \in 1 .. Len(m.lf), X[i].codec = m.rf[j].codec
            PROVE  \E g \in 1 .. Len(m.lf) : t.lf[g].codec = m.rf[j].codec
        <5>1. q[i] \in 1 .. Len(m.lf) /\ t.lf[q[i]].codec = m.rf[j].codec
          BY <1>c, <1>q, <4>2
        <5> QED BY <5>1
      <4> QED BY <4>1, <4>2
    <3> QED BY <3>2, <3>3
  <2> QED BY <2>1, <2>2
<1>14. ASSUME NEW i \in 1 .. Len(m.lf)
       PROVE  X[i].sup <=> \E j \in 1 .. Len(m.rf) : j <= k /\ m.rf[j].codec = X[i].codec
  <2>1. CASE q[i] = h
    <3>1. X[i].sup /\ X[i].codec = m.rf[k].codec
      BY <1>11, <1>q, <2>1
    <3> QED BY <1>1, <1>10, <3>1
  <2>2. CASE q[i] # h
    <3>1. X[i] = t.lf[q[i]] /\ q[i] \in 1 .. Len(m.lf)
      BY <1>q, <2>2
    <3>2. t.lf[q[i]].codec # m.rf[k].codec
      BY <1>2, <1>11, <1>d, <2>2, <3>1
    <3>3. t.lf[q[i]].sup <=> \E j \in 1 .. Len(m.rf) : j <= k - 1 /\ m.rf[j].codec = t.lf[q[i]].codec
      BY <3>1 DEF MediaTurned
    <3> QED BY <1>10, <3>1, <3>2, <3>3
  <2> QED BY <2>1, <2>2
<1>15. ASSUME NEW i \in 1 .. Len(m.lf), NEW j \in 1 .. Len(m.rf), j <= k, m.rf[j].codec = X[i].codec, offer
       PROVE  m.rf[j].id = X[i].id
  <2>1. CASE q[i] = h
    <3>1. X[i] = f
      BY <1>q, <2>1
    <3>2. j = k
      BY <1>1, <1>11, <1>15, <1>e, <3>1
    <3> QED BY <1>11, <1>15, <3>1, <3>2
  <2>2. CASE q[i] # h
    <3>1. X[i] = t.lf[q[i]] /\ q[i] \in 1 .. Len(m.lf)
      BY <1>q, <2>2
    <3>2. t.lf[q[i]].codec # m.rf[k].codec
      BY <1>2, <1>11, <1>d, <2>2, <3>1
    <3>3. j <= k - 1
      BY <1>10, <1>15, <3>1, <3>2
    <3>4. \A g \in 1 .. Len(m.lf) : \A c \in 1 .. Len(m.rf) :
            c <= k - 1 /\ m.rf[c].codec = t.lf[g].codec /\ offer => m.rf[c].id = t.lf[g].id
      BY DEF MediaTurned
    <3>5. m.rf[j].codec = t.lf[q[i]].codec
      BY <1>15, <3>1
    <3>6. m.rf[j].id = t.lf[q[i]].id
      BY <1>15, <3>1, <3>3, <3>4, <3>5
    <3> QED BY <3>1, <3>6
  <2> QED BY <2>1, <2>2
<1>16. \A i \in 1 .. Len(m.lf) : MediaKnown(X[i])
  <2> TAKE i \in 1 .. Len(m.lf)
  <2>1. CASE q[i] = h
    <3>1. X[i] = f
      BY <1>q, <2>1
    <3>2. CASE offer
      <4>1. MediaKnown(m.rf[k])
        BY DEF MediaSent
      <4> QED BY <1>11, <3>1, <3>2, <4>1 DEF MediaKnown
    <3>3. CASE ~offer
      <4>1. MediaKnown(t.lf[h])
        BY <1>2 DEF MediaTurned
      <4> QED BY <3>1, <3>3, <4>1 DEF MediaKnown
    <3> QED BY <3>2, <3>3
  <2>2. CASE q[i] # h
    BY <1>q, <2>2 DEF MediaTurned
  <2> QED BY <2>1, <2>2
<1>17. ASSUME NEW i \in 1 .. Len(m.lf), NEW j \in 1 .. Len(m.lf), X[i].codec = X[j].codec
       PROVE  i = j
  <2>1. q[i] \in 1 .. Len(m.lf) /\ q[j] \in 1 .. Len(m.lf)
    BY <1>q
  <2>2. t.lf[q[i]].codec = t.lf[q[j]].codec
    BY <1>17, <1>c
  <2>3. q[i] = q[j]
    BY <1>d, <2>1, <2>2
  <2> QED BY <1>q, <2>3
<1>18. ASSUME ~offer, NEW i \in 1 .. Len(m.lf)
       PROVE  X[i].id = m.lf[i].id /\ X[i].codec = m.lf[i].codec
  <2>1. q[i] = i
    BY <1>1, <1>18
  <2>2. t.lf[i].id = m.lf[i].id /\ t.lf[i].codec = m.lf[i].codec
    BY <1>18 DEF MediaTurned
  <2>3. X[i].id = t.lf[i].id
    <3>1. CASE i = h
      <4>1. X[i] = f
        BY <1>q, <2>1, <3>1
      <4>2. f.id = t.lf[h].id
        BY <1>18
      <4> QED BY <3>1, <4>1, <4>2
    <3>2. CASE i # h
      <4>1. q[i] # h
        BY <2>1, <3>2
      <4>2. X[i] = t.lf[q[i]]
        BY <1>q, <4>1
      <4> QED BY <2>1, <4>2
    <3> QED BY <3>1, <3>2
  <2> QED BY <1>c, <2>1, <2>2, <2>3
<1>19. MediaTurned(m, offer, k, u)
  BY <1>1, <1>5, <1>9, <1>12, <1>13, <1>14, <1>15, <1>16, <1>17, <1>18, <1>q DEF MediaTurned
<1> QED BY <1>19 DEF u

(* One turn more. *)
LEMMA MediaTurnStep ==
  ASSUME NEW m \in MediaLine, MediaSent(m.rf), NEW offer, NEW k \in 1 .. Len(m.rf), NEW t,
         MediaTurned(m, offer, k - 1, t)
  PROVE  MediaTurned(m, offer, k, Media!AlignOne(t, k, offer))
<1>1. MediaTurn(t, k, offer, Media!AlignOne(t, k, offer))
  BY MediaAlignOne
<1> DEFINE u == Media!AlignOne(t, k, offer)
<1> HIDE DEF u
<1>2. MediaTurn(t, k, offer, u)
  BY <1>1 DEF u
<1>3. CASE \A i \in 1 .. Len(t.lf) : t.lf[i].codec # t.rf[k].codec
  <2>1. u = [t EXCEPT !.rf[k].sup = FALSE]
    BY <1>2, <1>3 DEF MediaTurn
  <2> QED BY <1>3, <2>1, MediaTurnMiss DEF u
<1>4. CASE ~\A i \in 1 .. Len(t.lf) : t.lf[i].codec # t.rf[k].codec
  <2>1. PICK h \in 1 .. Len(t.lf), f \in MediaFmt : \E X, q :
          /\ t.lf[h].codec = t.rf[k].codec
          /\ f.codec = t.rf[k].codec /\ f.sup
          /\ IF offer THEN f.id = t.rf[k].id
             ELSE f.id = t.lf[h].id /\ \A j \in 1 .. Len(t.lf) : q[j] = j
          /\ MediaMoved(t.lf, h, f, X, q)
          /\ u = [t EXCEPT !.rf[k].sup = TRUE, !.lf = X]
    BY <1>2, <1>4 DEF MediaTurn
  <2>2. PICK X, q :
          /\ t.lf[h].codec = t.rf[k].codec
          /\ f.codec = t.rf[k].codec /\ f.sup
          /\ IF offer THEN f.id = t.rf[k].id
             ELSE f.id = t.lf[h].id /\ \A j \in 1 .. Len(t.lf) : q[j] = j
          /\ MediaMoved(t.lf, h, f, X, q)
          /\ u = [t EXCEPT !.rf[k].sup = TRUE, !.lf = X]
    BY <2>1
  <2>3. MediaTurned(m, offer, k, [t EXCEPT !.rf[k].sup = TRUE, !.lf = X])
    BY <2>2, MediaTurnHit
  <2> QED BY <2>2, <2>3 DEF u
<1> QED BY <1>3, <1>4

(* L is s with the elements of I in front: element i comes from place g[i]. *)
MediaFronted(s, I, L, g) ==
    /\ \E c \in 0 .. Len(L) : \A i \in 1 .. Len(L) : (i <= c <=> g[i] \in I)
    /\ \A i \in 1 .. Len(L) : g[i] \in 1 .. Len(s) /\ L[i] = s[g[i]]
    /\ \A i, j \in 1 .. Len(L) : g[i] = g[j] => i = j
    /\ \A i \in 1 .. Len(s) : i \in I => \E j \in 1 .. Len(L) : g[j] = i

(* The closing walk puts the supported formats in front and loses none. *)
LEMMA MediaFront ==
  ASSUME NEW T, NEW s \in Seq(T), NEW I, I \subseteq DOMAIN s
  PROVE  LET L == Media!Pick(s, I) \o Media!Reverse(Media!Pick(s, DOMAIN s \ I))
         IN  L \in Seq(T) /\ \E g : MediaFronted(s, I, L, g)
<1> DEFINE a == Media!Pick(s, I)
           J == DOMAIN s \ I
           b == Media!Pick(s, J)
           c == Media!Reverse(b)
           L == a \o c
<1>1. PICK p : a \in Seq(T) /\ Picked(s, I, Len(s), a, p)
  BY PickPicks
<1>2. PICK q : b \in Seq(T) /\ Picked(s, J, Len(s), b, q)
  BY PickPicks
<1> HIDE DEF a, b, J
<1>3. PICK n \in Nat, x \in Nat : Len(a) = n /\ Len(b) = x
  BY <1>1, <1>2
<1>4. c = [i \in 1 .. x |-> b[(x - i) + 1]]
  BY <1>3 DEF Media!Reverse
<1>5. ASSUME NEW i \in 1 .. x PROVE (x - i) + 1 \in 1 .. x /\ b[(x - i) + 1] \in T
  <2>1. (x - i) + 1 \in 1 .. x
    BY <1>5, <1>3
  <2> QED BY <1>2, <1>3, <2>1
<1> HIDE DEF c
<1>6. c \in Seq(T) /\ Len(c) = x
  <2>1. c \in [1 .. x -> T]
    BY <1>4, <1>5
  <2> QED BY <1>3, <2>1
<1>7. L \in Seq(T) /\ Len(L) = n + x /\ \A i \in 1 .. n + x : L[i] = IF i <= n THEN a[i] ELSE c[i - n]
  <2>1. a \in Seq(T) /\ c \in Seq(T) /\ Len(a) = n /\ Len(c) = x
    BY <1>1, <1>3, <1>6
  <2>2. /\ a \o c \in Seq(T) /\ Len(a \o c) = Len(a) + Len(c)
        /\ \A i \in 1 .. Len(a) + Len(c) : (a \o c)[i] = IF i <= Len(a) THEN a[i] ELSE c[i - Len(a)]
    BY <2>1, ConcatProperties
  <2> QED BY <2>1, <2>2
<1> DEFINE g == [i \in 1 .. n + x |-> IF i <= n THEN p[i] ELSE q[(x - (i - n)) + 1]]
<1> HIDE DEF L
<1>8. /\ \A i \in 1 .. n : p[i] \in 1 .. Len(s) /\ p[i] \in I /\ a[i] = s[p[i]]
      /\ \A i, j \in 1 .. n : i < j => p[i] < p[j]
      /\ \A i \in 1 .. Len(s) : i \in I => \E j \in 1 .. n : p[j] = i
  BY <1>1, <1>3 DEF Picked
<1>9. /\ \A i \in 1 .. x : q[i] \in 1 .. Len(s) /\ q[i] \notin I /\ b[i] = s[q[i]]
      /\ \A i, j \in 1 .. x : i < j => q[i] < q[j]
  BY <1>2, <1>3 DEF Picked, J
<1>10. ASSUME NEW i \in 1 .. n + x, i <= n PROVE i \in 1 .. n /\ g[i] = p[i] /\ L[i] = s[p[i]]
  BY <1>3, <1>7, <1>8, <1>10
<1>11. ASSUME NEW i \in 1 .. n + x, ~(i <= n)
       PROVE  /\ (x - (i - n)) + 1 \in 1 .. x /\ g[i] = q[(x - (i - n)) + 1]
              /\ L[i] = s[q[(x - (i - n)) + 1]]
  <2>1. i - n \in 1 .. x /\ (x - (i - n)) + 1 \in 1 .. x
    BY <1>3, <1>11
  <2>2. L[i] = c[i - n]
    BY <1>7, <1>11
  <2>3. c[i - n] = b[(x - (i - n)) + 1]
    BY <1>4, <2>1
  <2> QED BY <1>9, <1>11, <2>1, <2>2, <2>3
<1> HIDE DEF g
<1>12. \A i, j \in 1 .. n : p[i] = p[j] => i = j
  <2>1. ASSUME NEW i \in 1 .. n, NEW j \in 1 .. n, i # j PROVE p[i] # p[j]
    <3>1. i < j \/ j < i
      BY <1>3, <2>1
    <3> QED BY <1>8, <3>1
  <2> QED BY <2>1
<1>13. \A i, j \in 1 .. x : q[i] = q[j] => i = j
  <2>1. ASSUME NEW i \in 1 .. x, NEW j \in 1 .. x, i # j PROVE q[i] # q[j]
    <3>1. i < j \/ j < i
      BY <1>3, <2>1
    <3> QED BY <1>9, <3>1
  <2> QED BY <2>1
<1>14. ASSUME NEW i \in 1 .. n + x PROVE (i <= n <=> g[i] \in I) /\ g[i] \in 1 .. Len(s) /\ L[i] = s[g[i]]
  <2>1. CASE i <= n
    BY <1>8, <1>10, <2>1
  <2>2. CASE ~(i <= n)
    BY <1>9, <1>11, <2>2
  <2> QED BY <2>1, <2>2
<1>15. ASSUME NEW i \in 1 .. n + x, NEW j \in 1 .. n + x, g[i] = g[j] PROVE i = j
  <2>1. i <= n <=> j <= n
    BY <1>14, <1>15
  <2>2. CASE i <= n
    BY <1>10, <1>12, <1>15, <2>1, <2>2
  <2>3. CASE ~(i <= n)
    <3>1. (x - (i - n)) + 1 = (x - (j - n)) + 1
      BY <1>11, <1>13, <1>15, <2>1, <2>3
    <3> QED BY <1>3, <3>1
  <2> QED BY <2>2, <2>3
<1>16. ASSUME NEW i \in 1 .. Len(s), i \in I PROVE \E j \in 1 .. n + x : g[j] = i
  <2>1. PICK j \in 1 .. n : p[j] = i
    BY <1>8, <1>16
  <2>2. j \in 1 .. n + x /\ j <= n
    BY <1>3
  <2> QED BY <1>10, <2>1, <2>2
<1>17. n \in 0 .. n + x
  BY <1>3
<1>18. MediaFronted(s, I, L, g)
  BY <1>7, <1>14, <1>15, <1>16, <1>17 DEF MediaFronted
<1> QED BY <1>7, <1>18 DEF L, a, c, b, J

(* The line after each turn of the alignment. *)
MediaTurnFn(m, offer, n, f) ==
    f = [k \in 0 .. n |->
            IF k = 0 THEN [m EXCEPT !.lf = [i \in DOMAIN @ |-> [@[i] EXCEPT !.sup = FALSE]]]
            ELSE Media!AlignOne(f[k - 1], k, offer)]

(* There are such turns. *)
LEMMA MediaTurnFnExists ==
  ASSUME NEW m, NEW offer, NEW n \in Nat
  PROVE  \E f : MediaTurnFn(m, offer, n, f)
<1> DEFINE z == [m EXCEPT !.lf = [i \in DOMAIN @ |-> [@[i] EXCEPT !.sup = FALSE]]]
           S == {k \in Nat : \E f : MediaTurnFn(m, offer, k, f)}
<1>0. \A k, f : MediaTurnFn(m, offer, k, f) <=>
        f = [j \in 0 .. k |-> IF j = 0 THEN z ELSE Media!AlignOne(f[j - 1], j, offer)]
  BY DEF MediaTurnFn
<1> HIDE DEF z
<1>1. 0 \in S
  <2> DEFINE f == [k \in 0 .. 0 |-> z]
  <2>1. \A k \in 0 .. 0 : k = 0
    OBVIOUS
  <2>2. f = [j \in 0 .. 0 |-> IF j = 0 THEN z ELSE Media!AlignOne(f[j - 1], j, offer)]
    BY <2>1
  <2> QED BY <1>0, <2>2
<1>2. ASSUME NEW k \in Nat, k \in S PROVE k + 1 \in S
  <2>1. PICK f : f = [j \in 0 .. k |-> IF j = 0 THEN z ELSE Media!AlignOne(f[j - 1], j, offer)]
    BY <1>0, <1>2
  <2> DEFINE e == Media!AlignOne(f[k], k + 1, offer)
             g == [j \in 0 .. k + 1 |-> IF j = k + 1 THEN e ELSE f[j]]
             h == [j \in 0 .. k + 1 |-> IF j = 0 THEN z ELSE Media!AlignOne(g[j - 1], j, offer)]
  <2>2. \A j \in 0 .. k + 1 : j = k + 1 \/ j \in 0 .. k
    OBVIOUS
  <2>3. ASSUME NEW j \in 0 .. k PROVE g[j] = h[j]
    <3>1. g[j] = f[j]
      OBVIOUS
    <3>2. CASE j = 0
      BY <2>1, <3>1, <3>2
    <3>3. CASE j # 0
      <4>1. j - 1 \in 0 .. k /\ j - 1 # k + 1 /\ j - 1 \in 0 .. k + 1
        BY <3>3
      <4>2. g[j - 1] = f[j - 1]
        BY <4>1
      <4>3. f[j] = Media!AlignOne(f[j - 1], j, offer)
        BY <2>1, <3>3
      <4> QED BY <3>1, <3>3, <4>2, <4>3
    <3> QED BY <3>2, <3>3
  <2>4. g[k + 1] = h[k + 1]
    <3>1. k + 1 \in 0 .. k + 1 /\ k + 1 # 0 /\ (k + 1) - 1 = k /\ k \in 0 .. k + 1 /\ k # k + 1
      OBVIOUS
    <3>2. g[k] = f[k]
      BY <3>1
    <3> QED BY <3>1, <3>2
  <2>5. g = h
    BY <2>2, <2>3, <2>4
  <2> HIDE DEF g
  <2>6. MediaTurnFn(m, offer, k + 1, g)
    BY <1>0, <2>5
  <2> QED BY <2>6
<1>3. \A k \in Nat : k \in S
  <2> HIDE DEF S
  <2> QED BY <1>1, <1>2, SetInduction
<1> QED BY <1>3

(* The alignment, in terms of its turns. *)
LEMMA MediaAlignIsFn ==
  ASSUME NEW m, NEW offer, Len(m.rf) \in Nat
  PROVE  \E f : /\ MediaTurnFn(m, offer, Len(m.rf), f)
                /\ Media!AlignFormats(m, offer) =
                     IF m.disabled \/ ~m.rport THEN m
                     ELSE IF offer
                     THEN [f[Len(m.rf)] EXCEPT
                             !.lf = Media!Pick(@, Media!Supported(f[Len(m.rf)]))
                                    \o Media!Reverse(Media!Pick(@, DOMAIN @ \ Media!Supported(f[Len(m.rf)])))]
                     ELSE f[Len(m.rf)]
<1> DEFINE z == [m EXCEPT !.lf = [i \in DOMAIN @ |-> [@[i] EXCEPT !.sup = FALSE]]]
           n == Len(m.rf)
           P(g) == g = [k \in 0 .. n |-> IF k = 0 THEN z ELSE Media!AlignOne(g[k - 1], k, offer)]
           F == CHOOSE g : P(g)
           Out(d) == IF m.disabled \/ ~m.rport THEN m
                     ELSE IF offer
                     THEN [d EXCEPT !.lf = Media!Pick(@, Media!Supported(d)) \o Media!Reverse(Media!Pick(@, DOMAIN @ \ Media!Supported(d)))]
                     ELSE d
<1>1. Media!AlignFormats(m, offer) = Out(F[n])
  BY DEF Media!AlignFormats
<1>2. PICK f : MediaTurnFn(m, offer, n, f)
  BY MediaTurnFnExists
<1>3. P(f)
  BY <1>2 DEF MediaTurnFn
<1> HIDE DEF P
<1>4. P(F)
  BY <1>3
<1> HIDE DEF F
<1>5. MediaTurnFn(m, offer, n, F)
  BY <1>4 DEF MediaTurnFn, P
<1> QED BY <1>1, <1>5

(* The turns keep what MediaTurned says. *)
LEMMA MediaTurns ==
  ASSUME NEW m \in MediaLine, MediaSent(m.rf), NEW offer, NEW f,
         MediaTurnFn(m, offer, Len(m.rf), f)
  PROVE  MediaTurned(m, offer, Len(m.rf), f[Len(m.rf)])
<1> DEFINE n == Len(m.rf)
           S == {k \in Nat : k <= n => MediaTurned(m, offer, k, f[k])}
<1>1. n \in Nat
  BY DEF MediaLine
<1>2. f[0] = [m EXCEPT !.lf = [i \in DOMAIN @ |-> [@[i] EXCEPT !.sup = FALSE]]]
  <2>1. 0 \in 0 .. n
    BY <1>1
  <2> QED BY <2>1 DEF MediaTurnFn
<1>3. \A k \in 1 .. n : f[k] = Media!AlignOne(f[k - 1], k, offer)
  <2>1. \A k \in 1 .. n : k \in 0 .. n /\ k # 0
    BY <1>1
  <2> QED BY <2>1 DEF MediaTurnFn
<1>4. 0 \in S
  <2>1. MediaTurned(m, offer, 0, f[0])
    BY <1>2, MediaTurnedNone
  <2> QED BY <2>1
<1>5. ASSUME NEW k \in Nat, k \in S PROVE k + 1 \in S
  <2> SUFFICES ASSUME k + 1 <= n PROVE MediaTurned(m, offer, k + 1, f[k + 1])
    OBVIOUS
  <2>1. k <= n /\ k + 1 \in 1 .. n /\ (k + 1) - 1 = k
    BY <1>1
  <2>2. MediaTurned(m, offer, (k + 1) - 1, f[k])
    BY <1>5, <2>1
  <2>3. MediaTurned(m, offer, k + 1, Media!AlignOne(f[k], k + 1, offer))
    BY <2>1, <2>2, MediaTurnStep
  <2> QED BY <1>3, <2>1, <2>3
<1>6. \A k \in Nat : k \in S
  <2> HIDE DEF S
  <2> QED BY <1>4, <1>5, SetInduction
<1> QED BY <1>1, <1>6

(* r is line m aligned to the formats of the message it was filled with. *)
MediaAligned(m, offer, r) ==
    /\ r \in MediaLine /\ MediaSame(m, r)
    /\ Len(r.rf) = Len(m.rf)
    /\ \A j \in 1 .. Len(m.rf) : r.rf[j].id = m.rf[j].id /\ r.rf[j].codec = m.rf[j].codec
    /\ \A j \in 1 .. Len(m.rf) : r.rf[j].sup => \E i \in 1 .. Len(r.lf) :
          r.lf[i].sup /\ r.lf[i].codec = m.rf[j].codec /\ (offer => r.lf[i].id = m.rf[j].id)
    /\ \A i \in 1 .. Len(r.lf) : r.lf[i].sup => \E j \in 1 .. Len(m.rf) :
          r.rf[j].sup /\ r.lf[i].codec = m.rf[j].codec /\ (offer => r.lf[i].id = m.rf[j].id)
    /\ ~offer =>
          /\ Len(r.lf) = Len(m.lf)
          /\ \A i \in 1 .. Len(m.lf) : r.lf[i].id = m.lf[i].id /\ r.lf[i].codec = m.lf[i].codec
          /\ \A j \in 1 .. Len(m.rf) : (\E i \in 1 .. Len(m.lf) : m.lf[i].codec = m.rf[j].codec) => r.rf[j].sup

(* An offer leaves the formats in common in front, each with the payload type
   of the offer. *)
LEMMA MediaAlignOffer ==
  ASSUME NEW m \in MediaLine, MediaSent(m.rf), m.rport, ~m.disabled
  PROVE  MediaAligned(m, TRUE, Media!AlignFormats(m, TRUE))
<1>1. PICK f : /\ MediaTurnFn(m, TRUE, Len(m.rf), f)
               /\ Media!AlignFormats(m, TRUE) =
                    [f[Len(m.rf)] EXCEPT
                       !.lf = Media!Pick(@, Media!Supported(f[Len(m.rf)]))
                              \o Media!Reverse(Media!Pick(@, DOMAIN @ \ Media!Supported(f[Len(m.rf)])))]
  <2>1. Len(m.rf) \in Nat
    BY DEF MediaLine
  <2> QED BY <2>1, MediaAlignIsFn
<1> DEFINE n == Len(m.rf)
           t == f[n]
           I == Media!Supported(t)
           L == Media!Pick(t.lf, I) \o Media!Reverse(Media!Pick(t.lf, DOMAIN t.lf \ I))
           r == Media!AlignFormats(m, TRUE)
<1>2. MediaTurned(m, TRUE, n, t)
  BY <1>1, MediaTurns
<1>3. r = [t EXCEPT !.lf = L]
  BY <1>1
<1>4. t \in MediaTurning /\ MediaSame(m, t) /\ t.lf \in Seq(MediaFmt) /\ Len(t.rf) = n /\ n \in Nat
  BY <1>2 DEF MediaTurned, MediaTurning, MediaLine
<1> HIDE DEF t
<1>5. I = {i \in 1 .. Len(t.lf) : t.lf[i].sup} /\ I \subseteq DOMAIN t.lf
  BY <1>4 DEF Media!Supported
<1> HIDE DEF I
<1>6. L \in Seq(MediaFmt) /\ \E g : MediaFronted(t.lf, I, L, g)
  BY <1>4, <1>5, MediaFront
<1>7. PICK g : MediaFronted(t.lf, I, L, g)
  BY <1>6
<1> HIDE DEF r, L
<1>8. Len(t.lf) = Len(m.lf) /\ Len(t.lf) \in Nat /\ Len(L) \in Nat
  BY <1>2, <1>4, <1>6 DEF MediaTurned
<1>9. \A i \in 1 .. Len(L) : g[i] \in 1 .. Len(t.lf) /\ L[i] = t.lf[g[i]]
  BY <1>7 DEF MediaFronted
<1>10. \A i, j \in 1 .. Len(L) : g[i] = g[j] => i = j
  BY <1>7 DEF MediaFronted
<1>11. \A i \in 1 .. Len(t.lf) : t.lf[i].sup => \E j \in 1 .. Len(L) : g[j] = i
  BY <1>5, <1>7 DEF MediaFronted
<1>12. PICK c \in 0 .. Len(L) : \A i \in 1 .. Len(L) : i <= c <=> L[i].sup
  <2>1. PICK c \in 0 .. Len(L) : \A i \in 1 .. Len(L) : i <= c <=> g[i] \in I
    BY <1>7 DEF MediaFronted
  <2>2. \A i \in 1 .. Len(L) : g[i] \in I <=> L[i].sup
    BY <1>5, <1>9
  <2> QED BY <2>1, <2>2
<1>13. \A i \in 1 .. Len(t.lf) : MediaKnown(t.lf[i])
  BY <1>2, <1>8 DEF MediaTurned
<1>14. \A i, j \in 1 .. Len(t.lf) : t.lf[i].codec = t.lf[j].codec => i = j
  BY <1>2, <1>8 DEF MediaTurned
<1>15. ASSUME NEW i \in 1 .. Len(t.lf), t.lf[i].sup
       PROVE  \E j \in 1 .. n : m.rf[j].codec = t.lf[i].codec /\ m.rf[j].id = t.lf[i].id
  <2>1. \E j \in 1 .. n : j <= n /\ m.rf[j].codec = t.lf[i].codec
    BY <1>2, <1>8, <1>15 DEF MediaTurned
  <2> QED BY <1>2, <1>8, <2>1 DEF MediaTurned
<1>16. ASSUME NEW j \in 1 .. n, t.rf[j].sup
       PROVE  \E i \in 1 .. Len(t.lf) : /\ t.lf[i].sup /\ t.lf[i].codec = m.rf[j].codec
                                        /\ t.lf[i].id = m.rf[j].id
  <2>1. j <= n
    BY <1>4
  <2>2. PICK i \in 1 .. Len(t.lf) : t.lf[i].codec = m.rf[j].codec
    BY <1>2, <1>8, <1>16, <2>1 DEF MediaTurned
  <2>3. t.lf[i].sup
    BY <1>2, <1>8, <2>1, <2>2 DEF MediaTurned
  <2>4. t.lf[i].id = m.rf[j].id
    BY <1>2, <1>8, <2>1, <2>2 DEF MediaTurned
  <2> QED BY <2>2, <2>3, <2>4
<1>17. ASSUME NEW i \in 1 .. Len(t.lf), NEW j \in 1 .. n, t.lf[i].codec = m.rf[j].codec
       PROVE  t.rf[j].sup
  <2>1. j <= n
    BY <1>4
  <2> QED BY <1>2, <1>8, <1>17, <2>1 DEF MediaTurned
<1>18. MediaOwn(L)
  <2>1. \A i \in 1 .. Len(L) : MediaKnown(L[i])
    BY <1>9, <1>13
  <2>2. ASSUME NEW i \in 1 .. Len(L), NEW j \in 1 .. Len(L), L[i].codec = L[j].codec PROVE i = j
    <3>1. g[i] \in 1 .. Len(t.lf) /\ g[j] \in 1 .. Len(t.lf) /\ t.lf[g[i]].codec = t.lf[g[j]].codec
      BY <1>9, <2>2
    <3>2. g[i] = g[j]
      BY <1>14, <3>1
    <3> QED BY <1>10, <3>2
  <2>3. ASSUME NEW i \in 1 .. Len(L), NEW j \in 1 .. Len(L), L[i].sup, j < i PROVE L[j].id # L[i].id
    <3>1. L[j].sup
      BY <1>8, <1>12, <2>3
    <3>2. PICK x \in 1 .. n : m.rf[x].codec = L[i].codec /\ m.rf[x].id = L[i].id
      <4>1. PICK h \in 1 .. Len(t.lf) : t.lf[h].sup /\ L[i] = t.lf[h]
        BY <1>9, <2>3
      <4> QED BY <1>15, <4>1
    <3>3. PICK y \in 1 .. n : m.rf[y].codec = L[j].codec /\ m.rf[y].id = L[j].id
      <4>1. PICK h \in 1 .. Len(t.lf) : t.lf[h].sup /\ L[j] = t.lf[h]
        BY <1>9, <3>1
      <4> QED BY <1>15, <4>1
    <3>4. x # y
      BY <1>8, <2>2, <2>3, <3>2, <3>3
    <3> QED BY <3>2, <3>3, <3>4 DEF MediaSent
  <2> QED BY <2>1, <2>2, <2>3 DEF MediaOwn
<1>19. r \in MediaLine /\ r.lf = L /\ r.rf = t.rf /\ MediaSame(m, r)
  BY <1>3, <1>4, <1>6, <1>18 DEF MediaTurning, MediaLine, MediaLf, MediaSame
<1>20. ASSUME NEW j \in 1 .. n, t.rf[j].sup
       PROVE  \E i \in 1 .. Len(L) : L[i].sup /\ L[i].codec = m.rf[j].codec /\ L[i].id = m.rf[j].id
  <2>1. PICK i \in 1 .. Len(t.lf) : t.lf[i].sup /\ t.lf[i].codec = m.rf[j].codec /\ t.lf[i].id = m.rf[j].id
    BY <1>16, <1>20
  <2>2. PICK x \in 1 .. Len(L) : g[x] = i
    BY <1>11, <2>1
  <2> QED BY <1>9, <2>1, <2>2
<1>21. ASSUME NEW i \in 1 .. Len(L), L[i].sup
       PROVE  \E j \in 1 .. n : t.rf[j].sup /\ L[i].codec = m.rf[j].codec /\ L[i].id = m.rf[j].id
  <2>1. PICK j \in 1 .. n : m.rf[j].codec = t.lf[g[i]].codec /\ m.rf[j].id = t.lf[g[i]].id
    BY <1>9, <1>15, <1>21
  <2>2. t.rf[j].sup
    BY <1>9, <1>17, <2>1
  <2> QED BY <1>9, <2>1, <2>2
<1>22. \A j \in 1 .. n : t.rf[j].id = m.rf[j].id /\ t.rf[j].codec = m.rf[j].codec
  BY <1>2 DEF MediaTurned
<1>23. MediaAligned(m, TRUE, r)
  BY <1>4, <1>19, <1>20, <1>21, <1>22 DEF MediaAligned
<1> QED BY <1>23 DEF r

(* An answer takes back what was offered: the order of the formats stays. *)
LEMMA MediaAlignAnswer ==
  ASSUME NEW m \in MediaLine, MediaSent(m.rf), m.rport, ~m.disabled,
         \A j \in 1 .. Len(m.rf) : \A i \in 1 .. Len(m.lf) :
            m.lf[i].codec = m.rf[j].codec => m.lf[i].sup
  PROVE  MediaAligned(m, FALSE, Media!AlignFormats(m, FALSE))
<1>1. PICK f : /\ MediaTurnFn(m, FALSE, Len(m.rf), f)
               /\ Media!AlignFormats(m, FALSE) = f[Len(m.rf)]
  <2>1. Len(m.rf) \in Nat
    BY DEF MediaLine
  <2> QED BY <2>1, MediaAlignIsFn
<1> DEFINE n == Len(m.rf)
           t == f[n]
           r == Media!AlignFormats(m, FALSE)
<1>2. MediaTurned(m, FALSE, n, t)
  BY <1>1, MediaTurns
<1>3. r = t
  BY <1>1
<1> HIDE DEF t, r
<1>4. t \in MediaTurning /\ MediaSame(m, t) /\ t.lf \in Seq(MediaFmt) /\ Len(t.rf) = n /\ n \in Nat
  BY <1>2 DEF MediaTurned, MediaTurning, MediaLine
<1>5. Len(t.lf) = Len(m.lf) /\ Len(t.lf) \in Nat /\ m.lf \in Seq(MediaFmt) /\ MediaOwn(m.lf)
  BY <1>2, <1>4 DEF MediaTurned, MediaLine, MediaLf
<1>6. \A i \in 1 .. Len(m.lf) : t.lf[i].id = m.lf[i].id /\ t.lf[i].codec = m.lf[i].codec
  BY <1>2 DEF MediaTurned
<1>7. ASSUME NEW i \in 1 .. Len(m.lf), t.lf[i].sup
      PROVE  \E j \in 1 .. n : m.rf[j].codec = t.lf[i].codec
  BY <1>2, <1>7 DEF MediaTurned
<1>8. ASSUME NEW i \in 1 .. Len(m.lf), NEW j \in 1 .. n, t.lf[i].codec = m.rf[j].codec
      PROVE  t.rf[j].sup
  <2>1. j <= n
    BY <1>4
  <2> QED BY <1>2, <1>8, <2>1 DEF MediaTurned
<1>9. ASSUME NEW j \in 1 .. n, t.rf[j].sup
      PROVE  \E i \in 1 .. Len(m.lf) : t.lf[i].sup /\ t.lf[i].codec = m.rf[j].codec
  <2>1. j <= n
    BY <1>4
  <2>2. PICK i \in 1 .. Len(m.lf) : t.lf[i].codec = m.rf[j].codec
    BY <1>2, <1>9, <2>1 DEF MediaTurned
  <2>3. t.lf[i].sup
    BY <1>2, <2>1, <2>2 DEF MediaTurned
  <2> QED BY <2>2, <2>3
<1>10. MediaOwn(t.lf)
  <2>1. \A i \in 1 .. Len(m.lf) : MediaKnown(t.lf[i])
    BY <1>2 DEF MediaTurned
  <2>2. \A i, j \in 1 .. Len(m.lf) : t.lf[i].codec = t.lf[j].codec => i = j
    BY <1>2 DEF MediaTurned
  <2>3. ASSUME NEW i \in 1 .. Len(m.lf), NEW j \in 1 .. Len(m.lf), t.lf[i].sup, j < i
        PROVE  t.lf[j].id # t.lf[i].id
    <3>1. PICK x \in 1 .. n : m.rf[x].codec = t.lf[i].codec
      BY <1>7, <2>3
    <3>2. m.lf[i].sup
      BY <1>6, <3>1
    <3>3. m.lf[j].id # m.lf[i].id
      BY <1>5, <2>3, <3>2 DEF MediaOwn
    <3> QED BY <1>6, <3>3
  <2> QED BY <1>5, <2>1, <2>2, <2>3 DEF MediaOwn
<1>11. t \in MediaLine
  BY <1>4, <1>10 DEF MediaTurning, MediaLine, MediaLf
<1>12. \A j \in 1 .. n : t.rf[j].id = m.rf[j].id /\ t.rf[j].codec = m.rf[j].codec
  BY <1>2 DEF MediaTurned
<1>13. ASSUME NEW i \in 1 .. Len(m.lf), t.lf[i].sup
       PROVE  \E j \in 1 .. n : t.rf[j].sup /\ t.lf[i].codec = m.rf[j].codec
  BY <1>7, <1>8, <1>13
<1>14. \A j \in 1 .. n : (\E i \in 1 .. Len(m.lf) : m.lf[i].codec = m.rf[j].codec) => t.rf[j].sup
  BY <1>6, <1>8
<1>15. MediaAligned(m, FALSE, t)
  BY <1>4, <1>5, <1>6, <1>9, <1>11, <1>12, <1>13, <1>14 DEF MediaAligned
<1> QED BY <1>3, <1>15 DEF r

(* What the user keeps of a line while messages come. *)
MediaHalf(m, r) ==
    /\ r \in MediaLine /\ r.name = m.name
    /\ r.lf = m.lf /\ r.ldir = m.ldir /\ (r.disabled <=> m.disabled)

(* m took line l of a message. *)
MediaFilled(m, l) ==
    /\ m.name = l.name /\ (m.rport <=> l.port) /\ m.rdir = Media!Mirror(l.dir)
    /\ Len(m.rf) = Len(l.fmts)
    /\ \A j \in 1 .. Len(l.fmts) : m.rf[j].id = l.fmts[j].id /\ m.rf[j].codec = l.fmts[j].codec

(* What sdp_decode() resets is the half of the peer. *)
LEMMA MediaRreset ==
  ASSUME NEW m \in MediaLine
  PROVE  MediaHalf(m, Media!Rreset(m)) /\ ~Media!Rreset(m).rport
<1>1. <<>> \in Seq(MediaFmt) /\ Media!SENDRECV \in Media!Dirs
  BY DEF Media!Dirs
<1> QED BY <1>1 DEF MediaLine, MediaHalf, Media!Rreset

(* What it fills in again is that half, too. *)
LEMMA MediaFill ==
  ASSUME NEW m \in MediaLine, NEW l \in MediaMsg, m.name = l.name
  PROVE  MediaHalf(m, Media!Fill(m, l)) /\ MediaFilled(Media!Fill(m, l), l)
<1> DEFINE X == [i \in DOMAIN l.fmts |-> Media!FromPeer(l.fmts[i])]
           r == Media!Fill(m, l)
<1>1. l.fmts \in Seq(MediaWire) /\ Len(l.fmts) \in Nat /\ DOMAIN l.fmts = 1 .. Len(l.fmts)
  BY DEF MediaMsg
<1>2. \A i \in 1 .. Len(l.fmts) : l.fmts[i] \in MediaWire
  BY <1>1
<1>3. \A i \in 1 .. Len(l.fmts) :
         /\ Media!FromPeer(l.fmts[i]) \in MediaFmt
         /\ Media!FromPeer(l.fmts[i]).id = l.fmts[i].id /\ Media!FromPeer(l.fmts[i]).codec = l.fmts[i].codec
  BY <1>2 DEF Media!FromPeer, MediaWire, MediaFmt
<1>4. \A j \in 1 .. Len(l.fmts) : X[j] = Media!FromPeer(l.fmts[j])
  BY <1>1
<1>5. X \in [1 .. Len(l.fmts) -> MediaFmt]
  BY <1>1, <1>3
<1> HIDE DEF X
<1>6. X \in Seq(MediaFmt) /\ Len(X) = Len(l.fmts)
  BY <1>1, <1>5
<1>7. Media!Mirror(l.dir) \in Media!Dirs
  BY DEF Media!Mirror, Media!Dirs
<1>8. r = [m EXCEPT !.rf = X, !.rport = l.port, !.rdir = Media!Mirror(l.dir)]
  BY DEF Media!Fill, X
<1> HIDE DEF r
<1>9. /\ r \in MediaLine /\ r.name = m.name /\ r.lf = m.lf /\ r.ldir = m.ldir
      /\ (r.disabled <=> m.disabled) /\ (r.rport <=> l.port) /\ r.rdir = Media!Mirror(l.dir) /\ r.rf = X
  BY <1>6, <1>7, <1>8 DEF MediaLine, MediaMsg
<1>10. MediaHalf(m, r)
  BY <1>9 DEF MediaHalf
<1>11. MediaFilled(r, l)
  BY <1>3, <1>4, <1>6, <1>9 DEF MediaFilled
<1> QED BY <1>10, <1>11 DEF r

(* The formats of the user are its own. *)
LEMMA MediaFormats ==
  ASSUME NEW x \in Agent, NEW name \in DOMAIN Formats[x]
  PROVE  name \in MediaName /\ Formats[x][name] \in MediaLf
<1> DEFINE s == Formats[x][name]
<1>1. name \in MediaName
  BY DEF MediaName
<1>2. s \in Seq(Payload) /\ Len(s) \in Nat /\ DOMAIN s = 1 .. Len(s)
  BY MediaAssumption
<1>3. \A i, j \in 1 .. Len(s) : s[i].id = s[j].id \/ s[i].codec = s[j].codec => i = j
  BY <1>2, MediaAssumption
<1> HIDE DEF s
<1>4. \A i \in 1 .. Len(s) : s[i] \in Payload
  BY <1>2
<1>5. \A f \in Payload : f \in MediaFmt /\ MediaKnown(f)
  <2> TAKE f \in Payload
  <2>1. f = [id |-> f.id, codec |-> f.codec, sup |-> TRUE] /\ f.id \in Nat
    BY MediaAssumption DEF Media!Format
  <2>2. f.codec \in MediaCodec
    BY DEF MediaCodec
  <2> DEFINE b == TRUE
             c == f.codec
             d == f.id
  <2>3. f = [id |-> d, codec |-> c, sup |-> b] /\ d \in Nat /\ c \in MediaCodec /\ b \in BOOLEAN
    BY <2>1, <2>2
  <2> HIDE DEF b, c, d
  <2>4. f \in MediaFmt
    BY <2>3 DEF MediaFmt
  <2> QED BY <2>4 DEF MediaKnown
<1>6. s \in Seq(MediaFmt)
  <2>1. s \in [1 .. Len(s) -> MediaFmt]
    BY <1>2, <1>4, <1>5
  <2> QED BY <1>2, <2>1
<1>7. MediaOwn(s)
  <2>1. \A i \in 1 .. Len(s) : MediaKnown(s[i])
    BY <1>4, <1>5
  <2>2. \A i, j \in 1 .. Len(s) : j < i => s[j].id # s[i].id
    BY <1>2, <1>3
  <2> QED BY <1>3, <2>1, <2>2 DEF MediaOwn
<1> QED BY <1>1, <1>6, <1>7 DEF MediaLf, s

(* A line the user adds. *)
LEMMA MediaNew ==
  ASSUME NEW name \in MediaName, NEW lf \in MediaLf
  PROVE  Media!NewMedia(name, lf) \in MediaLine /\ Media!NewMedia(name, lf).name = name
<1> DEFINE b == FALSE
           e == <<>>
           d == Media!SENDRECV
<1>1. Media!NewMedia(name, lf) = [name |-> name, lf |-> lf, rf |-> e, ldir |-> d, rdir |-> d, rport |-> b, disabled |-> b]
  BY DEF Media!NewMedia
<1>2. e \in Seq(MediaFmt) /\ d \in Media!Dirs /\ b \in BOOLEAN
  BY DEF Media!Dirs
<1> HIDE DEF b, e, d
<1> QED BY <1>1, <1>2 DEF MediaLine

(* The line an offer adds has no formats of the user and is disabled. *)
LEMMA MediaAdded ==
  ASSUME NEW name \in MediaName
  PROVE  /\ [Media!NewMedia(name, <<>>) EXCEPT !.disabled = TRUE] \in MediaLine
         /\ [Media!NewMedia(name, <<>>) EXCEPT !.disabled = TRUE].name = name
<1> DEFINE e == <<>>
<1>1. e \in MediaLf
  <2>1. e \in Seq(MediaFmt) /\ Len(e) = 0
    OBVIOUS
  <2> HIDE DEF e
  <2>2. \A i \in 1 .. Len(e) : FALSE
    BY <2>1
  <2> QED BY <2>1, <2>2 DEF MediaLf, MediaOwn
<1>2. Media!NewMedia(name, e) \in MediaLine /\ Media!NewMedia(name, e).name = name
  BY <1>1, MediaNew
<1> HIDE DEF e
<1>3. /\ [Media!NewMedia(name, e) EXCEPT !.disabled = TRUE] \in MediaLine
      /\ [Media!NewMedia(name, e) EXCEPT !.disabled = TRUE].name = name
  BY <1>2 DEF MediaLine
<1> QED BY <1>3 DEF e

MediaSess == [lmedial : Seq(MediaLine), medial : Seq(MediaLine)]

(* The least element of a set of places. *)
LEMMA LeastOf ==
  ASSUME NEW I, I \subseteq Nat, I # {}
  PROVE  /\ (CHOOSE i \in I : \A j \in I : i <= j) \in I
         /\ \A j \in I : (CHOOSE i \in I : \A j_1 \in I : i <= j_1) <= j
<1>1. PICK i \in I : \A j \in I : ~(<<j, i>> \in Below)
  BY BelowWellFounded, WFMin
<1>2. \A j \in I : i <= j
  <2>1. \A j \in I : ~(j < i)
    BY <1>1 DEF Below
  <2>2. i \in Nat /\ \A j \in I : j \in Nat
    OBVIOUS
  <2> QED BY <2>1, <2>2
<1> QED BY <1>1, <1>2

(* Session s after k lines of a message were decoded. *)
MediaDecoded(s, lines, offer, k, st) ==
    /\ st \in [s : MediaSess, err : BOOLEAN]
    /\ Len(s.medial) <= Len(st.s.medial)
    /\ \A i \in 1 .. Len(s.medial) : MediaHalf(s.medial[i], st.s.medial[i])
    /\ ~offer => Len(st.s.medial) = Len(s.medial)
    /\ ~st.err =>
          /\ k <= Len(st.s.medial)
          /\ \A i \in 1 .. Len(st.s.medial) :
                /\ i <= k => MediaFilled(st.s.medial[i], lines[i])
                /\ k < i => ~st.s.medial[i].rport

(* An error changes nothing else. *)
LEMMA MediaDecodedErr ==
  ASSUME NEW s, NEW lines, NEW offer, NEW k, NEW l, NEW st,
         MediaDecoded(s, lines, offer, k, st)
  PROVE  MediaDecoded(s, lines, offer, l, [st EXCEPT !.err = TRUE])
<1> DEFINE u == [st EXCEPT !.err = TRUE]
<1>1. u \in [s : MediaSess, err : BOOLEAN] /\ u.s = st.s /\ u.err
  BY DEF MediaDecoded
<1> HIDE DEF u
<1>2. MediaDecoded(s, lines, offer, l, u)
  BY <1>1 DEF MediaDecoded
<1> QED BY <1>2 DEF u

(* A line is filled in its place. *)
LEMMA MediaDecodedAt ==
  ASSUME NEW s \in MediaSess, NEW lines \in Seq(MediaMsg), NEW offer, NEW k \in Nat, NEW st,
         MediaDecoded(s, lines, offer, k, st), ~st.err,
         k + 1 <= Len(lines), k + 1 <= Len(st.s.medial),
         st.s.medial[k + 1].name = lines[k + 1].name
  PROVE  MediaDecoded(s, lines, offer, k + 1, [st EXCEPT !.s.medial[k + 1] = Media!Fill(@, lines[k + 1])])
<1> DEFINE m == st.s.medial[k + 1]
           r == Media!Fill(m, lines[k + 1])
           M == [st.s.medial EXCEPT ![k + 1] = r]
           u == [st EXCEPT !.s.medial[k + 1] = Media!Fill(@, lines[k + 1])]
<1>1. st \in [s : MediaSess, err : BOOLEAN] /\ st.s.medial \in Seq(MediaLine) /\ st.s.lmedial \in Seq(MediaLine)
  BY DEF MediaDecoded, MediaSess
<1>2. k + 1 \in 1 .. Len(st.s.medial) /\ m \in MediaLine
  BY <1>1
<1>3. lines[k + 1] \in MediaMsg
  <2>1. k + 1 \in 1 .. Len(lines)
    OBVIOUS
  <2> QED BY <2>1
<1>4. MediaHalf(m, r) /\ MediaFilled(r, lines[k + 1])
  BY <1>2, <1>3, MediaFill
<1>5. r \in MediaLine
  BY <1>4 DEF MediaHalf
<1>6. u = [st EXCEPT !.s = [st.s EXCEPT !.medial = M]]
  BY <1>1
<1> HIDE DEF r, m
<1>7. M \in Seq(MediaLine) /\ Len(M) = Len(st.s.medial)
  BY <1>1, <1>2, <1>5
<1>8. \A i \in 1 .. Len(M) : M[i] = IF i = k + 1 THEN r ELSE st.s.medial[i]
  BY <1>1, <1>2
<1> HIDE DEF M, u
<1>9. u \in [s : MediaSess, err : BOOLEAN] /\ u.s.medial = M /\ ~u.err
  <2>1. [st.s EXCEPT !.medial = M] \in MediaSess /\ [st.s EXCEPT !.medial = M].medial = M
    BY <1>1, <1>7 DEF MediaSess
  <2> QED BY <1>1, <1>6, <2>1
<1>10. ASSUME NEW i \in 1 .. Len(s.medial) PROVE MediaHalf(s.medial[i], M[i])
  <2>1. i \in 1 .. Len(st.s.medial) /\ MediaHalf(s.medial[i], st.s.medial[i])
    <3>1. Len(s.medial) \in Nat /\ Len(st.s.medial) \in Nat /\ Len(s.medial) <= Len(st.s.medial)
      BY <1>1 DEF MediaSess, MediaDecoded
    <3> QED BY <3>1 DEF MediaDecoded
  <2>2. CASE i = k + 1
    BY <1>4, <1>7, <1>8, <2>1, <2>2 DEF MediaHalf, m
  <2>3. CASE i # k + 1
    BY <1>7, <1>8, <2>1, <2>3
  <2> QED BY <2>2, <2>3
<1>11. ASSUME NEW i \in 1 .. Len(M)
       PROVE  (i <= k + 1 => MediaFilled(M[i], lines[i])) /\ (k + 1 < i => ~M[i].rport)
  <2>1. CASE i = k + 1
    BY <1>4, <1>8, <2>1
  <2>2. CASE i # k + 1
    <3>1. M[i] = st.s.medial[i] /\ i \in 1 .. Len(st.s.medial)
      BY <1>7, <1>8, <2>2
    <3>2. (i <= k => MediaFilled(st.s.medial[i], lines[i])) /\ (k < i => ~st.s.medial[i].rport)
      BY <3>1 DEF MediaDecoded
    <3> QED BY <2>2, <3>1, <3>2
  <2> QED BY <2>1, <2>2
<1>12. Len(s.medial) <= Len(M) /\ (~offer => Len(M) = Len(s.medial)) /\ k + 1 <= Len(M)
  BY <1>7 DEF MediaDecoded
<1>13. MediaDecoded(s, lines, offer, k + 1, u)
  BY <1>9, <1>10, <1>11, <1>12 DEF MediaDecoded
<1> QED BY <1>13 DEF u

(* A line comes behind the last one. *)
LEMMA MediaDecodedNext ==
  ASSUME NEW s \in MediaSess, NEW lines \in Seq(MediaMsg), NEW k \in Nat, NEW st,
         MediaDecoded(s, lines, TRUE, k, st), ~st.err,
         k + 1 <= Len(lines), ~(k + 1 <= Len(st.s.medial)),
         NEW m \in MediaLine, m.name = lines[k + 1].name,
         NEW w \in Seq(MediaLine), NEW u,
         u = [st EXCEPT !.s = [lmedial |-> w, medial |-> Append(st.s.medial, Media!Fill(m, lines[k + 1]))]]
  PROVE  MediaDecoded(s, lines, TRUE, k + 1, u)
<1> DEFINE r == Media!Fill(m, lines[k + 1])
           M == Append(st.s.medial, r)
<1>1. st \in [s : MediaSess, err : BOOLEAN] /\ st.s.medial \in Seq(MediaLine) /\ st.s.lmedial \in Seq(MediaLine)
  BY DEF MediaDecoded, MediaSess
<1>2. Len(st.s.medial) = k
  BY <1>1 DEF MediaDecoded
<1>3. lines[k + 1] \in MediaMsg
  <2>1. k + 1 \in 1 .. Len(lines)
    OBVIOUS
  <2> QED BY <2>1
<1>4. r \in MediaLine /\ MediaFilled(r, lines[k + 1])
  BY <1>3, MediaFill DEF MediaHalf
<1> HIDE DEF r
<1>5. M \in Seq(MediaLine) /\ Len(M) = k + 1
  BY <1>1, <1>2, <1>4
<1>6. \A i \in 1 .. Len(M) : M[i] = IF i = k + 1 THEN r ELSE st.s.medial[i]
  BY <1>1, <1>2, <1>5
<1>7. u = [st EXCEPT !.s = [lmedial |-> w, medial |-> M]]
  BY DEF r
<1> HIDE DEF M
<1>8. u \in [s : MediaSess, err : BOOLEAN] /\ u.s.medial = M /\ ~u.err
  <2>1. [lmedial |-> w, medial |-> M] \in MediaSess /\ [lmedial |-> w, medial |-> M].medial = M
    BY <1>5 DEF MediaSess
  <2> QED BY <1>1, <1>7, <2>1
<1>9. ASSUME NEW i \in 1 .. Len(s.medial) PROVE MediaHalf(s.medial[i], M[i])
  <2>1. i \in 1 .. Len(st.s.medial) /\ MediaHalf(s.medial[i], st.s.medial[i])
    <3>1. Len(s.medial) \in Nat /\ Len(st.s.medial) \in Nat /\ Len(s.medial) <= Len(st.s.medial)
      BY <1>1 DEF MediaSess, MediaDecoded
    <3> QED BY <3>1 DEF MediaDecoded
  <2>2. i \in 1 .. Len(M) /\ i # k + 1
    BY <1>2, <1>5, <2>1
  <2>3. M[i] = st.s.medial[i]
    BY <1>6, <2>2
  <2> QED BY <2>1, <2>3
<1>10. ASSUME NEW i \in 1 .. Len(M)
       PROVE  (i <= k + 1 => MediaFilled(M[i], lines[i])) /\ (k + 1 < i => ~M[i].rport)
  <2>1. CASE i = k + 1
    BY <1>4, <1>6, <2>1
  <2>2. CASE i # k + 1
    <3>1. M[i] = st.s.medial[i] /\ i \in 1 .. Len(st.s.medial)
      BY <1>2, <1>5, <1>6, <2>2
    <3>2. (i <= k => MediaFilled(st.s.medial[i], lines[i])) /\ (k < i => ~st.s.medial[i].rport)
      BY <3>1 DEF MediaDecoded
    <3> QED BY <1>2, <2>2, <3>1, <3>2
  <2> QED BY <2>1, <2>2
<1>11. Len(s.medial) <= Len(M) /\ k + 1 <= Len(M)
  <2>1. Len(s.medial) \in Nat /\ Len(s.medial) <= k
    BY <1>2 DEF MediaSess, MediaDecoded
  <2> QED BY <1>5, <2>1
<1>12. MediaDecoded(s, lines, TRUE, k + 1, u)
  BY <1>8, <1>9, <1>10, <1>11 DEF MediaDecoded
<1> QED BY <1>12

(* A waiting line that is taken over leaves the others waiting. *)
LEMMA MediaRemoved ==
  ASSUME NEW w \in Seq(MediaLine), NEW i \in 1 .. Len(w)
  PROVE  Media!RemoveAt(w, i) \in Seq(MediaLine)
<1>1. SubSeq(w, 1, i - 1) \in Seq(MediaLine) /\ SubSeq(w, i + 1, Len(w)) \in Seq(MediaLine)
  <2>1. \A j \in 1 .. i - 1 : w[j] \in MediaLine
    OBVIOUS
  <2>2. \A j \in i + 1 .. Len(w) : w[j] \in MediaLine
    OBVIOUS
  <2> QED BY <2>1, <2>2, SubSeqProperties
<1> QED BY <1>1, ConcatProperties DEF Media!RemoveAt

(* media_decode() of the next line. *)
LEMMA MediaDecodedStep ==
  ASSUME NEW s \in MediaSess, NEW lines \in Seq(MediaMsg), NEW offer, NEW k \in Nat, NEW st,
         k + 1 <= Len(lines), MediaDecoded(s, lines, offer, k, st)
  PROVE  MediaDecoded(s, lines, offer, k + 1, Media!MediaDecode(st, k + 1, lines[k + 1], offer))
<1> DEFINE line == lines[k + 1]
           hits == Media!FindMedia(st.s, line.name)
           i == CHOOSE i \in hits : \A j \in hits : i <= j
           u == Media!MediaDecode(st, k + 1, line, offer)
<1>1. st \in [s : MediaSess, err : BOOLEAN] /\ st.s.medial \in Seq(MediaLine) /\ st.s.lmedial \in Seq(MediaLine)
  BY DEF MediaDecoded, MediaSess
<1>2. u = IF st.err THEN st
          ELSE IF k + 1 <= Len(st.s.medial)
          THEN IF st.s.medial[k + 1].name # line.name
               THEN [st EXCEPT !.err = TRUE]
               ELSE [st EXCEPT !.s.medial[k + 1] = Media!Fill(@, line)]
          ELSE IF ~offer THEN [st EXCEPT !.err = TRUE]
          ELSE IF hits = {}
          THEN [st EXCEPT !.s.medial =
                   Append(@, Media!Fill([Media!NewMedia(line.name, <<>>) EXCEPT !.disabled = TRUE], line))]
          ELSE [st EXCEPT !.s = [lmedial |-> Media!RemoveAt(st.s.lmedial, i),
                                 medial |-> Append(st.s.medial, Media!Fill(st.s.lmedial[i], line))]]
  BY DEF Media!MediaDecode
<1>3. line \in MediaMsg
  <2>1. k + 1 \in 1 .. Len(lines)
    OBVIOUS
  <2> QED BY <2>1
<1>4. hits = {j \in 1 .. Len(st.s.lmedial) : st.s.lmedial[j].name = line.name}
  BY <1>1 DEF Media!FindMedia
<1>5. hits # {} => i \in hits
  <2>1. hits \subseteq Nat
    BY <1>1, <1>4
  <2> HIDE DEF hits
  <2> QED BY <2>1, LeastOf
<1> HIDE DEF hits, i, u
<1>6. CASE st.err
  <2>1. u = st
    BY <1>2, <1>6
  <2>2. MediaDecoded(s, lines, offer, k + 1, st)
    BY <1>6 DEF MediaDecoded
  <2> QED BY <2>1, <2>2 DEF u
<1>7. CASE u = [st EXCEPT !.err = TRUE]
  BY <1>7, MediaDecodedErr DEF u
<1>8. CASE ~st.err /\ k + 1 <= Len(st.s.medial) /\ st.s.medial[k + 1].name = line.name
  <2>1. u = [st EXCEPT !.s.medial[k + 1] = Media!Fill(@, line)]
    BY <1>2, <1>8
  <2> QED BY <1>8, <2>1, MediaDecodedAt DEF u
<1>9. CASE ~st.err /\ ~(k + 1 <= Len(st.s.medial)) /\ offer /\ hits = {}
  <2> DEFINE m == [Media!NewMedia(line.name, <<>>) EXCEPT !.disabled = TRUE]
  <2>1. m \in MediaLine /\ m.name = line.name
    BY <1>3, MediaAdded DEF MediaMsg
  <2>2. u = [st EXCEPT !.s.medial = Append(@, Media!Fill(m, line))]
    BY <1>2, <1>9
  <2> HIDE DEF m
  <2>3. u = [st EXCEPT !.s = [lmedial |-> st.s.lmedial, medial |-> Append(st.s.medial, Media!Fill(m, line))]]
    <3> DEFINE A == Append(st.s.medial, Media!Fill(m, line))
    <3>1. u = [st EXCEPT !.s = [st.s EXCEPT !.medial = A]]
      BY <2>2
    <3> HIDE DEF A
    <3>2. [st.s EXCEPT !.medial = A] = [lmedial |-> st.s.lmedial, medial |-> A]
      BY <1>1 DEF MediaSess
    <3> QED BY <3>1, <3>2 DEF A
  <2>4. MediaDecoded(s, lines, TRUE, k, st)
    BY <1>9 DEF MediaDecoded
  <2>5. MediaDecoded(s, lines, TRUE, k + 1, u)
    BY <1>1, <1>9, <2>1, <2>3, <2>4, MediaDecodedNext
  <2> QED BY <1>9, <2>5 DEF u, MediaDecoded
<1>10. CASE ~st.err /\ ~(k + 1 <= Len(st.s.medial)) /\ offer /\ hits # {}
  <2>1. i \in 1 .. Len(st.s.lmedial) /\ st.s.lmedial[i].name = line.name
    BY <1>4, <1>5, <1>10
  <2>2. st.s.lmedial[i] \in MediaLine /\ Media!RemoveAt(st.s.lmedial, i) \in Seq(MediaLine)
    BY <1>1, <2>1, MediaRemoved
  <2>3. u = [st EXCEPT !.s = [lmedial |-> Media!RemoveAt(st.s.lmedial, i),
                              medial |-> Append(st.s.medial, Media!Fill(st.s.lmedial[i], line))]]
    BY <1>2, <1>10
  <2>4. MediaDecoded(s, lines, TRUE, k, st)
    BY <1>10 DEF MediaDecoded
  <2>5. MediaDecoded(s, lines, TRUE, k + 1, u)
    BY <1>10, <2>1, <2>2, <2>3, <2>4, MediaDecodedNext
  <2> QED BY <1>10, <2>5 DEF u, MediaDecoded
<1>11. u = [st EXCEPT !.err = TRUE] \/ st.err
       \/ (~st.err /\ k + 1 <= Len(st.s.medial) /\ st.s.medial[k + 1].name = line.name)
       \/ (~st.err /\ ~(k + 1 <= Len(st.s.medial)) /\ offer)
  BY <1>2
<1> QED BY <1>6, <1>7, <1>8, <1>9, <1>10, <1>11

(* The session after each line of sdp_decode(). *)
MediaDecodeFn(s, lines, offer, n, f) ==
    f = [k \in 0 .. n |->
            IF k = 0
            THEN [s |-> [s EXCEPT !.medial = [i \in DOMAIN @ |-> Media!Rreset(@[i])]], err |-> FALSE]
            ELSE Media!MediaDecode(f[k - 1], k, lines[k], offer)]

(* There are such sessions. *)
LEMMA MediaDecodeFnExists ==
  ASSUME NEW s, NEW lines, NEW offer, NEW n \in Nat
  PROVE  \E f : MediaDecodeFn(s, lines, offer, n, f)
<1> DEFINE z == [s |-> [s EXCEPT !.medial = [i \in DOMAIN @ |-> Media!Rreset(@[i])]], err |-> FALSE]
           S == {k \in Nat : \E f : MediaDecodeFn(s, lines, offer, k, f)}
<1>0. \A k, f : MediaDecodeFn(s, lines, offer, k, f) <=>
        f = [j \in 0 .. k |-> IF j = 0 THEN z ELSE Media!MediaDecode(f[j - 1], j, lines[j], offer)]
  BY DEF MediaDecodeFn
<1> HIDE DEF z
<1>1. 0 \in S
  <2> DEFINE f == [k \in 0 .. 0 |-> z]
  <2>1. \A k \in 0 .. 0 : k = 0
    OBVIOUS
  <2>2. f = [j \in 0 .. 0 |-> IF j = 0 THEN z ELSE Media!MediaDecode(f[j - 1], j, lines[j], offer)]
    BY <2>1
  <2> QED BY <1>0, <2>2
<1>2. ASSUME NEW k \in Nat, k \in S PROVE k + 1 \in S
  <2>1. PICK f : f = [j \in 0 .. k |-> IF j = 0 THEN z ELSE Media!MediaDecode(f[j - 1], j, lines[j], offer)]
    BY <1>0, <1>2
  <2> DEFINE e == Media!MediaDecode(f[k], k + 1, lines[k + 1], offer)
             g == [j \in 0 .. k + 1 |-> IF j = k + 1 THEN e ELSE f[j]]
             h == [j \in 0 .. k + 1 |-> IF j = 0 THEN z ELSE Media!MediaDecode(g[j - 1], j, lines[j], offer)]
  <2>2. \A j \in 0 .. k + 1 : j = k + 1 \/ j \in 0 .. k
    OBVIOUS
  <2>3. ASSUME NEW j \in 0 .. k PROVE g[j] = h[j]
    <3>1. g[j] = f[j]
      OBVIOUS
    <3>2. CASE j = 0
      BY <2>1, <3>1, <3>2
    <3>3. CASE j # 0
      <4>1. j - 1 \in 0 .. k /\ j - 1 # k + 1 /\ j - 1 \in 0 .. k + 1
        BY <3>3
      <4>2. g[j - 1] = f[j - 1]
        BY <4>1
      <4>3. f[j] = Media!MediaDecode(f[j - 1], j, lines[j], offer)
        BY <2>1, <3>3
      <4> QED BY <3>1, <3>3, <4>2, <4>3
    <3> QED BY <3>2, <3>3
  <2>4. g[k + 1] = h[k + 1]
    <3>1. k + 1 \in 0 .. k + 1 /\ k + 1 # 0 /\ (k + 1) - 1 = k /\ k \in 0 .. k + 1 /\ k # k + 1
      OBVIOUS
    <3>2. g[k] = f[k]
      BY <3>1
    <3> QED BY <3>1, <3>2
  <2>5. g = h
    BY <2>2, <2>3, <2>4
  <2> HIDE DEF g
  <2>6. MediaDecodeFn(s, lines, offer, k + 1, g)
    BY <1>0, <2>5
  <2> QED BY <2>6
<1>3. \A k \in Nat : k \in S
  <2> HIDE DEF S
  <2> QED BY <1>1, <1>2, SetInduction
<1> QED BY <1>3

(* sdp_decode(), in terms of its lines. *)
LEMMA MediaDecodeIsFn ==
  ASSUME NEW s, NEW lines, NEW offer, Len(lines) \in Nat
  PROVE  \E f : /\ MediaDecodeFn(s, lines, offer, Len(lines), f)
                /\ Media!Decode(s, lines, offer) =
                     IF f[Len(lines)].err THEN f[Len(lines)]
                     ELSE [f[Len(lines)] EXCEPT
                             !.s.medial = [i \in DOMAIN @ |-> Media!AlignFormats(@[i], offer)]]
<1> DEFINE z == [s |-> [s EXCEPT !.medial = [i \in DOMAIN @ |-> Media!Rreset(@[i])]], err |-> FALSE]
           n == Len(lines)
           P(g) == g = [k \in 0 .. n |-> IF k = 0 THEN z ELSE Media!MediaDecode(g[k - 1], k, lines[k], offer)]
           F == CHOOSE g : P(g)
           Out(d) == IF d.err THEN d
                     ELSE [d EXCEPT !.s.medial = [i \in DOMAIN @ |-> Media!AlignFormats(@[i], offer)]]
<1>1. Media!Decode(s, lines, offer) = Out(F[n])
  BY DEF Media!Decode
<1>2. PICK f : MediaDecodeFn(s, lines, offer, n, f)
  BY MediaDecodeFnExists
<1>3. P(f)
  BY <1>2 DEF MediaDecodeFn
<1> HIDE DEF P
<1>4. P(F)
  BY <1>3
<1> HIDE DEF F
<1>5. MediaDecodeFn(s, lines, offer, n, F)
  BY <1>4 DEF MediaDecodeFn, P
<1> QED BY <1>1, <1>5

(* A decoded message resets every line first. *)
LEMMA MediaDecodedNone ==
  ASSUME NEW s \in MediaSess, NEW lines, NEW offer
  PROVE  MediaDecoded(s, lines, offer, 0,
           [s |-> [s EXCEPT !.medial = [i \in DOMAIN @ |-> Media!Rreset(@[i])]], err |-> FALSE])
<1> DEFINE M == [i \in DOMAIN s.medial |-> Media!Rreset(s.medial[i])]
           u == [s |-> [s EXCEPT !.medial = [i \in DOMAIN @ |-> Media!Rreset(@[i])]], err |-> FALSE]
<1>1. s.medial \in Seq(MediaLine) /\ Len(s.medial) \in Nat /\ DOMAIN s.medial = 1 .. Len(s.medial)
  BY DEF MediaSess
<1>2. \A i \in 1 .. Len(s.medial) : /\ Media!Rreset(s.medial[i]) \in MediaLine
                                    /\ MediaHalf(s.medial[i], Media!Rreset(s.medial[i]))
                                    /\ ~Media!Rreset(s.medial[i]).rport
  <2>1. \A i \in 1 .. Len(s.medial) : s.medial[i] \in MediaLine
    BY <1>1
  <2> QED BY <2>1, MediaRreset DEF MediaHalf
<1>3. \A i \in 1 .. Len(s.medial) : M[i] = Media!Rreset(s.medial[i])
  BY <1>1
<1>4. M \in [1 .. Len(s.medial) -> MediaLine]
  BY <1>1, <1>2
<1>5. u = [s |-> [s EXCEPT !.medial = M], err |-> FALSE]
  OBVIOUS
<1> HIDE DEF M, u
<1>6. M \in Seq(MediaLine) /\ Len(M) = Len(s.medial)
  BY <1>1, <1>4
<1>7. u \in [s : MediaSess, err : BOOLEAN] /\ u.s.medial = M
  <2>1. [s EXCEPT !.medial = M] \in MediaSess /\ [s EXCEPT !.medial = M].medial = M
    BY <1>6 DEF MediaSess
  <2> QED BY <1>5, <2>1
<1>8. MediaDecoded(s, lines, offer, 0, u)
  BY <1>1, <1>2, <1>3, <1>6, <1>7 DEF MediaDecoded
<1> QED BY <1>8 DEF u

(* The turns keep what MediaDecoded says. *)
LEMMA MediaDecodes ==
  ASSUME NEW s \in MediaSess, NEW lines \in Seq(MediaMsg), NEW offer, NEW f,
         MediaDecodeFn(s, lines, offer, Len(lines), f)
  PROVE  MediaDecoded(s, lines, offer, Len(lines), f[Len(lines)])
<1> DEFINE n == Len(lines)
           S == {k \in Nat : k <= n => MediaDecoded(s, lines, offer, k, f[k])}
<1>1. n \in Nat
  OBVIOUS
<1>2. f[0] = [s |-> [s EXCEPT !.medial = [i \in DOMAIN @ |-> Media!Rreset(@[i])]], err |-> FALSE]
  <2>1. 0 \in 0 .. n
    BY <1>1
  <2> QED BY <2>1 DEF MediaDecodeFn
<1>3. \A k \in 1 .. n : f[k] = Media!MediaDecode(f[k - 1], k, lines[k], offer)
  <2>1. \A k \in 1 .. n : k \in 0 .. n /\ k # 0
    BY <1>1
  <2> QED BY <2>1 DEF MediaDecodeFn
<1>4. 0 \in S
  <2>1. MediaDecoded(s, lines, offer, 0, f[0])
    BY <1>2, MediaDecodedNone
  <2> QED BY <2>1
<1>5. ASSUME NEW k \in Nat, k \in S PROVE k + 1 \in S
  <2> SUFFICES ASSUME k + 1 <= n PROVE MediaDecoded(s, lines, offer, k + 1, f[k + 1])
    OBVIOUS
  <2>1. k <= n /\ k + 1 \in 1 .. n /\ (k + 1) - 1 = k
    BY <1>1
  <2>2. MediaDecoded(s, lines, offer, k, f[k])
    BY <1>5, <2>1
  <2>3. MediaDecoded(s, lines, offer, k + 1, Media!MediaDecode(f[k], k + 1, lines[k + 1], offer))
    BY <2>1, <2>2, MediaDecodedStep
  <2> QED BY <1>3, <2>1, <2>3
<1>6. \A k \in Nat : k \in S
  <2> HIDE DEF S
  <2> QED BY <1>4, <1>5, SetInduction
<1> QED BY <1>1, <1>6

(* r is line f, just filled from l, with its formats aligned. *)
MediaTook(f, l, offer, r) ==
    /\ f \in MediaLine /\ MediaFilled(f, l)
    /\ f.disabled \/ ~f.rport => r = f
    /\ ~f.disabled /\ f.rport => MediaAligned(f, offer, r)

(* Line l may be an answer to what line m offered. *)
MediaAnswers(m, l) ==
    l.port /\ ~m.disabled =>
        \A i \in 1 .. Len(m.lf) : \A j \in 1 .. Len(l.fmts) :
            m.lf[i].codec = l.fmts[j].codec => m.lf[i].sup

(* d is session s after message lines. *)
MediaRead(s, lines, offer, d) ==
    /\ d \in [s : MediaSess, err : BOOLEAN]
    /\ Len(s.medial) <= Len(d.s.medial)
    /\ \A i \in 1 .. Len(s.medial) : d.s.medial[i].name = s.medial[i].name
    /\ ~offer => Len(d.s.medial) = Len(s.medial)
    /\ ~d.err =>
          /\ Len(lines) <= Len(d.s.medial)
          /\ \A i \in 1 .. Len(lines) : \E f :
                /\ MediaTook(f, lines[i], offer, d.s.medial[i])
                /\ i <= Len(s.medial) => MediaHalf(s.medial[i], f)

(* A line that was filled and aligned. *)
LEMMA MediaTakes ==
  ASSUME NEW f \in MediaLine, NEW l \in MediaMsg, NEW offer \in BOOLEAN, MediaFilled(f, l),
         l.port => MediaSent(l.fmts),
         ~offer => MediaAnswers(f, l)
  PROVE  MediaTook(f, l, offer, Media!AlignFormats(f, offer)) /\ Media!AlignFormats(f, offer) \in MediaLine
<1>1. CASE f.disabled \/ ~f.rport
  <2>1. PICK g : Media!AlignFormats(f, offer) =
                   IF f.disabled \/ ~f.rport THEN f
                   ELSE IF offer
                   THEN [g[Len(f.rf)] EXCEPT
                           !.lf = Media!Pick(@, Media!Supported(g[Len(f.rf)]))
                                  \o Media!Reverse(Media!Pick(@, DOMAIN @ \ Media!Supported(g[Len(f.rf)])))]
                   ELSE g[Len(f.rf)]
    <3>1. Len(f.rf) \in Nat
      BY DEF MediaLine
    <3> QED BY <3>1, MediaAlignIsFn
  <2>2. Media!AlignFormats(f, offer) = f
    BY <1>1, <2>1
  <2> QED BY <1>1, <2>2 DEF MediaTook
<1>2. CASE ~f.disabled /\ f.rport
  <2>1. MediaSent(f.rf)
    <3>1. l.port /\ Len(f.rf) = Len(l.fmts)
      BY <1>2 DEF MediaFilled
    <3>2. \A j \in 1 .. Len(f.rf) : f.rf[j].id = l.fmts[j].id /\ f.rf[j].codec = l.fmts[j].codec
      BY <3>1 DEF MediaFilled
    <3> QED BY <3>1, <3>2 DEF MediaSent, MediaKnown
  <2>2. CASE offer
    <3>1. MediaAligned(f, TRUE, Media!AlignFormats(f, TRUE))
      BY <1>2, <2>1, MediaAlignOffer
    <3>2. offer = TRUE
      BY <2>2
    <3> QED BY <1>2, <3>1, <3>2 DEF MediaTook, MediaAligned
  <2>3. CASE ~offer
    <3>1. \A j \in 1 .. Len(f.rf) : \A i \in 1 .. Len(f.lf) :
            f.lf[i].codec = f.rf[j].codec => f.lf[i].sup
      BY <1>2, <2>3 DEF MediaFilled, MediaAnswers
    <3>2. MediaAligned(f, FALSE, Media!AlignFormats(f, FALSE))
      BY <1>2, <2>1, <3>1, MediaAlignAnswer
    <3>3. offer = FALSE
      BY <2>3
    <3> QED BY <1>2, <3>2, <3>3 DEF MediaTook, MediaAligned
  <2> QED BY <2>2, <2>3
<1> QED BY <1>1, <1>2

(* A message whose lines an end may have written is read line by line. *)
LEMMA MediaReads ==
  ASSUME NEW s \in MediaSess, NEW lines \in Seq(MediaMsg), NEW offer \in BOOLEAN,
         \A i \in 1 .. Len(lines) : lines[i].port => MediaSent(lines[i].fmts),
         ~offer => \A i \in 1 .. Len(lines) :
                      i <= Len(s.medial) => MediaAnswers(s.medial[i], lines[i])
  PROVE  MediaRead(s, lines, offer, Media!Decode(s, lines, offer))
<1>1. Len(lines) \in Nat
  OBVIOUS
<1>2. PICK f : /\ MediaDecodeFn(s, lines, offer, Len(lines), f)
               /\ Media!Decode(s, lines, offer) =
                    IF f[Len(lines)].err THEN f[Len(lines)]
                    ELSE [f[Len(lines)] EXCEPT
                            !.s.medial = [i \in DOMAIN @ |-> Media!AlignFormats(@[i], offer)]]
  BY <1>1, MediaDecodeIsFn
<1> DEFINE n == Len(lines)
           st == f[n]
           d == Media!Decode(s, lines, offer)
           M == st.s.medial
           A == [i \in DOMAIN M |-> Media!AlignFormats(M[i], offer)]
<1>3. MediaDecoded(s, lines, offer, n, st)
  BY <1>2, MediaDecodes
<1>4. d = IF st.err THEN st ELSE [st EXCEPT !.s.medial = A]
  BY <1>2
<1> HIDE DEF d, st
<1>5. st \in [s : MediaSess, err : BOOLEAN] /\ M \in Seq(MediaLine) /\ s.medial \in Seq(MediaLine)
  BY <1>3 DEF MediaDecoded, MediaSess
<1>6. Len(M) \in Nat /\ DOMAIN M = 1 .. Len(M) /\ Len(s.medial) \in Nat /\ Len(s.medial) <= Len(M)
  BY <1>3, <1>5 DEF MediaDecoded
<1>7. \A i \in 1 .. Len(s.medial) : MediaHalf(s.medial[i], M[i])
  BY <1>3 DEF MediaDecoded
<1>8. CASE st.err
  <2>1. MediaRead(s, lines, offer, st)
    BY <1>3, <1>7, <1>8 DEF MediaDecoded, MediaRead, MediaHalf
  <2> QED BY <1>4, <1>8, <2>1 DEF d
<1>9. CASE ~st.err
  <2>1. d = [st EXCEPT !.s = [st.s EXCEPT !.medial = A]]
    BY <1>4, <1>9
  <2>2. n <= Len(M) /\ ~offer => Len(M) = Len(s.medial)
    BY <1>3, <1>9 DEF MediaDecoded
  <2>3. ASSUME NEW i \in 1 .. Len(M), i <= n
        PROVE  MediaTook(M[i], lines[i], offer, Media!AlignFormats(M[i], offer)) /\ Media!AlignFormats(M[i], offer) \in MediaLine
    <3>1. i \in 1 .. n /\ M[i] \in MediaLine /\ lines[i] \in MediaMsg
      BY <1>1, <1>5, <2>3
    <3>2. MediaFilled(M[i], lines[i])
      BY <1>3, <1>9, <2>3 DEF MediaDecoded
    <3>3. ~offer => MediaAnswers(M[i], lines[i])
      <4> SUFFICES ASSUME ~offer PROVE MediaAnswers(M[i], lines[i])
        OBVIOUS
      <4>1. i \in 1 .. Len(s.medial) /\ i <= Len(s.medial)
        BY <1>3, <1>6 DEF MediaDecoded
      <4>2. MediaAnswers(s.medial[i], lines[i]) /\ MediaHalf(s.medial[i], M[i])
        BY <1>7, <3>1, <4>1
      <4> QED BY <4>2 DEF MediaAnswers, MediaHalf
    <3> HIDE DEF M
    <3> QED BY <3>1, <3>2, <3>3, MediaTakes
  <2>4. ASSUME NEW i \in 1 .. Len(M), n < i
        PROVE  Media!AlignFormats(M[i], offer) = M[i] /\ M[i] \in MediaLine
    <3>1. ~M[i].rport
      BY <1>3, <1>9, <2>4 DEF MediaDecoded
    <3>2. M[i] \in MediaLine
      BY <1>5
    <3> HIDE DEF M
    <3>3. Len(M[i].rf) \in Nat
      BY <3>2 DEF MediaLine
    <3>4. Media!AlignFormats(M[i], offer) = M[i]
      <4> DEFINE m == M[i]
      <4>1. PICK g : Media!AlignFormats(m, offer) =
                       IF m.disabled \/ ~m.rport THEN m
                       ELSE IF offer
                       THEN [g[Len(m.rf)] EXCEPT
                               !.lf = Media!Pick(@, Media!Supported(g[Len(m.rf)]))
                                      \o Media!Reverse(Media!Pick(@, DOMAIN @ \ Media!Supported(g[Len(m.rf)])))]
                       ELSE g[Len(m.rf)]
        BY <3>3, MediaAlignIsFn
      <4> QED BY <3>1, <4>1
    <3> QED BY <3>2, <3>4
  <2>5. \A i \in 1 .. Len(M) : A[i] = Media!AlignFormats(M[i], offer) /\ A[i] \in MediaLine
    <3>1. \A i \in 1 .. Len(M) : i <= n \/ n < i
      BY <1>1
    <3>2. \A i \in 1 .. Len(M) : Media!AlignFormats(M[i], offer) \in MediaLine
      BY <2>3, <2>4, <3>1
    <3> QED BY <1>6, <3>2
  <2>6. A \in Seq(MediaLine) /\ Len(A) = Len(M)
    <3>1. A \in [1 .. Len(M) -> MediaLine]
      BY <1>6, <2>5
    <3>2. PICK b \in Nat : b = Len(M)
      BY <1>6
    <3> HIDE DEF A, M
    <3>3. A \in [1 .. b -> MediaLine]
      BY <3>1, <3>2
    <3> QED BY <3>2, <3>3
  <2>7. d \in [s : MediaSess, err : BOOLEAN] /\ d.s.medial = A
    <3> HIDE DEF A
    <3>1. [st.s EXCEPT !.medial = A] \in MediaSess /\ [st.s EXCEPT !.medial = A].medial = A
      BY <1>5, <2>6 DEF MediaSess
    <3> QED BY <1>5, <2>1, <3>1
  <2> HIDE DEF A
  <2>8. ASSUME NEW i \in 1 .. Len(s.medial) PROVE A[i].name = s.medial[i].name
    <3>1. i \in 1 .. Len(M) /\ MediaHalf(s.medial[i], M[i])
      BY <1>6, <1>7
    <3>2. CASE i <= n
      <4>1. MediaTook(M[i], lines[i], offer, A[i])
        BY <2>3, <2>5, <3>1, <3>2
      <4>2. A[i].name = M[i].name
        BY <4>1 DEF MediaTook, MediaAligned, MediaSame
      <4> QED BY <3>1, <4>2 DEF MediaHalf
    <3>3. CASE n < i
      BY <2>4, <2>5, <3>1, <3>3 DEF MediaHalf
    <3> QED BY <1>1, <3>2, <3>3
  <2>9. ASSUME NEW i \in 1 .. n
        PROVE  \E g : MediaTook(g, lines[i], offer, A[i]) /\ (i <= Len(s.medial) => MediaHalf(s.medial[i], g))
    <3>1. n <= Len(M)
      BY <1>3, <1>9 DEF MediaDecoded
    <3>2. i \in 1 .. Len(M) /\ i <= n
      BY <1>1, <1>6, <3>1
    <3>3. MediaTook(M[i], lines[i], offer, A[i])
      BY <2>3, <2>5, <3>2
    <3>4. i <= Len(s.medial) => MediaHalf(s.medial[i], M[i])
      BY <1>6, <1>7
    <3> QED BY <3>3, <3>4
  <2>10. n <= Len(A) /\ Len(s.medial) <= Len(A) /\ (~offer => Len(A) = Len(s.medial))
    BY <1>3, <1>6, <1>9, <2>6 DEF MediaDecoded
  <2>11. MediaRead(s, lines, offer, d)
    BY <2>7, <2>8, <2>9, <2>10 DEF MediaRead
  <2> QED BY <2>11 DEF d
<1> QED BY <1>8, <1>9

(* The other side of a direction. *)
LEMMA MediaMirror ==
  ASSUME NEW d \in Media!Dirs
  PROVE  /\ Media!Mirror(d) \in Media!Dirs
         /\ "send" \in Media!Mirror(d) <=> "recv" \in d
         /\ "recv" \in Media!Mirror(d) <=> "send" \in d
<1>1. Media!SENDRECV \ {"send"} = {"recv"} /\ Media!SENDRECV \ {"recv"} = {"send"}
  BY DEF Media!SENDRECV
<1> QED BY <1>1 DEF Media!Mirror, Media!Dirs, Media!SENDRECV

(* What the two ends do with their directions. *)
LEMMA MediaDirs ==
  ASSUME NEW d \in Media!Dirs, NEW e \in Media!Dirs
  PROVE  /\ d \cap Media!Mirror(e \cap Media!Mirror(d)) = Media!Mirror(e \cap Media!Mirror(d))
         /\ Media!Mirror(Media!Mirror(e \cap Media!Mirror(d))) = e \cap Media!Mirror(d)
<1> DEFINE x == e \cap Media!Mirror(d)
<1>1. x \in Media!Dirs /\ Media!Mirror(x) \in Media!Dirs /\ Media!Mirror(Media!Mirror(x)) \in Media!Dirs /\ Media!Mirror(d) \in Media!Dirs
  <2>1. x \in Media!Dirs
    BY DEF Media!Dirs
  <2> HIDE DEF x
  <2> QED BY <2>1, MediaMirror
<1>2. \A c \in Media!Dirs : \A a \in c : a = "send" \/ a = "recv"
  BY DEF Media!Dirs, Media!SENDRECV
<1>3. \A c \in Media!Dirs : ("send" \in Media!Mirror(c) <=> "recv" \in c) /\ ("recv" \in Media!Mirror(c) <=> "send" \in c)
  BY MediaMirror
<1>4. Media!Mirror(x) \subseteq d
  <2>1. "send" \in Media!Mirror(x) => "send" \in d
    BY <1>1, <1>3
  <2>2. "recv" \in Media!Mirror(x) => "recv" \in d
    BY <1>1, <1>3
  <2> HIDE DEF x
  <2> QED BY <1>1, <1>2, <2>1, <2>2
<1>5. Media!Mirror(Media!Mirror(x)) = x
  <2> HIDE DEF x
  <2>1. "send" \in Media!Mirror(Media!Mirror(x)) <=> "send" \in x
    BY <1>1, <1>3
  <2>2. "recv" \in Media!Mirror(Media!Mirror(x)) <=> "recv" \in x
    BY <1>1, <1>3
  <2>3. Media!Mirror(Media!Mirror(x)) \subseteq x
    BY <1>1, <1>2, <2>1, <2>2
  <2>4. x \subseteq Media!Mirror(Media!Mirror(x))
    BY <1>1, <1>2, <2>1, <2>2
  <2> QED BY <2>3, <2>4
<1> QED BY <1>4, <1>5

(* The formats m sends with are formats p reads. *)
MediaReadable(m, p) ==
    /\ Media!Rformats(m) # {}
    /\ Media!Rformat(m).codec \in {f.codec : f \in Media!Range(m.lf)}
    /\ Media!Lformats(p, Media!Rformat(m).id) # {}
    /\ Media!Lformat(p, Media!Rformat(m).id).codec = Media!Rformat(m).codec

(* What EndsAgree says of two lines. *)
MediaAlike(a, b) ==
    /\ a.name = b.name
    /\ Media!Open(a) <=> Media!Open(b)
    /\ Media!Open(a) => Media!Dir(a) = Media!Mirror(Media!Dir(b)) /\ MediaReadable(a, b) /\ MediaReadable(b, a)

(* An end reads what it sends with when its own format of that payload type
   comes first. *)
LEMMA MediaReading ==
  ASSUME NEW m \in MediaLine, NEW p \in MediaLine, m.rport,
         \E k \in 1 .. Len(m.rf) : m.rf[k].sup,
         \A k \in 1 .. Len(m.rf) : m.rf[k].sup =>
            \E i \in 1 .. Len(m.lf) : m.lf[i].codec = m.rf[k].codec,
         \A k \in 1 .. Len(m.rf) : m.rf[k].sup =>
            \E i \in 1 .. Len(p.lf) :
               /\ p.lf[i].id = m.rf[k].id /\ p.lf[i].codec = m.rf[k].codec
               /\ \A j \in 1 .. Len(p.lf) : j < i => p.lf[j].id # p.lf[i].id
  PROVE  MediaReadable(m, p)
<1>1. /\ m.rf \in Seq(MediaFmt) /\ m.lf \in Seq(MediaFmt) /\ p.lf \in Seq(MediaFmt)
      /\ DOMAIN m.rf = 1 .. Len(m.rf) /\ DOMAIN m.lf = 1 .. Len(m.lf) /\ DOMAIN p.lf = 1 .. Len(p.lf)
  BY DEF MediaLine, MediaLf
<1>2. Media!Rformats(m) = {k \in 1 .. Len(m.rf) : m.rf[k].sup}
  BY <1>1 DEF Media!Rformats
<1>3. Media!Rformats(m) # {} /\ Media!Rformats(m) \subseteq Nat
  BY <1>1, <1>2
<1> DEFINE R == Media!Rformats(m)
           k == CHOOSE i \in R : \A j \in R : i <= j
<1>4. k \in 1 .. Len(m.rf) /\ m.rf[k].sup
  <2>1. k \in R
    <3> HIDE DEF R
    <3>1. R # {} /\ R \subseteq Nat
      BY <1>3 DEF R
    <3> QED BY <3>1, LeastOf
  <2> QED BY <1>2, <2>1
<1>5. Media!Rformat(m) = m.rf[k]
  BY DEF Media!Rformat
<1> HIDE DEF k
<1>6. m.rf[k].codec \in {f.codec : f \in Media!Range(m.lf)}
  <2>1. PICK i \in 1 .. Len(m.lf) : m.lf[i].codec = m.rf[k].codec
    BY <1>4
  <2>2. m.lf[i] \in Media!Range(m.lf)
    BY <1>1 DEF Media!Range
  <2> QED BY <2>1, <2>2
<1> DEFINE id == m.rf[k].id
           I == Media!Lformats(p, id)
           y == CHOOSE i \in I : \A j \in I : i <= j
<1>7. PICK x \in 1 .. Len(p.lf) : /\ p.lf[x].id = id /\ p.lf[x].codec = m.rf[k].codec
                                  /\ \A j \in 1 .. Len(p.lf) : j < x => p.lf[j].id # p.lf[x].id
  BY <1>4
<1>8. Media!Lformat(p, id) = p.lf[y]
  BY DEF Media!Lformat
<1>9. I = {i \in 1 .. Len(p.lf) : p.lf[i].id = id}
  BY <1>1 DEF Media!Lformats
<1>10. I # {} /\ I \subseteq Nat /\ x \in I
  BY <1>7, <1>9
<1>11. y \in I /\ y <= x
  <2> HIDE DEF I
  <2> QED BY <1>10, LeastOf
<1> HIDE DEF y
<1>12. y = x
  <2>1. y \in 1 .. Len(p.lf) /\ p.lf[y].id = id /\ y \in Nat /\ x \in Nat
    BY <1>9, <1>11
  <2>2. ~(y < x)
    BY <1>7, <2>1
  <2> QED BY <1>11, <2>1, <2>2
<1> QED BY <1>3, <1>5, <1>6, <1>7, <1>8, <1>10, <1>12 DEF MediaReadable

(* A line is open when it has a supported format. *)
LEMMA MediaOpenIs ==
  ASSUME NEW m \in MediaLine
  PROVE  Media!Open(m) <=> ~m.disabled /\ m.rport /\ \E i \in 1 .. Len(m.lf) : m.lf[i].sup
<1>1. m.lf \in Seq(MediaFmt) /\ DOMAIN m.lf = 1 .. Len(m.lf)
  BY DEF MediaLine, MediaLf
<1>2. \A f : f \in Media!Range(m.lf) <=> \E i \in 1 .. Len(m.lf) : f = m.lf[i]
  BY <1>1 DEF Media!Range
<1> QED BY <1>2 DEF Media!Open

(* Line b took l, what the other end offered of its line. *)
MediaMet(l, b) ==
    /\ b.name = l.name /\ (b.rport <=> l.port) /\ b.rdir = Media!Mirror(l.dir)
    /\ b.rport /\ ~b.disabled =>
          /\ Len(b.rf) = Len(l.fmts)
          /\ \A j \in 1 .. Len(l.fmts) : b.rf[j].id = l.fmts[j].id /\ b.rf[j].codec = l.fmts[j].codec
          /\ \A j \in 1 .. Len(l.fmts) : b.rf[j].sup => \E i \in 1 .. Len(b.lf) :
                b.lf[i].sup /\ b.lf[i].id = l.fmts[j].id /\ b.lf[i].codec = l.fmts[j].codec
          /\ \A i \in 1 .. Len(b.lf) : b.lf[i].sup => \E j \in 1 .. Len(l.fmts) :
                b.rf[j].sup /\ b.lf[i].id = l.fmts[j].id /\ b.lf[i].codec = l.fmts[j].codec

(* What the answerer has after sdp_decode() of the offer. *)
LEMMA MediaMeets ==
  ASSUME NEW f, NEW l, NEW b, MediaTook(f, l, TRUE, b)
  PROVE  MediaMet(l, b)
<1>1. MediaFilled(f, l)
  BY DEF MediaTook
<1>2. CASE f.disabled \/ ~f.rport
  <2>1. b = f
    BY <1>2 DEF MediaTook
  <2> QED BY <1>1, <1>2, <2>1 DEF MediaFilled, MediaMet
<1>3. CASE ~f.disabled /\ f.rport
  <2>1. MediaAligned(f, TRUE, b)
    BY <1>3 DEF MediaTook
  <2>2. b.name = l.name /\ (b.rport <=> l.port) /\ b.rdir = Media!Mirror(l.dir)
    BY <1>1, <2>1 DEF MediaFilled, MediaAligned, MediaSame
  <2>3. Len(f.rf) = Len(l.fmts) /\ Len(b.rf) = Len(l.fmts)
    BY <1>1, <2>1 DEF MediaFilled, MediaAligned
  <2>4. \A j \in 1 .. Len(l.fmts) : f.rf[j].id = l.fmts[j].id /\ f.rf[j].codec = l.fmts[j].codec
    BY <1>1 DEF MediaFilled
  <2>5. \A j \in 1 .. Len(l.fmts) : b.rf[j].id = l.fmts[j].id /\ b.rf[j].codec = l.fmts[j].codec
    BY <2>1, <2>3, <2>4 DEF MediaAligned
  <2>6. \A j \in 1 .. Len(l.fmts) : b.rf[j].sup => \E i \in 1 .. Len(b.lf) :
          b.lf[i].sup /\ b.lf[i].id = l.fmts[j].id /\ b.lf[i].codec = l.fmts[j].codec
    BY <2>1, <2>3, <2>4 DEF MediaAligned
  <2>7. \A i \in 1 .. Len(b.lf) : b.lf[i].sup => \E j \in 1 .. Len(l.fmts) :
          b.rf[j].sup /\ b.lf[i].id = l.fmts[j].id /\ b.lf[i].codec = l.fmts[j].codec
    BY <2>1, <2>3, <2>4 DEF MediaAligned
  <2> QED BY <2>2, <2>3, <2>5, <2>6, <2>7 DEF MediaMet
<1> QED BY <1>2, <1>3

(* What is answered was offered. *)
LEMMA MediaAnswering ==
  ASSUME NEW a \in MediaLine, NEW b \in MediaLine, NEW l, NEW w,
         MediaWrote(a, TRUE, l), MediaMet(l, b), MediaWrote(b, FALSE, w)
  PROVE  MediaAnswers(a, w)
<1> SUFFICES ASSUME w.port, ~a.disabled,
                    NEW i \in 1 .. Len(a.lf), NEW j \in 1 .. Len(w.fmts),
                    a.lf[i].codec = w.fmts[j].codec
             PROVE  a.lf[i].sup
  BY DEF MediaAnswers
<1>1. ~b.disabled /\ b.rport /\ l.port
  BY DEF MediaWrote, MediaMet
<1>2. PICK x \in 1 .. Len(b.lf) : b.lf[x].sup /\ b.lf[x].codec = w.fmts[j].codec
  BY DEF MediaWrote
<1>3. PICK y \in 1 .. Len(l.fmts) : b.lf[x].codec = l.fmts[y].codec
  BY <1>1, <1>2 DEF MediaMet
<1>4. PICK z \in 1 .. Len(a.lf) : a.lf[z].sup /\ a.lf[z].codec = l.fmts[y].codec
  BY <1>1 DEF MediaWrote
<1>5. z = i
  <2>1. MediaOwn(a.lf)
    BY DEF MediaLine, MediaLf
  <2> QED BY <1>2, <1>3, <1>4, <2>1 DEF MediaOwn
<1> QED BY <1>4, <1>5

(* The two ends of a line after offer and answer. *)
LEMMA MediaAgrees ==
  ASSUME NEW a \in MediaLine, NEW b \in MediaLine, NEW l, NEW w, NEW f, NEW r,
         MediaWrote(a, TRUE, l), MediaMet(l, b), MediaWrote(b, FALSE, w),
         MediaHalf(a, f), MediaTook(f, w, FALSE, r)
  PROVE  MediaAlike(r, b) /\ MediaAlike(b, r)
<1>1. /\ f \in MediaLine /\ f.lf = a.lf /\ f.ldir = a.ldir /\ (f.disabled <=> a.disabled)
      /\ f.name = w.name /\ (f.rport <=> w.port) /\ f.rdir = Media!Mirror(w.dir) /\ w.name = b.name
  BY DEF MediaHalf, MediaTook, MediaFilled, MediaWrote
<1>2. CASE ~w.port \/ a.disabled
  <2>1. r = f
    BY <1>1, <1>2 DEF MediaTook
  <2>2. ~Media!Open(r)
    BY <1>1, <1>2, <2>1 DEF Media!Open
  <2>3. ~Media!Open(b)
    <3>1. CASE a.disabled
      BY <3>1 DEF MediaWrote, MediaMet, Media!Open
    <3>2. CASE ~w.port
      BY <3>2, MediaOpenIs DEF MediaWrote
    <3> QED BY <1>2, <3>1, <3>2
  <2> QED BY <1>1, <2>1, <2>2, <2>3 DEF MediaAlike
<1>3. CASE w.port /\ ~a.disabled
  <2>1. MediaAligned(f, FALSE, r) /\ MediaFilled(f, w)
    BY <1>1, <1>3 DEF MediaTook
  <2>2. /\ r \in MediaLine /\ r.name = b.name /\ ~r.disabled /\ r.rport
        /\ r.rdir = Media!Mirror(w.dir) /\ r.ldir = a.ldir
    BY <1>1, <1>3, <2>1 DEF MediaAligned, MediaSame
  <2>3. ~b.disabled /\ b.rport /\ l.port /\ Len(w.fmts) # 0
    BY <1>3 DEF MediaWrote, MediaMet
  <2>4. Len(r.lf) = Len(a.lf) /\ \A i \in 1 .. Len(a.lf) : r.lf[i].id = a.lf[i].id /\ r.lf[i].codec = a.lf[i].codec
    BY <1>1, <2>1 DEF MediaAligned
  <2>5. Len(f.rf) = Len(w.fmts) /\ Len(r.rf) = Len(w.fmts)
    BY <2>1 DEF MediaAligned, MediaFilled
  <2>6. \A k \in 1 .. Len(w.fmts) : /\ f.rf[k].id = w.fmts[k].id /\ f.rf[k].codec = w.fmts[k].codec
                                    /\ r.rf[k].id = w.fmts[k].id /\ r.rf[k].codec = w.fmts[k].codec
    BY <2>1, <2>5 DEF MediaAligned, MediaFilled
  <2>7. \A k \in 1 .. Len(w.fmts) : \E x \in 1 .. Len(b.lf) :
          b.lf[x].sup /\ b.lf[x].id = w.fmts[k].id /\ b.lf[x].codec = w.fmts[k].codec
    BY <1>3 DEF MediaWrote
  <2>8. /\ Len(b.rf) = Len(l.fmts)
        /\ \A j \in 1 .. Len(l.fmts) : b.rf[j].id = l.fmts[j].id /\ b.rf[j].codec = l.fmts[j].codec
    BY <2>3 DEF MediaMet
  <2>9. \A x \in 1 .. Len(b.lf) : b.lf[x].sup => \E j \in 1 .. Len(l.fmts) :
          b.rf[j].sup /\ b.lf[x].id = l.fmts[j].id /\ b.lf[x].codec = l.fmts[j].codec
    BY <2>3 DEF MediaMet
  <2>10. \A j \in 1 .. Len(l.fmts) : b.rf[j].sup => \E x \in 1 .. Len(b.lf) :
          b.lf[x].sup /\ b.lf[x].id = l.fmts[j].id /\ b.lf[x].codec = l.fmts[j].codec
    BY <2>3 DEF MediaMet
  <2>11. \A j \in 1 .. Len(l.fmts) : \E i \in 1 .. Len(a.lf) :
          a.lf[i].sup /\ a.lf[i].id = l.fmts[j].id /\ a.lf[i].codec = l.fmts[j].codec
    BY <2>3 DEF MediaWrote
  <2>12. ASSUME NEW k \in 1 .. Len(w.fmts) PROVE r.rf[k].sup
    <3>1. PICK x \in 1 .. Len(b.lf) : b.lf[x].sup /\ b.lf[x].codec = w.fmts[k].codec
      BY <2>7
    <3>2. PICK j \in 1 .. Len(l.fmts) : b.lf[x].codec = l.fmts[j].codec
      BY <2>9, <3>1
    <3>3. PICK i \in 1 .. Len(a.lf) : a.lf[i].codec = l.fmts[j].codec
      BY <2>11
    <3>4. f.lf[i].codec = f.rf[k].codec
      BY <1>1, <2>6, <3>1, <3>2, <3>3
    <3> QED BY <1>1, <2>1, <2>5, <3>4 DEF MediaAligned
  <2>13. \A k \in 1 .. Len(w.fmts) : \E i \in 1 .. Len(r.lf) : r.lf[i].sup /\ r.lf[i].codec = w.fmts[k].codec
    <3> TAKE k \in 1 .. Len(w.fmts)
    <3>1. k \in 1 .. Len(f.rf) /\ r.rf[k].sup /\ f.rf[k].codec = w.fmts[k].codec
      BY <2>5, <2>6, <2>12
    <3>2. PICK i \in 1 .. Len(r.lf) : r.lf[i].sup /\ r.lf[i].codec = f.rf[k].codec
      BY <2>1, <3>1 DEF MediaAligned
    <3> QED BY <3>1, <3>2
  <2>14. 1 \in 1 .. Len(w.fmts)
    <3>1. Len(w.fmts) \in Nat
      <4>1. Len(r.rf) \in Nat
        BY <2>2 DEF MediaLine
      <4> QED BY <2>5, <4>1
    <3> QED BY <2>3, <3>1
  <2>15. Media!Open(r) /\ Media!Open(b)
    <3>1. Media!Open(r)
      BY <2>2, <2>13, <2>14, MediaOpenIs
    <3>2. Media!Open(b)
      BY <2>3, <2>7, <2>14, MediaOpenIs
    <3> QED BY <3>1, <3>2
  <2>16. Media!Dir(r) = Media!Mirror(Media!Dir(b)) /\ Media!Dir(b) = Media!Mirror(Media!Dir(r))
    <3>1. w.dir = b.ldir \cap b.rdir /\ b.rdir = Media!Mirror(l.dir) /\ l.dir = a.ldir
      BY <1>3, <2>3 DEF MediaWrote, MediaMet
    <3>2. a.ldir \in Media!Dirs /\ b.ldir \in Media!Dirs
      BY DEF MediaLine
    <3>3. Media!Dir(b) = b.ldir \cap Media!Mirror(a.ldir) /\ Media!Dir(r) = a.ldir \cap Media!Mirror(b.ldir \cap Media!Mirror(a.ldir))
      BY <2>2, <3>1 DEF Media!Dir
    <3> DEFINE d == a.ldir
               e == b.ldir
    <3>4. /\ d \cap Media!Mirror(e \cap Media!Mirror(d)) = Media!Mirror(e \cap Media!Mirror(d))
          /\ Media!Mirror(Media!Mirror(e \cap Media!Mirror(d))) = e \cap Media!Mirror(d)
      <4>1. d \in Media!Dirs /\ e \in Media!Dirs
        BY <3>2
      <4> HIDE DEF d, e
      <4> QED BY <4>1, MediaDirs
    <3>5. Media!Dir(r) = Media!Mirror(e \cap Media!Mirror(d)) /\ Media!Dir(b) = e \cap Media!Mirror(d)
      BY <3>3, <3>4
    <3> QED BY <3>4, <3>5
  <2>17. MediaOwn(a.lf) /\ MediaOwn(b.lf)
    BY DEF MediaLine, MediaLf
  <2>18. MediaReadable(r, b)
    <3>1. \A k \in 1 .. Len(r.rf) : \E i \in 1 .. Len(r.lf) : r.lf[i].codec = r.rf[k].codec
      BY <2>5, <2>6, <2>13
    <3>2. \A k \in 1 .. Len(r.rf) : \E i \in 1 .. Len(b.lf) :
             /\ b.lf[i].id = r.rf[k].id /\ b.lf[i].codec = r.rf[k].codec
             /\ \A j \in 1 .. Len(b.lf) : j < i => b.lf[j].id # b.lf[i].id
      BY <2>5, <2>6, <2>7, <2>17 DEF MediaOwn
    <3>3. \E k \in 1 .. Len(r.rf) : r.rf[k].sup
      BY <2>5, <2>12, <2>14
    <3> QED BY <2>2, <3>1, <3>2, <3>3, MediaReading
  <2>19. MediaReadable(b, r)
    <3>1. \A k \in 1 .. Len(b.rf) : b.rf[k].sup => \E i \in 1 .. Len(b.lf) : b.lf[i].codec = b.rf[k].codec
      BY <2>8, <2>10
    <3>2. \A k \in 1 .. Len(b.rf) : \E i \in 1 .. Len(r.lf) :
             /\ r.lf[i].id = b.rf[k].id /\ r.lf[i].codec = b.rf[k].codec
             /\ \A j \in 1 .. Len(r.lf) : j < i => r.lf[j].id # r.lf[i].id
      <4> TAKE k \in 1 .. Len(b.rf)
      <4>1. PICK i \in 1 .. Len(a.lf) : a.lf[i].sup /\ a.lf[i].id = l.fmts[k].id /\ a.lf[i].codec = l.fmts[k].codec
        BY <2>8, <2>11
      <4>2. \A j \in 1 .. Len(a.lf) : j < i => a.lf[j].id # a.lf[i].id
        BY <2>17, <4>1 DEF MediaOwn
      <4>3. i \in 1 .. Len(r.lf) /\ r.lf[i].id = b.rf[k].id /\ r.lf[i].codec = b.rf[k].codec
        BY <2>4, <2>8, <4>1
      <4>4. \A j \in 1 .. Len(r.lf) : j < i => r.lf[j].id # r.lf[i].id
        BY <2>4, <4>2
      <4> QED BY <4>3, <4>4
    <3>3. \E k \in 1 .. Len(b.rf) : b.rf[k].sup
      BY <2>7, <2>8, <2>9, <2>14
    <3> QED BY <2>2, <2>3, <3>1, <3>2, <3>3, MediaReading
  <2> QED BY <2>2, <2>15, <2>16, <2>18, <2>19 DEF MediaAlike
<1> QED BY <1>2, <1>3

(* There are two ends. *)
LEMMA MediaPeer ==
  ASSUME NEW x \in Agent
  PROVE  /\ Media!Peer(x) \in Agent /\ Media!Peer(x) # x /\ Media!Peer(Media!Peer(x)) = x
         /\ \A y \in Agent : y # x => y = Media!Peer(x)
<1>1. PICK a, b : a # b /\ Agent = {a, b}
  BY MediaAssumption
<1>2. Media!Peer(a) = b
  <2>1. \A y \in Agent : y # a => y = b
    BY <1>1
  <2>2. \E y \in Agent : y # a
    BY <1>1
  <2> QED BY <2>1, <2>2 DEF Media!Peer
<1>3. Media!Peer(b) = a
  <2>1. \A y \in Agent : y # b => y = a
    BY <1>1
  <2>2. \E y \in Agent : y # b
    BY <1>1
  <2> QED BY <2>1, <2>2 DEF Media!Peer
<1> QED BY <1>1, <1>2, <1>3

(* The lines of s are in t, at their places. *)
MediaPlaced(s, t) ==
    \A k \in DOMAIN s.medial : k \in DOMAIN t.medial /\ t.medial[k].name = s.medial[k].name

(* The answerer has taken what the offerer's lines offer. *)
MediaOffered(A, B) ==
    Len(A) <= Len(B) /\ \A i \in 1 .. Len(A) : MediaMet(Media!MediaEncode(A[i], TRUE), B[i])

MediaEven(A, B) ==
    Len(A) = Len(B) /\ \A i \in 1 .. Len(A) : MediaAlike(A[i], B[i])

(* Between two handlers: the message under way is what its writer's lines say,
   the answerer's lines are those of the open offer, and when the exchange is
   over both ends have the same. *)
MediaInv ==
    /\ media_sess \in [Agent -> MediaSess] /\ media_msg \in Seq(MediaMsg) /\ media_by \in Agent
    /\ media_stage \in {"idle", "offered", "decoded", "answered"}
    /\ media_stage # "idle" => ~media_agreed
    /\ media_stage = "offered" => media_msg = Media!Encode(media_sess[media_by], TRUE)
    /\ media_stage \in {"decoded", "answered"} => MediaOffered(media_sess[media_by].medial, media_sess[Media!Peer(media_by)].medial)
    /\ media_stage = "answered" => media_msg = Media!Encode(media_sess[Media!Peer(media_by)], FALSE)
    /\ media_agreed => \A x \in Agent : MediaEven(media_sess[x].medial, media_sess[Media!Peer(x)].medial)

(* No line moves. *)
MediaKeeps == \A x \in Agent : MediaPlaced(media_sess[x], media_sess'[x])

(* sdp_encode() writes line by line. *)
LEMMA MediaEncoded ==
  ASSUME NEW s \in MediaSess, NEW offer
  PROVE  /\ Media!Encode(s, offer) \in Seq(MediaMsg) /\ Len(Media!Encode(s, offer)) = Len(s.medial)
         /\ \A i \in 1 .. Len(s.medial) :
               /\ Media!Encode(s, offer)[i] = Media!MediaEncode(s.medial[i], offer)
               /\ MediaWrote(s.medial[i], offer, Media!Encode(s, offer)[i])
<1> DEFINE E == Media!Encode(s, offer)
<1>1. s.medial \in Seq(MediaLine) /\ Len(s.medial) \in Nat /\ DOMAIN s.medial = 1 .. Len(s.medial)
  BY DEF MediaSess
<1>2. \A i \in 1 .. Len(s.medial) : s.medial[i] \in MediaLine
  BY <1>1
<1>3. E = [i \in 1 .. Len(s.medial) |-> Media!MediaEncode(s.medial[i], offer)]
  BY <1>1 DEF Media!Encode
<1>4. \A i \in 1 .. Len(s.medial) : Media!MediaEncode(s.medial[i], offer) \in MediaMsg
                                    /\ MediaWrote(s.medial[i], offer, Media!MediaEncode(s.medial[i], offer))
  BY <1>2, MediaEncodes
<1> HIDE DEF E
<1>5. E \in [1 .. Len(s.medial) -> MediaMsg]
  BY <1>3, <1>4
<1>6. E \in Seq(MediaMsg) /\ Len(E) = Len(s.medial)
  BY <1>1, <1>5
<1>7. \A i \in 1 .. Len(s.medial) : E[i] = Media!MediaEncode(s.medial[i], offer)
  BY <1>3
<1> QED BY <1>4, <1>6, <1>7 DEF E

(* Lines that are put on the wire go behind those that are there. *)
LEMMA MediaOffers ==
  ASSUME NEW s \in MediaSess
  PROVE  Media!Offered(s) \in MediaSess /\ MediaPlaced(s, Media!Offered(s))
<1> DEFINE off == {i \in DOMAIN s.lmedial : s.lmedial[i].disabled}
           p == Media!Pick(s.lmedial, off)
           q == Media!Pick(s.lmedial, DOMAIN s.lmedial \ off)
<1>1. s.medial \in Seq(MediaLine) /\ s.lmedial \in Seq(MediaLine)
  BY DEF MediaSess
<1>2. p \in Seq(MediaLine) /\ q \in Seq(MediaLine)
  BY <1>1, PickPicks
<1>3. Media!Offered(s) = [lmedial |-> p, medial |-> s.medial \o q]
  BY DEF Media!Offered
<1> HIDE DEF p, q
<1>4. /\ s.medial \o q \in Seq(MediaLine) /\ Len(s.medial \o q) = Len(s.medial) + Len(q)
      /\ \A i \in 1 .. Len(s.medial) : (s.medial \o q)[i] = s.medial[i]
  <2>1. /\ s.medial \o q \in Seq(MediaLine) /\ Len(s.medial \o q) = Len(s.medial) + Len(q)
        /\ \A i \in 1 .. Len(s.medial) + Len(q) :
              (s.medial \o q)[i] = IF i <= Len(s.medial) THEN s.medial[i] ELSE q[i - Len(s.medial)]
    BY <1>1, <1>2, ConcatProperties
  <2>2. Len(s.medial) \in Nat /\ Len(q) \in Nat
    BY <1>1, <1>2
  <2> QED BY <2>1, <2>2
<1> DEFINE M == s.medial \o q
<1>5. M \in Seq(MediaLine) /\ \A i \in DOMAIN s.medial : i \in DOMAIN M /\ M[i] = s.medial[i]
  <2>1. Len(s.medial) \in Nat /\ Len(q) \in Nat /\ DOMAIN s.medial = 1 .. Len(s.medial)
    BY <1>1, <1>2
  <2>2. DOMAIN M = 1 .. Len(s.medial) + Len(q)
    BY <1>4
  <2> QED BY <1>4, <2>1, <2>2
<1>6. Media!Offered(s) = [lmedial |-> p, medial |-> M]
  BY <1>3
<1> HIDE DEF M
<1> QED BY <1>2, <1>5, <1>6 DEF MediaSess, MediaPlaced

(* The sessions begin in the invariant. *)
LEMMA MediaInit == Media!Init => MediaInv
<1> SUFFICES ASSUME Media!Init PROVE MediaInv
  OBVIOUS
<1>1. \A x \in Agent : [lmedial |-> <<Media!NewMedia(First, Formats[x][First])>>, medial |-> <<>>] \in MediaSess
  <2> TAKE x \in Agent
  <2>1. First \in DOMAIN Formats[x]
    BY MediaAssumption
  <2>2. Media!NewMedia(First, Formats[x][First]) \in MediaLine
    BY <2>1, MediaFormats, MediaNew
  <2> DEFINE w == <<Media!NewMedia(First, Formats[x][First])>>
  <2>3. w \in Seq(MediaLine) /\ <<>> \in Seq(MediaLine)
    BY <2>2
  <2> HIDE DEF w
  <2> QED BY <2>3 DEF MediaSess, w
<1>2. media_sess \in [Agent -> MediaSess]
  BY <1>1 DEF Media!Init
<1>3. media_msg = <<>> /\ media_msg \in Seq(MediaMsg)
  BY DEF Media!Init
<1>4. media_by \in Agent
  BY MediaAssumption DEF Media!Init
<1>5. media_stage = "idle" /\ ~media_agreed
  BY DEF Media!Init
<1> QED BY <1>2, <1>3, <1>4, <1>5 DEF MediaInv

(* What a user does to its lines leaves them in place, and an answerer that
   has taken the offer has still taken it. *)
LEMMA MediaEdited ==
  ASSUME MediaInv, NEW x \in Agent, NEW s \in MediaSess, Media!Edits(x, s),
         Len(s.medial) = Len(media_sess[x].medial),
         \A i \in 1 .. Len(s.medial) :
            /\ s.medial[i].name = media_sess[x].medial[i].name
            /\ media_stage = "decoded" => \A l : MediaMet(l, media_sess[x].medial[i]) => MediaMet(l, s.medial[i])
  PROVE  MediaInv' /\ MediaKeeps
<1>1. /\ media_sess' = [media_sess EXCEPT ![x] = s] /\ ~media_agreed' /\ media_msg' = media_msg /\ media_stage' = media_stage /\ media_by' = media_by
      /\ media_stage = "idle" \/ (media_stage = "decoded" /\ x # media_by)
  BY DEF Media!Edits, Media!MayEdit
<1>2. media_sess' \in [Agent -> MediaSess] /\ media_sess'[x] = s /\ \A y \in Agent : y # x => media_sess'[y] = media_sess[y]
  BY <1>1 DEF MediaInv
<1>3. MediaKeeps
  <2>1. MediaPlaced(media_sess[x], s)
    <3>1. media_sess[x].medial \in Seq(MediaLine) /\ s.medial \in Seq(MediaLine)
      BY DEF MediaInv, MediaSess
    <3>2. DOMAIN media_sess[x].medial = 1 .. Len(s.medial) /\ DOMAIN s.medial = 1 .. Len(s.medial)
      BY <3>1
    <3> QED BY <3>2 DEF MediaPlaced
  <2>2. \A y \in Agent : MediaPlaced(media_sess[y], media_sess[y])
    BY DEF MediaPlaced
  <2> QED BY <1>2, <2>1, <2>2 DEF MediaKeeps
<1>4. CASE media_stage = "idle"
  <2>1. media_msg \in Seq(MediaMsg) /\ media_by \in Agent
    BY DEF MediaInv
  <2>2. media_stage' = "idle" /\ media_msg' \in Seq(MediaMsg) /\ media_by' \in Agent /\ ~media_agreed'
    BY <1>1, <1>4, <2>1
  <2>3. MediaInv'
    BY <1>2, <2>2 DEF MediaInv
  <2> QED BY <1>3, <2>3
<1>5. CASE media_stage = "decoded" /\ x # media_by
  <2>1. x = Media!Peer(media_by) /\ media_by \in Agent
    BY <1>5, MediaPeer DEF MediaInv
  <2>2. MediaOffered(media_sess[media_by].medial, media_sess[x].medial)
    BY <1>5, <2>1 DEF MediaInv
  <2>3. MediaOffered(media_sess[media_by].medial, s.medial)
    <3>1. Len(media_sess[media_by].medial) \in Nat /\ Len(s.medial) \in Nat
      BY <2>1 DEF MediaInv, MediaSess
    <3>2. \A i \in 1 .. Len(media_sess[media_by].medial) : i \in 1 .. Len(s.medial)
      BY <2>2, <3>1 DEF MediaOffered
    <3> QED BY <1>5, <2>2, <3>2 DEF MediaOffered
  <2>4. MediaOffered(media_sess'[media_by'].medial, media_sess'[Media!Peer(media_by')].medial)
    BY <1>1, <1>2, <1>5, <2>1, <2>3
  <2>5. media_msg \in Seq(MediaMsg) /\ media_by \in Agent
    BY DEF MediaInv
  <2>6. media_stage' = "decoded" /\ media_msg' \in Seq(MediaMsg) /\ media_by' \in Agent /\ ~media_agreed'
    BY <1>1, <1>5, <2>5
  <2>7. MediaInv'
    BY <1>2, <2>4, <2>6 DEF MediaInv
  <2> QED BY <1>3, <2>7
<1> QED BY <1>1, <1>3, <1>4, <1>5

(* A line that is exchanged for r. *)
LEMMA MediaEditedLine ==
  ASSUME MediaInv, NEW x \in Agent, NEW k \in DOMAIN media_sess[x].medial, NEW r \in MediaLine,
         NEW s, s = [media_sess[x] EXCEPT !.medial = [media_sess[x].medial EXCEPT ![k] = r]], Media!Edits(x, s),
         r.name = media_sess[x].medial[k].name,
         media_stage = "decoded" => \A l : MediaMet(l, media_sess[x].medial[k]) => MediaMet(l, r)
  PROVE  MediaInv' /\ MediaKeeps
<1> DEFINE M == [media_sess[x].medial EXCEPT ![k] = r]
<1>1. media_sess[x] \in MediaSess /\ media_sess[x].medial \in Seq(MediaLine) /\ k \in 1 .. Len(media_sess[x].medial)
  <2>1. media_sess[x] \in MediaSess
    BY DEF MediaInv
  <2> QED BY <2>1 DEF MediaSess
<1>2. M \in Seq(MediaLine) /\ Len(M) = Len(media_sess[x].medial)
  BY <1>1
<1>3. \A i \in 1 .. Len(M) : M[i] = IF i = k THEN r ELSE media_sess[x].medial[i]
  BY <1>1
<1>4. s = [media_sess[x] EXCEPT !.medial = M]
  OBVIOUS
<1> HIDE DEF M
<1>5. s \in MediaSess /\ s.medial = M
  BY <1>1, <1>2, <1>4 DEF MediaSess
<1>6. ASSUME NEW i \in 1 .. Len(s.medial)
      PROVE  /\ s.medial[i].name = media_sess[x].medial[i].name
             /\ media_stage = "decoded" => \A l : MediaMet(l, media_sess[x].medial[i]) => MediaMet(l, s.medial[i])
  BY <1>3, <1>5
<1> QED BY <1>2, <1>5, <1>6, MediaEdited

(* sdp_media_add() keeps the invariant. *)
LEMMA MediaAdd ==
  ASSUME MediaInv, NEW x \in Agent, NEW name \in DOMAIN Formats[x], Media!Add(x, name)
  PROVE  MediaInv' /\ MediaKeeps
<1> DEFINE m == Media!NewMedia(name, Formats[x][name])
           s == [media_sess[x] EXCEPT !.lmedial = Append(@, m)]
<1>1. Media!Edits(x, s)
  BY DEF Media!Add
<1>2. m \in MediaLine
  BY MediaFormats, MediaNew
<1>3. media_sess[x] \in MediaSess
  BY DEF MediaInv
<1> HIDE DEF m
<1>4. Append(media_sess[x].lmedial, m) \in Seq(MediaLine)
  BY <1>2, <1>3 DEF MediaSess
<1>5. s \in MediaSess /\ s.medial = media_sess[x].medial
  BY <1>3, <1>4 DEF MediaSess
<1> HIDE DEF s
<1> QED BY <1>1, <1>5, MediaEdited

(* So does a line that is dropped: it offers and takes nothing. *)
LEMMA MediaDrop ==
  ASSUME MediaInv, NEW x \in Agent, NEW k \in DOMAIN media_sess[x].medial, Media!Drop(x, k)
  PROVE  MediaInv' /\ MediaKeeps
<1> DEFINE m == media_sess[x].medial[k]
           e == <<>>
           r == [m EXCEPT !.lf = e, !.rf = e, !.disabled = TRUE]
           s == [media_sess[x] EXCEPT !.medial = [media_sess[x].medial EXCEPT ![k] = r]]
<1>1. Media!Edits(x, s)
  <2>1. s = [media_sess[x] EXCEPT !.medial[k] = [@ EXCEPT !.lf = e, !.rf = e, !.disabled = TRUE]]
    OBVIOUS
  <2> HIDE DEF s
  <2> QED BY <2>1 DEF Media!Drop
<1>2. m \in MediaLine
  <2>1. media_sess[x].medial \in Seq(MediaLine)
    BY DEF MediaInv, MediaSess
  <2> QED BY <2>1
<1>3. e \in MediaLf /\ e \in Seq(MediaFmt)
  <2>1. e \in Seq(MediaFmt) /\ Len(e) = 0
    OBVIOUS
  <2> HIDE DEF e
  <2>2. \A i \in 1 .. Len(e) : FALSE
    BY <2>1
  <2> QED BY <2>1, <2>2 DEF MediaLf, MediaOwn
<1> HIDE DEF e, m
<1>4. r \in MediaLine /\ r.name = m.name /\ (r.rport <=> m.rport) /\ r.rdir = m.rdir /\ r.disabled
  BY <1>2, <1>3 DEF MediaLine
<1> HIDE DEF r
<1>5. \A l : MediaMet(l, m) => MediaMet(l, r)
  BY <1>4 DEF MediaMet
<1> HIDE DEF s
<1>6. s = [media_sess[x] EXCEPT !.medial = [media_sess[x].medial EXCEPT ![k] = r]]
  BY DEF s
<1> QED BY <1>1, <1>4, <1>5, <1>6, MediaEditedLine DEF m

(* A direction is a matter of the own half. *)
LEMMA MediaSetLdir ==
  ASSUME MediaInv, NEW x \in Agent, NEW k \in DOMAIN media_sess[x].medial, NEW d \in Media!Dirs, Media!SetLdir(x, k, d)
  PROVE  MediaInv' /\ MediaKeeps
<1> DEFINE m == media_sess[x].medial[k]
           r == [m EXCEPT !.ldir = d]
           s == [media_sess[x] EXCEPT !.medial = [media_sess[x].medial EXCEPT ![k] = r]]
<1>1. Media!Edits(x, s)
  <2>1. s = [media_sess[x] EXCEPT !.medial[k].ldir = d]
    OBVIOUS
  <2> HIDE DEF s
  <2> QED BY <2>1 DEF Media!SetLdir
<1>2. m \in MediaLine
  <2>1. media_sess[x].medial \in Seq(MediaLine)
    BY DEF MediaInv, MediaSess
  <2> QED BY <2>1
<1> HIDE DEF m
<1>3. /\ r \in MediaLine /\ r.name = m.name /\ (r.rport <=> m.rport) /\ r.rdir = m.rdir
      /\ (r.disabled <=> m.disabled) /\ r.rf = m.rf /\ r.lf = m.lf
  BY <1>2 DEF MediaLine
<1> HIDE DEF r
<1>4. \A l : MediaMet(l, m) => MediaMet(l, r)
  BY <1>3 DEF MediaMet
<1> HIDE DEF s
<1>5. s = [media_sess[x] EXCEPT !.medial = [media_sess[x].medial EXCEPT ![k] = r]]
  BY DEF s
<1> QED BY <1>1, <1>3, <1>4, <1>5, MediaEditedLine DEF m

(* A line that is disabled has taken every offer. *)
LEMMA MediaSetDisabled ==
  ASSUME MediaInv, NEW x \in Agent, NEW k \in DOMAIN media_sess[x].medial, NEW b \in BOOLEAN,
         Media!SetDisabled(x, k, b)
  PROVE  MediaInv' /\ MediaKeeps
<1> DEFINE m == media_sess[x].medial[k]
           r == [m EXCEPT !.disabled = b]
           s == [media_sess[x] EXCEPT !.medial = [media_sess[x].medial EXCEPT ![k] = r]]
<1>1. Media!Edits(x, s) /\ (b \/ media_stage = "idle")
  <2>1. s = [media_sess[x] EXCEPT !.medial[k].disabled = b]
    OBVIOUS
  <2> HIDE DEF s
  <2> QED BY <2>1 DEF Media!SetDisabled
<1>2. m \in MediaLine
  <2>1. media_sess[x].medial \in Seq(MediaLine)
    BY DEF MediaInv, MediaSess
  <2> QED BY <2>1
<1> HIDE DEF m
<1>3. /\ r \in MediaLine /\ r.name = m.name /\ (r.rport <=> m.rport) /\ r.rdir = m.rdir
      /\ (r.disabled <=> b)
  BY <1>2 DEF MediaLine
<1> HIDE DEF r
<1>4. media_stage = "decoded" => \A l : MediaMet(l, m) => MediaMet(l, r)
  BY <1>1, <1>3 DEF MediaMet
<1> HIDE DEF s
<1>5. s = [media_sess[x] EXCEPT !.medial = [media_sess[x].medial EXCEPT ![k] = r]]
  BY DEF s
<1> QED BY <1>1, <1>3, <1>4, <1>5, MediaEditedLine DEF m

(* An offer is what its lines say. *)
LEMMA MediaOffer ==
  ASSUME MediaInv, NEW x \in Agent, Media!Offer(x)
  PROVE  MediaInv' /\ MediaKeeps
<1> DEFINE s == Media!Offered(media_sess[x])
<1>1. /\ media_sess' = [media_sess EXCEPT ![x] = s] /\ media_msg' = Media!Encode(s, TRUE) /\ media_stage' = "offered" /\ media_by' = x /\ ~media_agreed'
  BY DEF Media!Offer
<1>2. media_sess[x] \in MediaSess
  BY DEF MediaInv
<1>3. s \in MediaSess /\ MediaPlaced(media_sess[x], s)
  BY <1>2, MediaOffers
<1> HIDE DEF s
<1>4. media_sess' \in [Agent -> MediaSess] /\ media_sess'[x] = s /\ \A y \in Agent : y # x => media_sess'[y] = media_sess[y]
  BY <1>1, <1>3 DEF MediaInv
<1>5. MediaKeeps
  <2>1. \A y \in Agent : MediaPlaced(media_sess[y], media_sess[y])
    BY DEF MediaPlaced
  <2> QED BY <1>3, <1>4, <2>1 DEF MediaKeeps
<1>6. Media!Encode(s, TRUE) \in Seq(MediaMsg)
  BY <1>3, MediaEncoded
<1>7. MediaInv'
  BY <1>1, <1>4, <1>6 DEF MediaInv
<1> QED BY <1>5, <1>7

(* sdp_decode() of the offer, whether it fails or not. *)
LEMMA MediaDecodeOffer ==
  ASSUME MediaInv, Media!DecodeOffer
  PROVE  MediaInv' /\ MediaKeeps
<1> DEFINE p == Media!Peer(media_by)
           d == Media!Decode(media_sess[p], media_msg, TRUE)
<1>1. /\ media_stage = "offered" /\ media_sess' = [media_sess EXCEPT ![p] = d.s]
      /\ media_stage' = IF d.err THEN "idle" ELSE "decoded"
      /\ media_msg' = media_msg /\ media_by' = media_by /\ media_agreed' = media_agreed
  BY DEF Media!DecodeOffer
<1>2. /\ media_by \in Agent /\ p \in Agent /\ p # media_by /\ media_sess[media_by] \in MediaSess /\ media_sess[p] \in MediaSess
      /\ media_msg \in Seq(MediaMsg) /\ media_msg = Media!Encode(media_sess[media_by], TRUE) /\ ~media_agreed
  BY <1>1, MediaPeer DEF MediaInv
<1>3. /\ Len(media_msg) = Len(media_sess[media_by].medial)
      /\ \A i \in 1 .. Len(media_msg) : /\ media_msg[i] = Media!MediaEncode(media_sess[media_by].medial[i], TRUE)
                                        /\ MediaWrote(media_sess[media_by].medial[i], TRUE, media_msg[i])
  BY <1>2, MediaEncoded
<1>4. \A i \in 1 .. Len(media_msg) : media_msg[i].port => MediaSent(media_msg[i].fmts)
  BY <1>3 DEF MediaWrote
<1>5. MediaRead(media_sess[p], media_msg, TRUE, d)
  BY <1>2, <1>4, MediaReads
<1> HIDE DEF d
<1>6. d.s \in MediaSess /\ d.s.medial \in Seq(MediaLine) /\ media_sess[p].medial \in Seq(MediaLine)
  BY <1>2, <1>5 DEF MediaRead, MediaSess
<1>7. MediaPlaced(media_sess[p], d.s)
  <2>1. /\ DOMAIN media_sess[p].medial = 1 .. Len(media_sess[p].medial) /\ DOMAIN d.s.medial = 1 .. Len(d.s.medial)
        /\ Len(media_sess[p].medial) \in Nat /\ Len(d.s.medial) \in Nat
    BY <1>6
  <2> QED BY <1>5, <2>1 DEF MediaRead, MediaPlaced
<1>8. media_sess' \in [Agent -> MediaSess] /\ media_sess'[p] = d.s /\ media_sess'[media_by] = media_sess[media_by]
      /\ \A y \in Agent : y # p => media_sess'[y] = media_sess[y]
  BY <1>1, <1>2, <1>6 DEF MediaInv
<1>9. MediaKeeps
  <2>1. \A y \in Agent : MediaPlaced(media_sess[y], media_sess[y])
    BY DEF MediaPlaced
  <2> QED BY <1>7, <1>8, <2>1 DEF MediaKeeps
<1>10. ~d.err => MediaOffered(media_sess[media_by].medial, d.s.medial)
  <2> SUFFICES ASSUME ~d.err PROVE MediaOffered(media_sess[media_by].medial, d.s.medial)
    OBVIOUS
  <2>1. Len(media_sess[media_by].medial) <= Len(d.s.medial)
    BY <1>3, <1>5 DEF MediaRead
  <2>2. ASSUME NEW i \in 1 .. Len(media_sess[media_by].medial)
        PROVE  MediaMet(Media!MediaEncode(media_sess[media_by].medial[i], TRUE), d.s.medial[i])
    <3>1. i \in 1 .. Len(media_msg) /\ media_msg[i] = Media!MediaEncode(media_sess[media_by].medial[i], TRUE)
      BY <1>3
    <3>2. PICK f : MediaTook(f, media_msg[i], TRUE, d.s.medial[i])
      BY <1>5, <3>1 DEF MediaRead
    <3> QED BY <3>1, <3>2, MediaMeets
  <2> QED BY <2>1, <2>2 DEF MediaOffered
<1>11. MediaInv'
  <2>1. CASE d.err
    BY <1>1, <1>2, <1>8, <2>1 DEF MediaInv
  <2>2. CASE ~d.err
    <3>1. MediaOffered(media_sess'[media_by'].medial, media_sess'[Media!Peer(media_by')].medial)
      BY <1>1, <1>8, <1>10, <2>2
    <3> QED BY <1>1, <1>2, <1>8, <2>2, <3>1 DEF MediaInv
  <2> QED BY <2>1, <2>2
<1> QED BY <1>9, <1>11

(* An answer is what the lines of the answerer say. *)
LEMMA MediaAnswer ==
  ASSUME MediaInv, Media!Answer
  PROVE  MediaInv' /\ MediaKeeps
<1>1. /\ media_stage = "decoded" /\ media_msg' = Media!Encode(media_sess[Media!Peer(media_by)], FALSE) /\ media_stage' = "answered"
      /\ media_sess' = media_sess /\ media_by' = media_by /\ media_agreed' = media_agreed
  BY DEF Media!Answer
<1>2. media_by \in Agent /\ Media!Peer(media_by) \in Agent /\ media_sess[Media!Peer(media_by)] \in MediaSess
  BY MediaPeer DEF MediaInv
<1>3. Media!Encode(media_sess[Media!Peer(media_by)], FALSE) \in Seq(MediaMsg)
  BY <1>2, MediaEncoded
<1>4. MediaInv'
  BY <1>1, <1>2, <1>3 DEF MediaInv
<1>5. MediaKeeps
  BY <1>1 DEF MediaKeeps, MediaPlaced
<1> QED BY <1>4, <1>5

(* sdp_decode() of the answer brings both ends together, or says that it
   failed. *)
LEMMA MediaDecodeAnswer ==
  ASSUME MediaInv, Media!DecodeAnswer
  PROVE  MediaInv' /\ MediaKeeps
<1> DEFINE p == Media!Peer(media_by)
           A == media_sess[media_by].medial
           B == media_sess[p].medial
           d == Media!Decode(media_sess[media_by], media_msg, FALSE)
<1>1. /\ media_stage = "answered" /\ media_sess' = [media_sess EXCEPT ![media_by] = d.s] /\ (media_agreed' <=> ~d.err)
      /\ media_stage' = "idle" /\ media_msg' = media_msg /\ media_by' = media_by
  BY DEF Media!DecodeAnswer
<1>2. /\ media_by \in Agent /\ p \in Agent /\ p # media_by /\ Media!Peer(p) = media_by /\ \A y \in Agent : y # media_by => y = p
      /\ media_sess[media_by] \in MediaSess /\ media_sess[p] \in MediaSess
      /\ media_msg \in Seq(MediaMsg) /\ media_msg = Media!Encode(media_sess[p], FALSE) /\ MediaOffered(A, B)
  BY <1>1, MediaPeer DEF MediaInv
<1>3. /\ Len(media_msg) = Len(B)
      /\ \A i \in 1 .. Len(media_msg) : MediaWrote(B[i], FALSE, media_msg[i])
  BY <1>2, MediaEncoded
<1>4. \A i \in 1 .. Len(media_msg) : media_msg[i].port => MediaSent(media_msg[i].fmts)
  BY <1>3 DEF MediaWrote
<1>5. /\ A \in Seq(MediaLine) /\ B \in Seq(MediaLine) /\ Len(A) \in Nat /\ Len(B) \in Nat /\ Len(A) <= Len(B)
      /\ DOMAIN A = 1 .. Len(A)
  BY <1>2 DEF MediaSess, MediaOffered
<1>6. ASSUME NEW i \in 1 .. Len(A)
      PROVE  /\ i \in 1 .. Len(B) /\ A[i] \in MediaLine /\ B[i] \in MediaLine
             /\ MediaWrote(A[i], TRUE, Media!MediaEncode(A[i], TRUE)) /\ MediaMet(Media!MediaEncode(A[i], TRUE), B[i])
             /\ MediaWrote(B[i], FALSE, media_msg[i])
  <2>1. i \in 1 .. Len(B)
    BY <1>5
  <2>2. A[i] \in MediaLine /\ B[i] \in MediaLine
    BY <1>5, <2>1
  <2> HIDE DEF A, B
  <2>3. MediaWrote(A[i], TRUE, Media!MediaEncode(A[i], TRUE))
    BY <2>2, MediaEncodes
  <2>4. MediaMet(Media!MediaEncode(A[i], TRUE), B[i])
    BY <1>2 DEF MediaOffered
  <2> QED BY <1>3, <2>1, <2>2, <2>3, <2>4
<1>7. \A i \in 1 .. Len(media_msg) : i <= Len(A) => MediaAnswers(A[i], media_msg[i])
  <2> TAKE i \in 1 .. Len(media_msg)
  <2> SUFFICES ASSUME i <= Len(A) PROVE MediaAnswers(A[i], media_msg[i])
    OBVIOUS
  <2>1. i \in 1 .. Len(A)
    BY <1>3, <1>5
  <2> HIDE DEF A, B
  <2> QED BY <1>6, <2>1, MediaAnswering
<1>8. MediaRead(media_sess[media_by], media_msg, FALSE, d)
  BY <1>2, <1>4, <1>7, MediaReads
<1> HIDE DEF d
<1>9. d.s \in MediaSess /\ d.s.medial \in Seq(MediaLine) /\ Len(d.s.medial) = Len(A)
  BY <1>8 DEF MediaRead, MediaSess
<1>10. MediaPlaced(media_sess[media_by], d.s)
  <2>1. DOMAIN d.s.medial = 1 .. Len(A)
    BY <1>9
  <2> QED BY <1>5, <1>8, <2>1 DEF MediaRead, MediaPlaced
<1>11. media_sess' \in [Agent -> MediaSess] /\ media_sess'[media_by] = d.s /\ media_sess'[p] = media_sess[p]
       /\ \A y \in Agent : y # media_by => media_sess'[y] = media_sess[y]
  BY <1>1, <1>2, <1>9 DEF MediaInv
<1>12. MediaKeeps
  <2>1. \A y \in Agent : MediaPlaced(media_sess[y], media_sess[y])
    BY DEF MediaPlaced
  <2> QED BY <1>10, <1>11, <2>1 DEF MediaKeeps
<1>13. ~d.err => MediaEven(d.s.medial, B) /\ MediaEven(B, d.s.medial)
  <2> SUFFICES ASSUME ~d.err PROVE MediaEven(d.s.medial, B) /\ MediaEven(B, d.s.medial)
    OBVIOUS
  <2>1. Len(B) = Len(A)
    BY <1>3, <1>5, <1>8, <1>9 DEF MediaRead
  <2>2. ASSUME NEW i \in 1 .. Len(A)
        PROVE  MediaAlike(d.s.medial[i], B[i]) /\ MediaAlike(B[i], d.s.medial[i])
    <3>1. i \in 1 .. Len(media_msg) /\ i <= Len(A)
      BY <1>3, <1>5, <2>1
    <3>2. PICK f : MediaTook(f, media_msg[i], FALSE, d.s.medial[i]) /\ MediaHalf(A[i], f)
      BY <1>8, <3>1 DEF MediaRead
    <3> DEFINE l == Media!MediaEncode(A[i], TRUE)
               a == A[i]
               b == B[i]
    <3>3. /\ a \in MediaLine /\ b \in MediaLine /\ MediaWrote(a, TRUE, l) /\ MediaMet(l, b)
          /\ MediaWrote(b, FALSE, media_msg[i]) /\ MediaHalf(a, f) /\ MediaTook(f, media_msg[i], FALSE, d.s.medial[i])
      BY <1>6, <3>2
    <3> HIDE DEF l, a, b
    <3>4. MediaAlike(d.s.medial[i], b) /\ MediaAlike(b, d.s.medial[i])
      BY <3>3, MediaAgrees
    <3> QED BY <3>4 DEF b
  <2> HIDE DEF A, B
  <2> QED BY <1>9, <2>1, <2>2 DEF MediaEven
<1>14. media_agreed' => \A x \in Agent : MediaEven(media_sess'[x].medial, media_sess'[Media!Peer(x)].medial)
  BY <1>1, <1>2, <1>11, <1>13
<1>15. MediaInv'
  BY <1>1, <1>2, <1>11, <1>14 DEF MediaInv
<1> QED BY <1>12, <1>15

(* A refused offer is rolled back nowhere, and agreed with nobody. *)
LEMMA MediaRefused ==
  ASSUME MediaInv, Media!Refused
  PROVE  MediaInv' /\ MediaKeeps
<1>1. media_stage' = "idle" /\ media_sess' = media_sess /\ media_msg' = media_msg /\ media_by' = media_by /\ media_agreed' = media_agreed
  BY DEF Media!Refused
<1>2. MediaInv'
  BY <1>1 DEF MediaInv
<1>3. MediaKeeps
  BY <1>1 DEF MediaKeeps, MediaPlaced
<1> QED BY <1>2, <1>3

(* Every step of offer and answer keeps the invariant, and no line moves. *)
LEMMA MediaStep ==
  ASSUME MediaInv, [Media!Next]_media
  PROVE  MediaInv' /\ MediaKeeps
<1>1. CASE UNCHANGED media
  <2>1. /\ media_sess' = media_sess /\ media_msg' = media_msg /\ media_stage' = media_stage /\ media_by' = media_by /\ media_agreed' = media_agreed
    BY <1>1 DEF media
  <2>2. MediaInv'
    BY <2>1 DEF MediaInv
  <2>3. MediaKeeps
    BY <2>1 DEF MediaKeeps, MediaPlaced
  <2> QED BY <2>2, <2>3
<1>2. CASE \E x \in Agent : \E name \in DOMAIN Formats[x] : Media!Add(x, name)
  BY <1>2, MediaAdd
<1>3. CASE \E x \in Agent : \E k \in DOMAIN media_sess[x].medial : Media!Drop(x, k)
  BY <1>3, MediaDrop
<1>4. CASE \E x \in Agent : \E k \in DOMAIN media_sess[x].medial : \E d \in Media!Dirs : Media!SetLdir(x, k, d)
  BY <1>4, MediaSetLdir
<1>5. CASE \E x \in Agent : \E k \in DOMAIN media_sess[x].medial : \E b \in BOOLEAN : Media!SetDisabled(x, k, b)
  BY <1>5, MediaSetDisabled
<1>6. CASE \E x \in Agent : Media!Offer(x)
  BY <1>6, MediaOffer
<1>7. CASE Media!DecodeOffer
  BY <1>7, MediaDecodeOffer
<1>8. CASE Media!Answer
  BY <1>8, MediaAnswer
<1>9. CASE Media!DecodeAnswer
  BY <1>9, MediaDecodeAnswer
<1>10. CASE Media!Refused
  BY <1>10, MediaRefused
<1> QED BY <1>1, <1>2, <1>3, <1>4, <1>5, <1>6, <1>7, <1>8, <1>9, <1>10 DEF Media!Next

(* The invariant holds the agreement of the ends. *)
LEMMA MediaProperties == MediaInv => Media!EndsAgree
<1> SUFFICES ASSUME MediaInv, media_agreed PROVE Media!EndsAgree
  BY DEF Media!EndsAgree
<1> DEFINE a == CHOOSE x \in Agent : TRUE
           A == media_sess[a].medial
           B == media_sess[Media!Peer(a)].medial
<1>1. a \in Agent
  BY MediaAssumption
<1> HIDE DEF a
<1>2. Len(A) = Len(B) /\ \A i \in 1 .. Len(A) : MediaAlike(A[i], B[i])
  BY <1>1 DEF MediaInv, MediaEven
<1>3. DOMAIN A = 1 .. Len(A)
  <2>1. media_sess[a] \in MediaSess
    BY <1>1 DEF MediaInv
  <2>2. media_sess[a].medial \in Seq(MediaLine)
    BY <2>1 DEF MediaSess
  <2> QED BY <2>2
<1>4. \A i \in DOMAIN A :
         /\ A[i].name = B[i].name
         /\ Media!Open(A[i]) <=> Media!Open(B[i])
         /\ Media!Open(A[i]) =>
               /\ Media!Dir(A[i]) = Media!Mirror(Media!Dir(B[i]))
               /\ \A p \in {<<A[i], B[i]>>, <<B[i], A[i]>>} :
                     /\ Media!Rformats(p[1]) # {}
                     /\ Media!Rformat(p[1]).codec \in {f.codec : f \in Media!Range(p[1].lf)}
                     /\ Media!Lformats(p[2], Media!Rformat(p[1]).id) # {}
                     /\ Media!Lformat(p[2], Media!Rformat(p[1]).id).codec = Media!Rformat(p[1]).codec
  <2> TAKE i \in DOMAIN A
  <2>1. MediaAlike(A[i], B[i])
    BY <1>2, <1>3
  <2> HIDE DEF A, B
  <2> QED BY <2>1 DEF MediaAlike, MediaReadable
<1> QED BY <1>2, <1>4 DEF Media!EndsAgree, a

===============================================================================
