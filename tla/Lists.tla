---------------------------------- MODULE Lists --------------------------------
(***************************************************************************)
(* Linked lists (re/src/list/list.c) and the hash tables made of them      *)
(* (re/src/hash/hash.c), by their pointers.  What a list promises is kept  *)
(* beside the pointers as a sequence.  A walk (list_apply()) calls a       *)
(* handler between its steps, which may unlink any element - the one it is *)
(* given, or the one the walk goes to next - and append or prepend others. *)
(***************************************************************************)
EXTENDS Integers, Sequences, SequencesExt, FiniteSets

CONSTANTS
    Elem,     \* list elements (struct le)
    Bsize,    \* h->bsize, a power of 2
    Key       \* the key an element is hashed with

VARIABLES
    head, tail,   \* of every bucket
    nxt, prv,     \* le->next, le->prev
    in,           \* le->list
    seq,          \* what every list is: the sequence of its elements
    walk,         \* list_apply() under way: [list, le, fwd, seen, must, cut]
    sort          \* list_sort() under way: [list, le, sort]

vars == <<head, tail, nxt, prv, in, seq, walk, sort>>
ptrs == <<head, tail, nxt, prv, in>>

NULL == "NULL"
Bucket == 0 .. Bsize - 1
NOWALK == [list |-> -1, le |-> NULL, fwd |-> TRUE, seen |-> <<>>, must |-> {}, cut |-> FALSE]
NOSORT == [list |-> -1, le |-> NULL, sort |-> FALSE]

(* hash_alloc(), list_init() *)
Init ==
    /\ head = [b \in Bucket |-> NULL] /\ tail = [b \in Bucket |-> NULL]
    /\ nxt = [e \in Elem |-> NULL] /\ prv = [e \in Elem |-> NULL]
    /\ in = [e \in Elem |-> -1] /\ seq = [b \in Bucket |-> <<>>]
    /\ walk = NOWALK /\ sort = NOSORT

(* hash_append(), hash_lookup(): key & (h->bsize-1) *)
BucketOf(e) == Key[e] % Bsize

Quiet == sort.list = -1

(* a handler that links again what it was given makes the walk endless *)
MayLink(e) == Quiet /\ e \notin Range(walk.seen)

(* list_append(); an element that is linked already is left where it is *)
Append_(e) ==
    LET b == BucketOf(e)
    IN  /\ MayLink(e)
        /\ IF in[e] # -1 THEN UNCHANGED <<ptrs, seq>>
           ELSE /\ prv' = [prv EXCEPT ![e] = tail[b]]
                /\ nxt' = IF tail[b] = NULL THEN [nxt EXCEPT ![e] = NULL]
                          ELSE [nxt EXCEPT ![e] = NULL, ![tail[b]] = e]
                /\ in' = [in EXCEPT ![e] = b]
                /\ head' = IF head[b] = NULL THEN [head EXCEPT ![b] = e] ELSE head
                /\ tail' = [tail EXCEPT ![b] = e]
                /\ seq' = [seq EXCEPT ![b] = Append(@, e)]
        /\ UNCHANGED <<walk, sort>>

(* list_prepend() *)
Prepend(e) ==
    LET b == BucketOf(e)
    IN  /\ MayLink(e)
        /\ IF in[e] # -1 THEN UNCHANGED <<ptrs, seq>>
           ELSE /\ nxt' = [nxt EXCEPT ![e] = head[b]]
                /\ prv' = IF head[b] = NULL THEN [prv EXCEPT ![e] = NULL]
                          ELSE [prv EXCEPT ![e] = NULL, ![head[b]] = e]
                /\ in' = [in EXCEPT ![e] = b]
                /\ tail' = IF tail[b] = NULL THEN [tail EXCEPT ![b] = e] ELSE tail
                /\ head' = [head EXCEPT ![b] = e]
                /\ seq' = [seq EXCEPT ![b] = <<e>> \o @]
        /\ UNCHANGED <<walk, sort>>

Place(e, f) == CHOOSE i \in DOMAIN seq[in[e]] : seq[in[e]][i] = f

(* list_insert_before(): f before e of the same list *)
InsertBefore(e, f) ==
    LET b == in[e] IN
    /\ Quiet /\ walk = NOWALK /\ b # -1 /\ b = BucketOf(f) /\ in[f] = -1
    /\ nxt' = IF prv[e] = NULL THEN [nxt EXCEPT ![f] = e]
              ELSE [nxt EXCEPT ![prv[e]] = f, ![f] = e]
    /\ head' = IF prv[e] = NULL THEN [head EXCEPT ![b] = f] ELSE head
    /\ prv' = [prv EXCEPT ![f] = prv[e], ![e] = f]
    /\ in' = [in EXCEPT ![f] = b]
    /\ seq' = [seq EXCEPT ![b] = InsertAt(@, Place(e, e), f)]
    /\ UNCHANGED <<tail, walk, sort>>

(* the pointers after list_insert_after(): f after e in list b *)
PtrsAfter(b, e, f, h, t, n, p) ==
    /\ prv' = IF n[e] = NULL THEN [p EXCEPT ![f] = e]
              ELSE [p EXCEPT ![n[e]] = f, ![f] = e]
    /\ tail' = IF n[e] = NULL THEN [t EXCEPT ![b] = f] ELSE t
    /\ nxt' = [n EXCEPT ![f] = n[e], ![e] = f]
    /\ in' = [in EXCEPT ![f] = b]
    /\ head' = h

(* list_insert_after() *)
InsertAfter(e, f) ==
    LET b == in[e] IN
    /\ Quiet /\ walk = NOWALK /\ b # -1 /\ b = BucketOf(f) /\ in[f] = -1
    /\ PtrsAfter(b, e, f, head, tail, nxt, prv)
    /\ seq' = [seq EXCEPT ![b] = InsertAt(@, Place(e, e) + 1, f)]
    /\ UNCHANGED <<walk, sort>>

(* list_unlink(), by the pointers it leaves *)
HeadWithout(e) == IF prv[e] = NULL THEN [head EXCEPT ![in[e]] = nxt[e]] ELSE head
TailWithout(e) == IF nxt[e] = NULL THEN [tail EXCEPT ![in[e]] = prv[e]] ELSE tail
NextWithout(e) ==
    IF prv[e] = NULL THEN [nxt EXCEPT ![e] = NULL]
    ELSE [nxt EXCEPT ![prv[e]] = nxt[e], ![e] = NULL]
PrevWithout(e) ==
    IF nxt[e] = NULL THEN [prv EXCEPT ![e] = NULL]
    ELSE [prv EXCEPT ![nxt[e]] = prv[e], ![e] = NULL]

(* list_unlink(), hash_unlink(): any element, also from the handler of a walk.
   The walk has read its next element already (list.c:281): one that unlinks
   that leaves the walk with an element that leads nowhere *)
Unlink(e) ==
    /\ Quiet
    /\ IF in[e] = -1 THEN UNCHANGED <<ptrs, seq, walk>>
       ELSE /\ head' = HeadWithout(e) /\ tail' = TailWithout(e)
            /\ nxt' = NextWithout(e) /\ prv' = PrevWithout(e)
            /\ in' = [in EXCEPT ![e] = -1]
            /\ seq' = [seq EXCEPT ![in[e]] = SelectSeq(@, LAMBDA x : x # e)]
            /\ walk' = [walk EXCEPT !.must = @ \ {e}, !.cut = @ \/ e = walk.le]
    /\ UNCHANGED sort

(* list_flush(), hash_flush() of one bucket *)
Flush(b) ==
    LET all == Range(seq[b])
    IN  /\ Quiet /\ walk = NOWALK
        /\ nxt' = [e \in Elem |-> IF e \in all THEN NULL ELSE nxt[e]]
        /\ prv' = [e \in Elem |-> IF e \in all THEN NULL ELSE prv[e]]
        /\ in' = [e \in Elem |-> IF e \in all THEN -1 ELSE in[e]]
        /\ head' = [head EXCEPT ![b] = NULL] /\ tail' = [tail EXCEPT ![b] = NULL]
        /\ seq' = [seq EXCEPT ![b] = <<>>]
        /\ UNCHANGED <<walk, sort>>

(* list_apply(), hash_lookup(), a bucket of hash_apply() *)
StartWalk(b, fwd) ==
    /\ Quiet /\ walk = NOWALK
    /\ walk' = [NOWALK EXCEPT !.list = b, !.le = IF fwd THEN head[b] ELSE tail[b],
                              !.fwd = fwd, !.must = Range(seq[b])]
    /\ UNCHANGED <<ptrs, seq, sort>>

(* one turn of its loop: the successor is read before the handler is called *)
WalkStep ==
    /\ Quiet /\ walk # NOWALK /\ walk.le # NULL
    /\ walk' = [walk EXCEPT !.seen = Append(@, walk.le),
                            !.le = IF walk.fwd THEN nxt[walk.le] ELSE prv[walk.le]]
    /\ UNCHANGED <<ptrs, seq, sort>>

(* the end of the list, or a handler that returned true *)
StopWalk ==
    /\ Quiet /\ walk # NOWALK
    /\ walk' = NOWALK
    /\ UNCHANGED <<ptrs, seq, sort>>

(* list_sort() by the keys *)
StartSort(b) ==
    /\ Quiet /\ walk = NOWALK
    /\ sort' = [list |-> b, le |-> head[b], sort |-> FALSE]
    /\ UNCHANGED <<ptrs, seq, walk>>

(* the sort handler: true when the two are in order *)
InOrder(e, f) == Key[e] <= Key[f]

(* one turn: on to the next, or the element moves behind its successor *)
SortStep ==
    LET b == sort.list
        e == sort.le
        f == nxt[e]
        i == CHOOSE j \in DOMAIN seq[b] : seq[b][j] = e
    IN  /\ ~Quiet /\ e # NULL /\ f # NULL
        /\ IF InOrder(e, f)
           THEN sort' = [sort EXCEPT !.le = f] /\ UNCHANGED <<ptrs, seq>>
           ELSE /\ PtrsAfter(b, f, e, HeadWithout(e), TailWithout(e), NextWithout(e), PrevWithout(e))
                /\ seq' = [seq EXCEPT ![b][i] = f, ![b][i + 1] = e]
                /\ sort' = [sort EXCEPT !.sort = TRUE]
        /\ UNCHANGED walk

(* the end of a pass: once more when something moved *)
SortPass ==
    /\ ~Quiet /\ (IF sort.le = NULL THEN TRUE ELSE nxt[sort.le] = NULL)
    /\ sort' = IF sort.sort THEN [sort EXCEPT !.le = head[sort.list], !.sort = FALSE]
               ELSE NOSORT
    /\ UNCHANGED <<ptrs, seq, walk>>

Next ==
    \/ \E e \in Elem : Append_(e) \/ Prepend(e) \/ Unlink(e)
    \/ \E e, f \in Elem : InsertBefore(e, f) \/ InsertAfter(e, f)
    \/ \E b \in Bucket : Flush(b) \/ StartSort(b)
    \/ \E b \in Bucket, fwd \in BOOLEAN : StartWalk(b, fwd)
    \/ WalkStep \/ StopWalk \/ SortStep \/ SortPass

Spec == Init /\ [][Next]_vars

TypeOK ==
    /\ head \in [Bucket -> Elem \cup {NULL}] /\ tail \in [Bucket -> Elem \cup {NULL}]
    /\ nxt \in [Elem -> Elem \cup {NULL}] /\ prv \in [Elem -> Elem \cup {NULL}]
    /\ in \in [Elem -> Bucket \cup {-1}]

(* The pointers are the sequence, read from either end, and an element is in
   one list or in none: what an operation of any kind does to them in the
   middle of a walk or of a sort included.  One that is in none leads nowhere,
   and so does not take a walk that still holds it into a list. *)
PointersAgree ==
    /\ \A b \in Bucket :
          LET s == seq[b] IN
          /\ head[b] = IF s = <<>> THEN NULL ELSE s[1]
          /\ tail[b] = IF s = <<>> THEN NULL ELSE s[Len(s)]
          /\ \A i \in DOMAIN s :
                /\ nxt[s[i]] = IF i = Len(s) THEN NULL ELSE s[i + 1]
                /\ prv[s[i]] = IF i = 1 THEN NULL ELSE s[i - 1]
                /\ in[s[i]] = b
          /\ Cardinality(Range(s)) = Len(s)
    /\ \A e \in Elem : in[e] = -1 =>
          nxt[e] = NULL /\ prv[e] = NULL /\ \A b \in Bucket : e \notin Range(seq[b])

(* A walk that came to the end gave the handler every element that was there
   from its start to its end, none of them twice, although the handler
   unlinked elements under it - but for the one that was next: that one is
   still given to the handler, and the walk ends with it or, when it was linked
   again, goes on from its new place; what it has not come to may be missed. *)
WalkCovers ==
    ~walk.cut =>
        /\ walk # NOWALK /\ walk.le = NULL => walk.must \subseteq Range(walk.seen)
        /\ Cardinality(Range(walk.seen)) = Len(walk.seen)

(* A pass of the sort leaves what it has passed no worse; the last pass
   finds the list in order. *)
SortSorts ==
    sort.list # -1 /\ ~sort.sort /\ sort.le # NULL =>
        LET s == seq[sort.list]
            i == CHOOSE j \in DOMAIN s : s[j] = sort.le
        IN  \A j \in 1 .. i - 1 : InOrder(s[j], s[j + 1])
===============================================================================
