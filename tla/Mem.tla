----------------------------------- MODULE Mem ---------------------------------
(***************************************************************************)
(* Reference-counted memory (re/src/mem/mem.c) under two threads, the main *)
(* loop and the database thread.  The list of objects and the statistics   *)
(* are kept under mem_mutex, which every operation takes and leaves more   *)
(* than once; the counter of an object is not, so an object is referenced  *)
(* by one thread at a time and is handed over with all its references.     *)
(***************************************************************************)
EXTENDS Integers, FiniteSets, FiniteSetsExt

CONSTANTS
    Thread, Obj,
    Sizes,       \* sizes objects are allocated with
    Threshold,   \* mem_threshold_set(): blocks, -1 when disabled
    MaxRefs      \* bound on the references to one object

VARIABLES
    heap,     \* objects malloc() gave out
    nrefs,    \* m->nrefs
    size,     \* m->size
    owner,    \* the thread that may use the object
    held,     \* references the program holds and did not give back
    meml,     \* the list of all objects
    memstat,  \* [blocks_cur, bytes_cur]
    pc        \* per thread the operation under way: [at, m, size]

vars == <<heap, nrefs, size, owner, held, meml, memstat, pc>>

NOBODY == "nobody"
IDLE == [at |-> "idle", m |-> NOBODY, size |-> 0]
At(at, m, n) == [at |-> at, m |-> m, size |-> n]

Init ==
    /\ heap = {} /\ meml = {} /\ memstat = [blocks_cur |-> 0, bytes_cur |-> 0]
    /\ nrefs = [m \in Obj |-> 0] /\ size = [m \in Obj |-> 0]
    /\ held = [m \in Obj |-> 0] /\ owner = [m \in Obj |-> NOBODY]
    /\ pc = [t \in Thread |-> IDLE]

(* the simulated out-of-memory test of mem_alloc() and mem_realloc() *)
MayAllocate == Threshold = -1 \/ memstat.blocks_cur < Threshold

Step(t, at) == pc[t].at = at
Goto(t, p) == pc' = [pc EXCEPT ![t] = p]

(* mem_alloc(): the threshold is looked at ... *)
Alloc(t) ==
    \E n \in Sizes :
        /\ Step(t, "idle") /\ MayAllocate
        /\ Goto(t, At("malloc", NOBODY, n))
        /\ UNCHANGED <<heap, nrefs, size, owner, held, meml, memstat>>

(* ... memory is had and the object listed ... *)
Malloc(t) ==
    /\ Step(t, "malloc")
    /\ \/ Goto(t, IDLE) /\ UNCHANGED <<heap, nrefs, owner, meml>>
       \/ \E m \in Obj \ heap :
             /\ heap' = heap \cup {m} /\ meml' = meml \cup {m}
             /\ nrefs' = [nrefs EXCEPT ![m] = 1]
             /\ owner' = [owner EXCEPT ![m] = t]
             /\ Goto(t, At("counted", m, pc[t].size))
    /\ UNCHANGED <<size, held, memstat>>

(* ... and STAT_ALLOC counts it *)
StatAlloc(t) ==
    LET m == pc[t].m
    IN  /\ Step(t, "counted")
        /\ memstat' = [blocks_cur |-> memstat.blocks_cur + 1,
                       bytes_cur |-> memstat.bytes_cur + pc[t].size]
        /\ size' = [size EXCEPT ![m] = pc[t].size]
        /\ held' = [held EXCEPT ![m] = 1]
        /\ Goto(t, IDLE)
        /\ UNCHANGED <<heap, nrefs, owner, meml>>

Mine(t, m) == Step(t, "idle") /\ m \in heap /\ owner[m] = t /\ held[m] > 0

(* mem_ref() *)
Ref(t, m) ==
    /\ Mine(t, m) /\ nrefs[m] < MaxRefs
    /\ nrefs' = [nrefs EXCEPT ![m] = @ + 1]
    /\ held' = [held EXCEPT ![m] = @ + 1]
    /\ UNCHANGED <<heap, size, owner, meml, memstat, pc>>

(* the other thread gets the object with all its references *)
HandOver(t, m) ==
    /\ Mine(t, m) /\ \E u \in Thread \ {t} : owner' = [owner EXCEPT ![m] = u]
    /\ UNCHANGED <<heap, nrefs, size, held, meml, memstat, pc>>

(* mem_deref(): one reference of several *)
Deref(t, m) ==
    /\ Mine(t, m)
    /\ nrefs' = [nrefs EXCEPT ![m] = @ - 1]
    /\ held' = [held EXCEPT ![m] = @ - 1]
    /\ IF nrefs[m] > 1 THEN UNCHANGED pc ELSE Goto(t, At("destroy", m, 0))
    /\ UNCHANGED <<heap, size, owner, meml, memstat>>

(* m->dh(): a destructor may take a reference, to wait for an answer; the
   object stays then, and the destructor runs again when it is given back *)
Destroy(t) ==
    LET m == pc[t].m
    IN  /\ Step(t, "destroy")
        /\ \/ /\ nrefs' = [nrefs EXCEPT ![m] = @ + 1]
              /\ held' = [held EXCEPT ![m] = @ + 1]
              /\ Goto(t, IDLE) /\ UNCHANGED meml
           \/ /\ meml' = meml \ {m} /\ Goto(t, At("free", m, 0))
              /\ UNCHANGED <<nrefs, held>>
        /\ UNCHANGED <<heap, size, owner, memstat>>

(* STAT_DEREF and free() *)
Free(t) ==
    LET m == pc[t].m
    IN  /\ Step(t, "free")
        /\ memstat' = [blocks_cur |-> memstat.blocks_cur - 1,
                       bytes_cur |-> memstat.bytes_cur - size[m]]
        /\ heap' = heap \ {m}
        /\ owner' = [owner EXCEPT ![m] = NOBODY]
        /\ Goto(t, IDLE)
        /\ UNCHANGED <<nrefs, size, held, meml>>

(* mem_realloc(): off the list under the lock ... *)
Realloc(t, m) ==
    \E n \in Sizes :
        /\ Mine(t, m) /\ (n > size[m] => MayAllocate)
        /\ meml' = meml \ {m}
        /\ Goto(t, At("realloc", m, n))
        /\ UNCHANGED <<heap, nrefs, size, owner, held, memstat>>

(* ... and back on it, moved or as it was when there is no memory ... *)
Reallocated(t) ==
    LET m == pc[t].m
    IN  /\ Step(t, "realloc")
        /\ meml' = meml \cup {m}
        /\ \/ Goto(t, At("resized", m, pc[t].size))
           \/ Goto(t, IDLE)
        /\ UNCHANGED <<heap, nrefs, size, owner, held, memstat>>

(* ... then STAT_REALLOC *)
StatRealloc(t) ==
    LET m == pc[t].m
    IN  /\ Step(t, "resized")
        /\ memstat' = [memstat EXCEPT !.bytes_cur = @ + (pc[t].size - size[m])]
        /\ size' = [size EXCEPT ![m] = pc[t].size]
        /\ Goto(t, IDLE)
        /\ UNCHANGED <<heap, nrefs, owner, held, meml>>

Next ==
    \E t \in Thread :
        \/ Alloc(t) \/ Malloc(t) \/ StatAlloc(t) \/ Destroy(t) \/ Free(t)
        \/ Reallocated(t) \/ StatRealloc(t)
        \/ \E m \in Obj : Ref(t, m) \/ HandOver(t, m) \/ Deref(t, m) \/ Realloc(t, m)

Spec == Init /\ [][Next]_vars

TypeOK ==
    /\ heap \subseteq Obj /\ meml \subseteq Obj
    /\ nrefs \in [Obj -> 0..MaxRefs] /\ owner \in [Obj -> Thread \cup {NOBODY}]

Busy(at) == {pc[t].m : t \in {u \in Thread : pc[u].at = at}}

(* The accounts are exact at every instant, whatever both threads are in the
   middle of: the list holds the objects of the heap but those just taken
   off it, the counters those that were counted and not yet discounted. *)
AccountsExact ==
    LET counted == heap \ Busy("counted")
    IN  /\ meml = heap \ (Busy("free") \cup Busy("realloc"))
        /\ memstat.blocks_cur = Cardinality(counted)
        /\ memstat.bytes_cur = MapThenSumSet(LAMBDA m : size[m], counted)

(* An object lives exactly as long as somebody holds a reference to it, and
   one thread at a time works on it. *)
LivesWhileHeld ==
    /\ \A m \in Obj : held[m] > 0 => m \in heap
    /\ \A m \in heap \ Busy("counted") : nrefs[m] = held[m]
    /\ \A m \in heap : held[m] = 0 =>
          m \in Busy("counted") \cup Busy("destroy") \cup Busy("free")
    /\ \A t \in Thread : pc[t].m # NOBODY => pc[t].m \in heap /\ owner[pc[t].m] = t

(* The simulated shortage is not exact: every thread but one may get an
   object more than the threshold says, and no more than that. *)
ThresholdNearlyHeld ==
    Threshold # -1 => memstat.blocks_cur <= Threshold + Cardinality(Thread) - 1
===============================================================================
