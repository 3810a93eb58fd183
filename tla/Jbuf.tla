--------------------------------- MODULE Jbuf ---------------------------------
(***************************************************************************)
(* The jitter buffer (re/src/jbuf/jbuf.c): a pool of frames, a list        *)
(* of buffered frames kept in the order of 16-bit sequence numbers that    *)
(* wrap, the oldest frame stolen when the pool is empty, late and double   *)
(* packets refused.  Packets reach it from a network that reorders and     *)
(* duplicates within a window.  SeqSpace scales the sequence space down.   *)
(***************************************************************************)
EXTENDS Integers, Sequences, SequencesExt

CONSTANTS
    MinFrames, MaxFrames,  \* frames to hold back, frames in the pool
    SeqSpace,  \* size of the sequence space (65536)
    Window,    \* how far the network displaces a packet
    MaxSent    \* bound on the packets of the stream

VARIABLES
    pool,     \* number of frames in pooll
    frames,   \* framel: the buffered packets' sequence numbers
    n,        \* jb->n
    seqPut,   \* jb->seq_put
    running,  \* jb->running
    high      \* highest packet of the stream the network has delivered

vars == <<pool, frames, n, seqPut, running, high>>

(* seq_less(): the difference as a signed 16-bit number is negative *)
SeqLess(x, y) == (x - y) % SeqSpace >= SeqSpace \div 2

(* jbuf_alloc() *)
Init ==
    /\ pool = MaxFrames /\ frames = <<>> /\ n = 0
    /\ seqPut = 0 /\ running = FALSE /\ high = SeqSpace - 2

(* where the search from the tail for the place of seq stops: behind the
   last frame that is not later than it *)
Place(fs, seq) ==
    LET earlier == {i \in DOMAIN fs : ~SeqLess(seq, fs[i])}
    IN  IF earlier = {} THEN 0 ELSE CHOOSE i \in earlier : \A j \in earlier : j <= i

(* jbuf_put() of packet e, with frame_alloc() before the place is known: a
   double packet costs a full buffer its oldest frame *)
Put(e) ==
    LET seq  == e % SeqSpace
        late == running /\ SeqLess((seq + n) % SeqSpace, seqPut)
        steal == pool = 0
        fs   == IF steal THEN Tail(frames) ELSE frames
        i    == Place(fs, seq)
        dup  == i > 0 /\ fs[i] = seq
    IN  /\ e \in high - Window .. high + Window /\ e >= SeqSpace - 2 - Window
        /\ e < MaxSent + SeqSpace
        /\ high' = IF e > high THEN e ELSE high
        /\ \/ late /\ UNCHANGED <<pool, frames, n, seqPut, running>>
           \/ /\ ~late /\ dup
              /\ frames' = fs
              /\ pool' = IF steal THEN pool + 1 ELSE pool
              /\ n' = IF steal THEN n - 1 ELSE n
              /\ UNCHANGED <<seqPut, running>>
           \/ /\ ~late /\ ~dup
              /\ frames' = InsertAt(fs, i + 1, seq)
              /\ pool' = IF steal THEN 0 ELSE pool - 1
              /\ n' = IF steal THEN n ELSE n + 1
              /\ seqPut' = seq /\ running' = TRUE

(* jbuf_get(): the head goes to the user once more than MinFrames are there *)
Get ==
    /\ n > MinFrames /\ frames # <<>>
    /\ frames' = Tail(frames)
    /\ pool' = pool + 1 /\ n' = n - 1
    /\ UNCHANGED <<seqPut, running, high>>

(* jbuf_flush() *)
Flush ==
    /\ frames' = <<>> /\ pool' = pool + Len(frames)
    /\ n' = 0 /\ running' = FALSE
    /\ UNCHANGED <<seqPut, high>>

Next == (\E e \in 0 .. MaxSent + SeqSpace : Put(e)) \/ Get \/ Flush

Spec == Init /\ [][Next]_vars

TypeOK ==
    /\ pool \in 0..MaxFrames /\ n \in 0..MaxFrames /\ running \in BOOLEAN
    /\ seqPut \in 0..SeqSpace - 1

(* The user always gets the earliest buffered packet: the list is in
   strictly rising order, across the wrap of the numbers too, and holds no
   packet twice; and no frame is lost between list and pool, whichever of
   late, double and overflowing packets came, so that the count that
   decides when a frame may be played is right. *)
BufferInOrder ==
    /\ \A i, j \in DOMAIN frames : i < j => SeqLess(frames[i], frames[j])
    /\ n = Len(frames)
    /\ pool + n = MaxFrames
===============================================================================
