------------------------------ MODULE MainLoop ------------------------------
(***************************************************************************)
(* The main loop of libre (main/main.c), its timers (tmr/tmr.c) and the    *)
(* message queue (mqueue/mqueue.c), with one other thread that enters the  *)
(* loop's mutex, starts timers and pushes messages, and with signals.  The *)
(* handlers of the application do one thing each time: start or cancel a   *)
(* timer, close or open the descriptor "f", or nothing.  "q" is the        *)
(* reading end of the message queue, "f" a socket.                         *)
(* The loop is the one of the process (global_re), which a thread without  *)
(* a loop enters; main() of the program makes its own by re_thread_init(), *)
(* with a mutex and timers that no other thread reaches: there lock is     *)
(* never "thread", and of the other thread only its messages are left.     *)
(***************************************************************************)
EXTENDS Naturals, Sequences, SequencesExt

CONSTANTS Timer, MaxNow,
          MaxPush    \* bound on the messages
VARIABLES pc,        \* the loop: "top", "sleep" (computes the time), "poll", "events", "timers"
          lock,      \* re->mutex
          now, tl,   \* the time, and re->tmrl: records of the timer, its time and its starter
          until,     \* when poll returns; 0 is never
          since,     \* when the time was computed
          sig, eintr, polling, open,
          ready,     \* the events that the last poll has returned
          pipe,      \* the number of messages in the pipe
          fired      \* did the timer that fired last come before all others?

vars == <<pc, lock, now, tl, until, since, sig, eintr, polling, open, ready, pipe, fired>>
Init ==
  /\ pc = "top" /\ lock = "loop" /\ now = 1 /\ tl = <<>> /\ until = 0 /\ since = 0
  /\ sig = FALSE /\ eintr = FALSE /\ polling = TRUE /\ open = TRUE
  /\ ready = <<>> /\ pipe = 0 /\ fired = TRUE

-----------------------------------------------------------------------------
(* tmr_start() and tmr_cancel(): list_unlink(), then the place is sought    *)
(* from the front for no delay and from the back for a delay.               *)
Unlinked(l, t) == SelectSeq(l, LAMBDA e : e.t # t)

(* Mutant: a timer without delay is put before those that are due.          *)
After_bug(l, e, delay) ==
  IF delay = 0 THEN 0
  ELSE LET before == {i \in 1 .. Len(l) : l[i].jfs <= e.jfs}
       IN  IF before = {} THEN 0 ELSE Max(before)

After(l, e, delay) ==
  IF delay = 0
  THEN LET later == {i \in 1 .. Len(l) : l[i].jfs > e.jfs}
       IN  IF later = {} THEN Len(l) ELSE Min(later) - 1
  ELSE LET before == {i \in 1 .. Len(l) : l[i].jfs <= e.jfs}
       IN  IF before = {} THEN 0 ELSE Max(before)
Started(l, t, delay, by) ==
  LET u == Unlinked(l, t)
      e == [t |-> t, jfs |-> now + delay, by |-> by]
  IN  InsertAt(u, After(u, e, delay) + 1, e)

(* What a handler of the application may do to the timers and to "f".       *)
Handler(by, l) ==
  \/ tl' = l /\ UNCHANGED open
  \/ \E t \in Timer, d \in {0, 1, 2} : tl' = Started(l, t, d, by) /\ UNCHANGED open
  \/ \E t \in Timer : tl' = Unlinked(l, t) /\ UNCHANGED open
  \/ tl' = l /\ open' = ~open

-----------------------------------------------------------------------------
(* re_main(): a signal is handled and the end is looked for.                *)
Top ==
  /\ pc = "top" /\ lock = "loop"
  /\ sig' = FALSE
  /\ \/ ~sig /\ UNCHANGED polling
     \/ sig /\ polling' \in {polling, FALSE}                    \* re_cancel()
  /\ IF polling' THEN pc' = "sleep" /\ UNCHANGED lock
     ELSE pc' = "done" /\ lock' = "free"
  /\ UNCHANGED <<since, eintr, now, tl, until, open, ready, pipe, fired>>

(* fd_poll(): the time of the first timer, the mutex is released, poll.     *)
NextTimeout ==
  IF tl = <<>> THEN 0 ELSE IF tl[1].jfs <= now THEN now + 1 ELSE tl[1].jfs
Sleep ==
  /\ pc = "sleep" /\ pc' = "poll" /\ lock' = "free" /\ until' = NextTimeout /\ since' = now
  /\ UNCHANGED <<eintr, now, tl, sig, polling, open, ready, pipe, fired>>

(* Poll returns with the descriptors that are ready, in any order, or when  *)
(* its time is over.                                                        *)
PollReturns ==
  /\ pc = "poll" /\ lock = "free"
  /\ \E f \in BOOLEAN :
       LET rs == (IF pipe > 0 THEN {"q"} ELSE {}) \cup (IF f /\ open THEN {"f"} ELSE {})
       IN  /\ rs # {} \/ (until # 0 /\ now >= until)
           /\ ready' \in SetToSeqs(rs)
  /\ pc' = "events" /\ lock' = "loop" /\ eintr' = FALSE /\ until' = 0 /\ since' = 0
  /\ UNCHANGED <<now, tl, sig, polling, open, pipe, fired>>
(* A signal interrupts it: EINTR.                                           *)
PollInterrupted ==
  /\ pc = "poll" /\ lock = "free" /\ eintr
  /\ pc' = "top" /\ lock' = "loop" /\ eintr' = FALSE /\ until' = 0 /\ since' = 0
  /\ UNCHANGED <<now, tl, sig, polling, open, ready, pipe, fired>>

(* The rest of fd_poll(): the handlers, event_handler() of the message      *)
(* queue being one, called only while they are registered.                  *)
Event ==
  /\ pc = "events" /\ ready # <<>>
  /\ \/ /\ Head(ready) = "q" /\ pipe' = pipe - 1 /\ Handler("loop", tl)
     \/ /\ Head(ready) = "f" /\ open /\ Handler("loop", tl) /\ UNCHANGED pipe
     \/ /\ Head(ready) = "f" /\ ~open /\ UNCHANGED <<tl, open, pipe>>
  /\ ready' = Tail(ready)
  /\ UNCHANGED <<since, eintr, pc, lock, now, until, sig, polling, fired>>
(* poll_method_set() in a handler: the events that are left are dropped,    *)
(* to be reported again by the new method.                                  *)
MethodChanged ==
  /\ pc = "events" /\ ready # <<>> /\ Head(ready) = "f" /\ open
  /\ ready' = <<>>
  /\ UNCHANGED <<since, eintr, pc, lock, now, tl, until, sig, polling, open, pipe, fired>>
EventsDone ==
  /\ pc = "events" /\ ready = <<>> /\ pc' = "timers"
  /\ UNCHANGED <<since, eintr, lock, now, tl, until, sig, polling, open, ready, pipe, fired>>

(* tmr_poll(): the timers that are due, one by one; the handler may start   *)
(* timers.                                                                  *)
TmrPoll ==
  /\ pc = "timers"
  /\ IF tl # <<>> /\ Head(tl).jfs <= now
     THEN /\ Handler("loop", Tail(tl)) /\ UNCHANGED pc
          /\ fired' = \A i \in 1 .. Len(tl) : Head(tl).jfs <= tl[i].jfs
     ELSE pc' = "top" /\ UNCHANGED <<tl, open, fired>>
  /\ UNCHANGED <<since, eintr, lock, now, until, sig, polling, ready, pipe>>

-----------------------------------------------------------------------------
(* re_thread_enter(), work, re_thread_leave(), by another thread.           *)
ThreadEnter ==
  /\ lock = "free" /\ pc = "poll" /\ lock' = "thread"
  /\ UNCHANGED <<since, eintr, pc, now, tl, until, sig, polling, open, ready, pipe, fired>>
ThreadLeave ==
  /\ lock = "thread" /\ lock' = "free" /\ Handler("thread", tl)
  /\ UNCHANGED <<since, eintr, pc, now, until, sig, polling, ready, pipe, fired>>
(* mqueue_push() needs no mutex.                                            *)
Push ==
  /\ pipe < MaxPush /\ pipe' = pipe + 1
  /\ UNCHANGED <<since, eintr, pc, lock, now, tl, until, sig, polling, open, ready, fired>>
(* signal_handler(), at any moment.                                         *)
Signal ==
  /\ ~sig /\ pc # "done" /\ sig' = TRUE /\ eintr' = (pc = "poll")
  /\ UNCHANGED <<since, pc, lock, now, tl, until, polling, open, ready, pipe, fired>>
Tick ==
  /\ now < MaxNow /\ now' = now + 1
  /\ UNCHANGED <<since, eintr, pc, lock, tl, until, sig, polling, open, ready, pipe, fired>>

Next ==
  \/ Top \/ Sleep \/ PollReturns \/ PollInterrupted \/ Event \/ MethodChanged \/ EventsDone
  \/ TmrPoll \/ ThreadEnter \/ ThreadLeave \/ Push \/ Signal \/ Tick
Spec == Init /\ [][Next]_vars

-----------------------------------------------------------------------------
(* The values the variables can have.                                       *)
TypeOK ==
  /\ pc \in {"top", "sleep", "poll", "events", "timers", "done"}
  /\ lock \in {"free", "loop", "thread"} /\ now \in 1 .. MaxNow /\ pipe \in 0 .. MaxPush

(* The timer list is sorted by time whichever way timers are started from   *)
(* handlers and threads, no timer is in it twice, and the timer that fires  *)
(* is never behind another one.                                             *)
TimersInOrder ==
  /\ \A i, j \in 1 .. Len(tl) : i < j => tl[i].jfs <= tl[j].jfs /\ tl[i].t # tl[j].t
  /\ fired

(* While the loop sleeps it wakes up in time for every timer that its own   *)
(* handlers have started (one that another thread starts meanwhile may have *)
(* to wait for the next event), and a signal that comes while it sleeps     *)
(* wakes it.  No handler runs while another thread has the mutex.           *)
WakesInTime ==
  /\ pc = "poll" => \A i \in 1 .. Len(tl) : tl[i].by = "loop" =>
       until # 0 /\ until <= Max({tl[i].jfs, since + 1})
  /\ eintr => sig
  /\ lock = "thread" => pc = "poll"
=============================================================================
