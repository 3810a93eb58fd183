------------------------------ MODULE Shutdown ------------------------------
(***************************************************************************)
(* How the process ends: signal_handler and terminate of main.c, close_sip *)
(* of call.c, and what they use of libre: the reference count of the SIP   *)
(* stack, sip_close, the session's destructor and the main loop.           *)
(*                                                                         *)
(* A session that is dropped lives on until its CANCEL or BYE transaction  *)
(* is answered or times out, and holds a reference to the SIP stack so     *)
(* long; the stack's exit handler is called when the last is given back.   *)
(***************************************************************************)
EXTENDS Naturals, FiniteSets

CONSTANT Sess       \* the SIP sessions of the calls

VARIABLES
    sess,       \* state of each session
    sip,        \* reference count of the SIP stack, and sip->closing
    polling,    \* re->polling
    exited      \* re_main has returned

vars == <<sess, sip, polling, exited>>

Init ==
    /\ sess = [s \in Sess |-> "none"]
    /\ sip = [refs |-> 1, closing |-> FALSE]
    /\ polling = TRUE /\ exited = FALSE

Running == polling /\ ~exited

(* sipsess_connect *)
Connect(s) ==
    /\ Running /\ sess[s] = "none"
    /\ sess' = [sess EXCEPT ![s] = "inviting"]
    /\ sip' = [sip EXCEPT !.refs = @ + 1]
    /\ UNCHANGED <<polling, exited>>

Answer(s) ==
    /\ Running /\ sess[s] = "inviting"
    /\ sess' = [sess EXCEPT ![s] = "up"]
    /\ UNCHANGED <<sip, polling, exited>>

(* The other side refuses the call or hangs up: sipsess_terminate, which   *)
(* leaves the session to its owner.                                        *)
PeerCloses(s) ==
    /\ Running /\ sess[s] \in {"inviting", "up"}
    /\ sess' = [sess EXCEPT ![s] = "closed"]
    /\ UNCHANGED <<sip, polling, exited>>

Pending(s) == sess[s] \in {"cancelling", "bye"}

(* The owner drops a session: its destructor sends CANCEL or BYE and keeps *)
(* it alive until the answer, unless the other side has closed it.         *)
Dropped(state) ==
    CASE state = "inviting" -> "cancelling"
      [] state = "up" -> "bye"
      [] state = "closed" -> "none"
      [] OTHER -> state

(* mem_deref(sip): the destructor of a stack that is being closed calls    *)
(* the exit handler, which only cancels the main loop, and takes a         *)
(* reference back.                                                         *)
Deref(p) ==
    IF p.refs > 1 THEN [p EXCEPT !.refs = @ - 1]
    ELSE IF p.closing THEN [refs |-> 1, closing |-> FALSE]
    ELSE [refs |-> 0, closing |-> FALSE]

(* on_call_end ends a call. *)
Drop(s) ==
    /\ Running /\ sess[s] \in {"inviting", "up", "closed"}
    /\ sess' = [sess EXCEPT ![s] = Dropped(@)]
    /\ sip' = IF sess[s] = "closed" THEN Deref(sip) ELSE sip
    /\ UNCHANGED <<polling, exited>>

(* The callee answered before the CANCEL reached it: a BYE follows. *)
Crossed(s) ==
    /\ Running /\ sess[s] = "cancelling"
    /\ sess' = [sess EXCEPT ![s] = "bye"]
    /\ UNCHANGED <<sip, polling, exited>>

(* The transaction ends: the session is freed and gives its reference back. *)
Finish(s) ==
    /\ Running /\ Pending(s)
    /\ sess' = [sess EXCEPT ![s] = "none"]
    /\ sip' = Deref(sip)
    /\ UNCHANGED <<polling, exited>>

(* signal_handler: list_flush(&services) drops every session, sip_close    *)
(* and close_sip each give a reference to the stack back, and terminate    *)
(* calls re_cancel itself.                                                 *)
Signal ==
    LET closed == {s \in Sess : sess[s] = "closed"} IN
    /\ Running
    /\ sess' = [s \in Sess |-> Dropped(sess[s])]
    /\ sip' = Deref(Deref([refs |-> sip.refs - Cardinality(closed),
                           closing |-> TRUE]))
    /\ polling' = FALSE
    /\ UNCHANGED exited

(* re_main sees that it was cancelled and returns. *)
Exit ==
    /\ ~polling /\ ~exited
    /\ exited' = TRUE
    /\ UNCHANGED <<sess, sip, polling>>

Next ==
    \/ \E s \in Sess : \/ Connect(s) \/ Answer(s) \/ PeerCloses(s)
                       \/ Drop(s) \/ Crossed(s) \/ Finish(s)
    \/ Signal \/ Exit

Spec == Init /\ [][Next]_vars

-----------------------------------------------------------------------------
(* "wait for pending transactions to finish" (main.c:85): when the main    *)
(* loop returns, every BYE and CANCEL has been answered or has timed out.  *)
PendingFinished == exited => \A s \in Sess : ~Pending(s)
=============================================================================
