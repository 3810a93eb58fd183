------------------------------- MODULE Dialer -------------------------------
(***************************************************************************)
(* One running campaign of the dialer: start_fake_calling and on_call_end  *)
(* of main.c, the call legs and the RTP session pool of call.c, the SIP    *)
(* and RTP events that reach them, and the thread that plays the recording.*)
(*                                                                         *)
(* All but rtpThread runs on the main thread, one handler at a time; the   *)
(* handlers that loop or block (the dialling loop, thrd_join in the call's *)
(* destructor) are several steps, and `pc' keeps the others out meanwhile. *)
(* Time is relative and saturates: Tick is one second, a timer is due at   *)
(* the first Tick after it was started and fires then or later.            *)
(***************************************************************************)
EXTENDS Integers, Sequences, FiniteSets, SequencesExt

CONSTANTS
    Dest,               \* the contacts of the campaign
    Rtp,                \* the sessions rtp_session_allocate made (100)
    None,               \* NULL
    CallLimit,          \* cp->call_limit
    MaxTry,             \* cp->max_try, 0 for no limit
    MaxPlay,            \* cp->max_play
    MaxCallDuration,    \* cp->max_call_duration, 0 for no limit
    RetryDelay,         \* cp->retry_delay
    ConnectTimeout,     \* 40 s
    BridgeTimeout,      \* 30 min
    TryWrap,            \* 256, try_count is a uint8_t
    Media,              \* what start_fake_calling may find, see DialOk
    Actions,            \* the kinds of the campaign's actions
    MaxFault            \* bound on failed allocations

ASSUME DialerConstants ==
    /\ CallLimit \in Nat \ {0} /\ MaxTry \in Nat /\ MaxPlay \in Nat \ {0}
    /\ {MaxCallDuration, RetryDelay, ConnectTimeout, BridgeTimeout} \subseteq Nat
    /\ TryWrap \in Nat /\ MaxTry < TryWrap
    /\ Media \subseteq {"audio", "missing", "pbx", "nogateway"}
    /\ Actions \subseteq {"forward", "hangup"}
    /\ IsFiniteSet(Dest) /\ IsFiniteSet(Rtp) /\ None \notin Dest \cup Rtp
    /\ MaxFault \in Nat

VARIABLES
    destinations,   \* cp->destinations
    processl,       \* cp->processl
    try_count,      \* dest->try_count
    since,          \* time since dest->last_try
    tmr,            \* dest->tmr
    call,           \* dest->call
    pbx_call,       \* dest->call->pbx_call
    thread,         \* the rtpThread of dest->call
    free,           \* rtp_sessions, the sessions not in use
    rtp,            \* the fields of each rtp_session
    row,            \* what the statements queued so far make of the calls row
    cpTmr,          \* cp->tmr
    pc,             \* what the main thread is doing
    todo,           \* what it has still to visit
    faults,         \* failed allocations so far
    crashed         \* a pointer to nothing was dereferenced

destVars == <<destinations, processl, try_count, since>>
rtpVars == <<free, rtp>>
vars == <<destVars, tmr, call, pbx_call, thread, rtpVars, row, cpTmr, pc, todo,
          faults, crashed>>

Legs == Dest \X {"call", "pbx_call"}

NoCall == [status |-> "none", ended |-> FALSE, sess |-> "none", age |-> 0,
           rtp_sess |-> None, num_play |-> 0, event |-> "none",
           join_pbx |-> FALSE, forwarded |-> FALSE]

IdleSession == [arg |-> None, telev_recv |-> FALSE, remote |-> None]

(* Ages above every timeout are not told apart. *)
AgeCap == 1 + CHOOSE m \in {ConnectTimeout, BridgeTimeout, MaxCallDuration} :
                  \A n \in {ConnectTimeout, BridgeTimeout, MaxCallDuration} : n <= m

Up(n, cap) == IF n < cap THEN n + 1 ELSE n

Init ==
    /\ destinations \in SetToSeqs(Dest) /\ processl = << >>
    /\ try_count = [d \in Dest |-> 0] /\ since = [d \in Dest |-> 0]
    /\ tmr = [d \in Dest |-> "off"]
    /\ call = [d \in Dest |-> NoCall] /\ pbx_call = [d \in Dest |-> NoCall]
    /\ thread = [d \in Dest |-> "none"]
    /\ free \in SetToSeqs(Rtp) /\ rtp = [r \in Rtp |-> IdleSession]
    /\ row = [d \in Dest |-> [status |-> "created", talked |-> FALSE,
                              forwarded |-> FALSE]]
    /\ cpTmr = "due" /\ pc = "idle" /\ todo = << >>
    /\ faults = 0 /\ crashed = FALSE

Idle == pc = "idle" /\ ~crashed
Fault == faults < MaxFault /\ faults' = faults + 1

-----------------------------------------------------------------------------
(* The pool and the destructors *)

(* sdp_sess_alloc and call_alloc give the first free session to a leg. *)
TakeSession(leg) ==
    /\ free' = Tail(free)
    /\ rtp' = [rtp EXCEPT ![Head(free)].arg = leg]

NewCall(sess) == [NoCall EXCEPT !.status = "connecting", !.sess = sess,
                                !.rtp_sess = Head(free)]

(* call_destructor of a call and of its PBX leg: the sessions go back to   *)
(* the end of the pool.                                                    *)
SessionsOf(d) ==
    IF pbx_call[d].rtp_sess = None
    THEN <<call[d].rtp_sess>> ELSE <<call[d].rtp_sess, pbx_call[d].rtp_sess>>

(* Mutant: release_rtp_session leaves remote alone. *)
ReleaseSessions_remote(d) ==
    /\ free' = free \o SessionsOf(d)
    /\ rtp' = [r \in Rtp |-> IF r \in ToSet(SessionsOf(d))
                             THEN [IdleSession EXCEPT !.remote = rtp[r].remote]
                             ELSE rtp[r]]

(* Mutant: release_rtp_session leaves telev_recv alone. *)
ReleaseSessions_telev(d) ==
    /\ free' = free \o SessionsOf(d)
    /\ rtp' = [r \in Rtp |-> IF r \in ToSet(SessionsOf(d))
                             THEN [IdleSession EXCEPT !.telev_recv = rtp[r].telev_recv]
                             ELSE rtp[r]]

(* Mutant: call_destructor forgets the PBX leg. *)
ReleaseSessions_leak(d) ==
    /\ free' = Append(free, call[d].rtp_sess)
    /\ rtp' = [rtp EXCEPT ![call[d].rtp_sess] = IdleSession]

(* Mutant: release_rtp_session forgets list_append. *)
ReleaseSessions_lost(d) ==
    /\ rtp' = [r \in Rtp |-> IF r \in ToSet(SessionsOf(d)) THEN IdleSession
                                                           ELSE rtp[r]]
    /\ UNCHANGED free

ReleaseSessions(d) ==
    /\ free' = free \o SessionsOf(d)
    /\ rtp' = [r \in Rtp |-> IF r \in ToSet(SessionsOf(d)) THEN IdleSession
                                                           ELSE rtp[r]]

-----------------------------------------------------------------------------
(* start_fake_calling, from cp->tmr or from campaign_service_handler *)

(* list_unlink of an element that may be in no list. *)
Unlink(l, d) ==
    IF d \in ToSet(l) THEN RemoveAt(l, CHOOSE i \in DOMAIN l : l[i] = d) ELSE l

(* list_sort with destination_sort_handler keeps the order of equals: the  *)
(* one permutation of l that is sorted so.                                 *)
SortByTries(l) ==
    LET Before(i, j) == \/ try_count[l[i]] < try_count[l[j]]
                        \/ try_count[l[i]] = try_count[l[j]] /\ i < j
    IN  {[i \in 1..Len(l) |-> l[p[i]]] :
            p \in {q \in [1..Len(l) -> 1..Len(l)] :
                     /\ \A k \in 1..Len(l) : \E i \in 1..Len(l) : q[i] = k
                     /\ \A i, j \in 1..Len(l) : i < j => Before(q[i], q[j])}}

(* Mutant: the retry delay is forgotten. *)
MayDial_now(d) == TRUE

MayDial(d) == try_count[d] = 0 \/ since[d] >= RetryDelay

(* Mutant: one call too many. *)
Full_bug(l) == Len(l) > CallLimit

Full(l) == Len(l) >= CallLimit

StartRound ==
    /\ Idle /\ cpTmr = "due"
    /\ IF Full(processl)
       THEN todo' = << >> /\ UNCHANGED destinations
       ELSE destinations' \in SortByTries(destinations) /\ todo' = destinations'
    /\ pc' = "pick" /\ cpTmr' = "off"
    /\ UNCHANGED <<processl, try_count, since, tmr, call, pbx_call, thread,
                   rtpVars, row, faults, crashed>>

(* The next destination moves to the process list, or is passed over. *)
Pick ==
    /\ pc = "pick" /\ ~crashed /\ todo # << >>
    /\ IF MayDial(Head(todo))
       THEN /\ destinations' = Unlink(destinations, Head(todo))
            /\ processl' = Append(processl, Head(todo))
       ELSE UNCHANGED <<destinations, processl>>
    /\ todo' = IF Full(processl') THEN << >> ELSE Tail(todo)
    /\ UNCHANGED <<try_count, since, tmr, call, pbx_call, thread, rtpVars, row,
                   cpTmr, pc, faults, crashed>>

(* The process list is filled; its calls are made one after the other. *)
StartDialling ==
    /\ pc = "pick" /\ ~crashed /\ todo = << >>
    /\ pc' = "dial" /\ todo' = processl
    /\ UNCHANGED <<destVars, tmr, call, pbx_call, thread, rtpVars, row, cpTmr,
                   faults, crashed>>

(* A call is running already, or the campaign's gateway is not known. *)
DialSkips ==
    /\ pc = "dial" /\ ~crashed /\ todo # << >>
    /\ call[Head(todo)] # NoCall \/ "nogateway" \in Media
    /\ todo' = Tail(todo)
    /\ UNCHANGED <<destVars, tmr, call, pbx_call, thread, rtpVars, row, cpTmr,
                   pc, faults, crashed>>

(* call_alloc fails: there is no memory for the call (call.c:599); no      *)
(* session is free; the SDP cannot be made, and the session taken for it   *)
(* never comes back; or rtp_alloc or an earlier step fails after that, and *)
(* the call's destructor releases the session.                             *)
CallAllocFails ==
    \/ free = << >> /\ UNCHANGED <<rtpVars, faults>>
    \/ Fault /\ UNCHANGED rtpVars
    \/ free # << >> /\ Fault /\ free' = Tail(free) /\ UNCHANGED rtp
    \/ free # << >> /\ Fault /\ free' = Append(Tail(free), Head(free))
       /\ UNCHANGED rtp

(* The destination is freed while its list element is the loop variable:   *)
(* the loop ends where the element was unlinked, or follows garbage.       *)
DialFails ==
    LET d == Head(todo) IN
    /\ pc = "dial" /\ ~crashed /\ todo # << >> /\ call[d] = NoCall
    /\ CallAllocFails
    /\ processl' = Unlink(processl, d)
    /\ \/ todo' = << >> /\ UNCHANGED crashed
       \/ crashed' = TRUE /\ UNCHANGED todo
    /\ UNCHANGED <<destinations, try_count, since, tmr, call, pbx_call, thread,
                   row, cpTmr, pc>>

(* Mutant: the row is not told. *)
UpdateCallStatus_none(d, status) == UNCHANGED row

(* update_call_status *)
UpdateCallStatus(d, status) ==
    row' = [row EXCEPT ![d] = [status |-> status, talked |-> FALSE,
                               forwarded |-> FALSE]]

(* call_alloc succeeds, even where sipsess_connect has failed: rtp_alloc   *)
(* overwrites err.  The call is kept if there is a recording to play or a  *)
(* PBX to join, and destroyed on the spot otherwise ("missing").           *)
DialOk(media, sess) ==
    LET d == Head(todo) IN
    /\ pc = "dial" /\ ~crashed /\ todo # << >> /\ call[d] = NoCall
    /\ free # << >>
    /\ since' = [since EXCEPT ![d] = 0]
    /\ IF media = "missing"
       THEN /\ free' = Append(Tail(free), Head(free))
            /\ UNCHANGED <<try_count, tmr, call, rtp, row>>
       ELSE /\ TakeSession(<<d, "call">>)
            /\ call' = [call EXCEPT ![d] = [NewCall(sess) EXCEPT
                                              !.join_pbx = (media = "pbx")]]
            /\ try_count' = [try_count EXCEPT ![d] = (@ + 1) % TryWrap]
            /\ tmr' = [tmr EXCEPT ![d] = "armed"]
            /\ UpdateCallStatus(d, "connecting")
    /\ todo' = Tail(todo)
    /\ UNCHANGED <<destinations, processl, pbx_call, thread, cpTmr, pc, faults,
                   crashed>>

(* Mutant: cp->tmr is not started again. *)
EndRound_bug ==
    /\ pc = "dial" /\ ~crashed /\ todo = << >>
    /\ pc' = "idle"
    /\ UNCHANGED <<destVars, tmr, call, pbx_call, thread, rtpVars, row, cpTmr,
                   todo, faults, crashed>>

EndRound ==
    /\ pc = "dial" /\ ~crashed /\ todo = << >>
    /\ pc' = "idle" /\ cpTmr' = "armed"
    /\ UNCHANGED <<destVars, tmr, call, pbx_call, thread, rtpVars, row, todo,
                   faults, crashed>>

Dialling ==
    \/ Pick \/ StartDialling \/ DialSkips \/ DialFails \/ EndRound
    \/ \E media \in Media \ {"nogateway"}, sess \in {"inviting", "none"} :
           DialOk(media, sess)

-----------------------------------------------------------------------------
(* SIP: the handlers given to sipsess_connect *)

(* progress_handler of the callee's leg; the PBX leg's does nothing. *)
Progress(d) ==
    /\ Idle /\ call[d].sess = "inviting"
    /\ UpdateCallStatus(d, call[d].status)
    /\ UNCHANGED <<destVars, tmr, call, pbx_call, thread, rtpVars, cpTmr, pc,
                   todo, faults, crashed>>

Answered(c) == [c EXCEPT !.status = "established", !.sess = "up", !.age = 0]

(* establish_handler, no common media: the leg is ended. *)
Unusable(c) == [Answered(c) EXCEPT !.sess = "none", !.ended = TRUE]

(* establish_handler of the callee's leg; thrd_create may fail. *)
Establish(d) ==
    /\ Idle /\ call[d].sess = "inviting"
    /\ \/ /\ call' = [call EXCEPT ![d] = Answered(@)]
          /\ IF call[d].join_pbx
             THEN UNCHANGED <<thread, rtp>>
             ELSE /\ thread' \in {[thread EXCEPT ![d] = "playing"], thread}
                  /\ rtp' = [rtp EXCEPT ![call[d].rtp_sess].telev_recv = TRUE]
          /\ UpdateCallStatus(d, "established")
       \/ /\ call' = [call EXCEPT ![d] = Unusable(@)]
          /\ UNCHANGED <<thread, rtp, row>>
    /\ UNCHANGED <<destVars, tmr, pbx_call, free, cpTmr, pc, todo, faults,
                   crashed>>

(* establish_handler of the PBX leg: the two sessions relay to each other. *)
EstablishPbx(d) ==
    /\ Idle /\ pbx_call[d].sess = "inviting"
    /\ \/ /\ pbx_call' = [pbx_call EXCEPT ![d] = Answered(@)]
          /\ rtp' = [rtp EXCEPT
                ![call[d].rtp_sess].remote = pbx_call[d].rtp_sess,
                ![pbx_call[d].rtp_sess].remote = call[d].rtp_sess]
       \/ /\ pbx_call' = [pbx_call EXCEPT ![d] = Unusable(@)]
          /\ UNCHANGED rtp
    /\ UNCHANGED <<destVars, tmr, call, thread, free, row, cpTmr, pc, todo,
                   faults, crashed>>

Closed(c) == [c EXCEPT !.sess = "closed", !.ended = TRUE]

(* close_handler: refused, timed out, or hung up by the other side. *)
Close(d) ==
    /\ Idle
    /\ \/ /\ call[d].sess \in {"inviting", "up"}
          /\ call' = [call EXCEPT ![d] = Closed(@)]
          /\ UNCHANGED pbx_call
       \/ /\ pbx_call[d].sess \in {"inviting", "up"}
          /\ pbx_call' = [pbx_call EXCEPT ![d] = Closed(@)]
          /\ UNCHANGED call
    /\ UNCHANGED <<destVars, tmr, thread, rtpVars, row, cpTmr, pc, todo, faults,
                   crashed>>

-----------------------------------------------------------------------------
(* RTP *)

Pressed(c, action) ==
    [c EXCEPT !.event = action, !.ended = c.ended \/ action = "hangup"]

(* rtp_recv_handler: the end of a telephone event whose key is one of the  *)
(* campaign's actions.  No packet is refused for its source, be it a late  *)
(* one of the call that had the session before.  Everything else it        *)
(* receives is relayed, which changes nothing here.                        *)
KeyPress(r) ==
    LET d == rtp[r].arg[1] IN
    /\ Idle /\ rtp[r].telev_recv
    /\ call[d].event = "none"
    /\ \E action \in Actions :
        call' = [call EXCEPT ![d] = Pressed(@, action)]
    /\ UNCHANGED <<destVars, tmr, pbx_call, thread, rtpVars, row, cpTmr, pc,
                   todo, faults, crashed>>

(* rtpThread plays the recording to its end. *)
PlayOnce(d) ==
    /\ ~crashed /\ thread[d] = "playing"
    /\ call[d].num_play < MaxPlay
    /\ call' = [call EXCEPT ![d].num_play = @ + 1]
    /\ UNCHANGED <<destVars, tmr, pbx_call, thread, rtpVars, row, cpTmr, pc,
                   todo, faults, crashed>>

(* rtpThread sees ended or event_received, in the middle of the recording  *)
(* (which counts as played) or in the silence after it; or fopen fails.    *)
ThreadExits(d) ==
    /\ ~crashed /\ thread[d] = "playing"
    /\ thread' = [thread EXCEPT ![d] = "none"]
    /\ \/ /\ call[d].ended \/ call[d].event # "none"
          /\ call' = [call EXCEPT ![d].num_play = Up(@, MaxPlay)]
       \/ /\ call[d].num_play < MaxPlay
          /\ UNCHANGED call
    /\ UNCHANGED <<destVars, tmr, pbx_call, rtpVars, row, cpTmr, pc, todo,
                   faults, crashed>>

-----------------------------------------------------------------------------
(* on_call_end, every second of a call *)

PlayedOut(c) ==
    Actions = {} /\ c.status = "established" /\ c.num_play >= MaxPlay

Bridging(c) == c.status = "established" /\ (c.event # "none" \/ c.join_pbx)

(* Mutant: no limit to a bridged call. *)
MustEnd_bridge(d) ==
    LET c == call[d] IN
    \/ c.ended
    \/ PlayedOut(c)
    \/ Bridging(c) /\ c.forwarded /\ pbx_call[d].ended
    \/ /\ ~Bridging(c) /\ c.status = "established"
       /\ MaxCallDuration > 0 /\ c.age > MaxCallDuration
    \/ c.status = "connecting" /\ c.age > ConnectTimeout

MustEnd(d) ==
    LET c == call[d] IN
    \/ c.ended
    \/ PlayedOut(c)
    \/ Bridging(c) /\ c.forwarded
       /\ (c.age > BridgeTimeout \/ pbx_call[d].ended)
    \/ /\ ~Bridging(c) /\ c.status = "established"
       /\ MaxCallDuration > 0 /\ c.age > MaxCallDuration
    \/ c.status = "connecting" /\ c.age > ConnectTimeout

Due(d) == Idle /\ tmr[d] = "due"

CallGoesOn(d) ==
    /\ Due(d) /\ ~MustEnd(d)
    /\ ~Bridging(call[d]) \/ call[d].forwarded
    /\ tmr' = [tmr EXCEPT ![d] = "armed"]
    /\ UNCHANGED <<destVars, call, pbx_call, thread, rtpVars, row, cpTmr, pc,
                   todo, faults, crashed>>

(* The call is to be bridged: call_alloc for the PBX leg, again at the     *)
(* next second if it fails.                                                *)
Forward(d) ==
    /\ Due(d) /\ ~MustEnd(d)
    /\ Bridging(call[d]) /\ ~call[d].forwarded
    /\ tmr' = [tmr EXCEPT ![d] = "armed"]
    /\ \/ /\ free # << >>
          /\ TakeSession(<<d, "pbx_call">>)
          /\ \E sess \in {"inviting", "none"} :
                pbx_call' = [pbx_call EXCEPT ![d] = NewCall(sess)]
          /\ call' = [call EXCEPT ![d].forwarded = TRUE]
          /\ UNCHANGED faults
       \/ CallAllocFails /\ UNCHANGED <<call, pbx_call>>
    /\ UNCHANGED <<destVars, thread, row, cpTmr, pc, todo, crashed>>

(* time(NULL) - establish_tm > 0 *)
Talked(c) == c.status = "established" /\ c.age > 0

(* The call is over: its session is dropped and its row completed.  Then   *)
(* its destructor waits for rtpThread.                                     *)
CallEnds(d) ==
    /\ Due(d) /\ MustEnd(d)
    /\ call' = [call EXCEPT ![d] = [@ EXCEPT !.ended = TRUE, !.sess = "none",
                                             !.status = "disconnected"]]
    /\ row' = [row EXCEPT ![d] = [status |-> "disconnected",
                                  talked |-> Talked(call[d]),
                                  forwarded |-> pbx_call[d] # NoCall]]
    /\ tmr' = [tmr EXCEPT ![d] = "off"]
    /\ pc' = "join" /\ todo' = <<d>>
    /\ UNCHANGED <<destVars, pbx_call, thread, rtpVars, cpTmr, faults, crashed>>

(* on_call_end reads through a pointer that leads nowhere: the campaign or *)
(* the action has no gateway when the PBX leg is to be called (main.c:401) *)
(* or its row is written (main.c:465); or sdp_session_alloc fails, and     *)
(* sdp_sess_alloc drops what it never set (call.c:395).                    *)
HandlerCrashes(d) ==
    /\ Due(d)
    /\ \/ /\ "nogateway" \in Media
          /\ IF MustEnd(d) THEN pbx_call[d] # NoCall
             ELSE Bridging(call[d]) /\ ~call[d].forwarded
          /\ UNCHANGED faults
       \/ /\ ~MustEnd(d) /\ Bridging(call[d]) /\ ~call[d].forwarded
          /\ free # << >> /\ Fault
    /\ crashed' = TRUE
    /\ UNCHANGED <<destVars, tmr, call, pbx_call, thread, rtpVars, row, cpTmr, pc,
                   todo>>

(* Mutant: an answer does not settle the destination. *)
DoneWith_answer(d) == MaxTry > 0 /\ try_count[d] >= MaxTry

(* The destination is done with when its tries are used up or `duration'   *)
(* is positive; that is the PBX leg's duration if there is a PBX leg.      *)
DoneWith(d) ==
    \/ MaxTry > 0 /\ try_count[d] >= MaxTry
    \/ IF pbx_call[d] # NoCall THEN Talked(pbx_call[d]) ELSE row[d].talked

(* Mutant: the destination is requeued without list_unlink. *)
Destroy_linked(d) ==
    /\ call' = [call EXCEPT ![d] = NoCall]
    /\ pbx_call' = [pbx_call EXCEPT ![d] = NoCall]
    /\ ReleaseSessions(d)
    /\ processl' = IF DoneWith(d) THEN Unlink(processl, d) ELSE processl
    /\ destinations' = IF DoneWith(d) THEN destinations
                                      ELSE Append(destinations, d)
    /\ pc' = "idle" /\ todo' = << >>
    /\ UNCHANGED <<try_count, since, tmr, thread, row, cpTmr, faults, crashed>>

(* thrd_join has returned: the call and its PBX leg are freed, and the     *)
(* destination is freed too or waits for its next try.                     *)
Destroy(d) ==
    /\ call' = [call EXCEPT ![d] = NoCall]
    /\ pbx_call' = [pbx_call EXCEPT ![d] = NoCall]
    /\ ReleaseSessions(d)
    /\ processl' = Unlink(processl, d)
    /\ destinations' = IF DoneWith(d) THEN destinations
                                      ELSE Append(destinations, d)
    /\ pc' = "idle" /\ todo' = << >>
    /\ UNCHANGED <<try_count, since, tmr, thread, row, cpTmr, faults, crashed>>

(* Mutant: the destructor does not wait. *)
Join_bug == pc = "join" /\ Destroy(todo[1])

Join == pc = "join" /\ thread[todo[1]] = "none" /\ Destroy(todo[1])

OnCallEnd(d) == CallGoesOn(d) \/ Forward(d) \/ CallEnds(d) \/ HandlerCrashes(d)

-----------------------------------------------------------------------------
Older(c) == IF c = NoCall THEN c ELSE [c EXCEPT !.age = Up(@, AgeCap)]

Tick ==
    /\ Idle
    /\ since' = [d \in Dest |-> Up(since[d], RetryDelay)]
    /\ call' = [d \in Dest |-> Older(call[d])]
    /\ pbx_call' = [d \in Dest |-> Older(pbx_call[d])]
    /\ tmr' = [d \in Dest |-> IF tmr[d] = "armed" THEN "due" ELSE tmr[d]]
    /\ cpTmr' = IF cpTmr = "armed" THEN "due" ELSE cpTmr
    /\ UNCHANGED <<destinations, processl, try_count, thread, rtpVars, row, pc,
                   todo, faults, crashed>>

Next ==
    \/ Tick \/ StartRound \/ Dialling \/ Join
    \/ \E d \in Dest : \/ Progress(d) \/ Establish(d) \/ EstablishPbx(d)
                       \/ Close(d) \/ OnCallEnd(d)
                       \/ PlayOnce(d) \/ ThreadExits(d)
    \/ \E r \in Rtp : KeyPress(r)

Spec == Init /\ [][Next]_vars

(* Every timer whose time has come is fired by the main loop's tmr_poll,   *)
(* again and again; a handler that was entered returns; rtpThread looks at *)
(* ended and event_received at every frame.  Nothing is assumed of the     *)
(* network, of the callee or of the recording.                             *)
Fairness ==
    /\ SF_vars(Tick) /\ SF_vars(StartRound) /\ WF_vars(Dialling) /\ WF_vars(Join)
    /\ \A d \in Dest :
        /\ SF_vars(OnCallEnd(d))
        /\ WF_vars(thread[d] = "playing" /\ (call[d].ended \/ call[d].event # "none")
                   /\ ThreadExits(d))

FairSpec == Spec /\ Fairness

(* Contacts and sessions are interchangeable. *)
Symmetry == Permutations(Dest) \cup Permutations(Rtp)

-----------------------------------------------------------------------------
CallType ==
    [status : {"none", "connecting", "established", "disconnected"},
     ended : BOOLEAN, sess : {"none", "inviting", "up", "closed"},
     age : 0..AgeCap, rtp_sess : Rtp \cup {None}, num_play : 0..MaxPlay,
     event : {"none"} \cup Actions, join_pbx : BOOLEAN, forwarded : BOOLEAN]

SessionType == [arg : Legs \cup {None}, telev_recv : BOOLEAN,
                remote : Rtp \cup {None}]

RowType == [status : {"created", "connecting", "established", "disconnected"},
            talked : BOOLEAN, forwarded : BOOLEAN]

(* Type correctness; the recording is played max_play times at most        *)
(* (call.c:279).                                                           *)
TypeOK ==
    /\ destinations \in Seq(Dest) /\ processl \in Seq(Dest)
    /\ try_count \in [Dest -> 0..TryWrap - 1]
    /\ since \in [Dest -> 0..RetryDelay]
    /\ tmr \in [Dest -> {"off", "armed", "due"}]
    /\ call \in [Dest -> CallType] /\ pbx_call \in [Dest -> CallType]
    /\ thread \in [Dest -> {"none", "playing"}]
    /\ free \in Seq(Rtp)
    /\ rtp \in [Rtp -> SessionType] /\ row \in [Dest -> RowType]
    /\ cpTmr \in {"off", "armed", "due"}
    /\ pc \in {"idle", "pick", "dial", "join"} /\ todo \in Seq(Dest)
    /\ faults \in 0..MaxFault /\ crashed \in BOOLEAN

SessionOf(leg) ==
    IF leg[2] = "call" THEN call[leg[1]].rtp_sess ELSE pbx_call[leg[1]].rtp_sess

Owned == {SessionOf(leg) : leg \in Legs} \ {None}

(* An RTP session is free once or belongs to exactly one leg; only the     *)
(* error path of sdp_sess_alloc loses one for good (call.c:340-420).       *)
PoolConserved ==
    /\ Len(free) = Cardinality(ToSet(free))
    /\ ToSet(free) \cap Owned = {}
    /\ \A l, m \in Legs : l # m /\ SessionOf(l) # None
                           => SessionOf(l) # SessionOf(m)
    /\ Cardinality(Rtp \ (ToSet(free) \cup Owned)) <= faults

(* rtp_recv_handler (call.c:82-138) relays media only between the two legs *)
(* of one call, in both directions, and never into a session that was      *)
(* released or given to another call.                                      *)
MediaStaysInCall ==
    \A r \in Rtp : rtp[r].remote # None =>
        /\ rtp[rtp[r].remote].remote = r
        /\ \E d \in Dest : {r, rtp[r].remote}
                           = {call[d].rtp_sess, pbx_call[d].rtp_sess}

(* A session takes digits only while a call that was answered owns it: no  *)
(* packet acts on a call before its answer, on one that has given the      *)
(* session back, or on the PBX leg (call.c:31-43, 82-118).  More it does   *)
(* not say: the source of a packet is not looked at, and a late end of a   *)
(* key of the session's previous call acts on the next one once that is    *)
(* answered.                                                               *)
DigitsNeedAnswer ==
    \A r \in Rtp : rtp[r].telev_recv =>
        \E d \in Dest : /\ rtp[r].arg = <<d, "call">>
                        /\ call[d].rtp_sess = r
                        /\ call[d].status \in {"established", "disconnected"}

(* rtpThread never runs on a call that is freed or on a session that went  *)
(* back to the pool: the destructor joins it first (call.c:45-59).         *)
PlayerHoldsCall ==
    \A d \in Dest : thread[d] = "playing" => call[d].rtp_sess # None

(* A destination's list element is in one list only, once; the ones with a *)
(* call are in the process list (main.c:482-484, 531-534).                 *)
OneList ==
    /\ \A i, j \in DOMAIN (destinations \o processl) :
        i # j => (destinations \o processl)[i] # (destinations \o processl)[j]
    /\ \A d \in Dest : call[d] # NoCall => d \in ToSet(processl)

(* The campaign never runs more calls than its frequency, and no contact   *)
(* is tried more often than it says (main.c:475, 517-539).                 *)
LimitsHeld ==
    /\ Len(processl) <= CallLimit
    /\ MaxTry > 0 => \A d \in Dest : try_count[d] <= MaxTry

(* Between handlers the calls row agrees with the call: a row left         *)
(* "connecting" or "established" has a live call, which will complete it.  *)
RowTracksCall ==
    pc = "idle" => \A d \in Dest :
        /\ call[d] = NoCall => row[d].status \in {"created", "disconnected"}
        /\ call[d].status = "connecting" => row[d].status = "connecting"
        /\ row[d].status = "established" => call[d].status = "established"

(* A contact that talked is not called again, unless its call was bridged  *)
(* to a PBX leg that was not answered (main.c:447-463, 475-487).           *)
AnsweredOnce ==
    \A d \in ToSet(destinations) : row[d].talked => row[d].forwarded

(* With two sessions per call and no failed allocation a contact leaves    *)
(* the campaign only through a completed call; with a smaller pool         *)
(* start_fake_calling throws away contacts it never called.                *)
NoContactDropped ==
    Cardinality(Rtp) >= 2 * CallLimit /\ faults = 0 =>
        \A d \in Dest : d \notin ToSet(destinations) \cup ToSet(processl)
                        => row[d].status = "disconnected"

(* A contact is called again only after the retry delay (main.c:526).  It  *)
(* holds for a recording that can be opened: a call to "missing" ends with *)
(* the destination still in the process list, which the next round dials   *)
(* without a look at the delay (main.c:552-578).                           *)
RetrySpacing ==
    [][\A d \in Dest : call[d] = NoCall /\ call'[d] # NoCall /\ try_count[d] > 0
                        => since[d] >= RetryDelay]_vars

(* A call ends: every wait of on_call_end has a limit, if the campaign has *)
(* a maximal duration and the pool has room for the PBX legs.              *)
EveryCallEnds ==
    \A d \in Dest : call[d] # NoCall ~> (call[d] = NoCall \/ crashed)

(* A campaign with a limit on the tries calls everyone and comes to an end.*)
CampaignCompletes == <>(crashed \/ (destinations = << >> /\ processl = << >>))
=============================================================================
