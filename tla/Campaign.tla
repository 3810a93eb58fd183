------------------------------ MODULE Campaign ------------------------------
(***************************************************************************)
(* The life of one campaign between the two threads that share it without  *)
(* a lock: DbThread, whose pull_groups (main.c) creates, updates, loads and*)
(* frees it from the database, and the main thread, which runs it from     *)
(* cp->tmr after a message on the mqueue.                                  *)
(*                                                                         *)
(* Module Dialer says what happens inside a call.  Here a destination is   *)
(* one of the copies of a contact that wait in cp->destinations or are in  *)
(* cp->processl, with a call or without.  The row of a contact gets its    *)
(* call_duration through the statement queue of module SqlQueue: it        *)
(* changes at the next db_sync.                                            *)
(*                                                                         *)
(* What pull_groups does to a campaign in one place is one step.  Where    *)
(* the two threads can be inside the campaign at once without a lock, the  *)
(* step of the one that comes second may set crashed: see Free and         *)
(* ListRace.                                                               *)
(***************************************************************************)
EXTENDS Naturals, Sequences, FiniteSets, SequencesExt, FiniteSetsExt

CONSTANTS
    Contact,    \* the contacts of the campaign
    CallLimit,  \* cp->call_limit
    PipeSize,   \* messages the pipe of the mqueue holds (thousands)
    Prompt      \* the main loop reads the mqueue within DbThread's sleep

ASSUME CampaignConstants ==
    /\ IsFiniteSet(Contact) /\ CallLimit \in Nat \ {0}
    /\ PipeSize \in Nat \ {0} /\ Prompt \in BOOLEAN

VARIABLES
    dbStatus,   \* campaigns.status, set by the operator
    talked,     \* contacts whose row has call_duration > 0
    queued,     \* contacts whose row will have it after the next db_sync
    dbpc,       \* where DbThread is
    snap,       \* the status pull_groups has read
    alive,      \* the campaign is in services
    status,     \* cp->campaign_status
    is_running, \* cp->is_running
    tmr,        \* cp->tmr is started
    waiting,    \* copies of each contact in cp->destinations
    active,     \* copies of each contact in cp->processl that have a call
    idle,       \* copies of each contact in cp->processl that have none
    missed,     \* contacts that talked and are to be called again
    keyed,      \* contacts whose call holds a pointer into cp->actions
    stale,      \* those whose pointer was freed by list_flush(&cp->actions)
    msgq,       \* the messages: "live", or "dangling" once cp was freed
    ready,      \* main() has called mqueue_alloc
    mainpc,     \* where the main thread is in start_fake_calling
    paused,     \* the campaign was seen not running since it was created
    crashed     \* freed memory was used, or the timer list is broken

cpVars == <<alive, status, is_running, tmr, waiting, active, idle, missed,
            keyed, stale>>
dbVars == <<dbStatus, talked, queued>>
vars == <<dbVars, dbpc, snap, cpVars, msgq, ready, mainpc, paused, crashed>>

None == [c \in Contact |-> 0]
Total(copies) == MapThenSumSet(LAMBDA c : copies[c], Contact)

Init ==
    /\ dbStatus = 1 /\ talked = {} /\ queued = {}
    /\ dbpc = "sync" /\ snap = 0
    /\ alive = FALSE /\ status = 0 /\ is_running = FALSE /\ tmr = FALSE
    /\ waiting = None /\ active = None /\ idle = None /\ missed = {}
    /\ keyed = {} /\ stale = {}
    /\ msgq = << >> /\ ready = FALSE /\ mainpc = "idle"
    /\ paused = FALSE /\ crashed = FALSE

(* The operator sets the status: 0 created, 1 ready, 2 running, 3 pause,   *)
(* 4 stopped, 5 disabled.                                                  *)
Operator ==
    /\ dbStatus' \in 0..5 \ {dbStatus}
    /\ UNCHANGED <<talked, queued, dbpc, snap, cpVars, msgq, ready, mainpc,
                   paused, crashed>>

-----------------------------------------------------------------------------
(* DbThread: db_sync, then pull_groups, then sleep *)

At(from, to) == ~crashed /\ dbpc = from /\ dbpc' = to

Sync ==
    /\ At("sync", "select")
    /\ talked' = queued
    /\ UNCHANGED <<dbStatus, queued, snap, cpVars, msgq, ready, mainpc, paused, crashed>>

(* SELECT ... WHERE c.status > 1; the row may change before it is used. *)
Select ==
    /\ At("select", "update")
    /\ snap' = dbStatus
    /\ UNCHANGED <<dbVars, cpVars, msgq, ready, mainpc, paused, crashed>>

(* get_results returns NULL for the gateways or the campaigns, and         *)
(* pull_groups returns; or for the destinations, and the campaign is left  *)
(* as it is.  A failed query of the actions is in module SqlQueue.         *)
QueryFails ==
    /\ At("select", "sleep") \/ (At("load", "sleep") /\ waiting = None)
    /\ UNCHANGED <<dbVars, snap, cpVars, msgq, ready, mainpc, paused, crashed>>

(* The row is not among the results, or it is of a new campaign that does  *)
(* not run.                                                                *)
Ignore ==
    /\ At("update", "services")
    /\ snap <= 1 \/ (~alive /\ snap # 2)
    /\ UNCHANGED <<dbVars, snap, cpVars, msgq, ready, mainpc, paused, crashed>>

Create ==
    /\ At("update", "services")
    /\ ~alive /\ snap = 2
    /\ alive' = TRUE /\ status' = 2 /\ is_running' = FALSE /\ tmr' = FALSE
    /\ waiting' = None /\ active' = None /\ idle' = None /\ missed' = {}
    /\ keyed' = {} /\ stale' = {}
    /\ paused' = FALSE
    /\ UNCHANGED <<dbVars, snap, msgq, ready, mainpc, crashed>>

(* Mutant: only a disabled campaign is freed. *)
Over_disabled == snap > 4 /\ active = None /\ idle = None

(* The campaign is stopped or disabled and its process list is empty.      *)
Over == snap > 3 /\ active = None /\ idle = None

Update ==
    /\ At("update", "services")
    /\ alive /\ snap > 1 /\ ~Over
    /\ status' = snap
    /\ paused' = (paused \/ snap # 2)
    /\ UNCHANGED <<dbVars, snap, alive, is_running, tmr, waiting, active, idle,
                   missed, keyed, stale, msgq, ready, mainpc, crashed>>

(* mem_deref(cp) in DbThread: the destructor cancels the timer and flushes *)
(* the lists.  The main thread may be in start_fake_calling on this cp,    *)
(* and a message on the mqueue still points to it.                         *)
Free ==
    /\ At("update", "services")
    /\ alive /\ snap > 1 /\ Over
    /\ alive' = FALSE /\ status' = snap /\ is_running' = FALSE /\ tmr' = FALSE
    /\ waiting' = None /\ missed' = {} /\ keyed' = {} /\ stale' = {}
    /\ msgq' = [i \in DOMAIN msgq |-> "dangling"]
    /\ crashed' = (mainpc = "round")
    /\ UNCHANGED <<dbVars, snap, active, idle, ready, mainpc, paused>>

(* Mutant: the loop over services does not skip running campaigns. *)
Skips_none == ~alive

(* Nothing to load: the campaign is running, or there is none. *)
Skips == ~alive \/ is_running

ServicesSkip ==
    /\ At("services", "sleep")
    /\ Skips
    /\ UNCHANGED <<dbVars, snap, cpVars, msgq, ready, mainpc, paused, crashed>>

ServicesVisit ==
    /\ At("services", "load")
    /\ ~Skips
    /\ UNCHANGED <<dbVars, snap, cpVars, msgq, ready, mainpc, paused, crashed>>

MustLoad == waiting = None

(* SELECT ... from calls where call_duration = 0 *)
Load ==
    /\ At("load", "actions")
    /\ waiting' = IF MustLoad
                  THEN [c \in Contact |->
                            waiting[c] + IF c \in talked THEN 0 ELSE 1]
                  ELSE waiting
    /\ UNCHANGED <<dbVars, snap, alive, status, is_running, tmr, active, idle,
                   missed, keyed, stale, msgq, ready, mainpc, paused, crashed>>

(* list_flush(&cp->actions): calls that were keyed hold freed actions. *)
FlushActions ==
    /\ At("actions", "push")
    /\ stale' = stale \cup keyed /\ keyed' = {}
    /\ UNCHANGED <<dbVars, snap, alive, status, is_running, tmr, waiting, active,
                   idle, missed, msgq, ready, mainpc, paused, crashed>>

(* mqueue_push refuses the NULL queue that main() has not allocated yet,   *)
(* and blocks while the pipe is full.                                      *)
Push ==
    /\ At("push", "sleep")
    /\ Len(msgq) < PipeSize
    /\ msgq' = IF ready THEN Append(msgq, "live") ELSE msgq
    /\ UNCHANGED <<dbVars, snap, cpVars, ready, mainpc, paused, crashed>>

Wake ==
    /\ At("sleep", "sync")
    /\ Prompt => msgq = << >> /\ mainpc = "idle"
    /\ UNCHANGED <<dbVars, snap, cpVars, msgq, ready, mainpc, paused, crashed>>

DbThread ==
    \/ Sync \/ Select \/ QueryFails \/ Ignore \/ Create \/ Update \/ Free
    \/ ServicesSkip \/ ServicesVisit \/ Load \/ FlushActions \/ Push \/ Wake

-----------------------------------------------------------------------------
(* The main thread *)

MqueueAlloc ==
    /\ ~ready /\ ready' = TRUE
    /\ UNCHANGED <<dbVars, dbpc, snap, cpVars, msgq, mainpc, paused, crashed>>

MainIdle == ~crashed /\ ready /\ mainpc = "idle"

(* Mutant: a campaign that is not to run keeps is_running. *)
Standby_bug ==
    /\ tmr' = FALSE
    /\ UNCHANGED <<is_running, waiting, active, idle, missed, queued, mainpc>>

(* start_fake_calling of a campaign whose status is not 2 *)
Standby ==
    /\ is_running' = FALSE /\ tmr' = FALSE
    /\ UNCHANGED <<waiting, active, idle, missed, queued, mainpc>>

Some(copies) == {c \in Contact : copies[c] > 0}

(* start_fake_calling of one whose status is 2: destinations are moved to  *)
(* the process list, and each entry of it that has no call is called.  The *)
(* entry keeps without one if the campaign has no gateway or its recording *)
(* is not there, and is freed if call_alloc fails.  update_call_status     *)
(* queues call_duration = 0 for one that is called.                        *)
Dial ==
    /\ mainpc' = "round" /\ tmr' = FALSE
    /\ \E moved, called, failed \in [Contact -> 0..CallLimit] :
        /\ \A c \in Contact :
            moved[c] <= waiting[c] /\ called[c] + failed[c] <= idle[c] + moved[c]
        /\ moved = None
           \/ Total(moved) + Total(active) + Total(idle) <= CallLimit
        /\ waiting' = [c \in Contact |-> waiting[c] - moved[c]]
        /\ active' = [c \in Contact |-> active[c] + called[c]]
        /\ idle' = [c \in Contact |->
                       idle[c] + moved[c] - called[c] - failed[c]]
        /\ queued' = queued \ Some(called) /\ missed' = missed \ Some(called)

StartFakeCalling ==
    \/ status # 2 /\ Standby
    \/ status = 2 /\ Dial /\ UNCHANGED is_running

(* The main thread changes cp->destinations while DbThread appends the     *)
(* rows that it loads: the list may break.                                 *)
ListRace == dbpc = "load" /\ waiting' # waiting

(* tmr_init wipes a timer that is in the timer list: the list may break. *)
TmrInit == crashed' \in (IF tmr \/ ListRace THEN BOOLEAN ELSE {FALSE})

(* Mutant: campaign_service_handler does not set is_running. *)
ServiceHandler_bug ==
    /\ MainIdle /\ msgq # << >> /\ Head(msgq) = "live"
    /\ msgq' = Tail(msgq)
    /\ StartFakeCalling /\ TmrInit
    /\ UNCHANGED <<dbStatus, talked, dbpc, snap, alive, status, keyed, stale,
                   ready, paused>>

(* campaign_service_handler: is_running is set, cp->tmr initialised and    *)
(* start_fake_calling called.                                              *)
ServiceHandler ==
    /\ MainIdle /\ msgq # << >> /\ Head(msgq) = "live"
    /\ msgq' = Tail(msgq)
    /\ \/ status # 2 /\ Standby
       \/ status = 2 /\ Dial /\ is_running' = TRUE
    /\ TmrInit
    /\ UNCHANGED <<dbStatus, talked, dbpc, snap, alive, status, keyed, stale,
                   ready, paused>>

UseFreed ==
    /\ MainIdle /\ msgq # << >> /\ Head(msgq) = "dangling"
    /\ crashed' = TRUE
    /\ UNCHANGED <<dbVars, dbpc, snap, cpVars, msgq, ready, mainpc, paused>>

(* cp->tmr fires. *)
Timer ==
    /\ MainIdle /\ tmr
    /\ StartFakeCalling
    /\ crashed' \in (IF ListRace THEN BOOLEAN ELSE {FALSE})
    /\ UNCHANGED <<dbStatus, talked, dbpc, snap, alive, status, keyed, stale,
                   msgq, ready, paused>>

(* The end of start_fake_calling: tmr_start(&cp->tmr, 10000, ...). *)
Rearm ==
    /\ ~crashed /\ mainpc = "round"
    /\ mainpc' = "idle" /\ tmr' = TRUE
    /\ UNCHANGED <<dbVars, dbpc, snap, alive, status, is_running, waiting,
                   active, idle, missed, keyed, stale, msgq, ready, paused,
                   crashed>>

(* A callee presses the key of an action that forwards the call. *)
Key(c) ==
    /\ MainIdle /\ active[c] > 0 /\ c \notin stale
    /\ keyed' = keyed \cup {c}
    /\ UNCHANGED <<dbVars, dbpc, snap, alive, status, is_running, tmr, waiting,
                   active, idle, missed, stale, msgq, ready, mainpc, paused,
                   crashed>>

(* The destination whose call ended is freed, or waits for the next try. *)
Leaves == UNCHANGED <<waiting, missed>>
Retries(c) == waiting' = [waiting EXCEPT ![c] = @ + 1]

(* on_call_end ends a call: the contact talked, or not, which is written   *)
(* to its row; it has used its tries, or waits for the next one.  One that *)
(* talked waits for the next one too if its PBX leg was not answered,      *)
(* whose duration of 0 takes the place of its own before the decision.  A  *)
(* stale action is dereferenced for the call_forwarding row.               *)
CallEnds(c) ==
    /\ MainIdle /\ active[c] > 0
    /\ active' = [active EXCEPT ![c] = @ - 1]
    /\ keyed' = keyed \ {c} /\ stale' = stale \ {c}
    /\ \/ queued' = queued \cup {c} /\ Leaves
       \/ queued' = queued \cup {c} /\ Retries(c) /\ missed' = missed \cup {c}
       \/ queued' = queued \ {c} /\ Leaves
       \/ queued' = queued \ {c} /\ Retries(c) /\ UNCHANGED missed
    /\ crashed' \in (IF c \in stale \/ ListRace THEN BOOLEAN ELSE {FALSE})
    /\ UNCHANGED idle
    /\ UNCHANGED <<dbStatus, talked, dbpc, snap, alive, status, is_running, tmr,
                   msgq, ready, mainpc, paused>>

MainThread ==
    \/ MqueueAlloc \/ ServiceHandler \/ UseFreed \/ Timer \/ Rearm
    \/ \E c \in Contact : Key(c) \/ CallEnds(c)

Next == Operator \/ DbThread \/ MainThread

(* DbThread and the main loop keep running, the database answers now and   *)
(* then, and a call in progress ends (EveryCallEnds of module Dialer).     *)
(* Nothing ends an entry of the process list that has no call.             *)
Fairness ==
    /\ WF_vars(DbThread) /\ WF_vars(MqueueAlloc)
    /\ SF_vars(Select) /\ SF_vars(Load)
    /\ SF_vars(ServiceHandler \/ UseFreed) /\ SF_vars(Timer) /\ WF_vars(Rearm)
    /\ \A c \in Contact : SF_vars(CallEnds(c))

Spec == Init /\ [][Next]_vars /\ Fairness

-----------------------------------------------------------------------------
(* Type correctness.                                                       *)
TypeOK ==
    /\ dbStatus \in 0..5 /\ snap \in 0..5 /\ status \in 0..5
    /\ talked \subseteq Contact /\ queued \subseteq Contact
    /\ dbpc \in {"sync", "select", "update", "services", "load", "actions",
                 "push", "sleep"}
    /\ alive \in BOOLEAN /\ is_running \in BOOLEAN /\ tmr \in BOOLEAN
    /\ waiting \in [Contact -> Nat] /\ active \in [Contact -> Nat]
    /\ idle \in [Contact -> Nat] /\ missed \subseteq Contact
    /\ keyed \subseteq Contact /\ stale \subseteq Contact
    /\ msgq \in Seq({"live", "dangling"}) /\ Len(msgq) <= PipeSize
    /\ ready \in BOOLEAN /\ mainpc \in {"idle", "round"}
    /\ paused \in BOOLEAN /\ crashed \in BOOLEAN

(* Between handlers a campaign has its timer exactly if it is marked       *)
(* running: it is neither started twice nor left without a timer           *)
(* (main.c:504-591).                                                       *)
RunningIffArmed == mainpc = "idle" /\ ~crashed => is_running = tmr

(* A message is for a campaign that exists and whose timer is not started: *)
(* tmr_init never wipes a timer that is in the timer list, and no freed    *)
(* campaign is started (main.c:337, 585-591).                              *)
MessagesFresh ==
    msgq # << >> => alive /\ ~tmr /\ mainpc = "idle" /\ msgq = <<"live">>

(* No contact is in the lists twice, nor has a call while its row says, or *)
(* is about to say, that it talked; one whose row says so is in the lists  *)
(* at all only because it was missed.                                      *)
ListedOnce ==
    /\ \A c \in Contact : waiting[c] + active[c] + idle[c] <= 1
    /\ \A c \in queued :
        active[c] = 0 /\ (waiting[c] + idle[c] > 0 => c \in missed)

(* What pull_groups reads or writes without a lock does no harm to a       *)
(* campaign that has not been paused: no contact is in its lists twice,    *)
(* none has a call while its row says, or is about to say, that it talked, *)
(* and no call holds a freed action.  A contact whose row says so is in    *)
(* the lists at all only to be called again because its PBX leg was not    *)
(* answered (main.c:455-486).  After a pause all three happen.             *)
RunningUndisturbed ==
    alive /\ ~paused /\ ~crashed => ListedOnce /\ stale = {}

(* A campaign that is stopped or disabled for good is freed, and stays so  *)
(* (main.c:224-227), unless an entry without a call was left in its        *)
(* process list: nothing takes that one out any more (main.c:510-545).     *)
StopCompletes ==
    <>[](dbStatus > 3) => <>[](~alive \/ crashed \/ idle # None)

(* A campaign whose row says running for good is in the end running, with  *)
(* its timer started or its round under way, however often it was paused,  *)
(* stopped and freed before (main.c:272, 337, 510-514, 582-591).           *)
ResumeStarts ==
    <>[](dbStatus = 2)
        => <>[](crashed \/ (is_running /\ (tmr \/ mainpc = "round")))
=============================================================================
