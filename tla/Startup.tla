--------------------------------- MODULE Startup -------------------------------
(***************************************************************************)
(* main() of main.c, sipcall_alloc() and rtp_session_allocate() of call.c, *)
(* db_connect() of db.c: what is allocated on the way up, in which order,  *)
(* which step may fail, and what the way down gives back beside a database *)
(* thread that ends when it next looks at "running".                       *)
(***************************************************************************)
EXTENDS Integers, FiniteSets

CONSTANTS
    Pool,               \* RTP sessions to allocate (100)
    MinPort, MaxPort    \* range of their ports (8000, 20000)

VARIABLES
    at,        \* the step main() is at
    have,      \* objects allocated and not given back
    pool,      \* ports of the RTP sessions
    left,      \* RTP sessions still to allocate
    conf,      \* the variable conf: "garbage", "null", "conf"
    thread,    \* DbThread: "none", "running", "ended"
    running,   \* the flag DbThread looks at
    failed,    \* the steps that failed
    wrong      \* something was given back that was not had

vars == <<at, have, pool, left, conf, thread, running, failed, wrong>>

Steps == {"libre_init", "conf_alloc", "mysql", "db_connect", "server", "thread_init",
          "sipcall_alloc", "rtp", "thrd_create", "mqueue_alloc", "incoming", "re_main",
          "destroy", "join", "msgq", "db", "conf", "rest", "exit"}

Init ==
    /\ at = "libre_init" /\ have = {} /\ pool = {} /\ left = Pool /\ conf = "garbage"
    /\ thread = "none" /\ running = TRUE /\ failed = {} /\ wrong = FALSE

(* a step that allocates objs and goes on, or fails: goto out *)
Try(step, objs, next) ==
    /\ at = step
    /\ \/ at' = next /\ have' = have \cup objs /\ UNCHANGED failed
       \/ at' = "msgq" /\ failed' = failed \cup {step} /\ UNCHANGED have

Rest == UNCHANGED <<pool, left, thread, running, wrong>>

LibreInit == Try("libre_init", {}, "conf_alloc") /\ Rest /\ UNCHANGED conf

(* option -v: the version is printed and nothing else done *)
Version ==
    /\ at = "conf_alloc" /\ at' = "exit"
    /\ UNCHANGED <<have, failed>> /\ Rest /\ UNCHANGED conf

ConfAlloc ==
    /\ Try("conf_alloc", {"conf"}, "mysql") /\ Rest
    /\ conf' = IF at' = "mysql" THEN "conf" ELSE "null"

(* the user and the host of the database, db_config *)
ConfMysql == Try("mysql", {"db_config"}, "db_connect") /\ Rest /\ UNCHANGED conf

(* db_connect(): db owns db_config from here; when it fails the half-made
   connection and db_config stay behind *)
DbConnect ==
    /\ at = "db_connect"
    /\ \/ at' = "server" /\ have' = have \cup {"db"} /\ UNCHANGED failed
       \/ at' = "msgq" /\ have' = have \cup {"con"} /\ failed' = failed \cup {at}
    /\ Rest /\ UNCHANGED conf

(* the address to listen at; audio_path may be missing *)
ConfServer ==
    \E objs \in {{}, {"audio_path"}} :
        Try("server", objs, "thread_init") /\ Rest /\ UNCHANGED conf

(* re_thread_init(), sys_daemon() *)
ThreadInit == Try("thread_init", {"re"}, "sipcall_alloc") /\ Rest /\ UNCHANGED conf

(* sipcall_alloc(): its error is not looked at, what was made is kept.  The
   first socket that is listened to makes the tables of the loop: fhs, fds,
   events and epfd of poll_setup(). *)
SipcallAlloc ==
    /\ at = "sipcall_alloc"
    /\ \E made \in {{}, {"dnsc"}, {"dnsc", "sip"}, {"dnsc", "sip", "sess_sock"}} :
          /\ \/ have' = have \cup made \cup {"polls"}
             \/ made = {} /\ UNCHANGED have
          /\ at' = IF "sess_sock" \in made THEN "rtp" ELSE "thrd_create"
          /\ failed' = IF "sess_sock" \in made THEN failed ELSE failed \cup {at}
    /\ Rest /\ UNCHANGED conf

(* udp_range_listen(): even ports of the range, of which one that is free is
   drawn in 64 tries or none *)
Draws == {((MinPort + d) \div 2) * 2 : d \in 0 .. MaxPort - MinPort - 1}

(* rtp_session_allocate(): a session without a port is dropped *)
RtpSessionAllocate ==
    /\ at = "rtp" /\ left > 0 /\ left' = left - 1
    /\ \/ UNCHANGED pool
       \/ \E p \in Draws \ pool : pool' = pool \cup {p}
    /\ at' = IF left' = 0 THEN "thrd_create" ELSE at
    /\ UNCHANGED <<have, conf, thread, running, failed, wrong>>

(* lock_alloc(), thrd_create() *)
ThrdCreate ==
    /\ at = "thrd_create" /\ have' = have \cup {"lock"}
    /\ \/ at' = "mqueue_alloc" /\ thread' = "running" /\ UNCHANGED failed
       \/ at' = "msgq" /\ failed' = failed \cup {at} /\ UNCHANGED thread
    /\ UNCHANGED <<pool, left, conf, running, wrong>>

(* mqueue_alloc(); when it fails the thread is left running *)
MqueueAlloc == Try("mqueue_alloc", {"msgq", "polls"}, "incoming") /\ Rest /\ UNCHANGED conf

(* init_incoming(): a socket, and with the silence file the rest *)
InitIncoming ==
    /\ at = "incoming" /\ at' = "re_main"
    /\ \E got \in {{}, {"udpsock"}, {"udpsock", "silence", "telev"}} : have' = have \cup got
    /\ UNCHANGED failed /\ Rest /\ UNCHANGED conf

(* signal_handler() and terminate(): the lists, the SIP stack and the RTP
   sessions go, the loop is cancelled.  A SIP session that waits for the end of
   its BYE or CANCEL goes on, with what it refers to (module Shutdown counts). *)
Signal ==
    /\ at = "re_main" /\ at' = "destroy"
    /\ running' = FALSE
    /\ \/ have' = have \ {"dnsc", "sip", "sess_sock"}
       \/ "sess_sock" \in have /\ have' = have \cup {"sess"}
    /\ pool' = {}
    /\ UNCHANGED <<left, conf, thread, failed, wrong>>

(* re_main() returns an error: nothing was told to the thread *)
ReMainFails ==
    /\ at = "re_main" /\ at' = "destroy" /\ failed' = failed \cup {at}
    /\ UNCHANGED have /\ Rest /\ UNCHANGED conf

(* destroy_incoming() *)
DestroyIncoming ==
    /\ at = "destroy" /\ at' = "join"
    /\ have' = have \ {"udpsock", "silence", "telev"}
    /\ UNCHANGED failed /\ Rest /\ UNCHANGED conf

(* thrd_join() *)
Join ==
    /\ at = "join" /\ thread = "ended" /\ at' = "msgq"
    /\ UNCHANGED <<have, failed>> /\ Rest /\ UNCHANGED conf

(* out: re_thread_close(), which frees the loop and not its tables, and msgq
   ... *)
FreeMsgq ==
    /\ at = "msgq" /\ at' = "db" /\ have' = have \ {"re", "msgq"}
    /\ UNCHANGED failed /\ Rest /\ UNCHANGED conf

(* ... db_destructor(): the connection, its config, the statements queued
   and the mutex ... *)
FreeDb ==
    /\ at = "db" /\ at' = "conf"
    /\ have' = IF "db" \in have THEN have \ {"db", "db_config"} ELSE have
    /\ UNCHANGED failed /\ Rest /\ UNCHANGED conf

(* ... conf, which is whatever the stack held when libre_init() failed ... *)
FreeConf ==
    /\ at = "conf" /\ at' = "rest"
    /\ have' = have \ {"conf"} /\ wrong' = (wrong \/ conf = "garbage")
    /\ UNCHANGED <<pool, left, conf, thread, running, failed>>

(* ... audio_path, lock, and the tables of the process's own loop
   (libre_close()), which has none *)
FreeRest ==
    /\ at = "rest" /\ at' = "exit" /\ have' = have \ {"audio_path", "lock"}
    /\ UNCHANGED failed /\ Rest /\ UNCHANGED conf

(* DbThread: a turn of its loop uses db, or the flag ends it.  It ends with
   the process at the latest. *)
DbThread ==
    /\ thread = "running" /\ at # "exit"
    /\ thread' = IF running THEN "running" ELSE "ended"
    /\ wrong' = (wrong \/ (running /\ "db" \notin have))
    /\ UNCHANGED <<at, have, pool, left, conf, running, failed>>

Next ==
    \/ LibreInit \/ Version \/ ConfAlloc \/ ConfMysql \/ DbConnect \/ ConfServer \/ ThreadInit
    \/ SipcallAlloc \/ RtpSessionAllocate \/ ThrdCreate \/ MqueueAlloc \/ InitIncoming
    \/ Signal \/ ReMainFails \/ DestroyIncoming \/ Join \/ FreeMsgq \/ FreeDb
    \/ FreeConf \/ FreeRest \/ DbThread

Spec == Init /\ [][Next]_vars

TypeOK ==
    /\ at \in Steps /\ pool \subseteq Draws /\ left \in 0..Pool /\ conf \in {"garbage", "null", "conf"}
    /\ thread \in {"none", "running", "ended"} /\ failed \subseteq Steps

(* The thread never works on a database connection that main() has given
   back, and main() gives back what it had and nothing else - but for two
   failures on the way up: libre_init(), with conf not yet set, and
   mqueue_alloc(), with the thread already running. *)
ReleasedAfterUse ==
    failed \cap {"libre_init", "mqueue_alloc"} = {} =>
        /\ ~wrong
        /\ thread = "running" => "db" \in have

(* A process that was told to end gives everything back, with two exceptions:
   the tables of its loop, which re_thread_close() forgets, and the SIP stack
   as long as a session waits for its BYE or CANCEL.  One that failed on the
   way up leaves besides only what was made for a connection that was refused,
   and what the SIP stack had when a later step failed; before its loop had
   anything to poll for, it leaves no table. *)
NothingLeft ==
    at = "exit" =>
        /\ failed \subseteq {"sipcall_alloc"} /\ "sess" \notin have => have \subseteq {"polls"}
        /\ failed \subseteq {"sipcall_alloc"} => pool = {}
        /\ "db_connect" \in failed => have = {"con", "db_config"}
        /\ have \subseteq {"con", "db_config", "dnsc", "sip", "sess_sock", "sess", "polls"}
        /\ "sess" \in have => {"dnsc", "sip", "sess_sock"} \subseteq have
===============================================================================
