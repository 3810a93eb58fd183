------------------------------ MODULE SqlQueue ------------------------------
(***************************************************************************)
(* The write-behind statement queue of src/src/db.c and its two threads:   *)
(* the main thread, whose handlers call db_exec, and DbThread of main.c,   *)
(* which calls db_sync and pull_groups every ten seconds.                  *)
(*                                                                         *)
(* A statement is the number of the db_exec call that made it.  list_append*)
(* reads the list's tail before it writes it, and db_sync reads the list's *)
(* head before list_init clears it, so each of them is two steps: only     *)
(* gMutex keeps the two threads apart.                                     *)
(***************************************************************************)
EXTENDS Naturals, Sequences, FiniteSets, SequencesExt

CONSTANTS
    MaxQuery,   \* bound on the calls of db_exec
    MaxFault    \* bound on the failures of the environment

ASSUME BoundsAreNat == MaxQuery \in Nat /\ MaxFault \in Nat

VARIABLES
    gMutex,     \* the thread that holds gMutex
    sqllist,    \* the shared list
    mainpc,     \* where the main thread is in db_exec
    seen,       \* what list_append read before it writes
    issued,     \* calls of db_exec so far
    dbpc,       \* where DbThread is
    batch,      \* the chain db_sync walks through le
    con,        \* con->con: "open", "lost" by the server, "null" or "freed"
    running,    \* cleared by terminate()
    applied,    \* statements the server has executed (history)
    lost,       \* statements that are gone without being executed (history)
    faults,     \* failures of the environment so far
    crashed     \* a dead handle or a NULL result was used

vars == <<gMutex, sqllist, mainpc, seen, issued, dbpc, batch, con, running,
          applied, lost, faults, crashed>>

mainVars == <<mainpc, seen, issued>>
dbVars == <<dbpc, batch, con>>

InLock == {"read", "write", "unlock"}       \* main thread, holding gMutex
SyncLock == {"take", "reset", "unlock"}     \* DbThread, holding gMutex

(* db_connect has succeeded and DbThread has been created. *)
Init ==
    /\ gMutex = "none" /\ sqllist = << >>
    /\ mainpc = "idle" /\ seen = << >> /\ issued = 0
    /\ dbpc = "loop" /\ batch = << >> /\ con = "open"
    /\ running = TRUE
    /\ applied = << >> /\ lost = {} /\ faults = 0 /\ crashed = FALSE

Fault == faults < MaxFault /\ faults' = faults + 1

MainGo(from, to) == ~crashed /\ mainpc = from /\ mainpc' = to

DbGo(from, to) == ~crashed /\ dbpc = from /\ dbpc' = to

-----------------------------------------------------------------------------
(* The main thread: db_exec *)

(* A handler calls db_exec. *)
Call ==
    /\ MainGo("idle", "format")
    /\ running
    /\ issued < MaxQuery /\ issued' = issued + 1
    /\ UNCHANGED <<gMutex, sqllist, seen, dbVars, running, applied, lost,
                   faults, crashed>>

(* re_vsdprintf fails: nothing is queued, and no caller looks at err. *)
FormatFails ==
    /\ MainGo("format", "idle")
    /\ Fault
    /\ lost' = lost \cup {issued}
    /\ UNCHANGED <<gMutex, sqllist, seen, issued, dbVars, running, applied,
                   crashed>>

(* Mutant: db_exec appends without taking gMutex. *)
MainLock_bug ==
    /\ MainGo("format", "read")
    /\ UNCHANGED <<gMutex, sqllist, seen, issued, dbVars, running, applied,
                   lost, faults, crashed>>

MainLock ==
    /\ MainGo("format", "read")
    /\ gMutex = "none" /\ gMutex' = "main"
    /\ UNCHANGED <<sqllist, seen, issued, dbVars, running, applied, lost,
                   faults, crashed>>

AppendRead ==
    /\ MainGo("read", "write")
    /\ seen' = sqllist
    /\ UNCHANGED <<gMutex, sqllist, issued, dbVars, running, applied, lost,
                   faults, crashed>>

(* Mutant: list_prepend for list_append. *)
AppendWrite_bug ==
    /\ MainGo("write", "unlock")
    /\ sqllist' = <<issued>> \o seen
    /\ seen' = << >>
    /\ UNCHANGED <<gMutex, issued, dbVars, running, applied, lost, faults,
                   crashed>>

AppendWrite ==
    /\ MainGo("write", "unlock")
    /\ sqllist' = Append(seen, issued)
    /\ seen' = << >>
    /\ UNCHANGED <<gMutex, issued, dbVars, running, applied, lost, faults,
                   crashed>>

(* Mutant: db_exec returns without mtx_unlock. *)
MainUnlock_bug ==
    /\ MainGo("unlock", "idle")
    /\ UNCHANGED <<gMutex, sqllist, seen, issued, dbVars, running, applied,
                   lost, faults, crashed>>

MainUnlock ==
    /\ MainGo("unlock", "idle")
    /\ gMutex' = "none"
    /\ UNCHANGED <<sqllist, seen, issued, dbVars, running, applied, lost,
                   faults, crashed>>

(* terminate(): the signal handler runs on the main thread, between        *)
(* handlers.                                                               *)
Terminate ==
    /\ ~crashed /\ mainpc = "idle" /\ running
    /\ running' = FALSE
    /\ UNCHANGED <<gMutex, sqllist, mainVars, dbVars, applied, lost, faults,
                   crashed>>

(* main() after thrd_join(DbThread): mem_deref(db) flushes the list.       *)
(* mysql_close of a handle that is already freed may abort.                *)
Close ==
    /\ MainGo("idle", "closed")
    /\ ~running /\ dbpc = "done"
    /\ lost' = lost \cup ToSet(sqllist)
    /\ sqllist' = << >>
    /\ crashed' \in (IF con = "freed" THEN BOOLEAN ELSE {FALSE})
    /\ UNCHANGED <<gMutex, seen, issued, dbVars, running, applied, faults>>

-----------------------------------------------------------------------------
(* DbThread: while(running){ db_sync; pull_groups; sleep } *)

DbLock ==
    /\ DbGo("loop", "take")
    /\ running
    /\ gMutex = "none" /\ gMutex' = "db"
    /\ UNCHANGED <<sqllist, mainVars, batch, con, running, applied, lost,
                   faults, crashed>>

(* le = sqllist.head *)
Take ==
    /\ DbGo("take", "reset")
    /\ batch' = sqllist
    /\ UNCHANGED <<gMutex, sqllist, mainVars, con, running, applied, lost,
                   faults, crashed>>

(* Mutant: db_sync forgets list_init. *)
Reset_bug ==
    /\ DbGo("reset", "unlock")
    /\ UNCHANGED <<gMutex, sqllist, mainVars, batch, con, running, applied,
                   lost, faults, crashed>>

(* list_init(&sqllist) *)
Reset ==
    /\ DbGo("reset", "unlock")
    /\ sqllist' = << >>
    /\ UNCHANGED <<gMutex, mainVars, batch, con, running, applied, lost,
                   faults, crashed>>

DbUnlock ==
    /\ DbGo("unlock", "ping")
    /\ gMutex' = "none"
    /\ UNCHANGED <<sqllist, mainVars, batch, con, running, applied, lost,
                   faults, crashed>>

(* Mutant: mysql_close is not confined to the failed ping. *)
PingOk_bug ==
    /\ DbGo("ping", "exec")
    /\ con = "open" /\ con' = "null"
    /\ UNCHANGED <<gMutex, sqllist, mainVars, batch, running, applied, lost,
                   faults, crashed>>

(* "SELECT 1" on a live connection *)
PingOk ==
    /\ DbGo("ping", "exec")
    /\ con = "open"
    /\ UNCHANGED <<gMutex, sqllist, mainVars, batch, con, running, applied,
                   lost, faults, crashed>>

(* "SELECT 1" fails: the handle is closed.  On a handle that db_reconnect  *)
(* freed the query and the second mysql_close may also fail this way.      *)
PingFails ==
    /\ DbGo("ping", "reconnect")
    /\ con \in {"lost", "freed"}
    /\ con' = "null"
    /\ UNCHANGED <<gMutex, sqllist, mainVars, batch, running, applied, lost,
                   faults, crashed>>

(* The handle that a failed db_reconnect left behind is dereferenced, by   *)
(* the ping or by a query of pull_groups.                                  *)
UseDeadHandle ==
    /\ ~crashed
    /\ dbpc \in {"ping", "pull"}
    /\ con \in {"null", "freed"}
    /\ crashed' = TRUE
    /\ UNCHANGED <<gMutex, sqllist, mainVars, dbVars, running, applied, lost,
                   faults>>

ReconnectOk ==
    /\ DbGo("reconnect", "exec")
    /\ con' = "open"
    /\ UNCHANGED <<gMutex, sqllist, mainVars, batch, running, applied, lost,
                   faults, crashed>>

(* Mutant: no return after a failed db_reconnect. *)
ReconnectFails_bug ==
    /\ DbGo("reconnect", "exec")
    /\ Fault
    /\ con' \in {"null", "freed"}
    /\ UNCHANGED <<gMutex, sqllist, mainVars, batch, running, applied, lost,
                   crashed>>

(* mysql_init returns NULL, or mysql_real_connect fails and the new handle *)
(* is closed but kept in con->con.  db_sync returns: nothing reaches the   *)
(* chain it detached any more.                                             *)
ReconnectFails ==
    /\ DbGo("reconnect", "pull")
    /\ Fault
    /\ con' \in {"null", "freed"}
    /\ lost' = lost \cup ToSet(batch)
    /\ batch' = << >>
    /\ UNCHANGED <<gMutex, sqllist, mainVars, running, applied, crashed>>

ExecOk ==
    /\ DbGo("exec", "exec")
    /\ batch # << >> /\ con = "open"
    /\ applied' = Append(applied, Head(batch))
    /\ batch' = Tail(batch)
    /\ UNCHANGED <<gMutex, sqllist, mainVars, con, running, lost, faults,
                   crashed>>

(* mysql_query fails, because the connection is gone or because the server *)
(* refuses the statement: it is reported and freed all the same.           *)
ExecFails ==
    /\ DbGo("exec", "exec")
    /\ batch # << >>
    /\ IF con = "lost" THEN UNCHANGED faults ELSE Fault
    /\ lost' = lost \cup {Head(batch)}
    /\ batch' = Tail(batch)
    /\ UNCHANGED <<gMutex, sqllist, mainVars, con, running, applied, crashed>>

(* Mutant: the walk over the chain stops early. *)
SyncReturns_bug ==
    /\ DbGo("exec", "pull")
    /\ UNCHANGED <<gMutex, sqllist, mainVars, batch, con, running, applied,
                   lost, faults, crashed>>

SyncReturns ==
    /\ DbGo("exec", "pull")
    /\ batch = << >>
    /\ UNCHANGED <<gMutex, sqllist, mainVars, batch, con, running, applied,
                   lost, faults, crashed>>

(* The gateway and campaign queries of pull_groups; some campaigns need    *)
(* their destinations and actions loaded.                                  *)
PullCampaigns ==
    /\ DbGo("pull", "actions")
    /\ con = "open"
    /\ UNCHANGED <<gMutex, sqllist, mainVars, batch, con, running, applied,
                   lost, faults, crashed>>

(* pull_groups returns: there is nothing to load or a query has failed.    *)
PullReturns ==
    /\ \E from \in {"pull", "actions"} : DbGo(from, "check")
    /\ con # "null"
    /\ UNCHANGED <<gMutex, sqllist, mainVars, batch, con, running, applied,
                   lost, faults, crashed>>

(* The query of the actions fails, and mysql_fetch_row is given its NULL   *)
(* result.                                                                 *)
FetchNull ==
    /\ ~crashed
    /\ dbpc = "actions" /\ con = "lost"
    /\ crashed' = TRUE
    /\ UNCHANGED <<gMutex, sqllist, mainVars, dbVars, running, applied, lost,
                   faults>>

(* sleep(10), or the thread ends: running is read before and after it. *)
Sleep ==
    /\ DbGo("check", IF running THEN "loop" ELSE "done")
    /\ UNCHANGED <<gMutex, sqllist, mainVars, batch, con, running, applied,
                   lost, faults, crashed>>

LoopEnds ==
    /\ DbGo("loop", "done")
    /\ ~running
    /\ UNCHANGED <<gMutex, sqllist, mainVars, batch, con, running, applied,
                   lost, faults, crashed>>

(* The server closes the connection, or the network does. *)
ConnectionLost ==
    /\ ~crashed
    /\ con = "open"
    /\ Fault
    /\ con' = "lost"
    /\ UNCHANGED <<gMutex, sqllist, mainVars, dbpc, batch, running, applied,
                   lost, crashed>>

-----------------------------------------------------------------------------
DbExec == MainLock \/ AppendRead \/ AppendWrite \/ MainUnlock

DbThread ==
    \/ DbLock \/ Take \/ Reset \/ DbUnlock
    \/ PingOk \/ PingFails \/ UseDeadHandle \/ ReconnectOk \/ ReconnectFails
    \/ ExecOk \/ ExecFails \/ SyncReturns
    \/ PullCampaigns \/ PullReturns \/ FetchNull \/ Sleep \/ LoopEnds

Next ==
    \/ Call \/ FormatFails \/ DbExec \/ Terminate \/ Close
    \/ DbThread \/ ConnectionLost

(* Both threads are scheduled: DbThread never blocks but for gMutex and    *)
(* its sleep, and a db_exec that was entered returns.                      *)
Spec == Init /\ [][Next]_vars /\ WF_vars(DbExec) /\ WF_vars(DbThread)

-----------------------------------------------------------------------------
(* Type correctness of both threads' state; the chain is a local of db_sync *)
(* (db.c:248-287) and is gone when it returns.                             *)
TypeOK ==
    /\ gMutex \in {"none", "main", "db"}
    /\ sqllist \in Seq(Nat) /\ seen \in Seq(Nat) /\ batch \in Seq(Nat)
    /\ mainpc \in {"idle", "format", "closed"} \cup InLock
    /\ issued \in 0..MaxQuery
    /\ dbpc \in {"loop", "ping", "reconnect", "exec", "pull", "actions",
                 "check", "done"} \cup SyncLock
    /\ con \in {"open", "lost", "null", "freed"}
    /\ running \in BOOLEAN /\ crashed \in BOOLEAN
    /\ applied \in Seq(Nat) /\ lost \in SUBSET Nat
    /\ faults \in 0..MaxFault
    /\ dbpc \in {"loop", "take", "pull", "actions", "check", "done"}
          => batch = << >>

(* The statements the list, the chain and the main thread still hold. *)
InHand == IF mainpc \in {"format", "read", "write"} THEN {issued} ELSE {}

(* No statement vanishes between the threads: each one that db_exec was    *)
(* called for is in the caller's hand, queued, detached by db_sync,        *)
(* executed, or lost by one of the error paths.  An append that db_sync's  *)
(* list_init overtakes (db.c:248-254) would break it.                      *)
Accounted ==
    1..issued = InHand \cup ToSet(sqllist) \cup ToSet(batch)
                \cup ToSet(applied) \cup lost

(* The server executes the statements in the order of the db_exec calls    *)
(* and none twice, and what was given up is not executed: an UPDATE of a   *)
(* row can never be overtaken by an older one (db.c:270-285).              *)
AppliedInOrder ==
    /\ \A i, j \in DOMAIN applied : i < j => applied[i] < applied[j]
    /\ ToSet(applied) \cap lost = {}

(* The body of db_sync runs statements on a live handle only; the dangling *)
(* pointer a failed db_reconnect leaves in con->con is never used there,   *)
(* thanks to the early return (db.c:260-263).                              *)
ExecOnLiveHandle == dbpc = "exec" => con \in {"open", "lost"}

(* With a database that never fails, nothing is lost before the shutdown   *)
(* and the process does not crash.                                         *)
NothingLostWithoutFault ==
    faults = 0 => ~crashed /\ (lost = {} \/ mainpc = "closed")

(* The contract of module WriteBehind. *)
Contract == INSTANCE WriteBehind

ImplementsContract == Contract!Spec

(* A statement does not wait in the queue for ever: it is executed or lost,*)
(* or the process crashes or is stopped.                                   *)
QueuedReachesDb ==
    \A q \in 1..MaxQuery :
        q \in ToSet(sqllist)
            ~> (q \in ToSet(applied) \cup lost \/ crashed \/ ~running)
=============================================================================
