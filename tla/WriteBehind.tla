---------------------------- MODULE WriteBehind ----------------------------
(***************************************************************************)
(* What the write-behind statement queue of db.c promises its caller.      *)
(*                                                                         *)
(* Statements are numbered in the order db_exec is called.  Each one is    *)
(* applied by the database at most once, in the order of the calls, or it  *)
(* is lost; a lost statement is never applied afterwards.  The promise     *)
(* says nothing of when: that is QueuedReachesDb of module SqlQueue.       *)
(***************************************************************************)
EXTENDS Naturals, Sequences

VARIABLES
    issued,     \* number of calls of db_exec so far
    applied,    \* the statements the database has executed, oldest first
    lost        \* the statements that will never be executed

vars == <<issued, applied, lost>>

Init == issued = 0 /\ applied = << >> /\ lost = {}

(* The caller hands over one more statement. *)
Issue ==
    /\ issued' = issued + 1
    /\ UNCHANGED <<applied, lost>>

(* The database executes a statement that comes after all it has executed. *)
Apply ==
    \E q \in 1..issued :
        /\ q \notin lost
        /\ \A i \in DOMAIN applied : applied[i] < q
        /\ applied' = Append(applied, q)
        /\ UNCHANGED <<issued, lost>>

(* Some statements that were not executed are given up. *)
Lose ==
    \E S \in SUBSET (1..issued) :
        /\ \A i \in DOMAIN applied : applied[i] \notin S
        /\ lost' = lost \cup S
        /\ UNCHANGED <<issued, applied>>

Next == Issue \/ Apply \/ Lose

Spec == Init /\ [][Next]_vars
=============================================================================
