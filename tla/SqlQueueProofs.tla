--------------------------- MODULE SqlQueueProofs ---------------------------
(***************************************************************************)
(* Proofs about SqlQueue, for any number of statements and of failures.    *)
(*                                                                         *)
(* AppliedInOrder is not inductive: a statement can only be executed in    *)
(* its turn because the chain, the list and the statement being appended   *)
(* are in order too, each before the next, and because gMutex makes the    *)
(* two-step append and the two-step take see the same list twice.          *)
(***************************************************************************)
EXTENDS SqlQueue, TLAPS

(* The elements of s are increasing and belong to S. *)
Ordered(s, S) ==
    /\ \A i, j \in 1..Len(s) : i < j => s[i] < s[j]
    /\ \A i \in 1..Len(s) : s[i] \in S

Below(s, t) == \A i \in 1..Len(s), j \in 1..Len(t) : s[i] < t[j]

(* The highest number that has left the caller's hand. *)
Top == IF mainpc \in {"format", "read", "write"} THEN issued - 1 ELSE issued

(* The statements that have left it and are not lost. *)
Live == (1..Top) \ lost

(* gMutex is held exactly in the critical sections. *)
MutexHeld ==
    /\ gMutex = "main" <=> mainpc \in InLock
    /\ gMutex = "db" <=> dbpc \in SyncLock

(* What list_append and db_sync have read under gMutex is still true. *)
ReadsFresh ==
    /\ mainpc = "write" => seen = sqllist
    /\ dbpc = "reset" => batch = sqllist
    /\ dbpc = "unlock" => sqllist = << >>

(* The statements flow from the caller's hand through the list and the     *)
(* chain to the database without overtaking one another.                   *)
FlowInOrder ==
    /\ Ordered(applied, Live) /\ Ordered(batch, Live) /\ Ordered(sqllist, Live)
    /\ Below(applied, batch) /\ Below(applied, sqllist)
    /\ dbpc # "reset" => Below(batch, sqllist)
    /\ lost \subseteq 1..Top
    /\ mainpc \in {"format", "read", "write"} => issued > 0

Inv == TypeOK /\ MutexHeld /\ ReadsFresh /\ FlowInOrder

-----------------------------------------------------------------------------
(* What list_append, and the walk over the chain, do to a sequence of      *)
(* statements.                                                             *)
LEMMA AppendFacts ==
    ASSUME NEW s \in Seq(Nat), NEW q \in Nat
    PROVE  /\ Append(s, q) \in Seq(Nat)
           /\ Len(Append(s, q)) = Len(s) + 1
           /\ \A i \in 1..Len(s) : Append(s, q)[i] = s[i]
           /\ Append(s, q)[Len(s) + 1] = q
  OBVIOUS

(* What Tail leaves of a sequence of statements. *)
LEMMA TailFacts ==
    ASSUME NEW s \in Seq(Nat), s # << >>
    PROVE  /\ Len(s) \in Nat \ {0} /\ Head(s) = s[1] /\ Head(s) \in Nat
           /\ Tail(s) \in Seq(Nat) /\ Len(Tail(s)) = Len(s) - 1
           /\ \A i \in 1..Len(s) - 1 : Tail(s)[i] = s[i + 1]
  OBVIOUS

(* A statement above all the others may be appended. *)
LEMMA OrderedAppend ==
    ASSUME NEW s \in Seq(Nat), NEW q \in Nat, NEW S, NEW T, Ordered(s, S),
           S \subseteq T, q \in T, \A i \in 1..Len(s) : s[i] < q
    PROVE  Ordered(Append(s, q), T)
  BY AppendFacts DEF Ordered

(* The rest of an ordered sequence is ordered. *)
LEMMA OrderedTail ==
    ASSUME NEW s \in Seq(Nat), NEW S, Ordered(s, S), s # << >>
    PROVE  /\ Head(s) \in S
           /\ \A i \in 1..Len(Tail(s)) : Head(s) < Tail(s)[i]
           /\ Ordered(Tail(s), S \ {Head(s)})
<1>1. /\ Len(s) \in Nat \ {0} /\ Head(s) = s[1] /\ Head(s) \in Nat
      /\ Tail(s) \in Seq(Nat) /\ Len(Tail(s)) = Len(s) - 1
      /\ \A i \in 1..Len(s) - 1 : Tail(s)[i] = s[i + 1]
  BY TailFacts
<1>2. Head(s) \in S
  BY <1>1 DEF Ordered
<1>3. \A i \in 1..Len(Tail(s)) : Head(s) < Tail(s)[i] /\ Tail(s)[i] \in Nat
  BY <1>1 DEF Ordered
<1>4. \A i \in 1..Len(Tail(s)) : Tail(s)[i] \in S \ {Head(s)}
  BY <1>1, <1>3 DEF Ordered
<1>5. \A i, j \in 1..Len(Tail(s)) : i < j => Tail(s)[i] < Tail(s)[j]
  BY <1>1 DEF Ordered
<1> QED
  BY <1>2, <1>3, <1>4, <1>5 DEF Ordered

(* The order of a sequence does not depend on the set it is drawn from. *)
LEMMA OrderedSubset ==
    ASSUME NEW s, NEW S, NEW T, Ordered(s, S), \A i \in 1..Len(s) : s[i] \in T
    PROVE  Ordered(s, T)
  BY DEF Ordered

(* Appending above s keeps s below. *)
LEMMA BelowAppend ==
    ASSUME NEW s \in Seq(Nat), NEW t \in Seq(Nat), NEW q \in Nat, Below(s, t)
    PROVE  /\ (\A i \in 1..Len(s) : s[i] < q) => Below(s, Append(t, q))
           /\ (\A j \in 1..Len(t) : q < t[j]) => Below(Append(s, q), t)
<1>1. ASSUME NEW u \in Seq(Nat), NEW i \in 1..Len(Append(u, q))
      PROVE  \/ i \in 1..Len(u) /\ Append(u, q)[i] = u[i]
             \/ Append(u, q)[i] = q
  BY AppendFacts
<1>2. ASSUME \A i \in 1..Len(s) : s[i] < q PROVE Below(s, Append(t, q))
  BY <1>1, <1>2 DEF Below
<1>3. ASSUME \A j \in 1..Len(t) : q < t[j] PROVE Below(Append(s, q), t)
  BY <1>1, <1>3 DEF Below
<1> QED
  BY <1>2, <1>3

(* Taking a statement off s keeps s below. *)
LEMMA BelowTail ==
    ASSUME NEW s \in Seq(Nat), NEW t \in Seq(Nat), Below(s, t)
    PROVE  /\ s # << >> => Below(Tail(s), t)
           /\ t # << >> => Below(s, Tail(t))
<1>1. s # << >> => Below(Tail(s), t)
  BY TailFacts DEF Below
<1>2. t # << >> => Below(s, Tail(t))
  BY TailFacts DEF Below
<1> QED
  BY <1>1, <1>2

(* The elements of a sequence, by index. *)
LEMMA ToSetFacts ==
    ASSUME NEW s \in Seq(Nat)
    PROVE  /\ ToSet(s) \subseteq Nat
           /\ \A q : q \in ToSet(s) <=> \E i \in 1..Len(s) : q = s[i]
  BY DEF ToSet

(* What holds of every entry of a sequence holds of its elements. *)
LEMMA ToSetWithin ==
    ASSUME NEW s \in Seq(Nat), NEW S, \A i \in 1..Len(s) : s[i] \in S
    PROVE  ToSet(s) \subseteq S
<1> SUFFICES ASSUME NEW q \in ToSet(s) PROVE q \in S
  OBVIOUS
<1>1. PICK i \in 1..Len(s) : q = s[i]
  BY ToSetFacts
<1> QED
  BY <1>1

(* What differs from every entry of a sequence is no element of it. *)
LEMMA ToSetApart ==
    ASSUME NEW s \in Seq(Nat), NEW q, \A i \in 1..Len(s) : q # s[i]
    PROVE  q \notin ToSet(s)
<1> SUFFICES ASSUME q \in ToSet(s) PROVE FALSE
  OBVIOUS
<1>1. PICK i \in 1..Len(s) : q = s[i]
  BY ToSetFacts
<1> QED
  BY <1>1

(* The type of every variable is kept by every step, for every number of   *)
(* statements and failures.                                                *)
LEMMA TypeInit == Init => TypeOK
<1> SUFFICES ASSUME Init PROVE TypeOK
  OBVIOUS
<1>1. running \in BOOLEAN /\ crashed \in BOOLEAN
  BY Zenon DEF Init
<1>2. lost \in SUBSET Nat
  BY DEF Init
<1>3. << >> \in Seq(Nat)
  OBVIOUS
<1> QED
  BY <1>1, <1>2, <1>3, BoundsAreNat DEF Init, TypeOK, InLock, SyncLock

(* Every step of either thread keeps the types. *)
LEMMA TypeStep == TypeOK /\ [Next]_vars => TypeOK'
<1> SUFFICES ASSUME TypeOK, [Next]_vars PROVE TypeOK'
  OBVIOUS
<1> USE BoundsAreNat DEF TypeOK, InLock, SyncLock, MainGo, DbGo, Fault, mainVars, dbVars
<1>1. CASE Call
  BY <1>1 DEF Call
<1>2. CASE FormatFails
  BY <1>2 DEF FormatFails
<1>3. CASE MainLock
  BY <1>3 DEF MainLock
<1>4. CASE AppendRead
  BY <1>4 DEF AppendRead
<1>5. CASE AppendWrite
  BY AppendFacts, <1>5 DEF AppendWrite
<1>6. CASE MainUnlock
  BY <1>6 DEF MainUnlock
<1>7. CASE Terminate
  BY <1>7 DEF Terminate
<1>8. CASE Close
  <2>1. lost' \in SUBSET Nat
    BY ToSetFacts, <1>8 DEF Close
  <2>2. crashed' \in BOOLEAN /\ running' \in BOOLEAN
    BY Zenon, <1>8 DEF Close
  <2> QED
    BY <1>8, <2>1, <2>2 DEF Close
<1>9. CASE DbLock
  BY <1>9 DEF DbLock
<1>10. CASE Take
  BY <1>10 DEF Take
<1>11. CASE Reset
  BY <1>11 DEF Reset
<1>12. CASE DbUnlock
  BY <1>12 DEF DbUnlock
<1>13. CASE PingOk
  BY <1>13 DEF PingOk
<1>14. CASE PingFails
  BY <1>14 DEF PingFails
<1>15. CASE UseDeadHandle
  BY <1>15 DEF UseDeadHandle
<1>16. CASE ReconnectOk
  BY <1>16 DEF ReconnectOk
<1>17. CASE ReconnectFails
  <2>1. lost' \in SUBSET Nat
    BY ToSetFacts, <1>17 DEF ReconnectFails
  <2> QED
    BY <1>17, <2>1 DEF ReconnectFails
<1>18. CASE ExecOk
  BY AppendFacts, TailFacts, <1>18 DEF ExecOk
<1>19. CASE ExecFails
  <2>1. Head(batch) \in Nat /\ Tail(batch) \in Seq(Nat)
    BY TailFacts, <1>19 DEF ExecFails
  <2>2. lost' \in SUBSET Nat
    BY <2>1, <1>19 DEF ExecFails
  <2>3. faults' \in 0..MaxFault
    BY <1>19 DEF ExecFails
  <2> QED
    BY <1>19, <2>1, <2>2, <2>3 DEF ExecFails
<1>20. CASE SyncReturns
  BY <1>20 DEF SyncReturns
<1>21. CASE PullCampaigns
  BY <1>21 DEF PullCampaigns
<1>22. CASE PullReturns
  BY <1>22 DEF PullReturns
<1>23. CASE FetchNull
  BY <1>23 DEF FetchNull
<1>24. CASE Sleep
  BY <1>24 DEF Sleep
<1>25. CASE LoopEnds
  BY <1>25 DEF LoopEnds
<1>26. CASE ConnectionLost
  BY <1>26 DEF ConnectionLost
<1>27. CASE UNCHANGED vars
  BY <1>27 DEF vars
<1> QED
  BY <1>1, <1>2, <1>3, <1>4, <1>5, <1>6, <1>7, <1>8, <1>9, <1>10, <1>11,
     <1>12, <1>13, <1>14, <1>15, <1>16, <1>17, <1>18, <1>19, <1>20, <1>21,
     <1>22, <1>23, <1>24, <1>25, <1>26, <1>27 DEF Next, DbExec, DbThread

(* Both threads keep the types of their state: in particular db_sync never *)
(* returns with a chain it has not walked or given up.                     *)
THEOREM TypeCorrect == Spec => []TypeOK
  BY TypeInit, TypeStep, PTL DEF Spec
-----------------------------------------------------------------------------
(* gMutex keeps the two-step append and the two-step take apart, so that   *)
(* what each has read is still so when it writes.                          *)
LEMMA LockStep ==
    TypeOK /\ MutexHeld /\ ReadsFresh /\ [Next]_vars
        => MutexHeld' /\ ReadsFresh'
<1> SUFFICES ASSUME TypeOK, MutexHeld, ReadsFresh, [Next]_vars
             PROVE  MutexHeld' /\ ReadsFresh'
  OBVIOUS
<1> USE DEF MutexHeld, ReadsFresh, InLock, SyncLock, MainGo, DbGo, mainVars,
            dbVars
<1>1. CASE Call
  BY <1>1 DEF Call
<1>2. CASE FormatFails
  BY <1>2 DEF FormatFails
<1>3. CASE MainLock
  BY <1>3 DEF MainLock
<1>4. CASE AppendRead
  BY <1>4 DEF AppendRead
<1>5. CASE AppendWrite
  BY <1>5 DEF AppendWrite
<1>6. CASE MainUnlock
  BY <1>6 DEF MainUnlock
<1>7. CASE Terminate
  BY <1>7 DEF Terminate
<1>8. CASE Close
  BY <1>8 DEF Close
<1>9. CASE DbLock
  BY <1>9 DEF DbLock
<1>10. CASE Take
  BY <1>10 DEF Take
<1>11. CASE Reset
  BY <1>11 DEF Reset
<1>12. CASE DbUnlock
  BY <1>12 DEF DbUnlock
<1>13. CASE PingOk
  BY <1>13 DEF PingOk
<1>14. CASE PingFails
  BY <1>14 DEF PingFails
<1>15. CASE UseDeadHandle
  BY <1>15 DEF UseDeadHandle
<1>16. CASE ReconnectOk
  BY <1>16 DEF ReconnectOk
<1>17. CASE ReconnectFails
  BY <1>17 DEF ReconnectFails
<1>18. CASE ExecOk
  BY <1>18 DEF ExecOk
<1>19. CASE ExecFails
  BY <1>19 DEF ExecFails
<1>20. CASE SyncReturns
  BY <1>20 DEF SyncReturns
<1>21. CASE PullCampaigns
  BY <1>21 DEF PullCampaigns
<1>22. CASE PullReturns
  BY <1>22 DEF PullReturns
<1>23. CASE FetchNull
  BY <1>23 DEF FetchNull
<1>24. CASE Sleep
  BY <1>24 DEF Sleep
<1>25. CASE LoopEnds
  BY <1>25 DEF LoopEnds
<1>26. CASE ConnectionLost
  BY <1>26 DEF ConnectionLost
<1>27. CASE UNCHANGED vars
  BY <1>27 DEF vars
<1> QED
  BY <1>1, <1>2, <1>3, <1>4, <1>5, <1>6, <1>7, <1>8, <1>9, <1>10, <1>11,
     <1>12, <1>13, <1>14, <1>15, <1>16, <1>17, <1>18, <1>19, <1>20, <1>21,
     <1>22, <1>23, <1>24, <1>25, <1>26, <1>27 DEF Next, DbExec, DbThread

(* A step that moves no statement, and does not leave the window between   *)
(* Take and Reset, keeps the order.                                        *)
LEMMA FlowFrame ==
    ASSUME FlowInOrder, UNCHANGED <<applied, batch, sqllist, lost>>, Top' = Top,
           dbpc = "reset" => dbpc' = "reset",
           mainpc' \in {"format", "read", "write"} => issued' > 0
    PROVE  FlowInOrder'
  BY DEF FlowInOrder, Live

(* Every step keeps the order of the statements on their way. *)
LEMMA FlowStep ==
    TypeOK /\ MutexHeld /\ ReadsFresh /\ FlowInOrder /\ [Next]_vars
        => FlowInOrder'
<1> SUFFICES ASSUME TypeOK, MutexHeld, ReadsFresh, FlowInOrder, [Next]_vars
             PROVE  FlowInOrder'
  OBVIOUS
<1>t. /\ applied \in Seq(Nat) /\ batch \in Seq(Nat) /\ sqllist \in Seq(Nat)
      /\ issued \in Nat /\ Top \in Int
  BY BoundsAreNat DEF TypeOK, Top
<1>1. CASE Call
  <2>1. /\ UNCHANGED <<applied, batch, sqllist, lost>>
        /\ dbpc = "reset" => dbpc' = "reset"
    BY <1>1 DEF Call, MainGo, DbGo, mainVars, dbVars
  <2>2. /\ Top' = Top
        /\ mainpc' \in {"format", "read", "write"} => issued' > 0
    BY <1>t, <1>1 DEF Call, MainGo, DbGo, mainVars, dbVars, Top, FlowInOrder
  <2> QED
    BY <2>1, <2>2, FlowFrame
<1>2. CASE MainLock
  <2>1. /\ UNCHANGED <<applied, batch, sqllist, lost>>
        /\ dbpc = "reset" => dbpc' = "reset"
    BY <1>2 DEF MainLock, MainGo, DbGo, mainVars, dbVars
  <2>2. /\ Top' = Top
        /\ mainpc' \in {"format", "read", "write"} => issued' > 0
    BY <1>t, <1>2 DEF MainLock, MainGo, DbGo, mainVars, dbVars, Top,
       FlowInOrder
  <2> QED
    BY <2>1, <2>2, FlowFrame
<1>3. CASE AppendRead
  <2>1. /\ UNCHANGED <<applied, batch, sqllist, lost>>
        /\ dbpc = "reset" => dbpc' = "reset"
    BY <1>3 DEF AppendRead, MainGo, DbGo, mainVars, dbVars
  <2>2. /\ Top' = Top
        /\ mainpc' \in {"format", "read", "write"} => issued' > 0
    BY <1>t, <1>3 DEF AppendRead, MainGo, DbGo, mainVars, dbVars, Top,
       FlowInOrder
  <2> QED
    BY <2>1, <2>2, FlowFrame
<1>4. CASE MainUnlock
  <2>1. /\ UNCHANGED <<applied, batch, sqllist, lost>>
        /\ dbpc = "reset" => dbpc' = "reset"
    BY <1>4 DEF MainUnlock, MainGo, DbGo, mainVars, dbVars
  <2>2. /\ Top' = Top
        /\ mainpc' \in {"format", "read", "write"} => issued' > 0
    BY <1>t, <1>4 DEF MainUnlock, MainGo, DbGo, mainVars, dbVars, Top,
       FlowInOrder
  <2> QED
    BY <2>1, <2>2, FlowFrame
<1>5. CASE Terminate
  <2>1. /\ UNCHANGED <<applied, batch, sqllist, lost>>
        /\ dbpc = "reset" => dbpc' = "reset"
    BY <1>5 DEF Terminate, MainGo, DbGo, mainVars, dbVars
  <2>2. /\ Top' = Top
        /\ mainpc' \in {"format", "read", "write"} => issued' > 0
    BY <1>t, <1>5 DEF Terminate, MainGo, DbGo, mainVars, dbVars, Top,
       FlowInOrder
  <2> QED
    BY <2>1, <2>2, FlowFrame
<1>6. CASE DbLock
  <2>1. /\ UNCHANGED <<applied, batch, sqllist, lost>>
        /\ dbpc = "reset" => dbpc' = "reset"
    BY <1>6 DEF DbLock, MainGo, DbGo, mainVars, dbVars
  <2>2. /\ Top' = Top
        /\ mainpc' \in {"format", "read", "write"} => issued' > 0
    BY <1>t, <1>6 DEF DbLock, MainGo, DbGo, mainVars, dbVars, Top, FlowInOrder
  <2> QED
    BY <2>1, <2>2, FlowFrame
<1>7. CASE DbUnlock
  <2>1. /\ UNCHANGED <<applied, batch, sqllist, lost>>
        /\ dbpc = "reset" => dbpc' = "reset"
    BY <1>7 DEF DbUnlock, MainGo, DbGo, mainVars, dbVars
  <2>2. /\ Top' = Top
        /\ mainpc' \in {"format", "read", "write"} => issued' > 0
    BY <1>t, <1>7 DEF DbUnlock, MainGo, DbGo, mainVars, dbVars, Top,
       FlowInOrder
  <2> QED
    BY <2>1, <2>2, FlowFrame
<1>8. CASE PingOk
  <2>1. /\ UNCHANGED <<applied, batch, sqllist, lost>>
        /\ dbpc = "reset" => dbpc' = "reset"
    BY <1>8 DEF PingOk, MainGo, DbGo, mainVars, dbVars
  <2>2. /\ Top' = Top
        /\ mainpc' \in {"format", "read", "write"} => issued' > 0
    BY <1>t, <1>8 DEF PingOk, MainGo, DbGo, mainVars, dbVars, Top, FlowInOrder
  <2> QED
    BY <2>1, <2>2, FlowFrame
<1>9. CASE PingFails
  <2>1. /\ UNCHANGED <<applied, batch, sqllist, lost>>
        /\ dbpc = "reset" => dbpc' = "reset"
    BY <1>9 DEF PingFails, MainGo, DbGo, mainVars, dbVars
  <2>2. /\ Top' = Top
        /\ mainpc' \in {"format", "read", "write"} => issued' > 0
    BY <1>t, <1>9 DEF PingFails, MainGo, DbGo, mainVars, dbVars, Top,
       FlowInOrder
  <2> QED
    BY <2>1, <2>2, FlowFrame
<1>10. CASE UseDeadHandle
  <2>1. /\ UNCHANGED <<applied, batch, sqllist, lost>>
        /\ dbpc = "reset" => dbpc' = "reset"
    BY <1>10 DEF UseDeadHandle, MainGo, DbGo, mainVars, dbVars
  <2>2. /\ Top' = Top
        /\ mainpc' \in {"format", "read", "write"} => issued' > 0
    BY <1>t, <1>10 DEF UseDeadHandle, MainGo, DbGo, mainVars, dbVars, Top,
       FlowInOrder
  <2> QED
    BY <2>1, <2>2, FlowFrame
<1>11. CASE ReconnectOk
  <2>1. /\ UNCHANGED <<applied, batch, sqllist, lost>>
        /\ dbpc = "reset" => dbpc' = "reset"
    BY <1>11 DEF ReconnectOk, MainGo, DbGo, mainVars, dbVars
  <2>2. /\ Top' = Top
        /\ mainpc' \in {"format", "read", "write"} => issued' > 0
    BY <1>t, <1>11 DEF ReconnectOk, MainGo, DbGo, mainVars, dbVars, Top,
       FlowInOrder
  <2> QED
    BY <2>1, <2>2, FlowFrame
<1>12. CASE SyncReturns
  <2>1. /\ UNCHANGED <<applied, batch, sqllist, lost>>
        /\ dbpc = "reset" => dbpc' = "reset"
    BY <1>12 DEF SyncReturns, MainGo, DbGo, mainVars, dbVars
  <2>2. /\ Top' = Top
        /\ mainpc' \in {"format", "read", "write"} => issued' > 0
    BY <1>t, <1>12 DEF SyncReturns, MainGo, DbGo, mainVars, dbVars, Top,
       FlowInOrder
  <2> QED
    BY <2>1, <2>2, FlowFrame
<1>13. CASE PullCampaigns
  <2>1. /\ UNCHANGED <<applied, batch, sqllist, lost>>
        /\ dbpc = "reset" => dbpc' = "reset"
    BY <1>13 DEF PullCampaigns, MainGo, DbGo, mainVars, dbVars
  <2>2. /\ Top' = Top
        /\ mainpc' \in {"format", "read", "write"} => issued' > 0
    BY <1>t, <1>13 DEF PullCampaigns, MainGo, DbGo, mainVars, dbVars, Top,
       FlowInOrder
  <2> QED
    BY <2>1, <2>2, FlowFrame
<1>14. CASE PullReturns
  <2>1. /\ UNCHANGED <<applied, batch, sqllist, lost>>
        /\ dbpc = "reset" => dbpc' = "reset"
    BY <1>14 DEF PullReturns, MainGo, DbGo, mainVars, dbVars
  <2>2. /\ Top' = Top
        /\ mainpc' \in {"format", "read", "write"} => issued' > 0
    BY <1>t, <1>14 DEF PullReturns, MainGo, DbGo, mainVars, dbVars, Top,
       FlowInOrder
  <2> QED
    BY <2>1, <2>2, FlowFrame
<1>15. CASE FetchNull
  <2>1. /\ UNCHANGED <<applied, batch, sqllist, lost>>
        /\ dbpc = "reset" => dbpc' = "reset"
    BY <1>15 DEF FetchNull, MainGo, DbGo, mainVars, dbVars
  <2>2. /\ Top' = Top
        /\ mainpc' \in {"format", "read", "write"} => issued' > 0
    BY <1>t, <1>15 DEF FetchNull, MainGo, DbGo, mainVars, dbVars, Top,
       FlowInOrder
  <2> QED
    BY <2>1, <2>2, FlowFrame
<1>16. CASE Sleep
  <2>1. /\ UNCHANGED <<applied, batch, sqllist, lost>>
        /\ dbpc = "reset" => dbpc' = "reset"
    BY <1>16 DEF Sleep, MainGo, DbGo, mainVars, dbVars
  <2>2. /\ Top' = Top
        /\ mainpc' \in {"format", "read", "write"} => issued' > 0
    BY <1>t, <1>16 DEF Sleep, MainGo, DbGo, mainVars, dbVars, Top, FlowInOrder
  <2> QED
    BY <2>1, <2>2, FlowFrame
<1>17. CASE LoopEnds
  <2>1. /\ UNCHANGED <<applied, batch, sqllist, lost>>
        /\ dbpc = "reset" => dbpc' = "reset"
    BY <1>17 DEF LoopEnds, MainGo, DbGo, mainVars, dbVars
  <2>2. /\ Top' = Top
        /\ mainpc' \in {"format", "read", "write"} => issued' > 0
    BY <1>t, <1>17 DEF LoopEnds, MainGo, DbGo, mainVars, dbVars, Top,
       FlowInOrder
  <2> QED
    BY <2>1, <2>2, FlowFrame
<1>18. CASE ConnectionLost
  <2>1. /\ UNCHANGED <<applied, batch, sqllist, lost>>
        /\ dbpc = "reset" => dbpc' = "reset"
    BY <1>18 DEF ConnectionLost, MainGo, DbGo, mainVars, dbVars
  <2>2. /\ Top' = Top
        /\ mainpc' \in {"format", "read", "write"} => issued' > 0
    BY <1>t, <1>18 DEF ConnectionLost, MainGo, DbGo, mainVars, dbVars, Top,
       FlowInOrder
  <2> QED
    BY <2>1, <2>2, FlowFrame
<1>19. CASE UNCHANGED vars
  BY <1>19, FlowFrame DEF vars, Top, FlowInOrder
<1>20. CASE FormatFails
  <2>1. /\ UNCHANGED <<applied, batch, sqllist, dbpc>>
        /\ Live' = Live /\ lost' \subseteq 1..Top' /\ mainpc' = "idle"
    BY <1>t, <1>20 DEF FormatFails, MainGo, dbVars, Top, Live, FlowInOrder
  <2> QED
    BY <2>1 DEF FlowInOrder
<1>21. CASE AppendWrite
  <2>1. /\ UNCHANGED <<applied, batch, lost>> /\ Top = issued - 1
        /\ Top' = issued /\ sqllist' = Append(sqllist, issued) /\ issued > 0
        /\ dbpc # "reset" /\ dbpc' # "reset" /\ mainpc' = "unlock"
    BY <1>21 DEF AppendWrite, MainGo, dbVars, Top, FlowInOrder, MutexHeld,
                ReadsFresh, InLock, SyncLock
  <2>2. /\ Live \subseteq Live' /\ issued \in Live' /\ lost' \subseteq 1..Top'
        /\ \A q \in Live : q \in Nat /\ q < issued
    BY <2>1, <1>t DEF Live, FlowInOrder
  <2>3. Ordered(applied', Live') /\ Ordered(batch', Live')
    BY <2>1, <2>2, OrderedSubset DEF FlowInOrder, Ordered
  <2>4. /\ \A i \in 1..Len(applied) : applied[i] < issued
        /\ \A i \in 1..Len(batch) : batch[i] < issued
        /\ \A i \in 1..Len(sqllist) : sqllist[i] < issued
    BY <2>2 DEF FlowInOrder, Ordered
  <2>5. Ordered(sqllist', Live')
    BY <2>1, <2>2, <2>4, <1>t, OrderedAppend DEF FlowInOrder
  <2>6. Below(applied', sqllist') /\ Below(batch', sqllist') /\ Below(applied', batch')
    BY <2>1, <2>4, <1>t, BelowAppend DEF FlowInOrder
  <2> QED
    BY <2>1, <2>2, <2>3, <2>5, <2>6 DEF FlowInOrder
<1>22. CASE Close
  <2>1. /\ UNCHANGED <<applied, batch>> /\ Top' = Top /\ batch = << >>
        /\ sqllist' = << >> /\ lost' = lost \cup ToSet(sqllist)
        /\ mainpc' = "closed"
    BY <1>22 DEF Close, MainGo, dbVars, Top, TypeOK
  <2>2. lost' \subseteq 1..Top'
    <3>0. \A i \in 1..Len(sqllist) : sqllist[i] \in Live
      BY DEF FlowInOrder, Ordered
    <3>1. ToSet(sqllist) \subseteq Live
      BY <1>t, <3>0, ToSetWithin
    <3> QED
      BY <2>1, <3>1 DEF FlowInOrder, Live
  <2>3. \A i \in 1..Len(applied) : applied[i] \in Live'
    <3> SUFFICES ASSUME NEW i \in 1..Len(applied) PROVE applied[i] \in Live'
      OBVIOUS
    <3>1. applied[i] \in Live /\ \A j \in 1..Len(sqllist) : applied[i] < sqllist[j]
      BY DEF FlowInOrder, Ordered, Below
    <3>2. applied[i] \in Nat /\ \A j \in 1..Len(sqllist) : applied[i] # sqllist[j]
      BY <3>1, <1>t DEF Live
    <3>3. applied[i] \notin ToSet(sqllist)
      BY <3>2, <1>t, ToSetApart
    <3> QED
      BY <2>1, <3>1, <3>3 DEF Live
  <2>4. Ordered(applied', Live')
    BY <2>1, <2>3, OrderedSubset DEF FlowInOrder
  <2> QED
    BY <2>1, <2>2, <2>4 DEF FlowInOrder, Ordered, Below
<1>23. CASE Take
  <2>1. /\ UNCHANGED <<applied, sqllist, lost>> /\ UNCHANGED <<issued, mainpc>>
        /\ batch' = sqllist /\ dbpc' = "reset"
    BY <1>23 DEF Take, DbGo, mainVars
  <2> QED
    BY <2>1 DEF FlowInOrder, Live, Top
<1>24. CASE Reset
  <2>1. /\ UNCHANGED <<applied, batch, lost>> /\ UNCHANGED <<issued, mainpc>>
        /\ sqllist' = << >>
    BY <1>24 DEF Reset, DbGo, mainVars
  <2>2. Ordered(sqllist', Live') /\ Below(applied', sqllist') /\ Below(batch', sqllist')
    BY <2>1 DEF Ordered, Below
  <2> QED
    BY <2>1, <2>2 DEF FlowInOrder, Live, Top
<1>25. CASE ReconnectFails
  <2>1. /\ UNCHANGED <<applied, sqllist>> /\ Top' = Top /\ UNCHANGED <<issued, mainpc>>
        /\ batch' = << >> /\ lost' = lost \cup ToSet(batch) /\ dbpc = "reconnect"
    BY <1>25 DEF ReconnectFails, DbGo, mainVars, Top
  <2>2. lost' \subseteq 1..Top'
    <3>0. \A i \in 1..Len(batch) : batch[i] \in Live
      BY DEF FlowInOrder, Ordered
    <3>1. ToSet(batch) \subseteq Live
      BY <1>t, <3>0, ToSetWithin
    <3> QED
      BY <2>1, <3>1 DEF FlowInOrder, Live
  <2>3. ASSUME NEW q \in Live, \A j \in 1..Len(batch) : q < batch[j] \/ batch[j] < q
        PROVE  q \in Live'
    <3>0. q \in Nat /\ \A j \in 1..Len(batch) : batch[j] \in Nat
      BY <1>t DEF Live
    <3>1. \A j \in 1..Len(batch) : q # batch[j]
      BY <2>3, <3>0
    <3>2. q \notin ToSet(batch)
      BY <3>1, <1>t, ToSetApart
    <3> QED
      BY <2>1, <2>3, <3>2 DEF Live
  <2>4. \A i \in 1..Len(applied) : applied[i] \in Live'
    BY <2>3 DEF FlowInOrder, Ordered, Below
  <2>5. \A i \in 1..Len(sqllist) : sqllist[i] \in Live'
    BY <2>1, <2>3 DEF FlowInOrder, Ordered, Below
  <2>6. Ordered(applied', Live') /\ Ordered(sqllist', Live')
    BY <2>1, <2>4, <2>5, OrderedSubset DEF FlowInOrder
  <2>7. /\ Ordered(batch', Live') /\ Below(applied', batch') /\ Below(batch', sqllist')
        /\ Below(applied', sqllist')
    BY <2>1 DEF Ordered, Below, FlowInOrder
  <2> QED
    BY <2>1, <2>2, <2>6, <2>7 DEF FlowInOrder
<1>26. CASE ExecOk
  <2>1. /\ UNCHANGED <<lost, sqllist>> /\ UNCHANGED <<issued, mainpc>>
        /\ batch # << >> /\ dbpc = "exec"
        /\ applied' = Append(applied, Head(batch)) /\ batch' = Tail(batch)
    BY <1>26 DEF ExecOk, DbGo, mainVars
  <2>2. Live' = Live /\ Top' = Top
    BY <2>1 DEF Live, Top
  <2>3. /\ Head(batch) \in Nat /\ Head(batch) \in Live /\ Tail(batch) \in Seq(Nat)
        /\ \A i \in 1..Len(Tail(batch)) : Head(batch) < Tail(batch)[i]
        /\ Ordered(Tail(batch), Live \ {Head(batch)})
    BY <2>1, <1>t, TailFacts, OrderedTail DEF FlowInOrder
  <2>4. /\ \A i \in 1..Len(applied) : applied[i] < Head(batch)
        /\ \A j \in 1..Len(sqllist) : Head(batch) < sqllist[j]
    <3>1. Head(batch) = batch[1] /\ 1 \in 1..Len(batch)
      BY <2>1, <1>t, TailFacts
    <3> QED
      BY <2>1, <3>1 DEF FlowInOrder, Below
  <2>5. Ordered(batch', Live')
    BY <2>1, <2>2, <2>3 DEF Ordered
  <2>6. Ordered(applied', Live')
    BY <2>1, <2>2, <2>3, <2>4, <1>t, OrderedAppend DEF FlowInOrder
  <2>7. Below(applied, Tail(batch)) /\ Below(batch', sqllist')
    BY <2>1, <1>t, BelowTail DEF FlowInOrder
  <2>8. Below(applied', batch') /\ Below(applied', sqllist')
    BY <2>1, <2>3, <2>4, <2>7, <1>t, BelowAppend DEF FlowInOrder
  <2> QED
    BY <2>1, <2>2, <2>5, <2>6, <2>7, <2>8 DEF FlowInOrder
<1>27. CASE ExecFails
  <2>1. /\ UNCHANGED <<applied, sqllist>> /\ UNCHANGED <<issued, mainpc>>
        /\ batch # << >> /\ dbpc = "exec"
        /\ lost' = lost \cup {Head(batch)} /\ batch' = Tail(batch)
    BY <1>27 DEF ExecFails, DbGo, mainVars
  <2>2. Live' = Live \ {Head(batch)} /\ Top' = Top
    BY <2>1 DEF Live, Top
  <2>3. /\ Head(batch) \in Nat /\ Head(batch) \in Live
        /\ Ordered(Tail(batch), Live \ {Head(batch)})
    BY <2>1, <1>t, TailFacts, OrderedTail DEF FlowInOrder
  <2>4. /\ \A i \in 1..Len(applied) : applied[i] < Head(batch)
        /\ \A j \in 1..Len(sqllist) : Head(batch) < sqllist[j]
    <3>1. Head(batch) = batch[1] /\ 1 \in 1..Len(batch)
      BY <2>1, <1>t, TailFacts
    <3> QED
      BY <2>1, <3>1 DEF FlowInOrder, Below
  <2>5. /\ \A i \in 1..Len(applied) : applied[i] \in Live'
        /\ \A i \in 1..Len(sqllist) : sqllist[i] \in Live'
    BY <2>2, <2>3, <2>4, <1>t DEF FlowInOrder, Ordered
  <2>6. Ordered(applied', Live') /\ Ordered(sqllist', Live')
    BY <2>1, <2>5, OrderedSubset DEF FlowInOrder
  <2>7. lost' \subseteq 1..Top'
    BY <2>1, <2>2, <2>3 DEF FlowInOrder, Live
  <2>8. Below(applied', batch') /\ Below(batch', sqllist') /\ Below(applied', sqllist')
    BY <2>1, <1>t, BelowTail DEF FlowInOrder
  <2> QED
    BY <2>1, <2>2, <2>3, <2>6, <2>7, <2>8 DEF FlowInOrder
<1> QED
  BY <1>1, <1>2, <1>3, <1>4, <1>5, <1>6, <1>7, <1>8, <1>9, <1>10, <1>11,
     <1>12, <1>13, <1>14, <1>15, <1>16, <1>17, <1>18, <1>19, <1>20, <1>21,
     <1>22, <1>23, <1>24, <1>25, <1>26, <1>27 DEF Next, DbExec, DbThread

(* Init establishes the invariant and every step keeps it. *)
LEMMA InvInit == Init => Inv
<1> SUFFICES ASSUME Init PROVE Inv
  OBVIOUS
<1>1. TypeOK
  BY TypeInit
<1>2. MutexHeld /\ ReadsFresh
  BY DEF Init, MutexHeld, ReadsFresh, InLock, SyncLock
<1>3. FlowInOrder
  BY DEF Init, FlowInOrder, Ordered, Below, Top, Live
<1> QED
  BY <1>1, <1>2, <1>3 DEF Inv

(* A step keeps the three parts together. *)
LEMMA InvStep == Inv /\ [Next]_vars => Inv'
  BY TypeStep, LockStep, FlowStep DEF Inv

(* So the invariant holds throughout. *)
LEMMA Invariance == Spec => []Inv
  BY InvInit, InvStep, PTL DEF Spec

(* The server executes the statements of db_exec in the order of the calls *)
(* and none twice, and never one that was given up (db.c:158-187, 248-287).*)
THEOREM InOrder == Spec => []AppliedInOrder
<1>1. Inv => AppliedInOrder
  <2> SUFFICES ASSUME Inv PROVE AppliedInOrder
    OBVIOUS
  <2>1. applied \in Seq(Nat) /\ DOMAIN applied = 1..Len(applied)
    BY DEF Inv, TypeOK
  <2>2. \A i \in 1..Len(applied) : applied[i] \notin lost
    BY DEF Inv, FlowInOrder, Ordered, Live
  <2>3. ToSet(applied) \cap lost = {}
    <3>0. \A i \in 1..Len(applied) : applied[i] \in Nat \ lost
      BY <2>1, <2>2
    <3>1. ToSet(applied) \subseteq Nat \ lost
      BY <2>1, <3>0, ToSetWithin
    <3> QED
      BY <3>1
  <2> QED
    BY <2>1, <2>3 DEF AppliedInOrder, Inv, FlowInOrder, Ordered
<1> QED
  BY <1>1, Invariance, PTL
-----------------------------------------------------------------------------
(* No statement vanishes between the two threads. *)
LEMMA ToSetMoves ==
    /\ ToSet(<< >>) = {}
    /\ \A s \in Seq(Nat), q \in Nat : ToSet(Append(s, q)) = ToSet(s) \cup {q}
    /\ \A s \in Seq(Nat) : s # << >> =>
            /\ Head(s) \in Nat
            /\ ToSet(s) = ToSet(Tail(s)) \cup {Head(s)}
<1>1. ToSet(<< >>) = {}
  BY DEF ToSet
<1>2. ASSUME NEW s \in Seq(Nat), NEW q \in Nat
      PROVE  ToSet(Append(s, q)) = ToSet(s) \cup {q}
  <2>1. PICK t \in Seq(Nat) : t = Append(s, q)
    BY AppendFacts
  <2>2. /\ Len(t) = Len(s) + 1 /\ t[Len(s) + 1] = q /\ Len(s) \in Nat
        /\ \A i \in 1..Len(s) : t[i] = s[i]
    BY <2>1, AppendFacts
  <2>3. /\ \A p : p \in ToSet(t) <=> \E i \in 1..Len(t) : p = t[i]
        /\ \A p : p \in ToSet(s) <=> \E i \in 1..Len(s) : p = s[i]
    BY ToSetFacts
  <2>4. ASSUME NEW p \in ToSet(s) PROVE p \in ToSet(t)
    <3>1. PICK i \in 1..Len(s) : p = s[i]
      BY <2>3
    <3>2. i \in 1..Len(t) /\ p = t[i]
      BY <2>2, <3>1
    <3> QED
      BY <2>3, <3>2
  <2>5. q \in ToSet(t)
    <3>1. Len(t) \in 1..Len(t) /\ q = t[Len(t)]
      BY <2>2
    <3> QED
      BY <2>3, <3>1
  <2>6. ASSUME NEW p \in ToSet(t), p # q PROVE p \in ToSet(s)
    <3>1. PICK i \in 1..Len(t) : p = t[i]
      BY <2>3
    <3>2. i \in 1..Len(s) /\ p = s[i]
      BY <2>2, <2>6, <3>1
    <3> QED
      BY <2>3, <3>2
  <2> QED
    BY <2>1, <2>4, <2>5, <2>6
<1>3. ASSUME NEW s \in Seq(Nat), s # << >>
      PROVE  Head(s) \in Nat /\ ToSet(s) = ToSet(Tail(s)) \cup {Head(s)}
  <2>0. PICK t \in Seq(Nat) : t = Tail(s)
    BY <1>3, TailFacts
  <2>1. /\ Len(s) \in Nat \ {0} /\ Head(s) = s[1] /\ Head(s) \in Nat
        /\ Len(t) = Len(s) - 1 /\ \A i \in 1..Len(s) - 1 : t[i] = s[i + 1]
    BY <1>3, <2>0, TailFacts
  <2>2. /\ \A p : p \in ToSet(t) <=> \E i \in 1..Len(t) : p = t[i]
        /\ \A p : p \in ToSet(s) <=> \E i \in 1..Len(s) : p = s[i]
    BY ToSetFacts
  <2>3. ASSUME NEW p \in ToSet(t) PROVE p \in ToSet(s)
    <3>1. PICK i \in 1..Len(t) : p = t[i]
      BY <2>2
    <3>2. i + 1 \in 1..Len(s) /\ p = s[i + 1]
      BY <2>1, <3>1
    <3> QED
      BY <2>2, <3>2
  <2>4. Head(s) \in ToSet(s)
    <3>1. 1 \in 1..Len(s) /\ Head(s) = s[1]
      BY <2>1
    <3> QED
      BY <2>2, <3>1
  <2>5. ASSUME NEW p \in ToSet(s), p # Head(s) PROVE p \in ToSet(t)
    <3>1. PICK i \in 1..Len(s) : p = s[i]
      BY <2>2
    <3>2. i - 1 \in 1..Len(t) /\ p = t[i - 1]
      BY <2>1, <2>5, <3>1
    <3> QED
      BY <2>2, <3>2
  <2> QED
    BY <2>0, <2>1, <2>3, <2>4, <2>5
<1> QED
  BY <1>1, <1>2, <1>3

(* Every step moves a statement and drops none. *)
LEMMA AccountedStep ==
    TypeOK /\ ReadsFresh /\ Accounted /\ [Next]_vars => Accounted'
<1> SUFFICES ASSUME TypeOK, ReadsFresh, Accounted, [Next]_vars
             PROVE  Accounted'
  OBVIOUS
<1>t. /\ applied \in Seq(Nat) /\ batch \in Seq(Nat) /\ sqllist \in Seq(Nat)
      /\ issued \in Nat
      /\ dbpc \in {"loop", "take", "pull", "actions", "check", "done"}
            => batch = << >>
  BY BoundsAreNat DEF TypeOK
<1> USE <1>t DEF Accounted, InHand, MainGo, DbGo, mainVars, dbVars
<1>1. CASE Call
  BY <1>1 DEF Call
<1>2. CASE FormatFails
  BY <1>2 DEF FormatFails
<1>3. CASE MainLock
  BY <1>3 DEF MainLock
<1>4. CASE AppendRead
  BY <1>4 DEF AppendRead
<1>5. CASE AppendWrite
  BY ToSetMoves, <1>5 DEF AppendWrite, ReadsFresh
<1>6. CASE MainUnlock
  BY <1>6 DEF MainUnlock
<1>7. CASE Terminate
  BY <1>7 DEF Terminate
<1>8. CASE Close
  BY ToSetMoves, <1>8 DEF Close
<1>9. CASE DbLock
  BY <1>9 DEF DbLock
<1>10. CASE Take
  BY ToSetMoves, <1>10 DEF Take
<1>11. CASE Reset
  BY ToSetMoves, <1>11 DEF Reset, ReadsFresh
<1>12. CASE DbUnlock
  BY <1>12 DEF DbUnlock
<1>13. CASE PingOk
  BY <1>13 DEF PingOk
<1>14. CASE PingFails
  BY <1>14 DEF PingFails
<1>15. CASE UseDeadHandle
  BY <1>15 DEF UseDeadHandle
<1>16. CASE ReconnectOk
  BY <1>16 DEF ReconnectOk
<1>17. CASE ReconnectFails
  BY ToSetMoves, <1>17 DEF ReconnectFails
<1>18. CASE ExecOk
  BY ToSetMoves, <1>18 DEF ExecOk
<1>19. CASE ExecFails
  BY ToSetMoves, <1>19 DEF ExecFails
<1>20. CASE SyncReturns
  BY <1>20 DEF SyncReturns
<1>21. CASE PullCampaigns
  BY <1>21 DEF PullCampaigns
<1>22. CASE PullReturns
  BY <1>22 DEF PullReturns
<1>23. CASE FetchNull
  BY <1>23 DEF FetchNull
<1>24. CASE Sleep
  BY <1>24 DEF Sleep
<1>25. CASE LoopEnds
  BY <1>25 DEF LoopEnds
<1>26. CASE ConnectionLost
  BY <1>26 DEF ConnectionLost
<1>27. CASE UNCHANGED vars
  BY <1>27 DEF vars
<1> QED
  BY <1>1, <1>2, <1>3, <1>4, <1>5, <1>6, <1>7, <1>8, <1>9, <1>10, <1>11,
     <1>12, <1>13, <1>14, <1>15, <1>16, <1>17, <1>18, <1>19, <1>20, <1>21,
     <1>22, <1>23, <1>24, <1>25, <1>26, <1>27 DEF Next, DbExec, DbThread

(* Each statement db_exec was called for is in the caller's hand, in the   *)
(* list, in the chain of db_sync, executed, or lost by an error path: the  *)
(* two threads lose none between them (db.c:158-187, 248-254).             *)
THEOREM NoneVanishes == Spec => []Accounted
<1>1. Init => Accounted
  BY ToSetMoves DEF Init, Accounted, InHand
<1>2. Inv /\ Accounted /\ [Next]_vars => Accounted'
  BY AccountedStep DEF Inv
<1> QED
  BY <1>1, <1>2, Invariance, PTL DEF Spec

-----------------------------------------------------------------------------
(* db_sync executes statements on a live handle only (db.c:256-263). *)
THEOREM LiveHandle == Spec => []ExecOnLiveHandle
<1>1. Init => ExecOnLiveHandle
  BY DEF Init, ExecOnLiveHandle
<1>2. ExecOnLiveHandle /\ [Next]_vars => ExecOnLiveHandle'
  BY DEF ExecOnLiveHandle, Next, vars, DbExec, DbThread, MainGo, DbGo,
         mainVars, dbVars, Call, FormatFails, MainLock, AppendRead,
         AppendWrite, MainUnlock, Terminate, Close, DbLock, Take, Reset,
         DbUnlock, PingOk, PingFails, UseDeadHandle, ReconnectOk,
         ReconnectFails, ExecOk, ExecFails, SyncReturns, PullCampaigns,
         PullReturns, FetchNull, Sleep, LoopEnds, ConnectionLost
<1> QED
  BY <1>1, <1>2, PTL DEF Spec

(* Without a failure of the environment the connection stays open.         *)
Healthy == NothingLostWithoutFault /\ (faults = 0 => con = "open")

(* Without a failure the connection stays open. *)
LEMMA HealthyStep == TypeOK /\ Healthy /\ [Next]_vars => Healthy'
<1> SUFFICES ASSUME TypeOK, Healthy, [Next]_vars, faults' = 0
             PROVE  /\ con' = "open" /\ ~crashed'
                    /\ lost' = {} \/ mainpc' = "closed"
  BY DEF Healthy, NothingLostWithoutFault
<1>t. faults \in Nat
  BY BoundsAreNat DEF TypeOK
<1> USE <1>t DEF Healthy, NothingLostWithoutFault, MainGo, DbGo, Fault, mainVars,
            dbVars
<1>1. CASE Call
  BY <1>1 DEF Call
<1>2. CASE FormatFails
  BY <1>2 DEF FormatFails
<1>3. CASE MainLock
  BY <1>3 DEF MainLock
<1>4. CASE AppendRead
  BY <1>4 DEF AppendRead
<1>5. CASE AppendWrite
  BY <1>5 DEF AppendWrite
<1>6. CASE MainUnlock
  BY <1>6 DEF MainUnlock
<1>7. CASE Terminate
  BY <1>7 DEF Terminate
<1>8. CASE Close
  BY <1>8 DEF Close
<1>9. CASE DbLock
  BY <1>9 DEF DbLock
<1>10. CASE Take
  BY <1>10 DEF Take
<1>11. CASE Reset
  BY <1>11 DEF Reset
<1>12. CASE DbUnlock
  BY <1>12 DEF DbUnlock
<1>13. CASE PingOk
  BY <1>13 DEF PingOk
<1>14. CASE PingFails
  BY <1>14 DEF PingFails
<1>15. CASE UseDeadHandle
  BY <1>15 DEF UseDeadHandle
<1>16. CASE ReconnectOk
  BY <1>16 DEF ReconnectOk
<1>17. CASE ReconnectFails
  BY <1>17 DEF ReconnectFails
<1>18. CASE ExecOk
  BY <1>18 DEF ExecOk
<1>19. CASE ExecFails
  BY <1>19 DEF ExecFails
<1>20. CASE SyncReturns
  BY <1>20 DEF SyncReturns
<1>21. CASE PullCampaigns
  BY <1>21 DEF PullCampaigns
<1>22. CASE PullReturns
  BY <1>22 DEF PullReturns
<1>23. CASE FetchNull
  BY <1>23 DEF FetchNull
<1>24. CASE Sleep
  BY <1>24 DEF Sleep
<1>25. CASE LoopEnds
  BY <1>25 DEF LoopEnds
<1>26. CASE ConnectionLost
  BY <1>26 DEF ConnectionLost
<1>27. CASE UNCHANGED vars
  BY <1>27 DEF vars
<1> QED
  BY <1>1, <1>2, <1>3, <1>4, <1>5, <1>6, <1>7, <1>8, <1>9, <1>10, <1>11,
     <1>12, <1>13, <1>14, <1>15, <1>16, <1>17, <1>18, <1>19, <1>20, <1>21,
     <1>22, <1>23, <1>24, <1>25, <1>26, <1>27 DEF Next, DbExec, DbThread

(* With a database that never fails, no statement is lost before the       *)
(* shutdown, and no dead handle is used (db.c:248-287, main.c:136-180).    *)
THEOREM HealthyDatabase == Spec => []NothingLostWithoutFault
<1>1. Init => Healthy
  BY DEF Init, Healthy, NothingLostWithoutFault
<1>2. TypeOK /\ Healthy /\ [Next]_vars => Healthy'
  BY HealthyStep
<1>3. Healthy => NothingLostWithoutFault
  BY DEF Healthy
<1> QED
  BY <1>1, <1>2, <1>3, TypeCorrect, PTL DEF Spec

-----------------------------------------------------------------------------
(* db.c implements the contract of WriteBehind, the history variables      *)
(* being the contract's own variables.                                     *)
LEMMA ContractStep ==
    Inv /\ Accounted /\ [Next]_vars => [Contract!Next]_(Contract!vars)
<1> SUFFICES ASSUME Inv, Accounted, [Next]_vars
             PROVE  Contract!Next \/ UNCHANGED <<issued, applied, lost>>
  BY DEF Contract!vars
<1>t. /\ applied \in Seq(Nat) /\ batch \in Seq(Nat) /\ sqllist \in Seq(Nat)
      /\ issued \in Nat /\ DOMAIN applied = 1..Len(applied)
  BY BoundsAreNat DEF Inv, TypeOK
<1>l. /\ Live \subseteq 1..issued /\ Live \cap lost = {}
      /\ \A q \in Live : q \in Nat
  BY <1>t DEF Live, Top
<1>f. FlowInOrder
  BY DEF Inv
<1>1. CASE Call
  BY <1>1 DEF Call, Contract!Next, Contract!Issue
<1>2. ASSUME NEW S, S \subseteq 1..issued, lost' = lost \cup S,
             UNCHANGED <<issued, applied>>,
             \A i \in 1..Len(applied) : applied[i] \notin S
      PROVE  Contract!Next
  BY <1>2, <1>t DEF Contract!Next, Contract!Lose
<1>3. CASE FormatFails
  <2>1. /\ {issued} \subseteq 1..issued /\ Top = issued - 1
        /\ lost' = lost \cup {issued} /\ UNCHANGED <<issued, applied>>
    BY <1>3, <1>f, <1>t DEF FormatFails, MainGo, FlowInOrder, Top
  <2>2. \A i \in 1..Len(applied) : applied[i] \notin {issued}
    BY <2>1, <1>f, <1>t DEF FlowInOrder, Ordered, Live
  <2> QED
    BY <2>1, <2>2, <1>2
<1>4. CASE Close
  <2>1. lost' = lost \cup ToSet(sqllist) /\ UNCHANGED <<issued, applied>>
    BY <1>4 DEF Close
  <2>2. ToSet(sqllist) \subseteq 1..issued
    BY <1>t DEF Accounted
  <2>3. \A i \in 1..Len(applied) : applied[i] \notin ToSet(sqllist)
    <3>1. \A i \in 1..Len(applied), j \in 1..Len(sqllist) : applied[i] # sqllist[j]
      BY <1>f, <1>t, <1>l DEF FlowInOrder, Below, Ordered
    <3> QED
      BY <3>1, <1>t, ToSetApart
  <2> QED
    BY <2>1, <2>2, <2>3, <1>2
<1>5. CASE ReconnectFails
  <2>1. lost' = lost \cup ToSet(batch) /\ UNCHANGED <<issued, applied>>
    BY <1>5 DEF ReconnectFails, mainVars
  <2>2. ToSet(batch) \subseteq 1..issued
    BY <1>t DEF Accounted
  <2>3. \A i \in 1..Len(applied) : applied[i] \notin ToSet(batch)
    <3>1. \A i \in 1..Len(applied), j \in 1..Len(batch) : applied[i] # batch[j]
      BY <1>f, <1>t, <1>l DEF FlowInOrder, Below, Ordered
    <3> QED
      BY <3>1, <1>t, ToSetApart
  <2> QED
    BY <2>1, <2>2, <2>3, <1>2
<1>6. ASSUME batch # << >>
      PROVE  /\ Head(batch) \in 1..issued /\ Head(batch) \notin lost
             /\ \A i \in 1..Len(applied) : applied[i] < Head(batch)
  <2>1. Head(batch) = batch[1] /\ 1 \in 1..Len(batch)
    BY <1>6, <1>t, TailFacts
  <2>2. batch[1] \in Live
    BY <2>1, <1>f DEF FlowInOrder, Ordered
  <2>3. \A i \in 1..Len(applied) : applied[i] < batch[1]
    BY <2>1, <1>f DEF FlowInOrder, Below
  <2> QED
    BY <2>1, <2>2, <2>3, <1>l
<1>7. CASE ExecOk
  <2>1. /\ batch # << >> /\ applied' = Append(applied, Head(batch))
        /\ UNCHANGED <<issued, lost>>
    BY <1>7 DEF ExecOk, mainVars
  <2> QED
    BY <2>1, <1>6, <1>t DEF Contract!Next, Contract!Apply
<1>8. CASE ExecFails
  <2>1. /\ batch # << >> /\ lost' = lost \cup {Head(batch)}
        /\ UNCHANGED <<issued, applied>>
    BY <1>8 DEF ExecFails, mainVars
  <2>2. /\ {Head(batch)} \subseteq 1..issued
        /\ \A i \in 1..Len(applied) : applied[i] \notin {Head(batch)}
    BY <2>1, <1>6, <1>t
  <2> QED
    BY <2>1, <2>2, <1>2
<1>9. CASE \/ MainLock \/ AppendRead \/ AppendWrite \/ MainUnlock
           \/ Terminate \/ DbLock \/ Take \/ Reset \/ DbUnlock
           \/ PingOk \/ PingFails \/ UseDeadHandle \/ ReconnectOk
           \/ SyncReturns \/ PullCampaigns \/ PullReturns \/ FetchNull
           \/ Sleep \/ LoopEnds \/ ConnectionLost
           \/ UNCHANGED vars
  BY <1>9 DEF vars, mainVars, MainLock, AppendRead, AppendWrite, MainUnlock,
     Terminate, DbLock, Take, Reset, DbUnlock, PingOk, PingFails,
     UseDeadHandle, ReconnectOk, SyncReturns, PullCampaigns, PullReturns,
     FetchNull, Sleep, LoopEnds, ConnectionLost
<1> QED
  BY <1>1, <1>3, <1>4, <1>5, <1>7, <1>8, <1>9 DEF Next, DbExec, DbThread

(* The queue of db.c keeps the promise of WriteBehind: executed at most    *)
(* once, in order, or lost, whatever the threads and the database do.      *)
THEOREM Refinement == Spec => ImplementsContract
<1>1. Init => Contract!Init
  BY DEF Init, Contract!Init
<1>2. Inv /\ Accounted /\ [Next]_vars => [Contract!Next]_(Contract!vars)
  BY ContractStep
<1> QED
  BY <1>1, <1>2, Invariance, NoneVanishes, PTL
     DEF Spec, ImplementsContract, Contract!Spec
=============================================================================
