--------------------------- MODULE CampaignProofs ---------------------------
(***************************************************************************)
(* Proofs about Campaign, for any contacts and any limit.                  *)
(*                                                                         *)
(* The two threads share the campaign without a lock, so each property     *)
(* rests on what the order of their steps excludes.  RunningIffArmed needs *)
(* that a round is only under way in a campaign that lives and is marked   *)
(* running; it holds however slow the main loop is.  The other two need    *)
(* that DbThread does not come round again before its message was read     *)
(* (Prompt): then no campaign starts while DbThread loads it, and a        *)
(* campaign that was never paused and is not running was never started.    *)
(***************************************************************************)
EXTENDS Campaign, TLAPS

(* DbThread is on the campaign it visits. *)
Visiting == dbpc \in {"load", "actions", "push"}

(* The main thread starts, runs and ends a campaign in order. *)
Lifecycle ==
    /\ mainpc = "round" => is_running /\ alive /\ ~tmr
    /\ mainpc = "idle" => is_running = tmr
    /\ ~alive => ~is_running /\ ~tmr

(* A message that is not dangling is for a campaign that lives. *)
LiveMessages ==
    /\ Visiting => alive
    /\ \A i \in 1..Len(msgq) : msgq[i] = "live" => alive

ArmedInv == TypeOK /\ LiveMessages /\ (~crashed => Lifecycle)

(* With a prompt main loop there is one message at most, while DbThread    *)
(* sleeps, and a campaign that DbThread visits is not started meanwhile.   *)
OneMessage ==
    msgq # << >> =>
        /\ dbpc = "sleep" /\ msgq = <<"live">>
        /\ alive /\ ~is_running /\ ~tmr /\ mainpc = "idle"
VisitedRests == Visiting => ~is_running /\ ~tmr /\ mainpc = "idle"

(* What is left of a campaign that was freed: nothing but the statements   *)
(* that the next db_sync will take.                                        *)
DeadRests ==
    ~alive => /\ active = None /\ idle = None
              /\ dbpc \in {"select", "update"} => queued = talked

(* A campaign that was never paused and does not run was never started. *)
NeverStarted ==
    alive /\ ~paused => /\ status = 2
                        /\ ~is_running => /\ active = None /\ idle = None
                                          /\ queued = talked /\ keyed = {}

Undisturbed == VisitedRests /\ DeadRests /\ NeverStarted /\ RunningUndisturbed

PromptInv == ArmedInv /\ OneMessage /\ (~crashed => Undisturbed)

-----------------------------------------------------------------------------
Messages == {"live", "dangling"}

(* What mqueue_push adds to the pipe. *)
LEMMA AppendLive ==
    ASSUME NEW s \in Seq(Messages)
    PROVE  /\ Append(s, "live") \in Seq(Messages)
           /\ Len(Append(s, "live")) = Len(s) + 1
           /\ \A i \in 1..Len(s) : Append(s, "live")[i] = s[i]
           /\ s = << >> => Append(s, "live") = <<"live">>
<1>1. Append(<< >>, "live") = <<"live">>
  OBVIOUS
<1>2. /\ Append(s, "live") \in Seq(Messages)
      /\ Len(Append(s, "live")) = Len(s) + 1
      /\ \A i \in 1..Len(s) : Append(s, "live")[i] = s[i]
  BY DEF Messages
<1> QED
  BY <1>1, <1>2

(* What the main loop leaves of it. *)
LEMMA TailFacts ==
    ASSUME NEW s \in Seq(Messages), s # << >>
    PROVE  /\ Tail(s) \in Seq(Messages) /\ Len(Tail(s)) = Len(s) - 1
           /\ Head(s) = s[1] /\ 1 \in 1..Len(s)
           /\ \A i \in 1..Len(Tail(s)) : Tail(s)[i] = s[i + 1] /\ i + 1 \in 1..Len(s)
           /\ s = <<"live">> => Tail(s) = << >>
<1>1. Tail(<<"live">>) = << >>
  OBVIOUS
<1>2. /\ Tail(s) \in Seq(Messages) /\ Len(Tail(s)) = Len(s) - 1
      /\ Head(s) = s[1] /\ 1 \in 1..Len(s)
  BY DEF Messages
<1>3. \A i \in 1..Len(Tail(s)) : Tail(s)[i] = s[i + 1] /\ i + 1 \in 1..Len(s)
  BY DEF Messages
<1> QED
  BY <1>1, <1>2, <1>3

(* What the release of the campaign makes of it. *)
LEMMA MarkedFacts ==
    ASSUME NEW s \in Seq(Messages), NEW t, t = [i \in DOMAIN s |-> "dangling"]
    PROVE  /\ t \in Seq(Messages) /\ Len(t) = Len(s)
           /\ \A i \in 1..Len(t) : t[i] = "dangling"
           /\ s = << >> => t = << >>
  BY DEF Messages

(* Dialling moves copies from one list to the other, where some are freed; *)
(* the rows of those that get a call will not say any more that they       *)
(* talked.                                                                 *)
LEMMA DialFacts ==
    ASSUME TypeOK, Dial
    PROVE  /\ waiting' \in [Contact -> Nat] /\ active' \in [Contact -> Nat]
           /\ idle' \in [Contact -> Nat]
           /\ \A c \in Contact :
                /\ waiting'[c] + active'[c] + idle'[c]
                      <= waiting[c] + active[c] + idle[c]
                /\ waiting'[c] + idle'[c] <= waiting[c] + idle[c]
                /\ active'[c] # active[c] => c \notin queued'
                /\ c \in missed => c \in missed' \/ c \notin queued'
           /\ queued' \subseteq queued /\ missed' \subseteq missed
           /\ mainpc' = "round" /\ ~tmr'
<1>1. PICK moved \in [Contact -> 0..CallLimit],
          called \in [Contact -> 0..CallLimit],
          failed \in [Contact -> 0..CallLimit] :
        /\ \A c \in Contact :
            moved[c] <= waiting[c] /\ called[c] + failed[c] <= idle[c] + moved[c]
        /\ waiting' = [c \in Contact |-> waiting[c] - moved[c]]
        /\ active' = [c \in Contact |-> active[c] + called[c]]
        /\ idle' = [c \in Contact |->
                       idle[c] + moved[c] - called[c] - failed[c]]
        /\ queued' = queued \ Some(called) /\ missed' = missed \ Some(called)
  BY DEF Dial
<1>2. \A c \in Contact :
        /\ moved[c] \in Nat /\ called[c] \in Nat /\ failed[c] \in Nat
        /\ waiting[c] \in Nat /\ active[c] \in Nat /\ idle[c] \in Nat
        /\ moved[c] <= waiting[c] /\ called[c] + failed[c] <= idle[c] + moved[c]
  BY <1>1, CampaignConstants DEF TypeOK
<1>3. \A c \in Contact :
        /\ waiting[c] - moved[c] \in Nat /\ active[c] + called[c] \in Nat
        /\ idle[c] + moved[c] - called[c] - failed[c] \in Nat
  BY <1>2
<1>4. /\ waiting' \in [Contact -> Nat] /\ active' \in [Contact -> Nat]
      /\ idle' \in [Contact -> Nat]
  BY <1>1, <1>3
<1>5. queued' \subseteq queued /\ missed' \subseteq missed
  BY <1>1
<1>6. ASSUME NEW c \in Contact
      PROVE  /\ waiting'[c] + active'[c] + idle'[c]
                   <= waiting[c] + active[c] + idle[c]
             /\ waiting'[c] + idle'[c] <= waiting[c] + idle[c]
  <2>1. /\ waiting'[c] = waiting[c] - moved[c] /\ active'[c] = active[c] + called[c]
        /\ idle'[c] = idle[c] + moved[c] - called[c] - failed[c]
    BY <1>1
  <2> QED
    BY <1>2, <2>1
<1>7. ASSUME NEW c \in Contact, active'[c] # active[c]
      PROVE  c \notin queued'
  <2>1. called[c] > 0
    BY <1>1, <1>2, <1>7
  <2> QED
    BY <1>1, <2>1 DEF Some
<1>8. ASSUME NEW c \in Contact, c \in missed
      PROVE  c \in missed' \/ c \notin queued'
  BY <1>1, <1>8
<1> QED
  BY <1>4, <1>5, <1>6, <1>7, <1>8 DEF Dial

(* Dialling lists no contact twice.                                        *)
LEMMA DialListed ==
    ASSUME TypeOK, Dial, ListedOnce
    PROVE  ListedOnce'
<1>1. /\ \A c \in Contact :
            /\ waiting'[c] + active'[c] + idle'[c]
                  <= waiting[c] + active[c] + idle[c]
            /\ waiting'[c] + idle'[c] <= waiting[c] + idle[c]
            /\ active'[c] # active[c] => c \notin queued'
            /\ c \in missed => c \in missed' \/ c \notin queued'
      /\ queued' \subseteq queued
  BY DialFacts
<1>2. /\ waiting' \in [Contact -> Nat] /\ active' \in [Contact -> Nat]
      /\ idle' \in [Contact -> Nat]
  BY DialFacts
<1>3. ASSUME NEW c \in Contact
      PROVE  waiting'[c] + active'[c] + idle'[c] <= 1
  <2>1. waiting[c] \in Nat /\ active[c] \in Nat /\ idle[c] \in Nat
    BY DEF TypeOK
  <2>2. waiting'[c] \in Nat /\ active'[c] \in Nat /\ idle'[c] \in Nat
    BY <1>2
  <2>3. waiting[c] + active[c] + idle[c] <= 1
    BY DEF ListedOnce
  <2>4. waiting'[c] + active'[c] + idle'[c] <= waiting[c] + active[c] + idle[c]
    BY <1>1
  <2> QED
    BY <2>1, <2>2, <2>3, <2>4
<1>4. ASSUME NEW c \in queued'
      PROVE  active'[c] = 0 /\ (waiting'[c] + idle'[c] > 0 => c \in missed')
  <2>1. c \in queued /\ c \in Contact
    BY <1>1 DEF TypeOK
  <2>2. active[c] = 0 /\ (waiting[c] + idle[c] > 0 => c \in missed)
    BY <2>1 DEF ListedOnce
  <2>3. /\ waiting[c] \in Nat /\ idle[c] \in Nat
        /\ waiting'[c] \in Nat /\ idle'[c] \in Nat
    BY <1>2, <2>1 DEF TypeOK
  <2>4. active'[c] = active[c] /\ waiting'[c] + idle'[c] <= waiting[c] + idle[c]
    BY <1>1, <2>1
  <2>5. c \in missed => c \in missed'
    BY <1>1, <2>1
  <2> QED
    BY <2>2, <2>3, <2>4, <2>5
<1> QED
  BY <1>3, <1>4 DEF ListedOnce

(* main() has started DbThread, with no campaign. *)
LEMMA TypeInit == Init => TypeOK
<1> SUFFICES ASSUME Init PROVE TypeOK
  OBVIOUS
<1>1. /\ alive \in BOOLEAN /\ is_running \in BOOLEAN /\ tmr \in BOOLEAN
      /\ ready \in BOOLEAN /\ paused \in BOOLEAN /\ crashed \in BOOLEAN
  BY Zenon DEF Init
<1> QED
  BY <1>1, CampaignConstants DEF Init, TypeOK, None

(* Every step of either thread keeps the types. *)
LEMMA TypeStep == TypeOK /\ [Next]_vars => TypeOK'
<1> SUFFICES ASSUME TypeOK, [Next]_vars PROVE TypeOK'
  OBVIOUS
<1> USE CampaignConstants DEF TypeOK, Messages, At, MainIdle, dbVars, cpVars
<1>1. CASE Operator
  BY <1>1 DEF Operator
<1>2. CASE Sync
  BY <1>2 DEF Sync
<1>3. CASE Select
  BY <1>3 DEF Select
<1>4. CASE QueryFails
  BY <1>4 DEF QueryFails
<1>5. CASE Ignore
  BY <1>5 DEF Ignore
<1>6. CASE Create
  BY <1>6 DEF Create, None
<1>7. CASE Update
  BY <1>7 DEF Update
<1>8. CASE Free
  BY <1>8, MarkedFacts DEF Free, None
<1>9. CASE ServicesSkip
  BY <1>9 DEF ServicesSkip
<1>10. CASE ServicesVisit
  BY <1>10 DEF ServicesVisit
<1>11. CASE Load
  BY <1>11 DEF Load
<1>12. CASE FlushActions
  BY <1>12 DEF FlushActions
<1>13. CASE Push
  BY <1>13, AppendLive DEF Push
<1>14. CASE Wake
  BY <1>14 DEF Wake
<1>15. CASE MqueueAlloc
  BY <1>15 DEF MqueueAlloc
<1>16. CASE ServiceHandler
  <2>1. /\ msgq' \in Seq({"live", "dangling"}) /\ Len(msgq') <= PipeSize
    BY <1>16, TailFacts DEF ServiceHandler
  <2>2. /\ waiting' \in [Contact -> Nat] /\ active' \in [Contact -> Nat]
        /\ idle' \in [Contact -> Nat] /\ mainpc' \in {"idle", "round"}
        /\ queued' \subseteq Contact /\ missed' \subseteq Contact
    BY <1>16, DialFacts DEF ServiceHandler, Standby
  <2>3. tmr' \in BOOLEAN /\ is_running' \in BOOLEAN /\ crashed' \in BOOLEAN
    BY <1>16 DEF ServiceHandler, Standby, TmrInit, Dial
  <2> QED
    BY <1>16, <2>1, <2>2, <2>3 DEF ServiceHandler
<1>17. CASE UseFreed
  BY <1>17 DEF UseFreed
<1>18. CASE Timer
  <2>1. /\ waiting' \in [Contact -> Nat] /\ active' \in [Contact -> Nat]
        /\ idle' \in [Contact -> Nat] /\ mainpc' \in {"idle", "round"}
        /\ queued' \subseteq Contact /\ missed' \subseteq Contact
    BY <1>18, DialFacts DEF Timer, StartFakeCalling, Standby
  <2>2. tmr' \in BOOLEAN /\ is_running' \in BOOLEAN /\ crashed' \in BOOLEAN
    BY <1>18 DEF Timer, StartFakeCalling, Standby, Dial
  <2> QED
    BY <1>18, <2>1, <2>2 DEF Timer
<1>19. CASE Rearm
  BY <1>19 DEF Rearm
<1>20. ASSUME NEW c \in Contact, Key(c) PROVE TypeOK'
  BY <1>20 DEF Key
<1>21. ASSUME NEW c \in Contact, CallEnds(c) PROVE TypeOK'
  <2>1. active' \in [Contact -> Nat] /\ waiting' \in [Contact -> Nat]
    <3>1. active[c] \in Nat /\ active[c] > 0 /\ waiting[c] \in Nat
      BY <1>21 DEF CallEnds
    <3>2. active' = [active EXCEPT ![c] = active[c] - 1]
      BY <1>21 DEF CallEnds
    <3>3. waiting' = waiting \/ waiting' = [waiting EXCEPT ![c] = waiting[c] + 1]
      BY <1>21 DEF CallEnds, Leaves, Retries
    <3> QED
      BY <3>1, <3>2, <3>3
  <2>2. queued' \subseteq Contact /\ missed' \subseteq Contact
    BY <1>21 DEF CallEnds, Leaves, Retries
  <2>3. crashed' \in BOOLEAN
    BY <1>21 DEF CallEnds
  <2> QED
    BY <1>21, <2>1, <2>2, <2>3 DEF CallEnds
<1>22. CASE UNCHANGED vars
  BY <1>22 DEF vars
<1> QED
  BY <1>1, <1>2, <1>3, <1>4, <1>5, <1>6, <1>7, <1>8, <1>9, <1>10, <1>11, <1>12,
     <1>13, <1>14, <1>15, <1>16, <1>17, <1>18, <1>19, <1>20, <1>21, <1>22
     DEF Next, DbThread, MainThread

-----------------------------------------------------------------------------
(* Every step of either thread keeps the order in which a campaign is      *)
(* started, run and released.                                              *)
LEMMA ArmedStep == ArmedInv /\ [Next]_vars => ArmedInv'
<1> SUFFICES ASSUME ArmedInv, [Next]_vars
             PROVE  LiveMessages' /\ (~crashed' => Lifecycle')
  BY TypeStep DEF ArmedInv
<1> USE DEF ArmedInv, TypeOK, LiveMessages, Visiting, Lifecycle, Messages, At,
            MainIdle, dbVars, cpVars
<1>1. CASE Operator
  BY <1>1 DEF Operator
<1>2. CASE Sync
  BY <1>2 DEF Sync
<1>3. CASE Select
  BY <1>3 DEF Select
<1>4. CASE QueryFails
  BY <1>4 DEF QueryFails
<1>5. CASE Ignore
  BY <1>5 DEF Ignore
<1>6. CASE Create
  BY <1>6 DEF Create
<1>7. CASE Update
  BY <1>7 DEF Update
<1>8. CASE Free
  BY <1>8, MarkedFacts DEF Free
<1>9. CASE ServicesSkip
  BY <1>9 DEF ServicesSkip
<1>10. CASE ServicesVisit
  BY <1>10 DEF ServicesVisit, Skips
<1>11. CASE Load
  BY <1>11 DEF Load
<1>12. CASE FlushActions
  BY <1>12 DEF FlushActions
<1>13. CASE Push
  BY <1>13, AppendLive DEF Push
<1>14. CASE Wake
  BY <1>14 DEF Wake
<1>15. CASE MqueueAlloc
  BY <1>15 DEF MqueueAlloc
<1>16. CASE ServiceHandler
  <2>1. alive
    BY <1>16, TailFacts DEF ServiceHandler
  <2>2. Lifecycle'
    BY <1>16, <2>1 DEF ServiceHandler, Standby, Dial
  <2>3. LiveMessages'
    BY <1>16, <2>1 DEF ServiceHandler
  <2> QED
    BY <2>2, <2>3
<1>17. CASE UseFreed
  BY <1>17 DEF UseFreed
<1>18. CASE Timer
  <2>1. is_running /\ alive
    BY <1>18 DEF Timer
  <2>2. LiveMessages'
    BY <1>18 DEF Timer
  <2>3. CASE status # 2 /\ Standby
    BY <1>18, <2>1, <2>2, <2>3 DEF Timer, Standby
  <2>4. CASE Dial /\ UNCHANGED is_running
    BY <1>18, <2>1, <2>2, <2>4 DEF Timer, Dial
  <2> QED
    BY <1>18, <2>3, <2>4 DEF Timer, StartFakeCalling
<1>19. CASE Rearm
  BY <1>19 DEF Rearm
<1>20. ASSUME NEW c \in Contact, Key(c) PROVE LiveMessages' /\ (~crashed' => Lifecycle')
  BY <1>20 DEF Key
<1>21. ASSUME NEW c \in Contact, CallEnds(c) PROVE LiveMessages' /\ (~crashed' => Lifecycle')
  BY <1>21 DEF CallEnds
<1>22. CASE UNCHANGED vars
  BY <1>22 DEF vars
<1> QED
  BY <1>1, <1>2, <1>3, <1>4, <1>5, <1>6, <1>7, <1>8, <1>9, <1>10, <1>11, <1>12,
     <1>13, <1>14, <1>15, <1>16, <1>17, <1>18, <1>19, <1>20, <1>21, <1>22
     DEF Next, DbThread, MainThread

(* Every step of either thread keeps the two threads out of each other's   *)
(* way.                                                                    *)
LEMMA PromptStep == Prompt /\ PromptInv /\ [Next]_vars => PromptInv'
<1> SUFFICES ASSUME Prompt, PromptInv, [Next]_vars
             PROVE  OneMessage' /\ (~crashed' => Undisturbed')
  BY ArmedStep DEF PromptInv
<1>t. TypeOK /\ (~crashed => Lifecycle) /\ LiveMessages
  BY DEF PromptInv, ArmedInv
<1>i. OneMessage /\ (~crashed => Undisturbed)
  BY DEF PromptInv
<1> USE <1>t, <1>i
    DEF TypeOK, OneMessage, Undisturbed, VisitedRests, DeadRests, NeverStarted,
        RunningUndisturbed, ListedOnce, Visiting, Messages, At, MainIdle, dbVars, cpVars
<1>1. CASE Operator
  BY <1>1 DEF Operator
<1>2. CASE Sync
  BY <1>2 DEF Sync
<1>3. CASE Select
  BY <1>3 DEF Select
<1>4. CASE QueryFails
  BY <1>4 DEF QueryFails
<1>5. CASE Ignore
  BY <1>5 DEF Ignore
<1>6. CASE Create
  BY <1>6 DEF Create, None
<1>7. CASE Update
  BY <1>7 DEF Update, Over
<1>8. CASE Free
  BY <1>8, MarkedFacts DEF Free, Over
<1>9. CASE ServicesSkip
  BY <1>9 DEF ServicesSkip
<1>10. CASE ServicesVisit
  BY <1>10 DEF ServicesVisit, Skips, Lifecycle
<1>11. CASE Load
  <2>1. ~crashed /\ alive /\ ~is_running /\ ~tmr /\ mainpc = "idle" /\ msgq = << >>
    BY <1>11 DEF Load, LiveMessages
  <2>2. CASE paused
    BY <1>11, <2>1, <2>2 DEF Load
  <2>3. CASE ~paused
    <3>1. /\ status = 2 /\ active = None /\ idle = None /\ queued = talked
          /\ keyed = {} /\ stale = {}
      BY <2>1, <2>3
    <3>2. \A c \in Contact : active'[c] = 0 /\ idle'[c] = 0
      BY <1>11, <3>1 DEF Load, None
    <3>3. \A c \in Contact : /\ waiting'[c] \in {0, 1}
                             /\ c \in queued /\ waiting'[c] > 0 => c \in missed
      <4>1. CASE MustLoad
        BY <1>11, <3>1, <4>1 DEF Load, MustLoad, None
      <4>2. CASE ~MustLoad
        <5>1. \A c \in Contact : /\ waiting'[c] = waiting[c] /\ waiting[c] \in Nat
                                 /\ active[c] = 0 /\ idle[c] = 0
          BY <1>11, <3>1, <4>2 DEF Load, None
        <5> QED
          BY <2>1, <2>3, <5>1
      <4> QED
        BY <4>1, <4>2
    <3>4. queued' = queued /\ missed' = missed /\ stale' = {}
      BY <1>11, <3>1 DEF Load
    <3>5. \A c \in Contact : waiting'[c] + active'[c] + idle'[c] <= 1
      <4> TAKE c \in Contact
      <4>1. waiting'[c] \in {0, 1} /\ active'[c] = 0 /\ idle'[c] = 0
        BY <3>2, <3>3
      <4> QED
        BY <4>1
    <3>6. ASSUME NEW c \in queued'
          PROVE  active'[c] = 0 /\ (waiting'[c] + idle'[c] > 0 => c \in missed')
      <4>1. c \in queued /\ c \in Contact
        BY <3>4
      <4>2. waiting'[c] \in {0, 1} /\ active'[c] = 0 /\ idle'[c] = 0
        BY <3>2, <3>3, <4>1
      <4>3. waiting'[c] > 0 => c \in missed'
        BY <3>3, <3>4, <4>1
      <4> QED
        BY <4>2, <4>3
    <3>7. RunningUndisturbed'
      BY <3>4, <3>5, <3>6
    <3> QED
      BY <1>11, <2>1, <2>3, <3>1, <3>7 DEF Load
  <2> QED
    BY <2>2, <2>3
<1>12. CASE FlushActions
  BY <1>12 DEF FlushActions
<1>13. CASE Push
  <2>1. ~crashed /\ alive /\ ~is_running /\ ~tmr /\ mainpc = "idle" /\ msgq = << >>
    BY <1>13 DEF Push, LiveMessages
  <2>2. msgq' = << >> \/ msgq' = <<"live">>
    BY <1>13, <2>1, AppendLive DEF Push
  <2>3. OneMessage'
    BY <1>13, <2>1, <2>2 DEF Push
  <2> QED
    BY <1>13, <2>3 DEF Push
<1>14. CASE Wake
  BY <1>14 DEF Wake
<1>15. CASE MqueueAlloc
  BY <1>15 DEF MqueueAlloc
<1>16. CASE ServiceHandler
  <2>1. /\ ~crashed /\ dbpc = "sleep" /\ msgq = <<"live">> /\ alive
        /\ ~is_running /\ ~tmr /\ mainpc = "idle" /\ msgq' = << >>
    BY <1>16, TailFacts DEF ServiceHandler
  <2>2. CASE status # 2 /\ Standby
    BY <1>16, <2>1, <2>2 DEF ServiceHandler, Standby
  <2>3. CASE Dial /\ is_running'
    <3>1. OneMessage' /\ VisitedRests' /\ DeadRests' /\ NeverStarted'
      BY <1>16, <2>1, <2>3 DEF ServiceHandler
    <3>2. ~paused => ListedOnce'
      <4> HIDE DEF ListedOnce
      <4> QED
        BY <1>16, <2>1, <2>3, DialListed
    <3>3. alive' = alive /\ paused' = paused /\ stale' = stale
      BY <1>16 DEF ServiceHandler
    <3> QED
      BY <2>1, <3>1, <3>2, <3>3
  <2> QED
    BY <1>16, <2>2, <2>3 DEF ServiceHandler
<1>17. CASE UseFreed
  BY <1>17, TailFacts DEF UseFreed
<1>18. CASE Timer
  <2>1. ~crashed /\ tmr /\ is_running /\ alive /\ msgq = << >>
    BY <1>18 DEF Timer, Lifecycle
  <2>2. CASE status # 2 /\ Standby
    BY <1>18, <2>1, <2>2 DEF Timer, Standby
  <2>3. CASE Dial /\ UNCHANGED is_running
    <3>1. OneMessage' /\ VisitedRests' /\ DeadRests' /\ NeverStarted'
      BY <1>18, <2>1, <2>3 DEF Timer
    <3>2. ~paused => ListedOnce'
      <4> HIDE DEF ListedOnce
      <4> QED
        BY <1>18, <2>1, <2>3, DialListed
    <3>3. alive' = alive /\ paused' = paused /\ stale' = stale
      BY <1>18 DEF Timer
    <3> QED
      BY <2>1, <3>1, <3>2, <3>3
  <2> QED
    BY <1>18, <2>2, <2>3 DEF Timer, StartFakeCalling
<1>19. CASE Rearm
  BY <1>19 DEF Rearm, Lifecycle
<1>20. ASSUME NEW c \in Contact, Key(c) PROVE OneMessage' /\ (~crashed' => Undisturbed')
  <2>1. ~crashed /\ active # None
    BY <1>20 DEF Key, None
  <2> QED
    BY <1>20, <2>1 DEF Key
<1>21. ASSUME NEW c \in Contact, CallEnds(c) PROVE OneMessage' /\ (~crashed' => Undisturbed')
  <2>1. ~crashed /\ active # None /\ alive
    BY <1>21 DEF CallEnds, None
  <2>2. OneMessage' /\ VisitedRests' /\ DeadRests' /\ NeverStarted'
    BY <1>21, <2>1 DEF CallEnds
  <2>3. RunningUndisturbed'
    <3> SUFFICES ASSUME ~paused PROVE RunningUndisturbed'
      BY <1>21 DEF CallEnds
    <3>1. /\ active[c] = 1 /\ waiting[c] = 0 /\ idle[c] = 0 /\ c \notin queued
          /\ \A e \in Contact :
                active[e] \in Nat /\ waiting[e] \in Nat /\ idle[e] \in Nat
      BY <1>21, <2>1 DEF CallEnds
    <3>2. /\ active'[c] = 0 /\ \A e \in Contact \ {c} : active'[e] = active[e]
          /\ idle' = idle
      BY <1>21, <3>1 DEF CallEnds
    <3>3. /\ \A e \in Contact \ {c} : waiting'[e] = waiting[e]
          /\ waiting'[c] \in {0, 1} /\ missed \subseteq missed'
          /\ c \in queued' => waiting'[c] = 0 \/ c \in missed'
          /\ queued' \subseteq queued \cup {c}
      <4>1. CASE Leaves
        BY <1>21, <3>1, <4>1 DEF CallEnds, Leaves
      <4>2. CASE queued' = queued \cup {c} /\ Retries(c) /\ missed' = missed \cup {c}
        BY <3>1, <4>2 DEF Retries
      <4>3. CASE queued' = queued \ {c} /\ Retries(c) /\ UNCHANGED missed
        BY <3>1, <4>3 DEF Retries
      <4> QED
        BY <1>21, <4>1, <4>2, <4>3 DEF CallEnds
    <3>5. \A e \in Contact : waiting'[e] + active'[e] + idle'[e] <= 1
      <4>1. waiting'[c] + active'[c] + idle'[c] <= 1
        BY <3>1, <3>2, <3>3
      <4>2. ASSUME NEW e \in Contact, e # c
            PROVE  waiting'[e] + active'[e] + idle'[e] <= 1
        BY <2>1, <3>1, <3>2, <3>3, <4>2
      <4> QED
        BY <4>1, <4>2
    <3>6. \A e \in queued' :
            active'[e] = 0 /\ (waiting'[e] + idle'[e] > 0 => e \in missed')
      <4> SUFFICES ASSUME NEW e \in queued'
                   PROVE  /\ active'[e] = 0
                          /\ waiting'[e] + idle'[e] > 0 => e \in missed'
        OBVIOUS
      <4>1. CASE e = c
        BY <3>1, <3>2, <3>3, <4>1
      <4>2. CASE e # c
        BY <2>1, <3>1, <3>2, <3>3, <4>2
      <4> QED
        BY <4>1, <4>2
    <3> QED
      BY <1>21, <2>1, <3>5, <3>6 DEF CallEnds
  <2> QED
    BY <2>2, <2>3
<1>22. CASE UNCHANGED vars
  BY <1>22 DEF vars
<1> QED
  BY <1>1, <1>2, <1>3, <1>4, <1>5, <1>6, <1>7, <1>8, <1>9, <1>10, <1>11, <1>12,
     <1>13, <1>14, <1>15, <1>16, <1>17, <1>18, <1>19, <1>20, <1>21, <1>22
     DEF Next, DbThread, MainThread

(* There is no campaign at the start, and no message. *)
LEMMA InvInit == Init => PromptInv
<1> SUFFICES ASSUME Init PROVE PromptInv
  OBVIOUS
<1>1. LiveMessages
  BY DEF Init, LiveMessages, Visiting
<1>2. Lifecycle
  BY Zenon DEF Init, Lifecycle
<1>3. ArmedInv
  BY <1>1, <1>2, TypeInit DEF ArmedInv
<1> QED
  BY <1>3 DEF Init, PromptInv, OneMessage, Undisturbed, VisitedRests, Visiting,
              DeadRests, NeverStarted, RunningUndisturbed

-----------------------------------------------------------------------------
(* The state of both threads keeps its types. *)
THEOREM TypeCorrect == Spec => []TypeOK
  BY TypeInit, TypeStep, PTL DEF Spec

(* Between handlers a campaign has its timer exactly if it is marked       *)
(* running, whatever DbThread does to it meanwhile and however slow the    *)
(* main loop is.                                                           *)
THEOREM Armed == Spec => []RunningIffArmed
<1>1. Init => ArmedInv
  BY InvInit DEF PromptInv
<1>2. ArmedInv => RunningIffArmed
  BY DEF ArmedInv, Lifecycle, RunningIffArmed
<1> QED
  BY <1>1, <1>2, ArmedStep, PTL DEF Spec

(* With a prompt main loop PromptInv holds throughout. *)
LEMMA PromptInvariance ==
    ASSUME Prompt
    PROVE  Spec => []PromptInv
<1>1. PromptInv /\ [Next]_vars => PromptInv'
  BY PromptStep
<1> QED
  BY <1>1, InvInit, PTL DEF Spec

(* With a prompt main loop the campaign of a message exists and its timer  *)
(* is not started: campaign_service_handler wipes no timer that is in the  *)
(* list and starts no freed campaign.                                      *)
THEOREM FreshMessages ==
    ASSUME Prompt
    PROVE  Spec => []MessagesFresh
<1>1. PromptInv => MessagesFresh
  BY DEF PromptInv, OneMessage, MessagesFresh
<1> QED
  BY <1>1, PromptInvariance, PTL

(* With a prompt main loop nothing that pull_groups reads or writes        *)
(* disturbs a campaign that was never paused: no contact is called twice   *)
(* or after it talked, and no call holds a freed action.                   *)
THEOREM NotDisturbed ==
    ASSUME Prompt
    PROVE  Spec => []RunningUndisturbed
<1>1. PromptInv => RunningUndisturbed
  BY DEF PromptInv, Undisturbed, RunningUndisturbed
<1> QED
  BY <1>1, PromptInvariance, PTL
=============================================================================
