--------------------------------- MODULE Telev ---------------------------------
(***************************************************************************)
(* Telephone events (re/src/telev/telev.c): the user queues digits and     *)
(* their ends, telev_poll() turns them into packets once per packet time - *)
(* at least DigitMin for a digit, EndTx for its end - and telev_recv() at  *)
(* the other end reports every event and every end once.  It knows no      *)
(* sequence numbers: the application hands it the packets as they come.    *)
(* The network loses packets, but never Loss + 1 in a row, doubles some    *)
(* and delivers some late.                                                 *)
(***************************************************************************)
EXTENDS Integers, Sequences

CONSTANTS
    Digit,     \* event codes
    DigitMin,  \* TXC_DIGIT_MIN
    EndTx,     \* TXC_END
    Loss,      \* packets the network may lose or delay in a row
    MaxStray,  \* bound on the packets doubled or delayed
    MaxDigits, \* bound on the digits queued
    MaxNet     \* bound on the packets under way

VARIABLES
    mb,       \* tel->mb: the queued bytes, a digit or EVENT_END
    state,    \* tel->state
    event,    \* tel->event
    txc,      \* tel->txc
    net,      \* packets under way: [event, end]
    lost,     \* packets lost or delayed in a row
    stray,    \* copies and late packets, which come at any time
    strays,   \* how many there were
    strayed,  \* one came when it was not the event heard last
    rxEvent,  \* tel->rx_event
    rxEnd,    \* tel->rx_end
    pressed,  \* the digits queued, in order
    held,     \* the user has not queued the end of the last digit
    told      \* what telev_recv() reported: [event, end]

sent == <<mb, state, event, txc, pressed, held>>
heard == <<rxEvent, rxEnd, told>>
astray == <<stray, strays, strayed>>
vars == <<sent, net, lost, astray, heard>>

EVENT_END == "end"
NONE == "none"

(* telev_alloc() at both ends *)
Init ==
    /\ mb = <<>> /\ state = "IDLE" /\ event = NONE /\ txc = 0
    /\ net = <<>> /\ lost = 0 /\ rxEvent = NONE /\ rxEnd = FALSE
    /\ pressed = <<>> /\ held = FALSE /\ told = <<>>
    /\ stray = {} /\ strays = 0 /\ strayed = FALSE

(* telev_send(): the user presses a digit or releases it; a digit may
   follow another without an end *)
Press(d) ==
    /\ Len(pressed) < MaxDigits
    /\ mb' = Append(mb, d) /\ pressed' = Append(pressed, d) /\ held' = TRUE
    /\ UNCHANGED <<state, event, txc, net, lost, astray, heard>>

Release ==
    /\ held
    /\ mb' = Append(mb, EVENT_END) /\ held' = FALSE
    /\ UNCHANGED <<state, event, txc, net, lost, pressed, astray, heard>>

Packet(ev, end) == [event |-> ev, end |-> end]

(* telev_poll() *)
Poll ==
    /\ Len(net) < MaxNet
    /\ \/ /\ state = "IDLE" /\ mb # <<>>
          /\ event' = Head(mb) /\ mb' = Tail(mb)
          /\ state' = "SENDING" /\ txc' = 1
          /\ net' = Append(net, Packet(Head(mb), FALSE))
       \/ /\ state = "SENDING"
          /\ net' = Append(net, Packet(event, FALSE))
          /\ IF txc + 1 < DigitMin \/ mb = <<>>
             THEN /\ txc' = IF txc < DigitMin THEN txc + 1 ELSE txc
                  /\ UNCHANGED <<mb, state>>
             ELSE /\ mb' = IF Head(mb) = EVENT_END THEN Tail(mb) ELSE mb
                  /\ state' = "ENDING" /\ txc' = 0
          /\ UNCHANGED event
       \/ /\ state = "ENDING"
          /\ net' = Append(net, Packet(event, TRUE))
          /\ txc' = txc + 1
          /\ state' = IF txc + 1 < EndTx THEN "ENDING" ELSE "IDLE"
          /\ UNCHANGED <<mb, event>>
    /\ UNCHANGED <<lost, pressed, held, astray, heard>>

(* telev_recv() *)
Hear(p) ==
    IF IF p.end THEN rxEnd ELSE p.event = rxEvent
    THEN UNCHANGED heard
    ELSE /\ rxEvent' = IF p.end THEN NONE ELSE p.event
         /\ rxEnd' = p.end
         /\ told' = Append(told, p)

Recv ==
    /\ net # <<>> /\ Hear(Head(net))
    /\ net' = Tail(net) /\ lost' = 0
    /\ UNCHANGED <<sent, astray>>

(* The network loses a packet, or delays or doubles it. *)
Strays(p) ==
    /\ strays < MaxStray /\ strays' = strays + 1
    /\ stray' = stray \cup {p} /\ UNCHANGED strayed

Lose ==
    /\ net # <<>> /\ lost < Loss
    /\ net' = Tail(net) /\ lost' = lost + 1
    /\ UNCHANGED astray \/ Strays(Head(net))
    /\ UNCHANGED <<sent, heard>>

Double ==
    /\ net # <<>> /\ Strays(Head(net)) /\ UNCHANGED <<sent, net, lost, heard>>

RecvStray ==
    \E p \in stray :
        /\ Hear(p) /\ stray' = stray \ {p}
        /\ strayed' = (strayed \/ told = <<>> \/ told[Len(told)] # p)
        /\ UNCHANGED <<sent, net, lost, strays>>

Next ==
    \/ (\E d \in Digit : Press(d)) \/ Release \/ Poll
    \/ Recv \/ Lose \/ Double \/ RecvStray

(* the audio clock polls, packets arrive in the end *)
Spec == Init /\ [][Next]_vars /\ WF_vars(Poll) /\ WF_vars(Recv)

TypeOK ==
    /\ state \in {"IDLE", "SENDING", "ENDING"}
    /\ event \in Digit \cup {NONE} /\ rxEvent \in Digit \cup {NONE}
    /\ lost \in 0..Loss /\ rxEnd \in BOOLEAN /\ held \in BOOLEAN
    /\ strays \in 0..MaxStray /\ strayed \in BOOLEAN

(* Until a packet comes while another event than its own was the last heard,
   the far end hears each digit pressed exactly once, in order, each followed
   by its end before the next: the same digit pressed twice is two events, and
   what is repeated by the sender or by the network is none.  Whatever comes
   late, it never hears an end twice in a row, nor the same digit twice without
   an end between; but a late packet of a digit that is over is a new event
   (telev.c:238), which the application takes for a key. *)
DigitsOnce ==
    /\ strayed \/ Len(told) <= 2 * Len(pressed)
    /\ strayed \/ \A i \in DOMAIN told :
          told[i] = Packet(pressed[(i + 1) \div 2], i % 2 = 0)
    /\ \A i \in 2 .. Len(told) :
          told[i] # told[i - 1] /\ (told[i].end => ~told[i - 1].end)

(* Every digit pressed is heard in the end: there are no fewer reports, though
   late packets may add to them. *)
DigitsHeard == \A k \in 1..MaxDigits : (Len(pressed) >= k) ~> (Len(told) >= 2 * k - 1)
===============================================================================
