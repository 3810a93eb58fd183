------------------------------ MODULE Exchange ------------------------------
(***************************************************************************)
(* What a SIP request promises to the code that sends it (sip_request with *)
(* a response handler): after provisional answers that the peer really     *)
(* gave, one outcome, which is a final answer of the peer or an error, and *)
(* silence once the sender has dropped the request.                        *)
(***************************************************************************)
CONSTANTS Finals      \* classes of final answers, without "error" and "none"
VARIABLES phase,      \* "idle", "asked", "ringing" or "done"
          heard,      \* the sender still wants to be told
          result,     \* the outcome the sender was told
          answers     \* the classes the peer has answered with

vars == <<phase, heard, result, answers>>

Init == phase = "idle" /\ heard = TRUE /\ result = "none" /\ answers = {}

Ask == phase = "idle" /\ phase' = "asked" /\ UNCHANGED <<heard, result, answers>>

Refuse ==
  /\ phase = "idle" /\ phase' = "done" /\ result' = "error"
  /\ UNCHANGED <<heard, answers>>

Answer ==
  /\ phase # "idle"
  /\ \E c \in Finals \cup {"1xx"} : answers' = answers \cup {c}
  /\ UNCHANGED <<phase, heard, result>>

Ring ==
  /\ phase \in {"asked", "ringing"} /\ "1xx" \in answers
  /\ phase' = "ringing"
  /\ UNCHANGED <<heard, result, answers>>

Drop ==
  /\ phase \in {"asked", "ringing"} /\ heard' = FALSE
  /\ UNCHANGED <<phase, result, answers>>

Finish ==
  /\ phase \in {"asked", "ringing"}
  /\ phase' = "done"
  /\ IF heard THEN result' \in (answers \cap Finals) \cup {"error"}
              ELSE result' = "none"
  /\ UNCHANGED <<heard, answers>>

Next == Ask \/ Refuse \/ Answer \/ Ring \/ Drop \/ Finish

Spec == Init /\ [][Next]_vars
=============================================================================
