------------------------------ MODULE Exchanges -------------------------------
(* Exchanges between two ends over a network that delays, cuts, loses and    *)
(* repeats, each checked by itself: a behaviour is one of the component that *)
(* `which' names.                                                            *)
EXTENDS Naturals, Sequences

CONSTANTS
    Query, Srvc, NtxMax,                          \* DnsClient
    MaxSrv, RespLen,                              \* HttpClient
    Conn, Body, MaxReqs, BufMax,                  \* HttpServer
    TidMod, MaxReq,                               \* Bfcp
    Digit, DigitMin, EndTx, Loss, MaxStray, MaxDigits, MaxNet,   \* Telev
    Branch, Contact, MaxSeq, MaxBuf,              \* SipDialog
    Agent, Formats, First, Payload, MaxOffers, MaxEdits,   \* Sdp
    Realm, Known, MaxNonce                        \* SipAuth

(* There are servers to ask, or none. *)
ASSUME DnsAssumption == Srvc \in Nat

(* A response is not empty. *)
ASSUME ClientAssumption == MaxSrv \in Nat /\ RespLen \in Nat \ {0}

(* A body has a length. *)
ASSUME ServerAssumption == Body \subseteq Nat

(* A transaction number other than 0 exists. *)
ASSUME FloorAssumption == TidMod \in Nat \ {0, 1}

(* The network loses fewer packets in a row than a sender repeats, and a digit
   is neither the mark of an end nor that of no digit. *)
ASSUME DigitsAssumption ==
    /\ DigitMin \in Nat /\ EndTx \in Nat /\ Loss \in Nat
    /\ Loss < DigitMin /\ Loss < EndTx
    /\ Digit \cap {"end", "none"} = {}

(* A branch of the callee is not the caller, nor a dialog that has no peer. *)
ASSUME DialogAssumption == Branch \cap {"nil", "caller", "half"} = {}

VARIABLES
    which,   \* the component this behaviour is about
    dns_q, dns_conn, dns_ctmr, dns_todo,
    client_user, client_alive, client_dq, client_srvc, client_tc, client_tmr,
    client_mb, client_data, client_datah, client_told,
    server_sock, server_listed, server_tc, server_wire, server_next,
    server_mb, server_served, server_sent,
    floor_sock, floor_tidc, floor_transl, floor_conn, floor_mbtx, floor_wire,
    floor_server, floor_reqs, floor_told,
    digits_mb, digits_state, digits_event, digits_txc, digits_net,
    digits_lost, digits_stray, digits_strays, digits_strayed,
    digits_rxEvent, digits_rxEnd, digits_pressed, digits_held, digits_told,
    media_sess, media_msg, media_stage, media_by, media_agreed, media_offers,
    media_edits,
    dialog_uac, dialog_uas, dialog_net, dialog_heap, dialog_bufs,
    auth_realml, auth_req, auth_used, auth_last, auth_nonces

dns == <<dns_q, dns_conn, dns_ctmr, dns_todo>>
Dns == INSTANCE DnsClient WITH
    q <- dns_q, conn <- dns_conn, ctmr <- dns_ctmr, todo <- dns_todo,
    Query <- Query, Srvc <- Srvc, NtxMax <- NtxMax

client == <<client_user, client_alive, client_dq, client_srvc, client_tc,
    client_tmr, client_mb, client_data, client_datah, client_told>>
Client == INSTANCE HttpClient WITH
    user <- client_user, alive <- client_alive, dq <- client_dq,
    srvc <- client_srvc, tc <- client_tc, tmr <- client_tmr, mb <- client_mb,
    data <- client_data, datah <- client_datah, told <- client_told,
    MaxSrv <- MaxSrv, RespLen <- RespLen

server == <<server_sock, server_listed, server_tc, server_wire, server_next,
    server_mb, server_served, server_sent>>
Server == INSTANCE HttpServer WITH
    sock <- server_sock, listed <- server_listed, tc <- server_tc,
    wire <- server_wire, next <- server_next, mb <- server_mb,
    served <- server_served, sent <- server_sent, Conn <- Conn, Body <- Body,
    MaxReqs <- MaxReqs, BufMax <- BufMax

floor == <<floor_sock, floor_tidc, floor_transl, floor_conn, floor_mbtx,
    floor_wire, floor_server, floor_reqs, floor_told>>
Floor == INSTANCE Bfcp WITH
    sock <- floor_sock, tidc <- floor_tidc, transl <- floor_transl,
    conn <- floor_conn, mbtx <- floor_mbtx, wire <- floor_wire,
    server <- floor_server, reqs <- floor_reqs, told <- floor_told,
    TidMod <- TidMod, MaxReq <- MaxReq

digits == <<digits_mb, digits_state, digits_event, digits_txc, digits_net,
    digits_lost, digits_stray, digits_strays, digits_strayed,
    digits_rxEvent, digits_rxEnd, digits_pressed, digits_held, digits_told>>
Digits == INSTANCE Telev WITH
    mb <- digits_mb, state <- digits_state, event <- digits_event,
    txc <- digits_txc, net <- digits_net, lost <- digits_lost,
    stray <- digits_stray, strays <- digits_strays, strayed <- digits_strayed,
    rxEvent <- digits_rxEvent, rxEnd <- digits_rxEnd,
    pressed <- digits_pressed, held <- digits_held, told <- digits_told,
    Digit <- Digit, DigitMin <- DigitMin, EndTx <- EndTx, Loss <- Loss,
    MaxStray <- MaxStray, MaxDigits <- MaxDigits, MaxNet <- MaxNet

media == <<media_sess, media_msg, media_stage, media_by, media_agreed,
    media_offers, media_edits>>
Media == INSTANCE Sdp WITH
    sess <- media_sess, msg <- media_msg, stage <- media_stage,
    by <- media_by, agreed <- media_agreed, offers <- media_offers,
    edits <- media_edits, Agent <- Agent, Formats <- Formats,
    First <- First, MaxOffers <- MaxOffers, MaxEdits <- MaxEdits

(* The session has two ends, each with formats for the first line.  The payload
   types below the dynamic ones are registered: one codec each.  The user gives
   a line a codec once, under a payload type of its own. *)
ASSUME MediaAssumption ==
    /\ \E a, b \in Agent : a # b /\ Agent = {a, b}
    /\ \A f \in Payload : f = Media!Format(f.id, f.codec) /\ f.id \in Nat
    /\ \A f, g \in Payload :
          f.id < Media!DYNPT_START /\ g.id < Media!DYNPT_START =>
              (f.id = g.id <=> f.codec = g.codec)
    /\ \A x \in Agent : First \in DOMAIN Formats[x]
    /\ \A x \in Agent : \A name \in DOMAIN Formats[x] :
          /\ Formats[x][name] \in Seq(Payload)
          /\ \A i, j \in DOMAIN Formats[x][name] :
                \/ Formats[x][name][i].id = Formats[x][name][j].id
                \/ Formats[x][name][i].codec = Formats[x][name][j].codec
                => i = j

dialog == <<dialog_uac, dialog_uas, dialog_net, dialog_heap, dialog_bufs>>
Dialog == INSTANCE SipDialog WITH
    uac <- dialog_uac, uas <- dialog_uas, net <- dialog_net,
    heap <- dialog_heap, bufs <- dialog_bufs, Branch <- Branch,
    Contact <- Contact, MaxSeq <- MaxSeq, MaxBuf <- MaxBuf

auth == <<auth_realml, auth_req, auth_used, auth_last, auth_nonces>>
Auth == INSTANCE SipAuth WITH
    realml <- auth_realml, req <- auth_req, used <- auth_used,
    last <- auth_last, nonces <- auth_nonces, Realm <- Realm,
    Known <- Known, MaxNonce <- MaxNonce

vars == <<which, dns, client, server, floor, digits, media, dialog, auth>>

(* A component nobody looks at stays as it began. *)
Init ==
    /\ which \in {"dns", "client", "server", "floor", "digits", "media",
                 "dialog", "auth"}
    /\ Dns!Init
    /\ Client!Init /\ (which = "client" \/ client_datah)
    /\ Server!Init
    /\ Floor!Init
    /\ Digits!Init
    /\ Media!Init
    /\ Dialog!Init
    /\ Auth!Init

Only(c) ==
    /\ which = c /\ UNCHANGED which
    /\ IF c = "dns" THEN TRUE ELSE UNCHANGED dns
    /\ IF c = "client" THEN TRUE ELSE UNCHANGED client
    /\ IF c = "server" THEN TRUE ELSE UNCHANGED server
    /\ IF c = "floor" THEN TRUE ELSE UNCHANGED floor
    /\ IF c = "digits" THEN TRUE ELSE UNCHANGED digits
    /\ IF c = "media" THEN TRUE ELSE UNCHANGED media
    /\ IF c = "dialog" THEN TRUE ELSE UNCHANGED dialog
    /\ IF c = "auth" THEN TRUE ELSE UNCHANGED auth

Next ==
    \/ Only("dns") /\ Dns!Next
    \/ Only("client") /\ Client!Next
    \/ Only("server") /\ Server!Next
    \/ Only("floor") /\ Floor!Next
    \/ Only("digits") /\ Digits!Next
    \/ Only("media") /\ Media!Next
    \/ Only("dialog") /\ Dialog!Next
    \/ Only("auth") /\ Auth!Next

(* Timers fire, lookups end, the sender of digits is polled and the network
   delivers what it does not lose; nothing else is fair. *)
Fairness ==
    /\ \A i \in Query :
          /\ WF_vars(Only("dns") /\ Dns!UdpTimeout(i))
          /\ WF_vars(Only("dns") /\ Dns!TcpTimeout(i))
          /\ WF_vars(Only("dns") /\ Dns!SendTcp(i))
    /\ WF_vars(Only("client") /\ Client!Timeout)
    /\ WF_vars(Only("client") /\ \E found \in 0 .. MaxSrv : Client!Resolved(found))
    /\ \A tid \in 1 .. TidMod - 1 : WF_vars(Only("floor") /\ Floor!Timeout(tid))
    /\ WF_vars(Only("digits") /\ Digits!Poll)
    /\ WF_vars(Only("digits") /\ Digits!Recv)

Spec == Init /\ [][Next]_vars /\ Fairness

(* Who waits hears once, and of its own request, wherever messages are cut,
   lost, doubled or late: the handler of a DNS query or of an HTTP request is
   called once, and not without a timer, a connection or a lookup under way to
   wait for; a server gets each request of a connection entire and in order; a
   BFCP response goes to the request of its transaction; and each digit is
   heard once, in the order of the keys, as long as no packet of it comes when
   another was heard since. *)
UsersHearOnce ==
    /\ Dns!HandlerOnce /\ Dns!QueriesWatched
    /\ Client!AnsweredOnce /\ Client!RequestWatched
    /\ Server!RequestsWhole /\ Server!ConnectionsListed
    /\ Floor!AnswersMatch /\ Floor!RequestsHeld
    /\ Digits!DigitsOnce

(* The dialogs of a forked request keep apart, and each sends to a route that
   is its own and is still allocated, after any refresh of the target. *)
DialogsApart == Dialog!RouteAlive /\ Dialog!RouteRight /\ Dialog!ForksApart

(* Offer and answer leave both ends with the same lines, each the mirror of the
   other in direction, and sending in a format that the other knows. *)
LinesAgree == Media!EndsAgree

(* What holds of the exchanges between any two handlers. *)
ExchangesAgree == UsersHearOnce /\ DialogsApart /\ LinesAgree

(* The numbers of a dialog only rise though requests are repeated and
   overtaken, and no credentials are sent twice. *)
NumbersForward == Dialog!NumbersRise /\ Auth!CredentialsFresh

(* A line of the session description keeps its place and its name. *)
LinesKept == Media!PlacesKept

(* What no step of the exchanges takes back. *)
MovesForward == NumbersForward /\ LinesKept

(* Every DNS query, every HTTP request that is not passing data on and every
   BFCP request comes to its end, whatever the servers do, and every digit
   pressed is heard. *)
RequestsFinish ==
    Dns!QueryEnds /\ Client!RequestEnds /\ Floor!RequestEnds /\ Digits!DigitsHeard

(* Values for model checking: formats in common under different payload types,
   static and dynamic. *)
PayloadFormat(id, codec) == [id |-> id, codec |-> codec, sup |-> TRUE]
EndFormats ==
    [a |-> [audio |-> <<PayloadFormat(0, "pcmu"), PayloadFormat(96, "speex"), PayloadFormat(97, "te")>>,
            video |-> <<PayloadFormat(96, "h264")>>],
     b |-> [audio |-> <<PayloadFormat(8, "pcma"), PayloadFormat(96, "te"), PayloadFormat(0, "pcmu")>>,
            video |-> <<PayloadFormat(96, "vp8"), PayloadFormat(97, "h264")>>]]
EndPayload ==
    UNION {{EndFormats[x][name][i] : i \in DOMAIN EndFormats[x][name]} :
              x \in {"a", "b"}, name \in {"audio", "video"}}
===============================================================================
