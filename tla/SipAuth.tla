-------------------------------- MODULE SipAuth --------------------------------
(***************************************************************************)
(* Digest authentication of a SIP client (re/src/sip/auth.c): the realms a *)
(* client has been challenged for, each with the server's nonce and the    *)
(* count of its uses.  A request carries credentials for every realm; the  *)
(* answer may be a challenge again, of one or two headers, possibly for    *)
(* the same realm.  A server issues a new nonce with every challenge and   *)
(* says "stale" when the credentials were right but the nonce was old.     *)
(***************************************************************************)
EXTENDS Integers, Sequences, SequencesExt, FiniteSets, FiniteSetsExt

CONSTANTS
    Realm,     \* realms of servers and proxies
    Known,     \* the realms the user has a password for
    MaxNonce   \* bound on the nonces issued

VARIABLES
    realml,   \* auth->realml: [realm, nonce, nc]
    req,      \* the request: "ready", "sent", "failed", "answered"
    used,     \* credentials sent so far: <<nonce, nc>>
    last,     \* the credentials of the last request
    nonces    \* nonces issued

vars == <<realml, req, used, last, nonces>>

Init ==
    /\ realml = <<>> /\ req = "ready" /\ used = {} /\ last = {} /\ nonces = 0

(* cmp_handler(): an entry of this realm that has been used since it was
   filled in *)
Finds(rs, realm) ==
    {i \in DOMAIN rs : rs[i].nc # 1 /\ rs[i].realm = realm}

(* auth_handler() for one header [realm, stale]; st is [rs, err, n] with n
   the next nonce.  An unknown realm, or a known one that is not stale,
   ends the list *)
AuthHandler(st, h) ==
    LET hits == Finds(st.rs, h.realm)
        new == [realm |-> h.realm, nonce |-> st.n, nc |-> 1]
    IN  IF st.err THEN st
        ELSE IF hits = {}
        THEN IF h.realm \notin Known
             THEN [st EXCEPT !.err = TRUE]
             ELSE [st EXCEPT !.rs = Append(@, new), !.n = @ + 1]
        ELSE IF ~h.stale
        THEN [st EXCEPT !.rs = RemoveAt(@, Min(hits)), !.err = TRUE]
        ELSE [st EXCEPT !.rs = [@ EXCEPT ![Min(hits)] = new], !.n = @ + 1]

(* Mutant: the count of a nonce that was sent does not rise. *)
Encode_bug ==
    /\ req = "ready"
    /\ last' = {<<realml[i].nonce, realml[i].nc>> : i \in DOMAIN realml}
    /\ used' = used \cup {<<realml[i].nonce, realml[i].nc>> : i \in DOMAIN realml}
    /\ req' = "sent"
    /\ UNCHANGED <<realml, nonces>>

(* sip_auth_encode() in a new request: credentials for every realm *)
Encode ==
    /\ req = "ready"
    /\ last' = {<<realml[i].nonce, realml[i].nc>> : i \in DOMAIN realml}
    /\ used' = used \cup {<<realml[i].nonce, realml[i].nc>> : i \in DOMAIN realml}
    /\ realml' = [i \in DOMAIN realml |-> [realml[i] EXCEPT !.nc = @ + 1]]
    /\ req' = "sent"
    /\ UNCHANGED nonces

Header == [realm : Realm, stale : BOOLEAN]
NoHeader == [realm |-> "none", stale |-> FALSE]

(* sip_auth_authenticate() on a 401 or 407 with the header h and perhaps a
   second one k: sip_msg_hdr_apply() runs auth_handler() over them.  The user
   sends again or gives up *)
Challenge(h, k) ==
    LET one == AuthHandler([rs |-> realml, err |-> FALSE, n |-> nonces], h)
        st == IF k = NoHeader THEN one ELSE AuthHandler(one, k)
    IN  /\ req = "sent" /\ st.n <= MaxNonce
        /\ realml' = st.rs /\ nonces' = st.n
        /\ req' = IF st.err THEN "failed" ELSE "ready"
        /\ UNCHANGED <<used, last>>

(* any other final response *)
Answered ==
    /\ req = "sent" /\ req' = "answered"
    /\ UNCHANGED <<realml, used, last, nonces>>

(* the user's next request: after an answer it keeps the realms, after a
   failure it starts over (sip_auth_reset) or keeps what is there *)
Again ==
    /\ req \in {"answered", "failed"} /\ Cardinality(used) < MaxNonce
    /\ req' = "ready"
    /\ realml' \in IF req = "failed" THEN {<<>>, realml} ELSE {realml}
    /\ UNCHANGED <<used, last, nonces>>

Next ==
    \/ Encode \/ Answered \/ Again
    \/ \E h \in Header, k \in Header \cup {NoHeader} : Challenge(h, k)

Spec == Init /\ [][Next]_vars

TypeOK ==
    /\ req \in {"ready", "sent", "failed", "answered"} /\ nonces \in 0..MaxNonce
    /\ \A i \in DOMAIN realml : realml[i].realm \in Realm

(* Credentials go out once: no nonce is sent twice with the same count,
   whatever the server challenged for and how often, so that a server that
   checks for replays accepts what is right. *)
CredentialsFresh ==
    [][req = "ready" /\ req' = "sent" => last' \cap used = {}]_vars
===============================================================================
