------------------------------- MODULE MCStack --------------------------------
(* Parts of libre that the dialer stands on, and main() itself, each checked *)
(* by itself: a behaviour is one of the component that `which' names.        *)
EXTENDS Naturals, Sequences

VARIABLES
    which,   \* the component this behaviour is about
    request_x, request_tried,
    transport_s, transport_ka, transport_uc, transport_up,
    reg_reg, reg_srv,
    event_sub, event_not,
    stun_ct, stun_ka, stun_map, stun_resp, stun_disc,
    relay_t, relay_a, relay_perm, relay_chan, relay_nr, relay_net,
    gather_turn, gather_stun, gather_cands, gather_nstun, gather_gh,
    gather_asked, gather_told, gather_late,
    checks_m,
    probe_nat, probe_kind, probe_proto, probe_phase, probe_srv, probe_map,
    probe_wait, probe_lost, probe_told,
    lifetime_life, lifetime_obeys, lifetime_interval, lifetime_ctx,
    lifetime_cty, lifetime_tmr, lifetime_wrong, lifetime_stuck, lifetime_live,
    loop_pc, loop_lock, loop_now, loop_tl, loop_until, loop_since, loop_sig,
    loop_eintr, loop_polling, loop_open, loop_ready, loop_pipe, loop_fired,
    poll_open, poll_fhs, poll_nfds, poll_method, poll_fds, poll_epoll,
    poll_changes,
    list_head, list_tail, list_nxt, list_prv, list_in, list_seq, list_walk,
    list_sort,
    refs_heap, refs_nrefs, refs_size, refs_owner, refs_held, refs_meml,
    refs_memstat, refs_pc,
    start_at, start_have, start_pool, start_left, start_conf, start_thread,
    start_running, start_failed, start_wrong,
    tcp_ts, tcp_c, tcp_wire, tcp_acc, tcp_sent, tcp_shakes, tcp_evs,
    tcp_early,
    udp_us, udp_net, udp_last,
    ports_rs, ports_port, ports_tries, ports_mux, ports_bound, ports_other,
    ports_got,
    report_members, report_memberc, report_senderc, report_rtcp,
    report_report, report_peer, report_open,
    jitter_pool, jitter_frames, jitter_n, jitter_seqPut, jitter_running,
    jitter_high,
    crypto_tx, crypto_rx, crypto_got, crypto_count, crypto_last

MCSrv == {[target |-> "s1", pri |-> 1, weight |-> 0],
          [target |-> "s2", pri |-> 1, weight |-> 5],
          [target |-> "s3", pri |-> 2, weight |-> 0]}

(* Two components with a pair each; x1 is made of a candidate of the peer
   nobody was told of, n1 is the pair a success of a1 proves behind a NAT. *)
MCCompOf == [a1 |-> 1, a2 |-> 2, x1 |-> 1, n1 |-> 1]
MCFnd == [a1 |-> "f", a2 |-> "f", x1 |-> "g", n1 |-> "h"]
MCPrio == [controlling |-> [a1 |-> 4, a2 |-> 3, x1 |-> 2, n1 |-> 1],
           controlled |-> [a1 |-> 3, a2 |-> 2, x1 |-> 4, n1 |-> 1]]
MCMapped == [a1 |-> "n1", a2 |-> "a2", x1 |-> "x1", n1 |-> "n1"]

MCNat == [map |-> "none", filter |-> "ENDP_INDEP", hairpin |-> FALSE, alg |-> FALSE]
MCKey == [a |-> 2, b |-> 0, c |-> 4, d |-> 1]
MCLayer == [dtls |-> 1, turn |-> 0, ice |-> 0]
MCAf == [a |-> 4, b |-> 6, srv |-> 4]

request == <<request_x, request_tried>>
Request == INSTANCE SipRequest WITH
    x <- request_x, tried <- request_tried, Srv <- MCSrv, Transpc <- 2,
    Families <- {"A", "AAAA"}, Host <- "h"

transport == <<transport_s, transport_ka, transport_uc, transport_up>>
Transport == INSTANCE SipTransport WITH
    s <- transport_s, ka <- transport_ka, uc <- transport_uc,
    up <- transport_up, Conn <- {1, 2}, Msg <- {"m1", "m2"}, Tries <- 2,
    Joins <- 1

reg == <<reg_reg, reg_srv>>
Reg == INSTANCE SipReg WITH
    reg <- reg_reg, srv <- reg_srv, MaxFail <- 2

event == <<event_sub, event_not>>
Event == INSTANCE SipEvent WITH
    sub <- event_sub, not <- event_not, FailMax <- 2

stun == <<stun_ct, stun_ka, stun_map, stun_resp, stun_disc>>
Stun == INSTANCE StunClient WITH
    ct <- stun_ct, ka <- stun_ka, map <- stun_map, resp <- stun_resp,
    disc <- stun_disc, Map <- {"m1", "m2"}, Rc <- 2

relay == <<relay_t, relay_a, relay_perm, relay_chan, relay_nr, relay_net>>
Relay == INSTANCE Turn WITH
    t <- relay_t, a <- relay_a, perm <- relay_perm, chan <- relay_chan,
    nr <- relay_nr, net <- relay_net, Peer <- {"p1", "p2"},
    PermPeer <- {"p1"}, FailcMax <- 2, NumbMax <- 3

gather == <<gather_turn, gather_stun, gather_cands, gather_nstun, gather_gh,
    gather_asked, gather_told, gather_late>>
Gather == INSTANCE IceGather WITH
    turn <- gather_turn, stun <- gather_stun, cands <- gather_cands,
    nstun <- gather_nstun, gh <- gather_gh, asked <- gather_asked,
    told <- gather_told, late <- gather_late, Comp <- {1, 2}

checks == <<checks_m>>
Checks == INSTANCE Ice WITH
    m <- checks_m, Key <- DOMAIN MCCompOf, Formed <- {"a1", "a2"},
    CompOf <- MCCompOf, Fnd <- MCFnd, Prio <- MCPrio, Mapped <- MCMapped,
    CompSeq <- <<1, 2>>, Regular <- TRUE, MaxPair <- 4, MaxTold <- 2

probe == <<probe_nat, probe_kind, probe_proto, probe_phase, probe_srv,
    probe_map, probe_wait, probe_lost, probe_told>>
lifetime == <<lifetime_life, lifetime_obeys, lifetime_interval, lifetime_ctx,
    lifetime_cty, lifetime_tmr, lifetime_wrong, lifetime_stuck,
    lifetime_live>>
Natbd == INSTANCE NatProbe WITH
    nat <- probe_nat, kind <- probe_kind, proto <- probe_proto,
    phase <- probe_phase, srv <- probe_srv, map <- probe_map,
    wait <- probe_wait, lost <- probe_lost, told <- probe_told,
    life <- lifetime_life, obeys <- lifetime_obeys,
    interval <- lifetime_interval, ctx <- lifetime_ctx, cty <- lifetime_cty,
    tmr <- lifetime_tmr, wrong <- lifetime_wrong, stuck <- lifetime_stuck,
    live <- lifetime_live, Lifetimes <- {1, 3, 6}, Starts <- {1, 2, 5},
    MaxCur <- 12

loop == <<loop_pc, loop_lock, loop_now, loop_tl, loop_until, loop_since,
    loop_sig, loop_eintr, loop_polling, loop_open, loop_ready, loop_pipe,
    loop_fired>>
Loop == INSTANCE MainLoop WITH
    pc <- loop_pc, lock <- loop_lock, now <- loop_now, tl <- loop_tl,
    until <- loop_until, since <- loop_since, sig <- loop_sig,
    eintr <- loop_eintr, polling <- loop_polling, open <- loop_open,
    ready <- loop_ready, pipe <- loop_pipe, fired <- loop_fired,
    Timer <- {"a", "b"}, MaxNow <- 3, MaxPush <- 1

poll == <<poll_open, poll_fhs, poll_nfds, poll_method, poll_fds, poll_epoll,
    poll_changes>>
Poll == INSTANCE Poller WITH
    open <- poll_open, fhs <- poll_fhs, nfds <- poll_nfds,
    method <- poll_method, fds <- poll_fds, epoll <- poll_epoll,
    changes <- poll_changes, Fd <- {3, 4}, Flags <- {{"R"}, {"R", "W"}},
    MaxChanges <- 3

list == <<list_head, list_tail, list_nxt, list_prv, list_in, list_seq,
    list_walk, list_sort>>
List == INSTANCE Lists WITH
    head <- list_head, tail <- list_tail, nxt <- list_nxt, prv <- list_prv,
    in <- list_in, seq <- list_seq, walk <- list_walk, sort <- list_sort,
    Elem <- DOMAIN MCKey, Bsize <- 2, Key <- MCKey

refs == <<refs_heap, refs_nrefs, refs_size, refs_owner, refs_held, refs_meml,
    refs_memstat, refs_pc>>
Refs == INSTANCE Mem WITH
    heap <- refs_heap, nrefs <- refs_nrefs, size <- refs_size,
    owner <- refs_owner, held <- refs_held, meml <- refs_meml,
    memstat <- refs_memstat, pc <- refs_pc, Thread <- {"main", "db"},
    Obj <- {"p", "q", "r"}, Sizes <- {1, 2}, Threshold <- 1, MaxRefs <- 2

start == <<start_at, start_have, start_pool, start_left, start_conf,
    start_thread, start_running, start_failed, start_wrong>>
Start == INSTANCE Startup WITH
    at <- start_at, have <- start_have, pool <- start_pool,
    left <- start_left, conf <- start_conf, thread <- start_thread,
    running <- start_running, failed <- start_failed, wrong <- start_wrong,
    Pool <- 3, MinPort <- 8, MaxPort <- 14

tcp == <<tcp_ts, tcp_c, tcp_wire, tcp_acc, tcp_sent, tcp_shakes, tcp_evs,
    tcp_early>>
Tcp == INSTANCE TcpConn WITH
    ts <- tcp_ts, c <- tcp_c, wire <- tcp_wire, acc <- tcp_acc,
    sent <- tcp_sent, shakes <- tcp_shakes, evs <- tcp_evs,
    early <- tcp_early, MaxMsg <- 3, TxqMax <- 3, MaxShake <- 2, MaxRecv <- 2

udp == <<udp_us, udp_net, udp_last>>
Udp == INSTANCE UdpSock WITH
    us <- udp_us, net <- udp_net, last <- udp_last, Helper <- DOMAIN MCLayer,
    Layer <- MCLayer, Peer <- {"a", "b"}, Af <- MCAf, Server <- "srv",
    MaxNet <- 1

ports == <<ports_rs, ports_port, ports_tries, ports_mux, ports_bound,
    ports_other, ports_got>>
Ports == INSTANCE RtpPorts WITH
    rs <- ports_rs, port <- ports_port, tries <- ports_tries,
    mux <- ports_mux, bound <- ports_bound, other <- ports_other,
    got <- ports_got, Rs <- {"r1", "r2"}, MinPort <- 11, MaxPort <- 15,
    Tries <- 2

report == <<report_members, report_memberc, report_senderc, report_rtcp,
    report_report, report_peer, report_open>>
Report == INSTANCE Rtp WITH
    members <- report_members, memberc <- report_memberc,
    senderc <- report_senderc, rtcp <- report_rtcp, report <- report_report,
    peer <- report_peer, open <- report_open, Ssrc <- {"x", "y"},
    SeqMod <- 16, MaxDropout <- 5, MaxMisorder <- 3, MaxMembers <- 1,
    Firsts <- {0, 14}, MaxSent <- 3, MaxRecv <- 3

jitter == <<jitter_pool, jitter_frames, jitter_n, jitter_seqPut,
    jitter_running, jitter_high>>
Jitter == INSTANCE Jbuf WITH
    pool <- jitter_pool, frames <- jitter_frames, n <- jitter_n,
    seqPut <- jitter_seqPut, running <- jitter_running, high <- jitter_high,
    MinFrames <- 1, MaxFrames <- 3, SeqSpace <- 32, Window <- 4, MaxSent <- 8

crypto == <<crypto_tx, crypto_rx, crypto_got, crypto_count, crypto_last>>
Crypto == INSTANCE Srtp WITH
    tx <- crypto_tx, rx <- crypto_rx, got <- crypto_got,
    count <- crypto_count, last <- crypto_last, Ssrc <- {"x"},
    MaxStreams <- 1, Mod <- 8, Window <- 3, Firsts <- {0, 5, 7}, Reorder <- 4,
    MaxSent <- 5

vars == <<which, request, transport, reg, event, stun, relay, gather, checks,
    probe, lifetime, loop, poll, list, refs, start, tcp, udp, ports, report,
    jitter, crypto>>

(* A component nobody looks at stays as it began. *)
Init ==
    /\ which \in {"request", "transport", "reg", "event", "stun", "relay",
                 "gather", "checks", "probe", "lifetime", "loop", "poll",
                 "list", "refs", "start", "tcp", "udp", "ports", "report",
                 "jitter", "crypto"}
    /\ Request!Init
    /\ Transport!Init
    /\ Reg!Init
    /\ Event!Init
    /\ Stun!Init /\ (which = "stun" \/ stun_map = "m1")
    /\ Relay!Init
    /\ Gather!Init
    /\ Checks!Init
    /\ Natbd!ProbeInit /\ (which = "probe" \/ probe_nat = MCNat)
    /\ Natbd!LifetimeInit /\ (which = "lifetime" \/ <<lifetime_life, lifetime_obeys, lifetime_interval.cur>> = <<3, TRUE, 2>>)
    /\ Loop!Init
    /\ Poll!Init
    /\ List!Init
    /\ Refs!Init
    /\ Start!Init
    /\ Tcp!Init
    /\ Udp!Init
    /\ Ports!Init /\ (which = "ports" \/ ports_other = {})
    /\ Report!Init /\ (which = "report" \/ report_peer["x"].next = 0) /\ (report_peer["y"].next = 0)
    /\ Jitter!Init
    /\ Crypto!Init /\ (which = "crypto" \/ crypto_tx["x"].next = 0)

Only(c) ==
    /\ which = c /\ UNCHANGED which
    /\ IF c = "request" THEN TRUE ELSE UNCHANGED request
    /\ IF c = "transport" THEN TRUE ELSE UNCHANGED transport
    /\ IF c = "reg" THEN TRUE ELSE UNCHANGED reg
    /\ IF c = "event" THEN TRUE ELSE UNCHANGED event
    /\ IF c = "stun" THEN TRUE ELSE UNCHANGED stun
    /\ IF c = "relay" THEN TRUE ELSE UNCHANGED relay
    /\ IF c = "gather" THEN TRUE ELSE UNCHANGED gather
    /\ IF c = "checks" THEN TRUE ELSE UNCHANGED checks
    /\ IF c = "probe" THEN TRUE ELSE UNCHANGED probe
    /\ IF c = "lifetime" THEN TRUE ELSE UNCHANGED lifetime
    /\ IF c = "loop" THEN TRUE ELSE UNCHANGED loop
    /\ IF c = "poll" THEN TRUE ELSE UNCHANGED poll
    /\ IF c = "list" THEN TRUE ELSE UNCHANGED list
    /\ IF c = "refs" THEN TRUE ELSE UNCHANGED refs
    /\ IF c = "start" THEN TRUE ELSE UNCHANGED start
    /\ IF c = "tcp" THEN TRUE ELSE UNCHANGED tcp
    /\ IF c = "udp" THEN TRUE ELSE UNCHANGED udp
    /\ IF c = "ports" THEN TRUE ELSE UNCHANGED ports
    /\ IF c = "report" THEN TRUE ELSE UNCHANGED report
    /\ IF c = "jitter" THEN TRUE ELSE UNCHANGED jitter
    /\ IF c = "crypto" THEN TRUE ELSE UNCHANGED crypto

Next ==
    \/ Only("request") /\ Request!Next
    \/ Only("transport") /\ Transport!Next
    \/ Only("reg") /\ Reg!Next
    \/ Only("event") /\ Event!Next
    \/ Only("stun") /\ Stun!Next
    \/ Only("relay") /\ Relay!Next
    \/ Only("gather") /\ Gather!Next
    \/ Only("checks") /\ Checks!Next
    \/ Only("probe") /\ Natbd!ProbeNext
    \/ Only("lifetime") /\ Natbd!LifetimeNext
    \/ Only("loop") /\ Loop!Next
    \/ Only("poll") /\ Poll!Next
    \/ Only("list") /\ List!Next
    \/ Only("refs") /\ Refs!Next
    \/ Only("start") /\ Start!Next
    \/ Only("tcp") /\ Tcp!Next
    \/ Only("udp") /\ Udp!Next
    \/ Only("ports") /\ Ports!Next
    \/ Only("report") /\ Report!Next
    \/ Only("jitter") /\ Jitter!Next
    \/ Only("crypto") /\ Crypto!Next

Spec == Init /\ [][Next]_vars

(* Nothing is left waiting: whatever was lost, refused or closed, in
   whichever order, each request, registration, subscription, keep-alive and
   discovery that has not ended has a timer, a lookup or a request under way
   that will call it again, a queue of bytes is watched for, and the loop
   wakes up for every timer and every descriptor.  The exceptions the code
   has are named at the definitions. *)
NothingLeftWaiting ==
    /\ which = "request" => Request!WaitsForOne
    /\ which = "transport" => Transport!KeepalivesWatched
    /\ which = "reg" => Reg!RegistrationGoesOn
    /\ which = "event" => Event!SubscriptionGoesOn
    /\ which = "stun" => Stun!HandlerOnce /\ Stun!KeepaliveGoesOn
    /\ which = "relay" => Relay!KeptAlive /\ Relay!RequestsEnd
    /\ which = "gather" => Gather!GatherCounts
    /\ which = "checks" => Checks!ChecksGoOn
    /\ which = "probe" => Natbd!SessionEnds
    /\ which = "lifetime" => Natbd!ProbingGoesOn
    /\ which = "loop" => Loop!TimersInOrder /\ Loop!WakesInTime
    /\ which = "poll" => Poll!HandlersPolled
    /\ which = "tcp" => Tcp!QueueDrains

(* What a client keeps and tells is so: every address was tried when it says
   that none answered, nobody stays registered or subscribed unawares, the
   channels, the candidate pairs and what was found out about a NAT are
   those of the peer. *)
OutcomeRight ==
    /\ which = "request" => Request!AllTried
    /\ which = "reg" => Reg!Unregistered
    /\ which = "event" => Event!SubscriberTold
    /\ which = "relay" => Relay!ChannelsAgree
    /\ which = "checks" => Checks!PairsConsistent /\ Checks!SuccessMeansSelected
    /\ which = "probe" => Natbd!VerdictRight
    /\ which = "lifetime" => Natbd!LifetimeBracketed

(* Objects live as long as they are used: references and accounts are exact,
   the pointers of a list are its elements although handlers unlink under a
   walk, and what main() made is given back after its last use. *)
MemoryExact ==
    /\ which = "event" => Event!ReferencesAddUp
    /\ which = "list" => List!PointersAgree /\ List!WalkCovers /\ List!SortSorts
    /\ which = "refs" => /\ Refs!AccountsExact /\ Refs!LivesWhileHeld
                         /\ Refs!ThresholdNearlyHeld
    /\ which = "start" => Start!ReleasedAfterUse /\ Start!NothingLeft

(* What is sent arrives as it was sent, once and in order, where the kernel
   takes parts, layers wrap datagrams, numbers wrap, and the network loses,
   doubles and reorders; what cannot arrive is reported once. *)
StreamsIntact ==
    /\ which = "transport" => Transport!MessagesAccounted
    /\ which = "tcp" => Tcp!StreamIntact /\ Tcp!EventsInOrder
    /\ which = "udp" => Udp!LayersMatch
    /\ which = "ports" => Ports!PortsInPairs
    /\ which = "report" => Report!ReportsWellFormed /\ Report!SequenceTracked
    /\ which = "jitter" => Jitter!BufferInOrder
    /\ which = "crypto" => Crypto!IndexAgrees
===============================================================================
