# A TLA+ model of the autodialer core

Autodialer Core calls the contacts of a campaign over SIP, plays them a
recording, lets them press a key that forwards or ends the call, and writes what
happened to a MySQL database from which it also takes its orders. This directory
holds TLA+ modules for its parts and for those of libre, the library it carries
with it, TLC configurations that check them on small instances, and TLAPS proofs
about many of them: the statement queue, the dialer with its calls, the campaign
between the two threads, the settings, SIP transactions and sessions, and the
eight exchanges of libre whose two ends must agree. Paths
below are relative to the repository (`src/main.c` is the program's main file,
`re/` is libre).

## 1. Inventory

### The parts and how they interact

| part | code | state | operations |
|---|---|---|---|
| statement queue | `src/db.c` | `sqllist`, `gMutex`, `con->con` | `db_exec` (main thread), `db_sync`, `db_reconnect`, `get_results` (DbThread), the destructor |
| DbThread | `src/main.c:346-358` | `running` | `db_sync`; `pull_groups`; `sleep(10)` |
| campaign loader | `pull_groups`, `src/main.c:136-344` | `gateways`, `services`, every field of `struct campaign` | create, update, load destinations and actions, free, `mqueue_push` |
| dialer | `start_fake_calling`, `on_call_end`, `src/main.c:360-591` | `cp->destinations`, `cp->processl`, `dest->try_count`, `last_try`, the timers | a round every 10 s, a look at each call every second, retries, forwarding, the statements for the `calls` row |
| call legs and RTP pool | `src/call.c` | `struct call`, `rtp_sessions` and the fields of each `struct rtp_session` | `call_alloc`, the SIP handlers, `rtp_recv_handler`, `rtpThread`, the destructors |
| start-up | `main`, `src/main.c:617-790` | what has been allocated, opened and started | a dozen steps that may each fail, one exit path |
| shutdown | `signal_handler`, `terminate`, `close_sip` | reference count of the SIP stack, `re->polling` | flush everything, close the stack, cancel the loop |
| incoming calls | `src/in_call.c` | | no caller left (the one in `connect_handler` is commented out) |
| libre core | `re/src/main`, `tmr`, `mqueue`, `list`, `hash`, `mem` | handlers of descriptors, timer list, pipe, lists, reference counts | one handler at a time from `re_main`, under its lock |
| libre SIP | `re/src/sip`, `sipsess`, `sipreg`, `sipevent` | transactions, requests, connections, dialogs, sessions, registrations, subscriptions, realms | timers and answers call the user's handlers |
| libre media | `re/src/sdp`, `rtp`, `jbuf`, `telev`, `srtp` | media lines, sources and their sequence numbers, frames, the digit under way | offer and answer, packets in and out |
| libre clients and servers | `re/src/dns`, `http`, `bfcp`, `stun`, `turn`, `ice`, `natbd` | queries, requests, allocations, candidate pairs, verdicts | requests, time-outs, retries, the next server |
| libre sockets | `re/src/tcp`, `udp`, `tls` | descriptors, send queues, helpers | connect, accept, send, receive, close |

The dialer calls SIP sessions, SDP, RTP, telephone events, the loop, the timers,
the lists and the reference counts; these call DNS, the transport and the
sockets. ICE, TURN, STUN, NAT discovery, HTTP, BFCP, SRTP, registrations and
subscriptions are in the repository and in the build, and have no caller in
`src/`; they are modelled because the code is here and has the same kinds of
hazards.

There are three kinds of threads. The **main thread** runs libre's loop: timers,
SIP, RTP packets, the message pipe. **DbThread** talks to MySQL. One
**rtpThread** per call plays the recording. The main thread and DbThread share
the statement list (under `gMutex`), the campaigns with their lists (under no
lock) and the pipe; rtpThread reads `ended` and `event_received` of its call and
writes `num_play`, and the call's destructor joins it.

### What is hard

* Two threads and one list: `list_append` against "read head, `list_init`".
* Statements reach the database up to ten seconds late, through a connection
  that may be gone; a failed reconnect drops a batch and leaves a dangling
  handle.
* The campaign is loaded, reloaded and freed on one thread and run on another.
  `is_running`, tested on one side and set on the other, is all that separates
  them.
* A fixed pool of RTP sessions is reused call after call, while late packets and
  a playing thread still refer to the previous owner; a bridged call needs two.
* Answer, hang-up, key press, three time limits and the end of the recording
  race in every call; each order must end it once, complete its row and put the
  contact in exactly one list.
* Stop, pause and resume arrive at any moment; so do changes of a gateway to
  which campaigns and actions keep pointers.
* In libre every request ends in one of many ways (answer, refusal, time-out,
  close, cancel, release by its user, from within a handler), and each must tell
  the user once, release once, and leave no timer or request behind; datagrams
  are lost, doubled and overtaken; numbers of 16 bits wrap.

`PROJECT.json` lists these as hazards with the line where each bites and the
properties that cover it.

### What makes each part correct

* queue: nothing vanishes between the threads; execution in call order and at
  most once; nothing lost while the database works; what is queued gets there.
* dialer: limits and retry delay kept; contacts in one list; nobody dropped;
  calls end; the campaign completes; the row agrees with the call.
* call legs: sessions conserved, media and digits confined to their call, the
  thread never outlives its call.
* campaign: timer and `is_running` agree, messages refer to a campaign that
  exists and is not started, a running campaign is not reloaded; stop and
  resume take effect.
* settings: what the rows say arrives, no pointer is left to a freed gateway
  where the code means to prevent it.
* start-up: what was had is released once and after its last use.
* shutdown: pending transactions end before the loop does (they do not).
* libre: whatever has not ended is watched; what a client tells its user is so;
  references and lists are exact; streams arrive whole and in order; the two ends
  of an exchange agree; requests finish.

## 2. Modules

| module | models | lines of argument |
|---|---|---|
| `WriteBehind` | the promise of the statement queue: applied in order, at most once, or lost | abstract specification |
| `SqlQueue` | `db.c` with the main thread and DbThread | safety, liveness, refinement of `WriteBehind` |
| `SqlQueueProofs`, `DialerProofs`, `CampaignProofs`, `SipTransactionProofs`, `SipSessionProofs`, `MediaProofs`, `ExchangesProofs` | | TLAPS proofs, see section 4 |
| `Dialer` | one running campaign: rounds, calls, PBX legs, pool, rtpThread, rows | safety, action property, liveness |
| `Campaign` | one campaign between DbThread and the main thread | safety, liveness |
| `Shutdown` | signal, SIP stack, end of the main loop | a divergence from the comments |
| `Settings` | gateway list and numeric settings of `pull_groups`, their users, the flush at the signal; its proofs are at its end | safety, leads-to |
| `Exchange`, `SipTransaction` | what a SIP transaction promises its user; `ctrans.c` and `strans.c` over a bad network | refinement, safety, liveness |
| `SipSession` | one session of `sipsess/`, with all that holds a reference to it | safety, liveness |
| `SipRequest`, `SipTransport`, `SipDialog`, `SipAuth`, `SipReg`, `SipEvent` | the rest of `sip/`, `sipreg/`, `sipevent/` | run `stack` or `exchanges` |
| `MainLoop`, `Poller`, `Lists`, `Mem`, `Startup` | `main/`, `tmr/`, `mqueue/`, `list/`, `hash/`, `mem/`; `main()` of the program | run `stack` |
| `TcpConn`, `UdpSock`, `RtpPorts`, `Rtp`, `Jbuf`, `Srtp` | `tcp/`, `tls/openssl/tls_tcp.c`, `udp/`, `rtp/`, `jbuf/`, `srtp/` | run `stack` |
| `StunClient`, `Turn`, `IceGather`, `Ice`, `NatProbe` | `stun/`, `turn/`, `ice/`, `natbd/` | run `stack` |
| `DnsClient`, `HttpClient`, `HttpServer`, `Bfcp`, `Telev`, `Sdp` | `dns/client.c`, `http/`, `bfcp/`, `telev/`, `sdp/` | run `exchanges` |
| `MCStack`, `Exchanges` | the libre components with their instances, side by side | |

**SqlQueue.** A statement is the number of the `db_exec` call that made it.
`mainpc` and `dbpc` are the places in `db_exec` and in DbThread's loop. The
append (`AppendRead`, `AppendWrite`) and the detachment (`Take`, `Reset`) are two
steps each, as the code reads a list head or tail before it writes; the mutex is
taken and given back by steps of their own, so that it is the mutex and not the
granularity of the model that keeps the threads apart. `con` is the handle:
"open", "lost" (the server is gone, nobody knows yet), "null", or "freed" (what a
failed `mysql_real_connect` leaves). A use of a dead handle or of a NULL result
sets `crashed`, after which nothing happens. `issued`, `applied` and `lost` are
history. The environment fails at most `MaxFault` times: a connection is lost, a
reconnect fails, a statement is refused, memory runs out.

**Dialer.** `call[d]` and `pbx_call[d]` are the two legs of a destination,
`NoCall` for a NULL pointer. `start_fake_calling` sorts the waiting list
(`StartRound`), moves destinations to the process list one by one (`Pick`, with
`pc` at "pick"), then dials those of the process list that have no call, again
one by one (`StartDialling`, with `pc` at "dial"; `EndRound`). It and the
destructor with its join (`CallEnds`, `Join`) are the handlers that take several
steps; `pc` keeps other handlers out, while the playing threads go on.
`SortByTries` is the set that holds the one permutation a stable sort gives,
stated by what it is rather than by how it is computed, so that a proof can use
it. `DialFails` frees the destination and then follows
its list element, as the code does: the loop ends there or the process crashes.
`HandlerCrashes` is the same for `on_call_end`, which reads the gateway of a
campaign or an action that has none (`src/main.c:401`, `465`), and for
`sdp_sess_alloc`, whose error path gives back what it never set
(`src/call.c:395`); `CallAllocFails` tells the failures of `call_alloc` apart by
what each does to the pool.
`row` is what the statements queued so far make of the contact's row. Ages and
delays count `Tick`s of one second and saturate above the largest limit; timers
are due at the next tick, whatever their period, which makes more interleavings
and no fewer. Codecs, SDP and packets are left out: an answer is usable or not,
a packet carries a key of the campaign or none. A packet may come at any time on
any session, from whomever: `rtp_recv_handler` does not look at its source, so
neither does `KeyPress`.

**Campaign.** A destination is reduced to the number of its copies that wait,
that have a call (`active`), and that are in the process list without one
(`idle`): a campaign without a gateway or with a recording that cannot be opened
leaves such entries, and nothing ends them. `missed` are the contacts that talked
and are listed again because their PBX leg was not answered
(`src/main.c:455-486`). The status is the database's (`dbStatus`), the one DbThread has read
(`snap`) or the one in the campaign (`status`). `talked` and `queued` are the
effect of the statement queue on `call_duration`: queued until the next
`db_sync`. `Free` is `mem_deref(cp)` on DbThread; a message that still points to
the campaign becomes "dangling". Where both threads can be in the campaign at
once, the step of the second may break it: `Free` while the main thread is in a
round, and a list that the main thread changes while `Load` appends to it
(`ListRace`). `Prompt` says that the main loop empties the
pipe and leaves `start_fake_calling` before DbThread wakes from its ten seconds.
The safety run assumes it. Without it a second message for a campaign that runs
already can be in the pipe, or one for a campaign that was freed, and
`MessagesFresh` does not hold; the liveness run leaves the assumption out and lets the process crash there (`UseFreed`, `TmrInit`).

**Shutdown.** Sessions that are dropped keep a reference to the SIP stack until
their transaction ends; `Deref` is the stack's destructor, with the exit handler
and the reference it takes back.

**Settings.** One gateway row and one campaign row that the operator edits while
DbThread copies them, step by step, into `gt` and `cp`. A gateway's string is
freed before the new one is decoded, and the gateway itself when that fails;
`Dangling` is what becomes of the pointers of campaigns and actions, `Bereft` of
the one that the SIP session of a call keeps as the argument of its
`auth_handler`, which reads it at a challenge (`Challenge`). One call leg stands
for those in progress; it remembers whether it was dialled through a pointer that
was up to date (`fresh`). The
comparison of URIs is `str_casecmp`: a change of letter case alone is not taken
over. `RetryDelay` is minutes times 60 modulo `DelayWrap`, the 2^16 of its
field. At the signal the main thread
flushes both lists, whatever DbThread is doing, which may then fill them again.

**SipTransaction.** A request with its client transaction and, once it is
cancelled, that of the CANCEL; a server with the transaction it has for it; a
network, a set, that loses, doubles and delays. It implements `Exchange`: the user
of a request hears of one outcome, and of an answer only when the server gave it.
**SipSession.** A session and everything that may hold a reference to it: its
user, its INVITE or BYE, the replies that wait for an ACK, the requests in it.
Operators give the *set* of states that a call can leave behind, for every send
may fail. An answer of class 2 to the INVITE makes a dialog or not; once it has,
the session is established and the ACK tried even if the answer cannot be taken,
and it is then ended with a BYE (`Established`, `sipsess/connect.c:51-69`). `MaxAcks` bounds the ACKs that the session keeps to repeat them.

**MCStack and Exchanges.** The components of libre do not interact while one
handler runs, and each is checked in a closed environment that may do whatever its
users, the peer and the network can. The two modules instantiate them side by
side: `which` says what component a behaviour is about, all others stay as they
began. The state space is therefore the disjoint union of those of the components,
and a property is the conjunction of what is to hold for each. So one property
reads as one promise ("nothing is left waiting") kept by many components.
`Exchanges` has the constants of its components for its own, so that its theorems
are about any instance.

What the components' definitions stand for is said at their heads. Some choices:

* `MainLoop` is the process's own loop with its lock, which other threads take to
  start timers and listen to descriptors (`main()` of the program gives its thread
  a loop of its own, which no other thread enters), and time as a counter up to `MaxNow`. Events of one
  `poll` are handled one by one, each handler may change the handlers and timers
  of the others. `Poller` holds what `MainLoop` leaves out: the three tables of
  descriptors, their growth and the change of method.
* `Mem` takes `mem_mutex` and leaves it where the code does. The count itself is
  not under the mutex, so an object belongs to a thread until it is handed over.
* `Lists` keeps `head`, `tail`, `next`, `prev` and `list` of every element next to
  the sequence they are to stand for. `PointersAgree` compares the two, also in
  the middle of a walk whose handler unlinks, any element: itself, one behind, or
  the one the walk goes on with, after which `WalkCovers` promises nothing more.
* `Rtp`, `Jbuf` and `Srtp` shrink the space of sequence numbers and their
  windows together; packets carry their true index, which the code does not see
  and the properties compare with.
* `SipTransport` tells the owners of a closing connection's messages one by one
  (`Told`); each may send again, over a new connection or not, before the next is
  told.
* `Bfcp` keeps what a failed flush leaves in the buffer of a connection that counts
  as established (`bfcp/sock.c:87-96`): it is never sent, and its requests end by
  their time-outs.
* The network of `Telev` loses at most `Loss` packets in a row; `MaxStray` packets
  it doubles, or takes out of the order, and delivers at any time. The
  receiver knows no sequence numbers: a late packet of a digit that is over is a
  new event (`telev/telev.c:238`), and `strayed` notes that one came.
* `NatProbe` has a NAT of each kind for the tests of behaviour and, in a second
  part with an Init and a Next of its own, one that forgets a binding after a
  time for `lifetime.c`; verdicts are compared with them.
* `Sdp` keeps the two lists of each session, the lines that wait to be offered and
  those on the wire, with formats, directions and ports. A walk that moves elements
  of a list is `Pick`, the elements at given places in their order: the closing
  walk of `sdp_media_align_formats()` is the supported formats followed by the
  others reversed. A codec is a name; "none" is that of the format 0 of a closed
  line, which has no `rtpmap`.
* `Startup` has a step for every call of `main()` that can fail, and notes what
  is used after its release (`wrong`) and what is left. Two things are always
  or sometimes left: the tables of the thread's loop, for `re_thread_close()` frees
  the loop only (`main/main.c:996`) and `libre_close()` asks for those of the process's
  own; and, when a session still waits for its BYE or CANCEL, that session with
  the SIP stack.

## 3. Runs

| run | instance | distinct states | checks |
|---|---|---|---|
| `sql_queue` | 3 statements, 2 failures | 5,729 | `TypeOK`, `Accounted`, `AppliedInOrder`, `ExecOnLiveHandle`, `NothingLostWithoutFault`, `ImplementsContract`, `QueuedReachesDb` |
| `dialer_keys` | 2 contacts, 3 sessions, limit 2, recording and both kinds of action | 1,811,000 (symmetry) | `MediaStaysInCall`, `DigitsNeedAnswer`, `PlayerHoldsCall`, `RetrySpacing` |
| `dialer_mixed` | 2 contacts, 3 sessions, no actions, recording/PBX/gateway change, one failed allocation, `try_count` wraps at 2 | 563,000 (symmetry) | `PoolConserved`, `OneList`, `RowTracksCall`, `AnsweredOnce` |
| `dialer_live` | 2 contacts, 2 sessions, limit 1, `FairSpec` | 126,000 | `NoContactDropped`, `LimitsHeld`, `EveryCallEnds`, `CampaignCompletes` |
| `campaign` | 2 contacts, limit 1, `Prompt` | 685,000 | `RunningIffArmed`, `MessagesFresh`, `RunningUndisturbed` |
| `campaign_live` | 1 contact, limit 1, not `Prompt`, one message in the pipe | 136,000 | `StopCompletes`, `ResumeStarts` |
| `settings` | one gateway, one campaign, 4 URIs of which one does not parse and two differ in letter case, one failed query, delays of 5 and 1093 minutes | 818,000 | `PointersFresh`, `DbThreadUsesLive`, `SettingsReach` |
| `sip_transaction` | one request and its CANCEL, INVITE or not, reliable or not | 48,000 | `NobodyWaitsForever`, `KeepsPromise`, `CancelledEnds` |
| `sip_session` | one session, bounded changes and requests | 22,000 | `ReferencesAddUp`, `EstablishedEndsWithBye`, `ReleasedInTheEnd` |
| `stack` | 21 components, bounds in `MCStack` | 570,000 | `NothingLeftWaiting`, `OutcomeRight`, `MemoryExact`, `StreamsIntact` |
| `exchanges` | 8 components, bounds in `Exchanges.cfg` | 174,000 | `ExchangesAgree`, `MovesForward`, `RequestsFinish` |
| `shutdown` | 2 sessions | violation expected | `PendingFinished` |

Why the bounds suffice. Three statements give one executed, one detached and one
being appended at the same time; two failures give a lost connection followed by
a failed reconnect, the deepest error path. Two contacts compete for sessions
and for the limit; three sessions for two calls make the pool run out both in the
dialling loop and when a PBX leg is wanted. Time limits of 0 and 1 let every
limit expire before and after the event it races with. A retry delay of 2 is
longer than the shortest call, so that a contact can be back in the list before
it may be called again. One call at a time is
enough for `Campaign`, whose threads interact through the campaign and not
through its calls; two contacts are needed to tell a reloaded contact from one
that waits.

In `stack` and `exchanges` each component has two of whatever competes (queries on
one connection, messages on one connection, timers, descriptors, threads,
candidate pairs, branches of a fork, peers of a relay) and three where an order
matters (SRV records, list elements, messages of a stream, RTP frames above the
buffer's size). Retry limits are small but above one, so that a retry that fails
is followed by one that does not. Sequence spaces are 8 to 32 with windows in the
code's proportions, and streams start at zero and just below the wrap. One stray
packet of `Telev` is a copy of any packet, or any packet itself, at any later
moment.

The statement queue and the dialer may stop, when the process ends or crashes, so
their runs do not check for deadlock; that they do not stop otherwise is what
`QueuedReachesDb`, `EveryCallEnds` and `CampaignCompletes` say. In `Campaign` the
operator can always act, so the deadlock check says nothing there and
`StopCompletes` and `ResumeStarts` take its place.

What some properties say, beyond their comments:

* `ExchangesAgree` is `UsersHearOnce`, `DialogsApart` and `LinesAgree`: who waits
  hears once and of its own request, dialogs keep apart, and an offer with its
  answer leaves both ends with the same lines and mirrored directions, and the
  first format each sends with is one that the other decodes with the same codec.
  `MovesForward` is `NumbersForward` (of dialogs and credentials) and `LinesKept`
  (a media line keeps its place and name).
* `NothingLostWithoutFault` is sharp: with a single failure the process may crash
  (`UseDeadHandle`, `FetchNull`) and a whole batch may be lost.
* `NoContactDropped` and `EveryCallEnds` need two sessions per call. With fewer,
  contacts are freed uncalled in `start_fake_calling`, and calls that were to be
  bridged wait for a session as long as the callee stays on the line.
* `AnsweredOnce` has an exception that the code makes: a contact whose PBX leg
  was not answered is called again.
* `RetrySpacing` is for a campaign whose recording can be opened. A call to one
  that cannot is given up at once; its destination stays in the process list,
  with a new `last_try` and no try counted, and the next round dials it without
  looking at the delay (`src/main.c:552-578`).
* `EstablishedEndsWithBye` also says that the user is told of the end at most
  once.
* `DigitsNeedAnswer` is about the time before the callee answers: nothing that
  arrives then, of whichever call it is left over, acts on any call. A late end of
  a key of the session's previous call that arrives after the next answer does act
  on the new call, in the code as in the model.
* `RunningUndisturbed` lets a contact that talked be listed again only if its PBX
  leg was not answered, and `StopCompletes` promises that a stopped campaign is
  freed only when no entry without a call is left in its process list.
* `PointersFresh` holds between two whole passes of `pull_groups`, for a campaign
  that its query returns. The actions of a *running* campaign keep their pointer
  to a freed gateway until they are loaded again, and the SIP session of a call
  keeps it as long as it lives, if the gateway went while the call was in
  progress or the call was itself dialled through such a pointer or during a pass.
* `DigitsOnce` (of `ExchangesAgree`) is exact until a packet arrives when an event
  other than its own was the last heard. After that the far end still never hears
  an end twice in a row, nor a digit twice without an end between.
* `DbThreadUsesLive` ends with the signal: `signal_handler` flushes both lists
  without a lock.
* The properties of `stack` have exceptions that are the code's; each is a named
  conjunct at the definition. `QueueDrains`: what is queued, or a send handler
  set, before a TCP connection is up is not flushed (`tcp/tcp.c:348`).
  `ChecksGoOn`: checks stall when a check cannot be sent (`ice/connchk.c:302`) or
  is cancelled by the peer's nomination (`ice/stunsrv.c:222`). `GatherCounts`: a
  late TURN error counts down once too often (`ice/gather.c:123`). `ProbingGoesOn`:
  an error code on the second socket ends the probing in silence
  (`natbd/lifetime.c:169`). `VerdictRight`: only when no packet is lost.
  `SequenceTracked`: a source that starts at 0 (`rtp/source.c`). `PortsInPairs`:
  with an odd `min_port` the first port may lie one below the range
  (`rtp/rtp.c:232`). `HandlersPolled`: changing
  the method back leaves entries without a handler (`main/main.c:333`). `WakesInTime`: a timer that another thread starts
  while the loop polls. `ReleasedAfterUse`: start-up errors after DbThread runs.
* A signal that arrives between the test of `re->sig` and `poll` is handled after
  the next event or timer; `MainLoop` has this and no property forbids it.
* `RunningUndisturbed` ends at the first pause. After a pause `pull_groups`
  loads contacts that are in progress and frees the actions of running calls.

### Fairness

`SqlQueue`: weak fairness of a `db_exec` that was entered and of DbThread; both
are scheduled by the operating system and wait only for the mutex, for the
server and for a sleep. `Dialer`: strong fairness of the clock, of the round and
of each call's timer, because other handlers run in between but `tmr_poll` runs
every due timer; weak fairness of the loops that were entered and of rtpThread
once `ended` or `event_received` is set, which it tests at every frame. Nothing
is assumed of callees, of the PBX or of the network. `Settings`: DbThread
turns. `SipTransaction`: the time-outs of both transactions
fire; retransmissions and the network are not fair, which may lose everything.
`SipSession`: a request ends at the latest with its time-out (`Failed`,
`InfoEnds`; this is what `SipTransaction` shows) and a reply stops waiting for
its ACK (`NoAck`); of users nothing is assumed. `Exchanges`: time-outs of DNS, HTTP and BFCP fire, a lookup ends
(which is what DNS promises), the sender of digits is polled, as the code that
uses it does at every frame, and the packets that are not lost are received
(those delayed need not be). `Campaign`: both threads run,
the database answers infinitely often, calls end (this is `EveryCallEnds`);
entries of the process list without a call do not. The
crashes are excluded by neither: the liveness properties end with them.

## 4. Proofs

All theorems hold for every value of the constants that the named assumptions of
the modules allow (`BoundsAreNat`, `DialerConstants`, `CampaignConstants`,
`SettingsAssumption`, `AlikeAssumption`, `MaxNewAssumption`,
`SessionAssumption`, and in `Exchanges` one for each component that needs one):
any number of contacts, sessions, statements and failures, any limits and
delays. What a theorem assumes beyond them is in the last column.

| module | theorem | of | assuming |
|---|---|---|---|
| `SqlQueueProofs` | `TypeCorrect` | `[]TypeOK` | |
| | `InOrder` | `[]AppliedInOrder` | |
| | `NoneVanishes` | `[]Accounted` | |
| | `LiveHandle` | `[]ExecOnLiveHandle` | |
| | `HealthyDatabase` | `[]NothingLostWithoutFault` | |
| | `Refinement` | `ImplementsContract` | |
| `DialerProofs` | `Invariance`, `ListInvariance` | `[]Inv`, `[]ListInv` | |
| | `MediaStays` | `[]MediaStaysInCall` | |
| | `DigitsSafe` | `[]DigitsNeedAnswer` | |
| | `PlayerSafe` | `[]PlayerHoldsCall` | |
| | `RowTracks` | `[]RowTracksCall` | |
| | `PoolSafe` | `[]PoolConserved` | |
| | `InOneList` | `[]OneList` | |
| | `Limited` | `[]LimitsHeld` | |
| | `OnceAnswered` | `[]AnsweredOnce` | |
| | `NobodyDropped` | `[]NoContactDropped` | |
| | `Spaced` | `RetrySpacing` | `"missing" \notin Media` |
| `CampaignProofs` | `TypeCorrect` | `[]TypeOK` | |
| | `Armed` | `[]RunningIffArmed` | |
| | `FreshMessages` | `[]MessagesFresh` | `Prompt` |
| | `NotDisturbed` | `[]RunningUndisturbed` | `Prompt` |
| `Settings` | `Fresh` | `[]PointersFresh` | |
| | `UsesLive` | `[]DbThreadUsesLive` | |
| `SipTransactionProofs` | `Invariance` | `[]Inv` | |
| | `Clocked` | `[]NobodyWaitsForever` | |
| | `Kept` | `KeepsPromise` | |
| `SipSessionProofs` | `Invariance` | `[]Inv` | |
| | `AddUp` | `[]ReferencesAddUp` | |
| | `EndsWithBye` | `[]EstablishedEndsWithBye` | |
| `ExchangesProofs` | `Invariance` | `[]ExchangesInv` | |
| | `Agreement` | `[]ExchangesAgree` | |
| | `Forward` | `MovesForward` | |

Each proof has the same shape: an invariant that is inductive, one lemma for each
action, a lemma that puts them together, and a short step from the invariant to
each property. TLC checked the dialer's three invariants on the instances of
`dialer_keys` and `dialer_mixed` before they were proved.

**SqlQueue.** `AppliedInOrder` is not inductive: nothing in it says why the next
statement of the chain is newer than the last one executed. The inductive
invariant is `TypeOK /\ MutexHeld /\ ReadsFresh /\ FlowInOrder`. `MutexHeld`: a
thread that is in its critical section holds `gMutex`, so at most one is.
`ReadsFresh`: what `list_append` or `db_sync` has read is still what the list
holds when it writes; this is where the mutex pays. `FlowInOrder`: executed
statements, the chain and the list are increasing, each below the next, all below
the statement in the caller's hand and none of them lost. `Take` copies the list
to the chain before `Reset` clears it, so for one step the chain and the list are
equal rather than ordered. `Accounted` and the refinement follow step by step; the
mapping is the identity on `issued`, `applied` and `lost`, and an executed
statement is a step `Apply` because `FlowInOrder` puts it above all others.

**Dialer.** Three invariants, each on top of the one before.
`Inv` is about calls and sessions: that a leg in use has a session and a status
that fits its INVITE, and a PBX leg a call that knows of it (`ShapeInv`), that every leg and its session point at each other and
everything else in the pool is at rest (`PoolInv`), that a remote session is the
one of the other leg (`MediaInv`), digits (`DigitsNeedAnswer`), threads
(`PlayerInv`), rows (`RowInv`), and what the handler that waits in a join has
still to do (`JoinInv`). `MediaStaysInCall` alone is not inductive, because a
session goes through the pool and comes out for another call: one must know that
it was wiped on the way, which is `PoolInv`. `ListInv` is about the lists:
neither holds an element twice and they are disjoint (`ListsInv`), the
process list has room while the round picks and who may still be called has a try
left (`LimitInv`), lost sessions are paid for by failed allocations (`LostInv`). `NoContactDropped` is in
it and rests on a count (`PoolSuffices`): each call of the process list
owns at most two sessions, so with twice the limit one is free for a destination
that has none. `SpacingInv` says that a destination of the process list
without a call was tested against the delay; it needs a recording that can be
opened, as section 3 explains.

**Campaign.** The threads share the campaign without a lock, so each property
rests on orders of steps. `ArmedInv` (a round is under way only in a campaign that
lives and is marked running; a message that is not dangling is for one that lives)
carries `RunningIffArmed` however slow the main loop is. `PromptInv` adds that
there is at most one message and DbThread is not in `pull_groups` while it waits
to be read, that DbThread visits only a campaign at rest, and that a campaign
never paused and not running was never started. Without `Prompt` it fails, and
so do the two properties.

**Settings.** `PointersFresh` speaks of the moments between two passes. `Inv`
says what each step of a pass has made true: past the campaign's row its pointer
is replaced, past the loop over `services` those of the actions, and a listed
gateway is decoded except between the two halves of its update. A call is fresh
only while its gateway is listed: freeing one takes that from it.

**SipTransaction.** For the clocks one must know that an INVITE is calling only
until its first provisional answer, and which server transactions have no timer.
For the refinement of `Exchange` one must know where an answer comes from: what is
in the network, or kept to be repeated, was given by the server's user
(`AnswersGiven`), and nothing is under way before the request is sent
(`QuietBefore`).

**SipSession.** The operators work on sessions that are not yet states: a handler
takes the request off before it gives back the request's reference. So the
invariant, `Sound`, is stated of a record, `Loose` is what holds while one
reference is still to be given back, and the lemmas say how each operator takes
one to the other. `Ending` says what a termination leaves behind; it is what makes
both properties inductive.

**Exchanges.** `ExchangesInv` is the conjunction of one invariant per component;
a step of one component leaves the others alone. `ExchangesProofs` has those of
seven components and the composition, `MediaProofs` the one of offer and answer. What each needs beyond its
property:

* DNS: a query that is active has its timer and, over TCP, a connection that is
  open, except those that the walk of a failed connection has still to move
  (`todo`); a done query was told once, any other not at all.
* HTTP client: a lookup, a connection with its timer and the passing on of data
  exclude each other.
* HTTP server: what was handed over, what is kept and what TCP holds are together
  what the peer sent, and no complete request is kept back.
* BFCP: whatever is on its way under the id of a pending request is about that
  request. The ids of requests are counted up and wrap; the model's
  guard `InUse` adds that no id comes back while a message under it is still on
  its way, for none of them lasts for 65535 requests.
* Telephone events: there are a number of packets sent so far and a map from
  them to bursts (the packets of a digit while it lasts, and those of its end)
  such that any `Loss + 2` packets in a row touch two bursts at most. The
  receiver has told every burst up to that of the last packet it got, until one
  comes out of turn; a doubled or late packet of the burst heard last changes
  nothing. That
  `Loss` is below `DIGIT_MIN` and the number of end packets is what makes it so
  (`DigitsAssumption`).
* Dialogs: no two dialogs share a buffer, and a request of a branch carries the
  branch's tag.
* Credentials: a nonce belongs to one entry of the list, and was used with
  smaller counts only.

* Offer and answer (`MediaInv`): the message under way is what its writer's lines
  say at this moment; once an offer is decoded, every line of the answerer has met
  the one the offerer wrote (`MediaOffered`, `MediaMet`): same name, mirrored
  direction, and its supported formats are those of the offer that it has, in the
  offer's order and under the offer's payload types; after the answer the lines of
  the two ends are alike (`MediaEven`, `MediaAlike`). The formats of a line need an
  invariant of their own (`MediaOwn`): renumbering gives a local format the peer's
  payload type, which another local format may carry already, and the code looks a
  payload type up from the head of the list; so no format *before* a supported one
  has its payload type. It holds because a renumbered format goes to the tail and
  the unsupported ones behind it. The lemmas follow the loops: `PickPicks` for what
  a walk takes, `MediaTurnHit`, `MediaTurnMiss` and `MediaFront` for
  `sdp_media_align_formats()`, `MediaDecodedStep` for `sdp_decode()`.
  `MediaAssumption` asks that the two ends mean the same codec by a payload type
  below 96, which are registered, and that a user gives a line a codec once and
  under a payload type of its own, as `sdp_sess_alloc()` of `src/call.c` does.

An induction over a sequence or a number is an argument about the least
counterexample: `Below` is well-founded (`BelowWellFounded`). That gives induction
for a property that is a set of numbers (`SetInduction`), which is how the
recursive functions of `Sdp` are shown to exist and to do what the loops do.

Only model-checked:

* liveness (`QueuedReachesDb`, `EveryCallEnds`, `CampaignCompletes`,
  `StopCompletes`, `ResumeStarts`, `SettingsReach`, `CancelledEnds`,
  `ReleasedInTheEnd`, `RequestsFinish`): fairness and `ENABLED` are out of the
  prover's reach;
* the properties of `stack` (`NothingLeftWaiting`, `OutcomeRight`, `MemoryExact`,
  `StreamsIntact`): 21 components, each of which wants an invariant of its own;
* that `SortByTries` has a member in every state: it takes an induction over the
  list. The proofs use only that its members are permutations; that a round can
  start is shown by `CampaignCompletes`.

## 5. A divergence from the comments

`terminate()` says "wait for pending transactions to finish" (`src/main.c:85`)
and `exit_handler` "called when all sip transactions are completed"
(`src/call.c:772`). The code cancels the main loop at once, and `close_sip` gives
up two references to the stack, one of which is the one the exit handler waits
for. Run `shutdown` shows the loop ending with a CANCEL pending.

## 6. Not modelled

* Incoming calls: `incoming_call_alloc` has no caller. Logging. `tinycthread`, a
  third-party wrapper.
* Codecs and text: SIP, SDP, STUN, BFCP, DNS and RTP messages, URIs, addresses,
  buffers, printing. They are functions of bytes without state of their own. Where
  a module calls one, what it may return is a choice.
* Cryptography, and TLS contexts and DTLS (`tls.c`, `tls_udp.c`), whose state is
  OpenSSL's. The TLS helper of a TCP connection is in `TcpConn`.
* Interfaces and routes, `conf`, `mod`: queries of the system, or read once.
* Code for other platforms: Symbian, Windows, kqueue, actsched.
* In modelled parts: a REFER that forks (`SipEvent`), ICE lite and the release of
  unused relays (`Ice`), zone transfers beyond their end (`DnsClient`), RTCP
  feedback (`Rtp`), multicast (`UdpSock`).
* The composition of `Dialer` with `Campaign`, which has the copies of a contact
  and not its call. The calls in progress when the signal arrives are only in
  `Shutdown` and `Startup`, as sessions.

Freed memory is modelled where the code can reach it: the destination in the
dialling loop, the campaign, its actions, the gateways, the MySQL handle, the
dialog's route, sessions and transactions.

## 7. What is left

1. *Proofs*: the invariants behind `stack`, component by component: the accounts
   of `Mem`, the order of the timers in `MainLoop`, the streams of `TcpConn`, the
   channels of `Turn`, the pointers of `Lists`.
2. *Composition*: the calls of `Dialer` within `Campaign`.
