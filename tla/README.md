# Verification of librouting

TLA+ models of librouting's stateful parts, the TLC runs that check them on small
instances, and TLAPS proofs of the main results for every value of the constants.
Line numbers refer to the sources under `src/crates/`; `PROJECT.json` maps every
definition to the lines it stands for.

## 1. The system

librouting is a routing library in Rust that owns no sockets and no clock: the
embedder feeds bytes and ticks, the library answers with bytes and events. The
daemon (`lr-cli`) is one embedder. It keeps the router (`DefaultRouter`,
`lr-router/src/instance/mod.rs`) behind one read-write lock, ticks it from one
thread every 50 ms, and runs one thread per BGP connection and per RPKI cache.
Every call that changes the router holds the write lock to its end, so **one call is
one action** in the models; the interleavings are those of calls, not of statements.

| part | crates | in the models |
|---|---|---|
| BGP session: FSM, timers, transport | lr-bgp `fsm.rs`, lr-core `timer.rs`, lr-router | `BgpSession` |
| RIB pipeline and BGP export | lr-rib, lr-router | `RibExport` |
| RPKI-to-Router client and its thread | lr-bgp `rtr/`, `roa_store.rs`, lr-cli `daemon_rpki.rs` | `RtrClient`, which implements `RoaReplica` |
| BGP graceful restart | lr-router | retention, window and End-of-RIB in `RibExport` |
| BGP connections in both directions, collision, BFD gate | lr-router, lr-cli `daemon.rs`, `daemon_bfd.rs` | `BgpTransports` |
| BGP decision process | lr-bgp `best_path/` | `BestPath` |
| OSPF neighbor, database exchange, flooding and retransmission | lr-ospf, lr-router, lr-cli `daemon_ospf.rs` | `OspfAdjacency` |
| OSPF interface, DR election, adjacency gate | lr-ospf `interface.rs`, lr-router, lr-cli `daemon_ospf.rs`, `daemon_ospf3.rs` | `OspfElection` |
| BFD | lr-bfd, lr-cli `daemon_bfd.rs` | `BfdSession` |
| Babel | lr-babel, lr-router `babel.rs`, lr-cli `daemon.rs` | `Babel` |
| LDP | lr-ldp, lr-cli `daemon_ldp.rs` | `LdpEngine` |
| LLGR, max-prefix, aggregates, redistribution, damping | lr-router, lr-damping | not modelled, see 6 |
| OSPF LSDB ageing, graceful restart | lr-ospf | not modelled, see 6 |
| SPF, ABR, NSSA, policy VM, ROA trie | lr-ospf, lr-policy, lr-bgp | stateless computation, not modelled |
| codecs, MPLS, SRv6, BMP, MRT | lr-bgp, lr-mpls, lr-srv6, lr-bmp, lr-mrt | conversions, not modelled |
| operating system, daemon set-up, CLI, C interface, bindings | lr-osroute, lr-cli, lr-ffi | I/O, parsing and wrappers, not modelled |

## 2. Modules

### BgpSession

Two routers and one TCP connection at a time. `state`, `neg`, `timers` are the fields
of `BgpPeer` and the router's timer queue; `link`, `conn`, `chan` are the daemon's pump
and the connection. `Recv*` are the message arms of `BgpPeer::step`, `Tick` is
`DefaultRouter::tick` with every timer that is due (in any order when several are due
at once, as the heap leaves it), `StartSession`, `CloseSession` and `ShutdownSession`
the calls of the daemon. The environment may cut the path silently, shut a session
down, or (from a foreign speaker) send something that does not decode.

### RibExport

The tables of `DefaultRouter`: `adjIn`, `originated`, `static`, `loc`, and for each
session and key a cell of `egress` with Adj-RIB-Out, the MRAI entry and, as history,
what the peer holds. `RecvAnnounce` and `RecvWithdraw` are `import_route` and
`withdraw_from_session`, each with its `reselect`, `apply_selection` and export;
`SessionUp` is `on_bgp_established` with the initial dump; `SessionDown`, `SessionLost`,
`RetentionExpires` and `EndOfRib` are the ways a session's routes go; `Tick` ends with
`flush_mrai`. Import checks, export policy and the attribute gates of
`advertise_with_originator` (inactive family, OTC, LLGR_STALE, no next hop) are constants
per session: `Rejected`, `Denied` and `Refused`.
Abstracted: the attribute steps of the comparator are a rank, received path
identifiers are 0, and redistribution, aggregates, max-prefix and BMP are absent.

### RtrClient

`client` is the `RtrClient` record, `up`, `backoff` and `stopped` the daemon thread,
`store` the RTR layer of `RoaStore`. The `Recv*` actions are the arms of `on_pdu` with
what `apply_step` does with the result, `Tick` is `poll`, `Connect`, `Reconnect`,
`Repoint` and `Shutdown` the thread's loop and its commands. The cache is external.

`RoaReplica` is what the import filters may rely on: the ROA store is one published
version of the cache's database, moves to the same or a later version in one step or
is emptied, and never shows a mixture. The refinement maps `replica` to the store and
`held` to the version the client completed; `trusted` is false while one of the two cases
of section 5 is in effect: `mixed`, a serial continued across sessions, and `orphaned`,
ROAs in the store that a client given up over an undecodable PDU left there.

### OspfAdjacency

Two routers on a link. `nbr` is the neighbor state, `ex` the `DbExchange` record,
`lsdb` the area database (a sequence number per key), `rxmt` the retransmission list,
`chan` the packets on their way. `RecvDdExStart`, `RecvDdExchange` and `RecvDdLate` are
the phases of `on_db_desc`, followed by the LS Request, Update and Ack handlers;
`RecvHello`, `SetDrState` and `NeighborDead` are the Hello handler, an election and the
daemon's dead timer; `PollDd`, `PollLsRequest` and `PollRetransmit` what a tick
repeats. The
`link` is OSPFv2 or OSPFv3, with the MTUs of its ends; packets of an exchange of the other
version are dropped (`Reaching`). An election is seen only through its verdict (`gate`); `OspfElection` has the
election itself and sees the exchange only as "Adjacent". Left out: ageing and
removal of LSAs, reordering of one sender's packets, third routers.

### OspfElection

The routers of a broadcast segment. `node[r]` is the interface (state, `dr`, `bdr`,
`dirty`), its table of Hellos (`heard`) and the neighbors' sessions (`nbr`); `wire[s][r]`
is the Hello of `s` that `r` has not read. One action is one pass of the daemon's
loop (`Pass`): all packets that arrived, the election if it is due, the dead timer, the
Hello. `Read`, `ReadDbDesc`, `Elects`, `WaitTimer`, `SendHello` and `Dead` are passes in
which one thing happens. `Elect` is `elect` with its two rounds, `SetDrState` and
`Viable` the adjacency gate. OSPFv2 and OSPFv3 differ in what a session knows of a
neighbor whose Hello has not been heard.

### BgpTransports

Two daemons that dial and accept each other. `fsm[d][r]` is the session of a role
(`handle`, `handle_in`), `thread[c][d]` the thread that serves connection `c`, with its two
locked sections (`Read` with `feed_input`, `Drain` with the look at the state) as separate
actions; `connector` is the dialling thread with its backoff and BFD hold-off. `Loser` is
`resolve_connection_collision`. Hold timers are `BgpSession`'s subject: a connection ends
here by a cut, a collision or BFD.

### BfdSession

Two `BfdSession` records on a link: `OnPacket` and `OnTick` are `on_packet` and `tick` in
the order of the code (discard rules, remote variables, Final, state table, detection
timer, transmit timer, announcements, reply), `UpdateTimers` and `AdminDown` the calls of
the operator. Time is counted in units much longer than the supervisor's poll; a unit
ends when every due timer has been polled and every packet received or lost. Jitter is the set of delays it can produce.

### Babel

Daemons on point-to-point links, one session per interface. `routes`, `fd` and
`published` are a session's `BabelRouteTable` and `BabelRuntime`, `direct` the router's
`direct_rib`, `lastId` the last Router-Id a session read, which its routes are published
with, `seqno` and `advertised` the daemon's per-interface announcements. `Receive`
is a frame with its diff and merge, `Period` what the daemon does once per interval: poll
the links, sweep, announce. Sequence numbers wrap at `SeqnoMod`.

### LdpEngine

`eng[l]` is an engine: adjacencies, sessions, LIB, transit table, allocator, graceful
restart records, and the swap entries the daemon installs; `q` the connections, in which
`Eof` separates one connection from the next. `TransitOnLearn` and `TransitOnUnlearn` are
the functions of that name, `Receive` one message with all its consequences,
`BadPduLength` the end of a session over a PDU longer than negotiated. Two fields are
history: `apart`, the bindings that only one of LIB and transit table has, and `hushed`, the
LSR's own bindings that a transit message overrode. `early` has
the bindings received before the label was allocated, the only ones
`transit_on_unlearn` may fall back to.

### BestPath

Operators only. `Key` lists what each step of `compare` reads, the lower number winning;
`Decides` says whether a step looks at a pair at all, which is the MED step's question.
`Preferred`, `Tied` and `EqualCost` are the results of `compare` and `compare_multipath`,
`Scan` and `Shares` the loops of `select` and `multipath`.

## 3. Runs

| run | question | result |
|---|---|---|
| `session_connections` | two consecutive connections, fitting and wrong configurations, a foreign peer, late reads, cuts, shutdowns | no half-open session and one hold time, no UPDATE dropped, hold expiry means silence, a dead peer is detected, the session comes up |
| `rib_pipeline` | two eBGP sessions, Add-Path, static and local routes, retention, paths that an egress gate refuses | Loc-RIB is backed and complete, split horizon, Adj-RIB-Out in step with the peer, sendable paths arrive |
| `rib_mrai` | two iBGP sessions, a clock, intervals 0 and 2 | the queue is flushed in time and advertisements are spaced |
| `rtr_sync` | database versions, a cache restart, cuts, a malformed PDU | syncs are exact, expired data goes (but for what a given-up client left), the client always becomes current again, and it implements `RoaReplica` |
| `transports_collision` | both daemons dial, a cut, BFD up and down | one session each, on the same connection; an Established one stays; BFD down ends it; one always comes up |
| `bfd_link` | unequal intervals, a Passive end, two of: loss, restart, broken direction, change, admin_down | Up means heard, no false Down, loss of an end or a direction is noticed, Poll sequences end |
| `ospf_exchange` | OSPFv2 and OSPFv3, equal and different MTUs, databases that differ, a new LSA, two faults (loss, early retransmission, dead interval, election) | Full means synchronised, requests ask for news; with equal MTUs and exchanges of the link's version the adjacency becomes and stays Full |
| `ospf_segment` | three routers start in any order, join, crash, miss Hellos | no router in both roles, adjacencies follow the election, the segment agrees for good |
| `ospf_nameless` | a session made before the first Hello | violation, see 5 |
| `babel_converge` | a cycle or a chain with two origins, one fault | every connected daemon learns the prefix and keeps it, in `direct_rib` too unless another session's withdrawal took the entry |
| `babel_loop` | a cycle without faults | violation, see 5 |
| `ldp_labels` | link, chain and cycle, up to three faults (a PDU too long among them), graceful restart, scarce labels, bindings that go and come back | labels unique, LIB and transit state agree but for three paths (5), no ghost bindings; without faults no loops; the exchange ends with every session up and the LSPs up (after faults, those of the LSRs next to an egress that did not withdraw its own binding, 5) |

Every module states its types as `TypeOK`. Only `ospf_segment` lists it, where it says
more (every neighbor in the table has a session); for `RibExport` it is proved. The other
modules' `TypeOK` hold under the same configurations and can be added to them.

Bounds. *RIB:* two sessions are the fewest that make split horizon and propagation
happen, one key suffices because keys do not interact in the modelled calls; two ranks
give a replacement and a tie. In the MRAI run time reaches an interval's end and the tick
before it. *Session:* two dials give one restart with the timers of the previous life.
*RTR:* `MaxSession`, `MaxSerial` and `MaxFaults` give a restart, an incremental sync and
two connections lost at any PDU. *OSPF exchange:* one header fits a page, so the master
needs two pages, and an LSA learned by flooding is inserted before the one its receiver
has described; two faults are enough to lose a packet and repeat another, or to break the
adjacency while a retransmission is on the way; the OSPFv3 link and the one with unequal
MTUs start with one LSA, at the master. *OSPF segment:* three routers are the
fewest with a DR-Other; they start together without faults, two start with three faults,
or three are settled and one fault happens. *BFD:* the multipliers 2 and 3 and the
intervals 1 and 2 make the two detection times differ; two events let a fault meet a
change. *Transports:* one connection in each direction at a time, dialled again for ever;
one cut or BFD fall. *Babel:* eight sequence numbers wrap within reach of a restart with
any number; the metric ceiling 5 is above every simple path. *LDP:* two or three LSRs,
one or two prefixes, a label range with room for one or for two; the hop count and path
vector limits are those of the longest path, so that one less would cut an LSP off.

`CHECK_DEADLOCK FALSE` stands in the RIB runs because their clock is bounded, in the
cache run because the thread ends after `Shutdown`, in `transports_collision` and
`ospf_exchange` because two settled ends with nothing to send are at rest, and in
`ldp_labels` because LSRs with nothing left to say are (KeepAlives are not modelled).

Fairness. Weak fairness on what a running daemon repeats: dialling, reading, ticking,
polling, and leaving the pump when the session is over. Nothing is assumed of the
environment, in particular not that the operating system reports a dead path. In
`RtrClient` the cache answers every query it received while the connection lasts. In
`OspfAdjacency` the retransmissions are strongly fair: a timer runs out whether or not
a packet happens to be on the way at that moment, and the condition that separates
timely from early retransmissions is the model's, not the code's. That elections end by
allowing the adjacency is a hypothesis of `EventuallySynced`, not fairness. In `Babel`
periods follow each other for ever; a period contains one pass of every daemon. In
`LdpEngine` and `OspfElection` fairness is stated over states, not actions: every pass
reads all connections until they are empty, hears Hellos again and again, tries a session
with every neighbor, holds the election that is due, sends its Hello. So "nothing is
unread", "the election is not due" and the like hold infinitely often, whichever of the
model's passes brings them about; the faults are bounded, so none of these assumptions
excludes a behaviour of a daemon that keeps running. A handshake that stalls because the
peer is silent is excluded by them, and listed in 5.

## 4. Proofs

| module | about | theorems (property) |
|---|---|---|
| `RibExportProofs` | `RibExport` | `TypeCorrect` (`TypeOK`), `LocRibBacked` (`NoGhostInLocRib`), `NeverSentBack` (`SplitHorizon`), `Withdrawable` (`PeerPathsRecorded`), `QueueInTime` (`PendingNotOverdue`) |
| `RibExactProofs` | `RibExport` | `ExportNeverDrifts` (`ExportExact`) |
| `RibTheorems` | `RibExport` | `AdvertisementsSpaced` (`MraiSpacing`), `AdjInFollows` (`AdjInFollowsPeer`), `NothingLost` (`NoLostPrefix`) |
| `BgpSessionProofs`, `BgpSessionTheorems` | `BgpSession` | `SessionAgreed` (`NoHalfOpenSession`), `SessionSilence` (`HoldExpiryMeansSilence`), `SessionDumpRead` (`NoUpdateDropped`) |
| `RtrClientProofs`, `RtrReplicaProofs` | `RtrClient`, `RoaReplica` | `RtrRecordsExact` (`RecordsExact`), `RtrExpiredDataGone` (`ExpiredDataGone`), `RtrImplementsReplica` (`ImplementsReplica`) |
| `ElectionProofs` | `OspfElection`, `BestPath` | `Types` (`TypeOK`), `NeverInBothRoles` (`NeverBoth`), `AdjacencyFollows` (`AdjacencyFollowsElection`); `CompareDecides`, `CompareTransitive`, `DefaultHasCycle`, `ScanKeepsBest`, `SharersAreEqual` |

So every safety property that a run checks of `RibExport`, `BgpSession`, `RtrClient` and
`OspfElection` is also proved, for every value of the constants that the hypotheses below
admit. The constants are subject to the named `ASSUME`s of the modules only.

**RIB pipeline**, for all sessions, keys, ranks, policies and intervals (handles are
non-zero naturals; ranks, intervals and `MaxPaths` are naturals). The invariants are not
inductive alone. `RibInv` adds to the types that Loc-RIB is backed by its sources and, per
cell, that no path in Adj-RIB-Out, in the peer's view or in the queue goes back to its
source, that what the peer holds is recorded, and that a queue belongs to an established
session and is due in the future: the queue must obey split horizon *before* it is
flushed, or `Tick` would break it. For `ExportExact` the strengthening relates
Adj-RIB-Out, the peer's view and the current selection of a fresh session cell by cell:
a diff repairs the peer's view only if Adj-RIB-Out records it, refused paths excepted.
The proofs have one step per action and rest on lemmas about the cell operators
(`Transmit`, `Withdraw`, `Export`, `FlushDue`).

- `AdvertisementsSpaced` needs `MraiInv`: an update that waits is due exactly one interval
  after the last one sent. It assumes that the intervals in use, zero apart, are one; with
  two the property is false of the code (section 5).
- `AdjInFollows` strengthens its property to sessions that are down: what is left of an
  eBGP peer without retention is still what it offers when it comes back.
- `NothingLost` assumes finitely many sessions. Then the candidates of a key are finite
  (`CandidatesFinite`), a finite non-empty set of candidates has a first one under the
  decision (`FirstExists`), and it takes the first of the `MaxPaths` slots.

**BGP session**, for any two configurations, any number of connections, any delays, cuts
and shutdowns. None of the properties is inductive; they follow from what the order of
messages says about their sender. `SessionInv` states it per end: `Ends` (an end without a
pump is Idle and has nothing unread), `Knows` (past OpenSent the peer's OPEN was valid and
the hold time is the one negotiated from it), `Stream` (the OPEN comes first; a KEEPALIVE
or an UPDATE on the wire means its sender accepted the reader's OPEN). A router sends one
KEEPALIVE for each entry that is due, hence `Finite`, the finiteness of the timer queue.

- `SessionSilence` adds `Measures`: no HOLD entry of the present connection has less to go
  than the negotiated time minus the silence, and there is none before the OPEN is read.
- `SessionDumpRead` adds `Dumps`, which counts the KEEPALIVE of the handshake before any
  UPDATE. It assumes hold times above zero or two routers of one kind: a router that
  negotiated zero sends no KEEPALIVE (`fsm.rs:988`), a foreign one does.

**RTR client**, for all records, databases, versions and intervals and any number of
restarts, cuts and undecodable PDUs. `RtrInv` is about what has not been read: apart from
notifies and undecodable PDUs it is nothing, one query, one answer, or the rest of an
answer, and that rest leads from the client's batch to the version its End of Data names.
`RecordsExact` and `ExpiredDataGone` follow from it, and so does the refinement: every
action is a step of `RoaReplica` under the mapping of `RtrClient` or changes nothing there.

**OSPF segment**, for any number of routers, priorities, starts and faults. The proofs
assume that router IDs are positive and bounded (`RouterAssumption`) and that a segment
that starts settled has a Designated Router and a Backup that are two of its settled
routers, or none (`LabAssumption`). `SegmentOK`, the inductive invariant, says of every
interface, at every moment, that it does not hold both roles, that every neighbor heard has
a session, and that every session's state fits the present roles (`NodeOK`); besides, that
what is on the wire has its type. The sessions are needed because a packet, an election and
a death each touch only one side of what `AdjacencyFollowsElection` relates. `ElectFacts`
is the core: a router that wins both roles in the first round did not claim to be
Designated Router, so the second round is held, and in it the router does and is no
candidate for Backup. The proof goes through a pass stage by stage (`InboundOK`,
`RunElectionOK`, `DeadTimerOK`, `HelloOK`).

**Decision process**, for all routes and configurations: exactly one of two routes wins
unless they tie, and only routes of one peer tie (`CompareDecides`); the comparison is
transitive with `always_compare_med` or among routes of one neighboring AS
(`CompareTransitive`) and otherwise not, by three routes through MED and the IGP metric
(`DefaultHasCycle`); where it is transitive, what `select` keeps is beaten by nothing it
has read (`ScanKeepsBest`); members of a multipath set are of equal cost among themselves
(`SharersAreEqual`). There is no run for `BestPath`: it has no state.

Only model-checked:

- all liveness (`DeadPeerDetected`, `SessionComesUp`, `Agree`, the convergence properties
  and the like), which needs fairness and is outside what TLAPS proves;
- `BfdSession`: `UpMeansHeard` would follow from an invariant about which discriminators a
  packet may mention; `NoFalseDown` needs the timers of both ends and of the channel besides;
- `BgpTransports`, `OspfAdjacency` and `LdpEngine`: their invariants relate two threads'
  progress, the pages of an exchange and a whole label table to what is in flight, and no
  inductive form of them has been found yet;
- `Babel`, of which only convergence is claimed.

## 5. Where code and text disagree

With a run that reaches it:

- `ospf_nameless`: the OSPFv2 daemon makes a session on any packet and takes the
  neighbor's address from the table of Hellos (`daemon_ospf.rs:1217`). If the first packet
  is a Database Description the address stays 0.0.0.0, and the session never qualifies
  for an adjacency with the Designated Router, where `mod.rs:6895` says that "a
  bidirectional neighbor that now qualifies advances to ExStart". OSPFv3 uses the
  router ID and is not affected. `Agree` excepts such sessions.
- `babel_loop`: `direct_rib` has one entry per prefix and keeps what was installed last
  (`mod.rs:5323`), so two neighbours can forward to each other, where `daemon.rs:6633`
  says "loops stay impossible".

Met while modelling, each excepted by the property named or outside the bounds:

- BGP session. Hold and keepalive timers that expire in OpenConfirm are dropped and not
  re-armed (`fsm.rs:1185`), where `docs/tutorial.md:184` promises supervision; the runs use
  a keepalive interval longer than a late handshake. With hold time 0 the KEEPALIVE that
  acknowledges the OPEN is not sent (`fsm.rs:988`), where `docs/lr-daemon-reference.md:99`
  documents 0 as a setting; and when the peer sends its KEEPALIVE, every message read in
  Established arms HOLD with 0 seconds (`fsm.rs:1037`, `:1121`), which the next tick takes
  for an expiry, where `fsm.rs:979` says that zero "disables the hold timer entirely". The
  runs have hold times above 0 and `HoldExpiryMeansSilence` claims nothing of 0. Closing a
  session leaves its timer entries in the queue, so a HOLD entry of an earlier connection
  can end the next one; the property is about entries armed on the connection itself. A
  ROUTE-REFRESH does not refresh HOLD (`fsm.rs:1046`), where `fsm.rs:1121` says "any valid
  message refreshes it".
- RIB. A withdrawal from an iBGP peer looks under protocol 0 and finds nothing
  (`mod.rs:3508`, `docs/ARCHITECTURE.md:143`). Session clean-up returns early when the
  session contributed no route and leaves Adj-RIB-Out (`mod.rs:3954`, `:3821`);
  `ExportExact` is about sessions that start with an empty slice. A withdrawal skips
  sessions with an empty Adj-RIB-Out and leaves a queued advertisement (`mod.rs:3269`,
  `:370`). An update that waits keeps its due time when `set_mrai` raises the interval (`mod.rs:5061`), so
  it leaves early by the new one. When a gate of `advertise_with_originator` refuses the
  path that replaces another under its identifier, the peer keeps the old one: nothing is
  withdrawn (`mod.rs:2921`), so an iBGP non-client, or an eBGP peer behind the OTC or the
  LLGR_STALE gate, uses a path that is gone. `ExportExact` claims the sendable paths only. A
  route refresh has no protocol gate (`mod.rs:3094` against `:3007`); originating over a
  static route bypasses the decision (`mod.rs:1611`); a re-announcement that an import
  check rejects leaves the old route (`mod.rs:2487`).
- RTR. The client adopts a new session before End of Data and pairs it with the old
  serial after a cut (`client.rs:300`, against the comment at `:306`). After a malformed
  PDU the ROAs of the abandoned client stay in the store past their expiry, until the next
  sync, since the new client has nothing to expire (`daemon_rpki.rs:619`; `ExpiredDataGone`
  excepts them). A cache
  silent during the first synchronisation is never asked again (`client.rs:494`).
- Best path. Under the default configuration the comparison is not transitive, and `rank`
  passes it to `sort_by`, which promises nothing for such an order; the router's
  candidates come in the order of a `BTreeMap`, so its decision is at least a function of
  the set. With `multipath_relax` a multipath set may hold two routes of one AS with
  different MEDs; it may omit the best route when enough equal ones precede it; its
  comment says only the peer may differ, but without `deterministic_router_id` the age
  may too.
- Transports. A second inbound connection of a peer whose inbound session still runs
  starts that session anew under the first thread, where the comment at `daemon.rs:2178`
  has it closed. A thread looks at the BFD flag between reads that may take 200 ms
  (`daemon.rs:3516`), so a shorter Down goes unseen.
- BFD. Two ends that change intervals while a Poll runs may both wait for ever, and a
  Final may answer an earlier Poll (`PollEnds` and `NoFalseDown` except overlaps);
  `remote_disc` is never cleared, so a Passive end must keep its discriminator over a
  restart; `admin_down` has no way back; leaving Up drops pending intervals;
  `update_timers` does not re-arm detection; the sequence number of keyed
  authentication is never reset.
- OSPF. A slave in Loading or Full compares a repeated description with the flags of its
  own last one, which differ in the MS bit, so it restarts the adjacency where the
  comment promises a repeated answer (`exchange.rs:408`), and the test passes because the
  restart also emits one packet (`exchange_tests.rs:289`). An ack is matched by key, so
  the ack of an older instance drops a newer one from the retransmission list
  (`retransmit.rs:104`; `misacked` in the model). `set_ospf_dr_state` replaces the
  exchange of a v3 session by one for v2 (`mod.rs:6942`), whose packets the peer drops
  (`daemon_ospf3.rs:3076`), so a demoted session does not come up again before the dead
  interval makes a new one; `EventuallySynced` claims nothing of it. `close_session` does nothing for
  OSPF (`mod.rs:3625`). A router whose wait timer expires before it has heard the segment
  may take the Designated Router's place (`daemon_ospf.rs:1291`). A neighbor that stops
  listing this router is not a NeighborChange (`daemon_ospf.rs:1054`).
- Babel. A retracted route can circulate in a cycle until the metric reaches its ceiling,
  0xfffe instead of infinity, from where it is refreshed for ever (`babel.rs:460`, against
  `daemon.rs:6681`). The expiry sweep drops routes that were to be installed
  (`babel.rs:496`); the feasibility distance is shared by all origins and forgotten at
  every withdrawal; a withdrawal read by one session removes the `direct_rib` entry although
  another session still publishes a route, and the next frame of that session brings no
  change to install (`mod.rs:5376`; `RoutesLearned` excepts such entries); no seqno request is ever sent; an origin does not retract its own
  prefix; a restart forgets what was advertised.
- LDP. The fallback of `transit_on_unlearn` to another peer's binding is reached only for
  bindings older than the label (`engine.rs:1660`), and the first binding allocates it; a re-advertisement with the same label
  and new attributes is ignored (`mapping.rs:52`); a reflection that crosses a withdrawal
  chases it until the hop limit; the Bad PDU Length path unlearns the LIB without the
  transit state (`engine.rs:937`), and a mapping for a prefix that is bound here or finds no
  label left is kept in the LIB only (`engine.rs:1578`, `:1629`), the three exceptions of
  `TransitMatchesLib`; a reconnect that fails before negotiation purges the
  bindings kept for graceful restart; a stalled handshake has no timeout
  (`session.rs:535`); labels are reused at once; recovery after a graceful restart can
  build loops (`LoopFree` is claimed without faults only); a prefix that is bound
  while a reflection of it is still a transit FEC (unbound, a mapping that crossed, bound
  again) is withdrawn from every peer by the later tear-down, until a session comes up
  (`engine.rs:1495`, `:1698`; `Settles` excepts the LSPs to that egress); the kernel's head routes follow the peer
  learned last.

## 6. Not modelled, and plan

About 4% of the 217,000 lines are behind the modules. Most of the rest is
conversion and computation without state that outlives a call: codecs of seven protocols,
SPF and the LSA builders, the policy VM, the ROA trie, configuration parsing, the control
API, the command line, operating-system back ends, the C interface and the bindings. A
model of those would be the program over again, and its state space that of their inputs.

Of the modelled components these operations are left out: BGP capabilities, ROUTE-REFRESH
as a message of `BgpSession` (its effect is `RouteRefresh` of `RibExport`), several families, LLGR, max-prefix, aggregates, redistribution, BMP; RTR over TLS, RouterKey
records, and intervals other than the configured ones (End of Data may bring others,
`client.rs:433`, and so may a change of cache, `daemon_rpki.rs:430`); BFD authentication,
echo and demand mode (no end sets the Demand bit); a BGP connection the host looped back
to its own listener (`daemon.rs:3434`); an OSPF interface without an address; OSPF ageing, MaxAge flushing, third routers,
graceful restart and its effect on neighbors; Babel link costs, requests,
source-specific prefixes and MAC; LDP parameter rejection, dual stack, targeted Hellos,
Label Request and Abort, Address messages, wildcard withdrawals, the kernel's head and
tail routes, swaps the kernel refuses.

Next, in this order:

1. OSPF ageing and flushing in `OspfAdjacency`, flooding over a third router, graceful
   restart with the helper's retention in `OspfElection`.
2. LLGR, max-prefix, aggregates and redistribution as further producers of `RibExport`.
3. Damping with a discretised penalty: its f64 arithmetic has to be bounded first. A
   suppressed route is released by the periodic decay only (`lr-damping/src/lib.rs:187`).
4. Proofs: `UpMeansHeard` of `BfdSession`, `LabelsUnique` and `TransitMatchesLib` of
   `LdpEngine`, `OneTransport` of `BgpTransports`.
