---------------------------- MODULE BgpSession ----------------------------
(***************************************************************************)
(* The BGP session of lr-bgp (BgpPeer, fsm.rs) as DefaultRouter drives it:  *)
(* the state machine, the HOLD / KEEPALIVE / CONNECT_RETRY entries of the   *)
(* router's TimerQueue, start_session / close_session / shutdown_session    *)
(* and the pump of the daemon, for two routers joined by one TCP            *)
(* connection at a time.                                                    *)
(*                                                                          *)
(* Time is relative: a timer entry holds the seconds left.  The two routers *)
(* tick at the same rate but not at the same instant (variable ahead).      *)
(* A message or an end of file is read within env.delay ticks of the reader.*)
(***************************************************************************)
EXTENDS Integers, Sequences, FiniteSets

CONSTANTS
    Peer,          \* the two routers
    Scenarios,     \* configurations and environments to consider
    ConnectRetry   \* CONNECT_RETRY timer, 5 s in the code

ASSUME PeerAssumption == \E a, b \in Peer : a # b /\ Peer = {a, b}
ASSUME RetryAssumption == ConnectRetry \in Nat
ASSUME ScenarioAssumption ==
    Scenarios \subseteq
        [cfg: [Peer -> [version: Nat, as: Nat, peer_as: Nat, confed: BOOLEAN,
                        id: Nat, hold: Nat, keepalive: Nat]],
         foreign: SUBSET Peer, dials: Nat, delay: Nat]

VARIABLES
    cfg,      \* cfg[p]: the BgpPeer configuration of p, fixed
    env,      \* fixed: foreign, the routers that are other RFC 4271 speakers; the
              \* bounds dials (connections) and delay (ticks a readable byte waits)
    faults,   \* may the network cut and operators shut sessions down? fixed
    state,    \* BgpPeer.state
    neg,      \* BgpPeer.negotiated_hold_time
    timers,   \* the router's TimerQueue entries of this session
    link,     \* "none", "ready" (TCP up, start_session not yet called), "up"
    conn,     \* the TCP connection: "none", "open", "closed" (FIN), "cut"
    chan,     \* chan[p]: messages sent to p and not yet read
    age,      \* age[p]: ticks of p since something became readable at p
    ahead,    \* routers that have ticked in the current second
    starts,   \* connections dialled so far
    silence   \* seconds since p heard an OPEN, KEEPALIVE or UPDATE, the KEEPALIVE
              \* that established the session not counted (history variable)

vars == <<cfg, env, faults, state, neg, timers, link, conn, chan, age, ahead, starts, silence>>

States == {"Idle", "Connect", "Active", "OpenSent", "OpenConfirm", "Established"}
TimerIds == {"HOLD", "KEEPALIVE", "CONNECT_RETRY"}

Other(p) == CHOOSE q \in Peer : q # p

Min2(a, b) == IF a < b THEN a ELSE b
Max2(a, b) == IF a > b THEN a ELSE b

MaxHold == LET holds == {cfg[p].hold : p \in Peer}
           IN  CHOOSE h \in holds : \A g \in holds : g <= h

---------------------------------------------------------------------------
(* Messages *)

Open(p) == [type |-> "OPEN", version |-> cfg[p].version, as |-> cfg[p].as,
            id |-> cfg[p].id, hold |-> cfg[p].hold]
Keepalive == [type |-> "KEEPALIVE"]
Update == [type |-> "UPDATE"]
Malformed == [type |-> "MALFORMED"]
Notification(code) == [type |-> "NOTIFICATION", code |-> code]

Message == {Open(p) : p \in Peer} \cup {Keepalive, Update, Malformed}
           \cup {Notification(c) : c \in {"Open", "HoldTimerExpired", "Cease", "Update"}}

\* What has been put on the wire for q after p sends ms: nothing arrives once
\* the connection is no longer open.
Sent(q, ms) == IF conn = "open" THEN chan[q] \o ms ELSE chan[q]

\* p reads the first message and answers with the messages ms.
ReadAndSend(p, ms) ==
    /\ chan' = [chan EXCEPT ![p] = Tail(@), ![Other(p)] = Sent(Other(p), ms)]
    /\ age' = [age EXCEPT ![p] = 0]

---------------------------------------------------------------------------
(* Timers.  "run" records which start of the session armed the entry; a     *)
(* KEEPALIVE entry keeps the run of the chain it continues.                 *)

Entry(id, left, run) == [id |-> id, left |-> left, run |-> run]

Cancel(ts, id) == {t \in ts : t.id # id}

\* The entries TimerQueue::tick pops.
Due(p) == {t \in timers[p] : t.left <= 1}

\* PeerConfig::keepalive_interval and the value handle_open_in_opensent
\* leaves in keepalive_remaining.
KeepaliveInterval(p) ==
    IF cfg[p].keepalive # 0 THEN cfg[p].keepalive ELSE Max2(cfg[p].hold \div 3, 1)

KeepaliveRemaining(p, h) == Min2(KeepaliveInterval(p), Max2(h \div 3, 1))

\* Mutant: the old entry is not cancelled.
RearmWithoutCancel(p) ==
    timers' = [timers EXCEPT ![p] = @ \cup {Entry("HOLD", neg[p], starts)}]

\* CancelTimer(HOLD) followed by SetTimer(HOLD, once(negotiated_hold_time)).
RearmHold(p) ==
    timers' = [timers EXCEPT ![p] =
                 Cancel(@, "HOLD") \cup {Entry("HOLD", neg[p], starts)}]

---------------------------------------------------------------------------
(* Received messages: feed_bytes and the message arms of BgpPeer::step.     *)

HasMsg(p, type) ==
    /\ link[p] = "up"
    /\ chan[p] # <<>>
    /\ Head(chan[p]).type = type

\* The NOTIFICATION-and-Idle checks of handle_open_in_opensent.
OpenRejected(p, m) ==
    \/ m.version # 4
    \/ m.as # cfg[p].peer_as /\ ~cfg[p].confed
    \/ m.id = cfg[p].id
    \/ m.hold # 0 /\ m.hold < 3

\* Dispatching BgpAction::Close leaves the timer queue alone.
GoIdle(p) ==
    /\ state' = [state EXCEPT ![p] = "Idle"]
    /\ UNCHANGED <<neg, timers>>

NegotiatedHold(p, m) == Min2(m.hold, cfg[p].hold)

\* Mutant: the table dump starts with the answer to the OPEN.
EagerReply(p, h) == <<Update, Keepalive>>

\* Mutant: the acknowledgement is left to the KEEPALIVE timer.
SilentReply(p, h) == <<>>

\* No KEEPALIVE answers the OPEN when the negotiated hold time is zero; a
\* foreign speaker follows RFC 4271 and always sends it.
OpenReply(p, h) == IF h > 0 \/ p \in env.foreign THEN <<Keepalive>> ELSE <<>>

AcceptOpen(p) ==
    LET h == NegotiatedHold(p, Head(chan[p]))
    IN  /\ state' = [state EXCEPT ![p] = "OpenConfirm"]
        /\ neg' = [neg EXCEPT ![p] = h]
        /\ timers' = [timers EXCEPT ![p] = @ \cup
             IF h > 0 THEN {Entry("HOLD", h, starts),
                            Entry("KEEPALIVE", KeepaliveRemaining(p, h), starts)}
                      ELSE {}]
        /\ ReadAndSend(p, OpenReply(p, h))

RejectOpen(p) ==
    /\ GoIdle(p)
    /\ ReadAndSend(p, <<Notification("Open")>>)

\* Mutant: the checks on the OPEN are skipped.
RecvAnyOpen(p) ==
    /\ HasMsg(p, "OPEN")
    /\ state[p] = "OpenSent"
    /\ AcceptOpen(p)
    /\ silence' = [silence EXCEPT ![p] = 0]
    /\ UNCHANGED <<link, conn, ahead, starts>>

RecvOpen(p) ==
    /\ HasMsg(p, "OPEN")
    /\ state[p] = "OpenSent"
    /\ IF OpenRejected(p, Head(chan[p])) THEN RejectOpen(p) ELSE AcceptOpen(p)
    /\ silence' = [silence EXCEPT ![p] = 0]
    /\ UNCHANGED <<link, conn, ahead, starts>>

\* on_bgp_established: the initial table dump ends with an End-of-RIB UPDATE.
Establish(p) ==
    /\ state[p] = "OpenConfirm"
    /\ state' = [state EXCEPT ![p] = "Established"]
    /\ ReadAndSend(p, <<Update>>)
    /\ UNCHANGED <<timers, silence>>

RefreshHold(p) ==
    /\ state[p] = "Established"
    /\ RearmHold(p)
    /\ ReadAndSend(p, <<>>)
    /\ silence' = [silence EXCEPT ![p] = 0]
    /\ UNCHANGED state

RecvKeepalive(p) ==
    /\ HasMsg(p, "KEEPALIVE")
    /\ Establish(p) \/ RefreshHold(p)
    /\ UNCHANGED <<neg, link, conn, ahead, starts>>

RecvUpdate(p) ==
    /\ HasMsg(p, "UPDATE")
    /\ RefreshHold(p)
    /\ UNCHANGED <<neg, link, conn, ahead, starts>>

\* Fatal in every state; the peer's own NOTIFICATION gets no answer.
RecvNotification(p) ==
    /\ HasMsg(p, "NOTIFICATION")
    /\ GoIdle(p)
    /\ ReadAndSend(p, <<>>)
    /\ UNCHANGED <<link, conn, ahead, starts, silence>>

\* A decode error becomes BgpEvent::ParseError.
RecvMalformed(p) ==
    /\ HasMsg(p, "MALFORMED")
    /\ GoIdle(p)
    /\ ReadAndSend(p, <<Notification("Update")>>)
    /\ UNCHANGED <<link, conn, ahead, starts, silence>>

\* The catch-all arm (s, _) => s.
RecvIgnored(p) ==
    /\ \/ HasMsg(p, "OPEN") /\ state[p] # "OpenSent"
       \/ HasMsg(p, "KEEPALIVE") /\ state[p] \notin {"OpenConfirm", "Established"}
       \/ HasMsg(p, "UPDATE") /\ state[p] # "Established"
    /\ ReadAndSend(p, <<>>)
    /\ UNCHANGED <<state, neg, timers, link, conn, ahead, starts, silence>>

---------------------------------------------------------------------------
(* DefaultRouter::tick: the queue hands out every entry that is due, and    *)
(* each goes through BgpPeer::step.  Only Established reacts to HOLD and     *)
(* KEEPALIVE; CONNECT_RETRY needs Connect, which start_session leaves       *)
(* within the same call.                                                    *)

Readable(p) == link[p] = "up" /\ (chan[p] # <<>> \/ conn = "closed")

\* Mutant: a KEEPALIVE that is sent refreshes the hold timer as well.
ElapsedWithBeat(p) ==
    LET beat == \E t \in Due(p) : t.id = "KEEPALIVE"
    IN  {[t EXCEPT !.left = IF beat /\ t.id = "HOLD" THEN neg[p] ELSE @ - 1] :
            t \in timers[p] \ Due(p)}

\* The entries that stay in the queue, a second later.
Elapsed(p) == {[t EXCEPT !.left = @ - 1] : t \in timers[p] \ Due(p)}

\* Entries due at the same instant come out of the heap in any order, so any
\* set "before" of KEEPALIVE entries may be served before the HOLD entry.
Tick(p) ==
    LET Beats == {t \in Due(p) : t.id = "KEEPALIVE"}
        holdDue == \E t \in Due(p) : t.id = "HOLD"
        Again(ts) == {[t EXCEPT !.left = KeepaliveRemaining(p, neg[p])] : t \in ts}
        Beat(ts) == [i \in 1..Cardinality(ts) |-> Keepalive]
        Fire(ts, ms) == /\ timers' = [timers EXCEPT ![p] = Elapsed(p) \cup Again(ts)]
                        /\ chan' = [chan EXCEPT ![Other(p)] =
                                      Sent(Other(p), Beat(ts) \o ms)]
    IN  /\ p \notin ahead
        /\ \A q \in Peer : Readable(q) => age[q] < env.delay
        /\ ahead' = IF ahead \cup {p} = Peer THEN {} ELSE ahead \cup {p}
        /\ age' = [age EXCEPT ![p] = IF Readable(p) THEN @ + 1 ELSE 0]
        /\ silence' = [silence EXCEPT ![p] = Min2(@ + 1, MaxHold)]
        /\ \/ /\ state[p] # "Established"
              /\ Fire({}, <<>>)
              /\ UNCHANGED state
           \/ /\ state[p] = "Established" /\ ~holdDue
              /\ Fire(Beats, <<>>)
              /\ UNCHANGED state
           \/ /\ state[p] = "Established" /\ holdDue
              /\ \E before \in SUBSET Beats :
                    Fire(before, <<Notification("HoldTimerExpired")>>)
              /\ state' = [state EXCEPT ![p] = "Idle"]
        /\ UNCHANGED <<neg, link, conn, starts>>

---------------------------------------------------------------------------
(* The transport and the session calls of the daemon. *)

\* A connection is dialled when neither side still runs the previous one; two
\* connections at once (a collision) are not part of this module.
Dial ==
    /\ \A p \in Peer : link[p] = "none"
    /\ starts < env.dials
    /\ starts' = starts + 1
    /\ conn' = "open"
    /\ link' = [p \in Peer |-> "ready"]
    /\ chan' = [p \in Peer |-> <<>>]
    /\ age' = [p \in Peer |-> 0]
    /\ UNCHANGED <<state, neg, timers, ahead, silence>>

\* start_session: BgpPeer::reset, ManualStart, TransportOpen.
StartSession(p) ==
    /\ link[p] = "ready"
    /\ link' = [link EXCEPT ![p] = "up"]
    /\ state' = [state EXCEPT ![p] = "OpenSent"]
    /\ neg' = [neg EXCEPT ![p] = 0]
    /\ timers' = [timers EXCEPT ![p] = @ \cup {Entry("CONNECT_RETRY", ConnectRetry, starts)}]
    /\ chan' = [chan EXCEPT ![Other(p)] = Sent(Other(p), <<Open(p)>>)]
    /\ silence' = [silence EXCEPT ![p] = 0]
    /\ UNCHANGED <<conn, age, ahead, starts>>

\* close_session (TransportClose) and the socket shutdown that follows it.
CloseSession(p, ms) ==
    /\ state' = [state EXCEPT ![p] = "Idle"]
    /\ link' = [link EXCEPT ![p] = "none"]
    /\ conn' = IF conn = "open" THEN "closed" ELSE conn
    /\ chan' = [chan EXCEPT ![p] = <<>>, ![Other(p)] = Sent(Other(p), ms)]
    /\ age' = [age EXCEPT ![p] = 0]
    /\ UNCHANGED <<neg, timers, ahead, starts, silence>>

\* pump_session ends: the router closed the session (FSM Idle) ...
PumpExit(p) ==
    /\ link[p] = "up"
    /\ state[p] = "Idle"
    /\ CloseSession(p, <<>>)

\* ... or read() returned end of file ...
ReadEof(p) ==
    /\ link[p] = "up"
    /\ conn = "closed"
    /\ chan[p] = <<>>
    /\ CloseSession(p, <<>>)

\* ... or failed ...
ReadError(p) ==
    /\ link[p] = "up"
    /\ conn = "cut"
    /\ CloseSession(p, <<>>)

\* ... or the daemon was told to stop: shutdown_session.
ShutdownSession(p) ==
    /\ faults
    /\ link[p] = "up"
    /\ CloseSession(p, IF state[p] # "Idle" THEN <<Notification("Cease")>> ELSE <<>>)

\* The path dies without a FIN: what was in flight is lost.
Cut ==
    /\ faults
    /\ conn = "open"
    /\ conn' = "cut"
    /\ chan' = [p \in Peer |-> <<>>]
    /\ age' = [p \in Peer |-> 0]
    /\ UNCHANGED <<state, neg, timers, link, ahead, starts, silence>>

\* A foreign speaker sends something this code cannot decode (bound: only while
\* the other end still runs, which keeps the channels finite).
SendMalformed(p) ==
    /\ faults
    /\ p \in env.foreign
    /\ link[p] = "up" /\ state[p] = "Established" /\ conn = "open"
    /\ state[Other(p)] # "Idle"
    /\ Malformed \notin {chan[Other(p)][i] : i \in 1..Len(chan[Other(p)])}
    /\ chan' = [chan EXCEPT ![Other(p)] = Sent(Other(p), <<Malformed>>)]
    /\ UNCHANGED <<state, neg, timers, link, conn, age, ahead, starts, silence>>

---------------------------------------------------------------------------

Init ==
    /\ \E s \in Scenarios :
        /\ cfg = s.cfg
        /\ env = [foreign |-> s.foreign, dials |-> s.dials, delay |-> s.delay]
    /\ faults \in BOOLEAN
    /\ state = [p \in Peer |-> "Idle"]
    /\ neg = [p \in Peer |-> 0]
    /\ timers = [p \in Peer |-> {}]
    /\ link = [p \in Peer |-> "none"]
    /\ conn = "none"
    /\ chan = [p \in Peer |-> <<>>]
    /\ age = [p \in Peer |-> 0]
    /\ ahead = {}
    /\ starts = 0
    /\ silence = [p \in Peer |-> 0]

Receive(p) == \/ RecvOpen(p) \/ RecvKeepalive(p) \/ RecvUpdate(p)
              \/ RecvNotification(p) \/ RecvMalformed(p) \/ RecvIgnored(p)

Environment == Cut \/ \E p \in Peer : ShutdownSession(p) \/ SendMalformed(p)

Router(p) == \/ StartSession(p) \/ Receive(p) \/ Tick(p)
             \/ PumpExit(p) \/ ReadEof(p) \/ ReadError(p)

Fixed(A) == A /\ UNCHANGED <<cfg, env, faults>>

Next == Fixed(Dial \/ Environment \/ \E p \in Peer : Router(p))

\* The daemon keeps dialling, every pump keeps reading and the ticker keeps
\* ticking; nothing forces the environment, nor the operating system to report
\* a dead path.
Fairness ==
    /\ WF_vars(Fixed(Dial))
    /\ \A p \in Peer : /\ WF_vars(Fixed(StartSession(p)))
                       /\ WF_vars(Fixed(Receive(p)))
                       /\ WF_vars(Fixed(Tick(p)))
                       /\ WF_vars(Fixed(PumpExit(p)))
                       /\ WF_vars(Fixed(ReadEof(p)))

Spec == Init /\ [][Next]_vars /\ Fairness
---------------------------------------------------------------------------
(* Properties *)

Running == {"OpenSent", "OpenConfirm", "Established"}

\* Every variable has its type; a timer entry is never due in the past (TimerQueue::tick).
TypeOK ==
    /\ faults \in BOOLEAN
    /\ state \in [Peer -> States]
    /\ neg \in [Peer -> Nat]
    /\ \A p \in Peer : \A t \in timers[p] :
          t.id \in TimerIds /\ t.left \in Nat /\ t.run \in 1..starts
    /\ link \in [Peer -> {"none", "ready", "up"}]
    /\ conn \in {"none", "open", "closed", "cut"}
    /\ chan \in [Peer -> Seq(Message)]
    /\ age \in [Peer -> 0..env.delay]
    /\ ahead \subseteq Peer
    /\ starts \in 0..env.dials
    /\ silence \in [Peer -> 0..MaxHold]

\* A router is Established only with a peer that has accepted its OPEN: each
\* finds the other's OPEN valid, and the peer is past OpenSent and runs the same
\* hold time, whatever each configured, or has already left the connection.
NoHalfOpenSession ==
    \A p \in Peer : state[p] = "Established"
        => /\ ~OpenRejected(p, Open(Other(p)))
           /\ ~OpenRejected(Other(p), Open(p))
           /\ \/ state[Other(p)] \in {"OpenConfirm", "Established"} /\ neg[Other(p)] = neg[p]
              \/ state[Other(p)] = "Idle" /\ link[Other(p)] # "ready"

\* No UPDATE falls into the catch-all arm of a session that is coming up: the
\* table dump a router sends on reaching Established always finds its peer
\* Established (or already Idle).
NoUpdateDropped ==
    \A p \in Peer : HasMsg(p, "UPDATE") => state[p] \in {"Established", "Idle"}

\* p declares its hold timer expired in this step (only Tick changes ahead).
HoldExpires(p) == state[p] = "Established" /\ state'[p] = "Idle" /\ ahead' # ahead

\* Every HOLD entry of p that is due was armed since the last connection began.
OwnHold(p) == \A t \in Due(p) : t.id = "HOLD" => t.run = starts

\* A hold timer that this life of the session armed ends it only after
\* negotiated_hold_time seconds in which no KEEPALIVE and no UPDATE was received;
\* the KEEPALIVE that establishes the session does not refresh the timer.
\* Nothing is claimed of an entry that an earlier life left in the queue, which
\* may end a session at any time, nor of a negotiated value of zero, for which
\* a KEEPALIVE or an UPDATE arms HOLD to expire at once.
HoldExpiryMeansSilence ==
    [][\A p \in Peer : HoldExpires(p) /\ neg[p] > 0 /\ OwnHold(p) => silence'[p] >= neg[p]]_vars

\* A connection that dies without a FIN is noticed: an Established session on
\* it is brought to Idle by the hold timer.
DeadPeerDetected ==
    \A p \in Peer : (conn = "cut" /\ state[p] = "Established") ~> (state[p] = "Idle")

\* Each end finds the other's OPEN acceptable.
Compatible == \A p \in Peer : ~OpenRejected(p, Open(Other(p)))

\* Without faults the first connection of two routers whose configurations fit
\* brings both sides to Established, and with keepalives delivered in time it
\* stays there.
SessionComesUp ==
    ~faults /\ Compatible => <>[](\A p \in Peer : state[p] = "Established")
===========================================================================
