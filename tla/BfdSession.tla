----------------------------- MODULE BfdSession -----------------------------
(***************************************************************************)
(* Two ends of a BFD session (BfdSession of lr-bfd, RFC 5880) over a link  *)
(* that loses packets: the Down / Init / Up handshake, the transmit and    *)
(* detection timers, interval changes confirmed by a Poll sequence, crashes *)
(* and restarts of an end.                                                  *)
(*                                                                          *)
(* The supervisor calls start, feed_bytes, tick, update_timers and          *)
(* admin_down from one thread, so each call is one action.  Time advances   *)
(* in units far longer than the supervisor's 10 ms poll: a unit ends when   *)
(* every due timer has been polled and every packet received or lost.       *)
(***************************************************************************)
EXTENDS Integers, Sequences, FiniteSetsExt

CONSTANTS
    End,          \* the two ends
    Mult,         \* Mult[e]: cfg.detect_mult
    Tx,           \* Tx[e]: cfg.desired_min_tx_interval
    Rx,           \* Rx[e]: cfg.required_min_rx_interval
    IdleTx,       \* IDLE_TX_INTERVAL_US
    Changes,      \* Changes[e]: interval pairs <<tx, rx>> update_timers is called with
    PassiveEnds,  \* sets of ends that may be configured Passive
    Reuse,        \* ends that keep their discriminator over a restart
    MaxEvents     \* bound: packets lost, crashes, broken directions, interval changes,
                  \*        calls of admin_down

ASSUME TimeAssumption ==
    /\ IdleTx \in Nat \ {0}
    /\ \A e \in End : Mult[e] \in Nat \ {0} /\ Tx[e] \in Nat \ {0} /\ Rx[e] \in Nat \ {0}

VARIABLES
    s,         \* s[e]: the session of end e
    alive,     \* ends whose process runs
    passive,   \* ends configured Passive
    chan,      \* chan[e]: packets on their way to e
    incarnation, \* incarnation[e]: starts of e so far
    reached,   \* ends of which the peer accepted a packet since they started (history)
    overlap,   \* was an interval changed while a Poll sequence ran? (history)
    broken,    \* ends the link no longer delivers to
    missed,    \* missed[e]: packets to e lost since the last accepted one (history)
    changed,   \* was an interval changed? (history)
    events     \* counts what MaxEvents bounds

vars == <<s, alive, passive, chan, incarnation, reached, missed, overlap, broken,
          changed, events>>

Off == -1     \* a timer that is not armed
None == 0     \* no pending interval
NoDisc == <<>>

Peer(e) == CHOOSE p \in End : p # e
Larger(i, j) == IF i > j THEN i ELSE j

\* Local discriminators are unique and never zero.
Disc(e, n) == <<e, IF e \in Reuse THEN 0 ELSE n>>

\* BfdSession::new.
NewSession(e, n) ==
    [state |-> "Down", disc |-> Disc(e, n), rdisc |-> NoDisc, rtx |-> 0, rrx |-> 0,
     tx |-> Tx[e], rx |-> Rx[e], pendingTx |-> None, pendingRx |-> None, poll |-> FALSE,
     txTimer |-> Off, detect |-> Off, sinceTx |-> 0]

---------------------------------------------------------------------------
(* Intervals and the packet. *)

TxInterval(r) ==
    Max({IF r.state = "Up" THEN r.tx ELSE Larger(r.tx, IdleTx), r.rrx, 1})

\* Mutant: our own multiplier is used.
DetectionTimeOwn(e, r) == Mult[e] * Larger(r.rx, r.rtx)

\* The peer's multiplier is the one its packets carry.
DetectionTime(e, r) == Mult[Peer(e)] * Larger(r.rx, r.rtx)

AdvertisedTx(r) ==
    LET v == IF r.pendingTx = None THEN r.tx ELSE r.pendingTx
    IN  IF r.state = "Up" THEN v ELSE Larger(v, IdleTx)
AdvertisedRx(r) == IF r.pendingRx = None THEN r.rx ELSE r.pendingRx

\* The Demand bit of the peer's packets silences this end too; no end here ever sets it.
TxAllowed(e, r) ==
    /\ r.state # "AdminDown"
    /\ ~ (e \in passive /\ r.rdisc = NoDisc)
    /\ ~ (r.rrx = 0 /\ r.rdisc # NoDisc)

\* enqueue_packet.
Packet(r, final) ==
    [state |-> r.state, poll |-> r.poll, final |-> final, my |-> r.disc, your |-> r.rdisc,
     tx |-> AdvertisedTx(r), rx |-> AdvertisedRx(r)]

\* Intervals with jitter: 75 to 100 percent, 75 to 90 with a multiplier of 1.
Jittered(e, i) ==
    LET most == IF Mult[e] = 1 THEN (9 * i) \div 10 ELSE i
    IN  Larger((3 * i) \div 4, 1) .. Larger(most, 1)

\* arm_tx_timer: no later than one interval after the previous packet.
Arm(e, r) ==
    IF TxAllowed(e, r)
    THEN {[r EXCEPT !.txTimer = Larger(i - r.sinceTx, 0)] : i \in Jittered(e, TxInterval(r))}
    ELSE {[r EXCEPT !.txTimer = Off]}

\* transition: leaving Up cancels the Poll sequence.
Transition(r, to) ==
    IF r.state = "Up" /\ to # "Up"
    THEN [r EXCEPT !.state = to, !.poll = FALSE, !.pendingTx = None, !.pendingRx = None]
    ELSE [r EXCEPT !.state = to]

---------------------------------------------------------------------------
(* on_packet. *)

Discarded(r, p) ==
    \/ p.poll /\ p.final
    \/ p.your # NoDisc /\ p.your # r.disc
    \/ p.your = NoDisc /\ p.state \notin {"Down", "AdminDown"}
    \/ r.state = "AdminDown"

\* Mutant: a Final applies the intervals and leaves the Poll sequence running.
LearnKeepsPoll(r, p) ==
    LET l == [r EXCEPT !.rdisc = p.my, !.rtx = p.tx, !.rrx = p.rx]
    IN  IF l.poll /\ p.final
        THEN [l EXCEPT !.pendingTx = None, !.pendingRx = None,
                       !.tx = IF r.pendingTx = None THEN r.tx ELSE r.pendingTx,
                       !.rx = IF r.pendingRx = None THEN r.rx ELSE r.pendingRx]
        ELSE l

\* The remote variables; a Final ends the Poll sequence and applies what waited for it.
Learn(r, p) ==
    LET l == [r EXCEPT !.rdisc = p.my, !.rtx = p.tx, !.rrx = p.rx]
    IN  IF l.poll /\ p.final
        THEN [l EXCEPT !.poll = FALSE, !.pendingTx = None, !.pendingRx = None,
                       !.tx = IF r.pendingTx = None THEN r.tx ELSE r.pendingTx,
                       !.rx = IF r.pendingRx = None THEN r.rx ELSE r.pendingRx]
        ELSE l

\* Mutants: Up without Init; Init waits for Init; Down of the peer is ignored.
NextStateTwoWay(state, remote) ==
    CASE state = "Down" /\ remote \in {"Down", "Init"} -> "Up"
      [] state = "Up" /\ remote = "Down" -> "Down"
      [] OTHER -> state
NextStateInitOnly(state, remote) ==
    CASE state = "Down" /\ remote = "Down" -> "Init"
      [] state = "Down" /\ remote = "Init" -> "Up"
      [] state = "Init" /\ remote = "Init" -> "Up"
      [] state = "Up" /\ remote = "Down" -> "Down"
      [] OTHER -> state
NextStateDeaf(state, remote) ==
    CASE state = "Down" /\ remote = "Down" -> "Init"
      [] state = "Down" /\ remote = "Init" -> "Up"
      [] state = "Init" /\ remote \in {"Init", "Up"} -> "Up"
      [] OTHER -> state

NextState(state, remote) ==
    CASE remote = "AdminDown" -> "Down"
      [] state = "Down" /\ remote = "Down" -> "Init"
      [] state = "Down" /\ remote = "Init" -> "Up"
      [] state = "Init" /\ remote \in {"Init", "Up"} -> "Up"
      [] state = "Up" /\ remote = "Down" -> "Down"
      [] OTHER -> state

\* The state machine and the detection timer; m is the session they leave.
Moved(e, r, p) ==
    {[m EXCEPT !.detect = DetectionTime(e, m)] :
        m \in {Transition(l, NextState(r.state, p.state)) : l \in {Learn(r, p)}}}

\* The transmit timer restarts when it was not armed, or when the state or the peer's
\* required rx changed; it stops when transmission is no longer allowed.
Rearmed(e, r, m) ==
    IF r.txTimer = Off \/ r.state # m.state \/ r.rrx # m.rrx \/ ~ TxAllowed(e, m)
    THEN Arm(e, m) ELSE {m}

\* A change of state is announced, a Poll answered by a Final.
Replies(e, r, p, m) ==
    (IF r.state # m.state /\ TxAllowed(e, m) THEN <<Packet(m, FALSE)>> ELSE <<>>)
        \o (IF p.poll THEN <<Packet(m, TRUE)>> ELSE <<>>)

Sent(m, out) == [session |-> IF out = <<>> THEN m ELSE [m EXCEPT !.sinceTx = 0], out |-> out]

\* The outcomes of an accepted packet: the session and the packets it queues.
OnPacket(e, r, p) ==
    {Sent(m, Replies(e, r, p, m)) : m \in UNION {Rearmed(e, r, n) : n \in Moved(e, r, p)}}

---------------------------------------------------------------------------
(* tick. *)

\* The detection time passed.
OnDetect(e, o) ==
    {[o EXCEPT !.session = a] : a \in
        IF o.session.state \in {"Init", "Up"}
        THEN UNION {Arm(e, d) : d \in {[Transition(o.session, "Down") EXCEPT !.detect = Off]}}
        ELSE {[o.session EXCEPT !.detect = Off]}}

\* The transmit timer fired.
OnTx(e, o) ==
    IF TxAllowed(e, o.session)
    THEN {[session |-> a, out |-> Append(o.out, Packet(o.session, FALSE))] :
            a \in UNION {Arm(e, r) : r \in {[o.session EXCEPT !.sinceTx = 0]}}}
    ELSE {[o EXCEPT !.session.txTimer = Off]}

\* All timers that are due, in either order.
OnTick(e, r) ==
    LET nothing == {[session |-> r, out |-> <<>>]}
        Detect(os) == IF r.detect = 0 THEN UNION {OnDetect(e, o) : o \in os} ELSE os
        Transmit(os) == IF r.txTimer = 0 THEN UNION {OnTx(e, o) : o \in os} ELSE os
    IN  Transmit(Detect(nothing)) \cup Detect(Transmit(nothing))

---------------------------------------------------------------------------
(* The calls. *)

Event == events < MaxEvents /\ events' = events + 1

\* End e has outcome o; the packets inflight are left on the link.
Leave(e, o, inflight) ==
    /\ s' = [s EXCEPT ![e] = o.session]
    /\ chan' = [inflight EXCEPT ![Peer(e)] = @ \o o.out]

\* start in a new process.
Start(e) ==
    /\ e \notin alive
    /\ alive' = alive \cup {e}
    /\ incarnation' = [incarnation EXCEPT ![e] = @ + 1]
    /\ LET r == NewSession(e, incarnation[e] + 1)
           out == IF TxAllowed(e, r) THEN <<Packet(r, FALSE)>> ELSE <<>>
       IN  \E a \in Arm(e, r) : Leave(e, [session |-> a, out |-> out], chan)
    /\ reached' = reached \ {e}
    /\ missed' = [missed EXCEPT ![e] = 0]
    /\ UNCHANGED <<passive, overlap, broken, changed, events>>

Crash(e) ==
    /\ e \in alive
    /\ Event
    /\ alive' = alive \ {e}
    /\ s' = [s EXCEPT ![e] = NewSession(e, incarnation[e])]
    /\ UNCHANGED <<passive, chan, incarnation, reached, missed, overlap, broken, changed>>

\* feed_bytes with the next packet.
Receive(e) ==
    /\ e \in alive \ broken
    /\ chan[e] # <<>>
    /\ \E p \in {Head(chan[e])}, rest \in {[chan EXCEPT ![e] = Tail(@)]} :
           IF Discarded(s[e], p)
           THEN chan' = rest /\ UNCHANGED <<s, reached, missed>>
           ELSE /\ \E o \in OnPacket(e, s[e], p) : Leave(e, o, rest)
                /\ reached' = reached \cup {f \in {Peer(e)} : p.my = s[f].disc}
                /\ missed' = [missed EXCEPT ![e] = 0]
    /\ UNCHANGED <<alive, passive, incarnation, overlap, broken, changed, events>>

\* The link drops a packet; it drops all to an end that is dead or cut off.
Unreachable(e) == e \notin alive \/ e \in broken

Lose(e) ==
    /\ chan[e] # <<>>
    /\ IF Unreachable(e) THEN UNCHANGED events ELSE Event
    /\ chan' = [chan EXCEPT ![e] = Tail(@)]
    /\ missed' = [missed EXCEPT ![e] = Min({@ + 1, Mult[Peer(e)]})]
    /\ UNCHANGED <<s, alive, passive, incarnation, reached, overlap, broken, changed>>

\* One direction of the link fails for good.
Break(e) ==
    /\ broken = {}
    /\ Event
    /\ broken' = {e}
    /\ UNCHANGED <<s, alive, passive, chan, incarnation, reached, missed, overlap, changed>>

Tick(e) ==
    /\ e \in alive
    /\ s[e].detect = 0 \/ s[e].txTimer = 0
    /\ \E o \in OnTick(e, s[e]) : Leave(e, o, chan)
    /\ UNCHANGED <<alive, passive, incarnation, reached, missed, overlap, broken, changed, events>>

\* update_timers: while Up a longer tx and a shorter rx wait for the peer's Final.
UpdateTimers(e, tx, rx) ==
    /\ e \in alive
    /\ Event
    /\ changed' = TRUE
    /\ overlap' = (overlap \/ \E f \in End : s[f].poll)
    /\ LET r == s[e]
           live == r.state = "Up" /\ r.rdisc # NoDisc
           u == [r EXCEPT !.tx = IF live /\ tx > r.tx THEN @ ELSE tx,
                          !.pendingTx = IF live /\ tx > r.tx THEN tx ELSE None,
                          !.rx = IF live /\ rx < r.rx THEN @ ELSE rx,
                          !.pendingRx = IF live /\ rx < r.rx THEN rx ELSE None,
                          !.poll = live /\ (@ \/ tx # r.tx \/ rx # r.rx)]
       IN  \E a \in Arm(e, u) : s' = [s EXCEPT ![e] = a]
    /\ UNCHANGED <<alive, passive, chan, incarnation, reached, missed, broken>>

\* admin_down; a later start of the same session does nothing.
AdminDown(e) ==
    /\ e \in alive
    /\ s[e].state # "AdminDown"
    /\ Event
    /\ s' = [s EXCEPT ![e] = [Transition(@, "AdminDown") EXCEPT !.txTimer = Off, !.detect = Off]]
    /\ UNCHANGED <<alive, passive, chan, incarnation, reached, missed, overlap, broken, changed>>

---------------------------------------------------------------------------
(* Time. *)

MaxInterval == Max({IdleTx} \cup UNION {{Tx[e], Rx[e]} \cup UNION {{c[1], c[2]} : c \in Changes[e]} : e \in End})

Due(e) == e \in alive /\ (s[e].detect = 0 \/ s[e].txTimer = 0)

Advance ==
    /\ \A e \in End : chan[e] = <<>> /\ ~ Due(e)
    /\ s' = [e \in End |->
               IF e \notin alive THEN s[e]
               ELSE [s[e] EXCEPT !.detect = IF @ = Off THEN Off ELSE @ - 1,
                                 !.txTimer = IF @ = Off THEN Off ELSE @ - 1,
                                 !.sinceTx = Min({@ + 1, MaxInterval})]]
    /\ UNCHANGED <<alive, passive, chan, incarnation, reached, missed, overlap, broken, changed, events>>

---------------------------------------------------------------------------

Init ==
    /\ s = [e \in End |-> NewSession(e, 0)]
    /\ alive = {}
    /\ passive \in PassiveEnds
    /\ chan = [e \in End |-> <<>>]
    /\ incarnation = [e \in End |-> 0]
    /\ reached = {}
    /\ missed = [e \in End |-> 0] /\ overlap = FALSE /\ broken = {}
    /\ changed = FALSE /\ events = 0

Next ==
    \/ \E e \in End :
          \/ Start(e) \/ Crash(e) \/ Receive(e) \/ Lose(e) \/ Break(e) \/ Tick(e) \/ AdminDown(e)
          \/ \E c \in Changes[e] : UpdateTimers(e, c[1], c[2])
    \/ Advance

\* The supervisor keeps polling its sockets and timers, what is sent to a dead or
\* cut-off end is gone, and time passes.  Time only passes when there is nothing to
\* poll, so it is enough that one of these steps is taken.
Progress ==
    \/ \E e \in End : Receive(e) \/ Tick(e) \/ (Unreachable(e) /\ Lose(e))
    \/ Advance

Fairness == WF_vars(Progress)

Spec == Init /\ [][Next]_vars /\ Fairness

---------------------------------------------------------------------------
(* Properties. *)

Interval == 0..MaxInterval
Timer == Off..(MaxInterval * Max({Mult[e] : e \in End}))
States == {"AdminDown", "Down", "Init", "Up"}

\* Every variable has its type.
TypeOK ==
    /\ \A e \in End :
         /\ s[e].state \in States /\ s[e].poll \in BOOLEAN
         /\ {s[e].tx, s[e].rx, s[e].rtx, s[e].rrx, s[e].pendingTx, s[e].pendingRx,
             s[e].sinceTx} \subseteq Interval
         /\ s[e].txTimer \in Timer /\ s[e].detect \in Timer
         /\ missed[e] \in 0..Mult[Peer(e)]
    /\ alive \subseteq End /\ passive \subseteq End /\ reached \subseteq End

\* The handshake proves both directions: an end is Up only when the peer accepted
\* a packet it sent since it started (on_packet's discriminator checks and its
\* Down/Init/Up table).  An end that restarts with
\* the discriminator of its predecessor does not have this guarantee.
UpMeansHeard ==
    \A e \in alive :
        s[e].state = "Up" /\ (e \in Reuse => incarnation[e] <= 1) => e \in reached

\* The detection time of an Up session whose peer is Up passes only when the link
\* lost a packet, in one of the directions, since that direction last worked: neither
\* jitter, nor the idle floor, nor an interval change under a Poll sequence alone makes
\* a healthy session time out.  While nobody changes intervals it takes as many losses
\* towards this end as the multiplier tolerates.  A change that overlaps a running Poll
\* sequence is left out: a Final carries no sign of the change it answers.
NoFalseDown ==
    \A e \in alive :
        s[e].state = "Up" /\ s[e].detect = 0 /\ Peer(e) \in alive /\ s[Peer(e)].state = "Up"
          /\ ~ overlap
        => IF changed THEN missed[e] + missed[Peer(e)] > 0
           ELSE missed[e] >= Larger(Mult[Peer(e)] - 1, 1)

\* Two running ends, at least one Active, end up Up and stay Up, whatever was lost
\* and whoever restarted before; a Passive end must keep its discriminator over
\* restarts, because the Active one keeps addressing the last it learnt.
Steady ==
    /\ alive = End /\ passive # End /\ broken = {}
    /\ \A e \in End : s[e].state # "AdminDown" /\ (e \in passive \ Reuse => incarnation[e] <= 1)
SessionComesUp == <>[]Steady => <>[](\A e \in End : s[e].state = "Up")

\* When the peer is gone for good (dead, or administratively down), or one direction of
\* the link fails, an end leaves Up for good: it hears nothing and times out (DETECT in
\* tick), or hears the Down of the end that did.
Gone(e) == e \notin alive \/ s[e].state = "AdminDown"
LossDetected ==
    \A e \in End : <>[](Gone(Peer(e)) \/ broken # {}) => <>[](s[e].state # "Up")

\* A Poll sequence ends (poll_active), with the peer's Final or the end of Up, unless
\* an interval was changed while one ran.
PollEnds == \A e \in End : s[e].poll ~> (~ s[e].poll \/ overlap)

=============================================================================
