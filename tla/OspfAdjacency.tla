--------------------------- MODULE OspfAdjacency ---------------------------
(***************************************************************************)
(* One OSPF adjacency: the neighbor state machine (OspfNeighbor), the       *)
(* database exchange (DbExchange), the area database (Lsdb), flooding and   *)
(* the retransmission list of two routers on a link that loses packets.     *)
(*                                                                          *)
(* One datagram, one tick or one call of the daemon holds the router's lock *)
(* and is one action.  LSAs are their keys; an instance is the pair of key  *)
(* and sequence number, 0 standing for no instance.  Packets of one sender  *)
(* stay in order.                                                           *)
(***************************************************************************)
EXTENDS Integers, FiniteSets, Sequences, SequencesExt

CONSTANTS
    Router,        \* the two router IDs
    Key,           \* LSA keys, numbered in the order of LsaKey
    Own,           \* Own[p]: keys p originates
    Starts,        \* links (version of OSPF, pair of interface MTUs) and the pairs
                   \* of databases to start from on them
    PerPage,       \* headers that fit into a Database Description
    InitialSeq,    \* sequence numbers a new negotiation may start from
    MaxOriginate,  \* bound: new LSA instances
    MaxFaults      \* bound: lost packets, retransmissions that overtake the
                   \* answer, dead intervals and elections

ASSUME RouterAssumption == Router \subseteq Nat /\ Cardinality(Router) = 2
ASSUME KeyAssumption == Key \subseteq Nat /\ IsFiniteSet(Key)
ASSUME ExchangeAssumption ==
    PerPage \in Nat \ {0} /\ InitialSeq \subseteq Nat
ASSUME StartAssumption ==
    Starts \subseteq [link : [version : {2, 3}, mtu : [Router -> Nat]],
                      lsdb : [Router -> [Key -> Nat]]]
ASSUME BoundAssumption ==
    MaxOriginate \in Nat /\ MaxFaults \in Nat

VARIABLES
    link,       \* version of OSPF and interface MTUs, fixed
    nbr,        \* neighbor.state, "None" while the daemon has no session
    gate,       \* adjacency_viable: does the DR/BDR election allow the adjacency?
    ex,         \* DbExchange
    lsdb,       \* area database
    rxmt,       \* retransmission list: instance of each key, 0 if none
    chan,       \* chan[p]: packets on their way to p
    misacked,   \* <<p, k>>: an older instance's ack took k off p's list (history)
    originated, faults  \* bounded counters

vars == <<link, nbr, gate, ex, lsdb, rxmt, chan, misacked, originated, faults>>
bounds == <<originated, faults>>

Fault == faults < MaxFaults /\ faults' = faults + 1

Other(p) == CHOOSE q \in Router : q # p

Phases == {"ExStart", "Exchange", "Loading", "Full"}
NeighborStates == {"None", "Down", "Init", "TwoWay"} \cup Phases

---------------------------------------------------------------------------
(* Packets. *)

Dd(init, more, ms, seq, hdrs) ==
    [type |-> "DD", init |-> init, more |-> more, ms |-> ms, seq |-> seq, lsas |-> hdrs]
InitialDd(seq) == Dd(TRUE, TRUE, TRUE, seq, {})
NoDd == Dd(FALSE, FALSE, FALSE, 0, {})
LsRequest(keys) == [type |-> "LSR", keys |-> keys]
LsUpdate(lsas) == [type |-> "LSU", lsas |-> lsas]
LsAck(lsas) == [type |-> "ACK", lsas |-> lsas]

Instances(db, K) == {<<k, db[k]>> : k \in {k \in K : db[k] # 0}}

\* p reads its first packet and sends the packets ms.
ReadAndSend(p, ms) ==
    chan' = [chan EXCEPT ![p] = Tail(@), ![Other(p)] = @ \o ms]

Send(p, ms) == chan' = [chan EXCEPT ![Other(p)] = @ \o ms]

\* The packets of the exchange x carry its version (base_header), and demux_header
\* of the other end drops those of another.
Reaching(x, ms) == IF x.version = link.version THEN ms ELSE <<>>

---------------------------------------------------------------------------
(* DbExchange. *)

\* DbExchange::with_version.
NewExchange(version) ==
    [version |-> version, phase |-> "ExStart", master |-> FALSE, seq |-> 0,
     started |-> FALSE, cursor |-> 0, ourMore |-> TRUE, theirMore |-> TRUE, wanted |-> {}, lastLsr |-> {}, lastDd |-> NoDd]

\* initial_db_desc.
Initial(x, seq) ==
    LET s == IF x.started THEN x.seq ELSE seq
    IN  [x EXCEPT !.seq = s, !.started = TRUE, !.lastDd = InitialDd(s)]

\* Mutant: restart forgets to start over with the first page.
RestartedMidway(x) ==
    Initial([NewExchange(x.version) EXCEPT !.seq = x.seq + 1, !.cursor = x.cursor], x.seq + 1)

\* restart and initial_db_desc, as sequence_mismatch calls them.
Restarted(x) == Initial([NewExchange(x.version) EXCEPT !.seq = x.seq + 1], x.seq + 1)

\* next_our_chunk, sent under the flag ms and remembered.
Page(x, db, ms) ==
    LET present == {k \in Key : db[k] # 0}
        Rank(k) == Cardinality({j \in present : j < k})
        page == {k \in present : Rank(k) \in x.cursor..(x.cursor + PerPage - 1)}
        cursor == x.cursor + Cardinality(page)
        more == cursor < Cardinality(present)
    IN  [x EXCEPT !.cursor = cursor, !.ourMore = more,
                  !.lastDd = Dd(FALSE, more, ms, x.seq, Instances(db, page))]

\* process_their_headers: what to ask for, and what to send back because the
\* neighbor's instance is older.
Compared(x, db, hdrs) ==
    [x EXCEPT !.wanted = @ \cup {h[1] : h \in {h \in hdrs : h[2] > db[h[1]]}}]

SentBack(db, hdrs) ==
    LET older == {h[1] : h \in {h \in hdrs : h[2] < db[h[1]]}}
        order == SetToSortSeq(older, <)
    IN  [i \in DOMAIN order |-> LsUpdate(Instances(db, {order[i]}))]

\* finish_exchange.
Finished(x) ==
    IF x.wanted = {} THEN [x EXCEPT !.phase = "Full"]
    ELSE [x EXCEPT !.phase = "Loading", !.lastLsr = x.wanted]

Requests(x) == IF x.wanted = {} THEN <<>> ELSE <<LsRequest(x.wanted)>>

---------------------------------------------------------------------------
(* Received packets: pump_inbound, feed_input, handle_packet. *)

Session(p) == IF nbr[p] = "None" THEN "Down" ELSE nbr[p]

\* A Database Description takes Init and 2-Way to ExStart where the gate allows.
Opened(p) ==
    IF Session(p) \in {"Init", "TwoWay"}
    THEN IF gate[p] THEN "ExStart" ELSE "TwoWay" ELSE Session(p)

HasPacket(p, type) == chan[p] # <<>> /\ Head(chan[p]).type = type

\* The exchange of p becomes x, its neighbor state follows, ms go out.
Proceed(p, x, ms) ==
    /\ ex' = [ex EXCEPT ![p] = x]
    /\ nbr' = [nbr EXCEPT ![p] = x.phase]
    /\ ReadAndSend(p, Reaching(x, ms))
    /\ UNCHANGED <<link, gate, lsdb, rxmt, misacked, bounds>>

Mismatch(p) == Proceed(p, Restarted(ex[p]), <<Restarted(ex[p]).lastDd>>)

\* A packet that changes nothing but the neighbor state n.
Ignore(p, n) ==
    /\ nbr' = [nbr EXCEPT ![p] = n]
    /\ ReadAndSend(p, <<>>)
    /\ UNCHANGED <<link, gate, ex, lsdb, rxmt, misacked, bounds>>

HasDd(p) == /\ HasPacket(p, "DD")
            /\ Opened(p) \in Phases
            /\ link.mtu[Other(p)] <= link.mtu[p]

\* Below ExStart, or an MTU larger than ours.
DropDd(p) ==
    /\ HasPacket(p, "DD")
    /\ Opened(p) \notin Phases \/ link.mtu[Other(p)] > link.mtu[p]
    /\ Ignore(p, Opened(p))

\* ExStart, the neighbor is the master: adopt its number, send the first page.
BecomeSlave(p, d) ==
    LET x == Page([ex[p] EXCEPT !.started = TRUE, !.master = FALSE, !.seq = d.seq,
                                !.phase = "Exchange"], lsdb[p], FALSE)
    IN  /\ d.init /\ d.more /\ d.ms /\ d.lsas = {}
        /\ Other(p) > p
        /\ Proceed(p, x, <<x.lastDd>>)

\* ExStart, the slave echoed our number.
BecomeMaster(p, d) ==
    LET x == Page([Compared(ex[p], lsdb[p], d.lsas) EXCEPT !.started = TRUE, !.master = TRUE,
                       !.seq = @ + 1, !.phase = "Exchange"], lsdb[p], TRUE)
    IN  /\ ~d.init /\ ~d.ms
        /\ Other(p) < p
        /\ d.seq = ex[p].seq
        /\ Proceed(p, x, SentBack(lsdb[p], d.lsas) \o <<x.lastDd>>)

RecvDdExStart(p) ==
    LET d == Head(chan[p])
    IN  /\ HasDd(p)
        /\ ex[p].phase = "ExStart"
        /\ \/ BecomeSlave(p, d)
           \/ BecomeMaster(p, d)
           \/ /\ ~(d.init /\ d.more /\ d.ms /\ d.lsas = {} /\ Other(p) > p)
              /\ ~(~d.init /\ ~d.ms /\ Other(p) < p /\ d.seq = ex[p].seq)
              /\ Ignore(p, Opened(p))

\* Master in Exchange: the echo of our number.
MasterRound(p, d) ==
    LET y == Compared([ex[p] EXCEPT !.theirMore = d.more], lsdb[p], d.lsas)
        x == IF ~y.ourMore /\ ~y.theirMore THEN Finished(y)
             ELSE Page([y EXCEPT !.seq = @ + 1], lsdb[p], TRUE)
    IN  Proceed(p, x, SentBack(lsdb[p], d.lsas) \o
                      (IF x.phase = "Exchange" THEN <<x.lastDd>> ELSE Requests(x)))

\* Slave in Exchange: the master's next number.
SlaveRound(p, d) ==
    LET y == Page(Compared([ex[p] EXCEPT !.seq = d.seq, !.theirMore = d.more],
                           lsdb[p], d.lsas), lsdb[p], FALSE)
        x == IF ~y.ourMore /\ ~y.theirMore THEN Finished(y) ELSE y
    IN  Proceed(p, x, SentBack(lsdb[p], d.lsas) \o <<y.lastDd>> \o
                      (IF x.phase = "Exchange" THEN <<>> ELSE Requests(x)))

Expected(x, d) ==
    /\ ~d.init
    /\ d.ms = ~x.master
    /\ d.seq = IF x.master THEN x.seq ELSE x.seq + 1

RecvDdExchange(p) ==
    LET d == Head(chan[p])
    IN  /\ HasDd(p)
        /\ ex[p].phase = "Exchange"
        /\ IF ~Expected(ex[p], d) THEN Mismatch(p)
           ELSE IF ex[p].master THEN MasterRound(p, d) ELSE SlaveRound(p, d)

\* Loading, Full: the flags are compared with those of our own last packet.
SameDd(x, d) ==
    /\ d.init = x.lastDd.init /\ d.more = x.lastDd.more /\ d.ms = x.lastDd.ms
    /\ d.seq = x.lastDd.seq

RecvDdLate(p) ==
    LET d == Head(chan[p])
    IN  /\ HasDd(p)
        /\ ex[p].phase \in {"Loading", "Full"}
        /\ IF ~SameDd(ex[p], d) THEN Mismatch(p)
           ELSE Proceed(p, ex[p], IF ex[p].master THEN <<>> ELSE <<ex[p].lastDd>>)

\* on_ls_request.
RecvLsRequest(p) ==
    LET keys == Head(chan[p]).keys
    IN  /\ HasPacket(p, "LSR")
        /\ IF ex[p].phase = "ExStart" THEN Ignore(p, Session(p))
           ELSE IF \E k \in keys : lsdb[p][k] = 0 THEN Mismatch(p)
           ELSE Proceed(p, ex[p], <<LsUpdate(Instances(lsdb[p], keys))>>)

\* on_ls_update and Lsdb::install; the direct ack repeats the instances.
Installed(db, lsas) ==
    [k \in Key |-> IF \E l \in lsas : l[1] = k /\ l[2] > db[k]
                   THEN (CHOOSE l \in lsas : l[1] = k)[2] ELSE db[k]]

\* Mutant: requests are only ticked off while Loading.
SatisfiedLoading(x, lsas) ==
    LET left == x.wanted \ {l[1] : l \in lsas}
    IN  IF x.phase # "Loading" THEN x
        ELSE [x EXCEPT !.wanted = left, !.phase = IF left = {} THEN "Full" ELSE @]

Satisfied(x, lsas) ==
    LET left == x.wanted \ {l[1] : l \in lsas}
    IN  [x EXCEPT !.wanted = left,
                  !.phase = IF x.phase = "Loading" /\ left = {} /\ x.wanted # {}
                            THEN "Full" ELSE @]

RecvLsUpdate(p) ==
    LET lsas == Head(chan[p]).lsas
        x == IF ex[p].phase = "ExStart" THEN ex[p] ELSE Satisfied(ex[p], lsas)
    IN  /\ HasPacket(p, "LSU")
        /\ lsdb' = [lsdb EXCEPT ![p] = Installed(@, lsas)]
        /\ ex' = [ex EXCEPT ![p] = x]
        /\ nbr' = [nbr EXCEPT ![p] = IF x.phase = "ExStart" THEN Session(p) ELSE x.phase]
        /\ ReadAndSend(p, Reaching(x, <<LsAck(lsas)>>))
        /\ UNCHANGED <<link, gate, rxmt, misacked, bounds>>

\* apply_acks: matched by key, not by instance.
Acked(list, lsas) == [k \in Key |-> IF \E l \in lsas : l[1] = k THEN 0 ELSE list[k]]

RecvLsAck(p) ==
    LET lsas == Head(chan[p]).lsas
    IN  /\ HasPacket(p, "ACK")
        /\ rxmt' = [rxmt EXCEPT ![p] = Acked(@, lsas)]
        /\ misacked' = misacked \cup {<<p, l[1]>> : l \in {l \in lsas : l[2] < rxmt[p][l[1]]}}
        /\ nbr' = [nbr EXCEPT ![p] = Session(p)]
        /\ ReadAndSend(p, <<>>)
        /\ UNCHANGED <<link, gate, ex, lsdb, bounds>>

Receive(p) == \/ DropDd(p) \/ RecvDdExStart(p) \/ RecvDdExchange(p) \/ RecvDdLate(p)
              \/ RecvLsRequest(p) \/ RecvLsUpdate(p) \/ RecvLsAck(p)

---------------------------------------------------------------------------
(* Hello, the calls of the daemon, and the clock. *)

\* Entering ExStart emits the initial Database Description.
Enter(p, n, x) ==
    /\ nbr' = [nbr EXCEPT ![p] = n]
    /\ IF n = "ExStart" /\ ~x.started
       THEN \E s \in InitialSeq : /\ ex' = [ex EXCEPT ![p] = Initial(x, s)]
                                  /\ Send(p, Reaching(x, <<InitialDd(s)>>))
       ELSE /\ ex' = [ex EXCEPT ![p] = x]
            /\ UNCHANGED chan

\* The Hello lists the neighbors its sender has heard.
Heard(p) == nbr[p] \notin {"None", "Down"}

AfterHello(p) ==
    IF Session(p) = "Down" THEN "Init"
    ELSE IF ~Heard(Other(p)) \/ nbr[p] \in Phases THEN nbr[p]
    ELSE IF gate[p] THEN "ExStart" ELSE "TwoWay"

\* Only Hellos that change something are steps.
RecvHello(p) ==
    /\ \/ AfterHello(p) # nbr[p]
       \/ nbr[p] = "ExStart" /\ ~ex[p].started /\ Heard(Other(p))
    /\ Enter(p, AfterHello(p), ex[p])
    /\ UNCHANGED <<link, gate, lsdb, rxmt, misacked, bounds>>

\* set_ospf_dr_state.  A demotion makes the exchange anew with DbExchange::new: one
\* for OSPFv2, whatever the session speaks (and with the default RxmtInterval).
SetDrState(p) ==
    /\ IF gate[p] THEN Fault ELSE UNCHANGED faults
    /\ gate' = [gate EXCEPT ![p] = ~@]
    /\ IF gate[p]
       THEN IF nbr[p] \in Phases THEN Enter(p, "TwoWay", NewExchange(2)) ELSE Enter(p, nbr[p], ex[p])
       ELSE Enter(p, IF nbr[p] = "TwoWay" THEN "ExStart" ELSE nbr[p], ex[p])
    /\ UNCHANGED <<link, lsdb, rxmt, misacked, originated>>

\* pump_dead_timer: the next packet of the neighbor makes a new session.
NeighborDead(p) ==
    /\ Heard(p)
    /\ Fault
    /\ nbr' = [nbr EXCEPT ![p] = "None"]
    /\ ex' = [ex EXCEPT ![p] = NewExchange(link.version)]
    /\ rxmt' = [rxmt EXCEPT ![p] = [k \in Key |-> 0]]
    /\ UNCHANGED <<link, gate, lsdb, chan, misacked, originated>>

\* A new instance of an own LSA: install and ospf_flood.
Originate(p, k) ==
    LET n == lsdb[p][k] + 1
    IN  /\ originated < MaxOriginate
        /\ originated' = originated + 1
        /\ lsdb' = [lsdb EXCEPT ![p][k] = n]
        /\ IF nbr[p] = "None" THEN UNCHANGED <<rxmt, chan>>
           ELSE /\ rxmt' = [rxmt EXCEPT ![p][k] = n]
                /\ Send(p, <<LsUpdate({<<k, n>>})>>)
        /\ UNCHANGED <<link, nbr, gate, ex, misacked, faults>>

\* The packets of a retransmission leave after RxmtInterval: with nothing on
\* the way any more, or (bounded) before the answer has arrived.
Retransmit(p, ms) ==
    /\ IF \A q \in Router : chan[q] = <<>> THEN UNCHANGED faults ELSE Fault
    /\ Send(p, ms)
    /\ UNCHANGED <<link, nbr, gate, ex, lsdb, rxmt, misacked, originated>>

\* Mutant: the initial Database Description is not repeated.
PollDdExchangeOnly(p) ==
    /\ ex[p].phase = "Exchange"
    /\ ex[p].lastDd # NoDd
    /\ Retransmit(p, Reaching(ex[p], <<ex[p].lastDd>>))

\* DbExchange::poll.
PollDd(p) ==
    /\ ex[p].phase \in {"ExStart", "Exchange"}
    /\ ex[p].lastDd # NoDd
    /\ Retransmit(p, Reaching(ex[p], <<ex[p].lastDd>>))

PollLsRequest(p) ==
    /\ ex[p].phase = "Loading"
    /\ ex[p].wanted # {}
    /\ Retransmit(p, Reaching(ex[p], <<LsRequest(ex[p].lastLsr)>>))

\* LinkStateRetransmissionList::poll.
PollRetransmit(p) ==
    /\ nbr[p] # "None"
    /\ \E k \in Key : rxmt[p][k] # 0
    /\ Retransmit(p, <<LsUpdate(Instances(rxmt[p], Key))>>)

Poll(p) == PollDd(p) \/ PollLsRequest(p) \/ PollRetransmit(p)

Lose(p) ==
    /\ chan[p] # <<>>
    /\ Fault
    /\ chan' = [chan EXCEPT ![p] = Tail(@)]
    /\ UNCHANGED <<link, nbr, gate, ex, lsdb, rxmt, misacked, originated>>

---------------------------------------------------------------------------

Init ==
    /\ \E s \in Starts : link = s.link /\ lsdb = s.lsdb
    /\ nbr = [p \in Router |-> "None"]
    /\ gate = [p \in Router |-> TRUE]
    /\ ex = [p \in Router |-> NewExchange(link.version)]
    /\ rxmt = [p \in Router |-> [k \in Key |-> 0]]
    /\ chan = [p \in Router |-> <<>>]
    /\ misacked = {}
    /\ originated = 0
    /\ faults = 0

Next ==
    \E p \in Router : \/ Receive(p) \/ RecvHello(p) \/ Poll(p) \/ Lose(p)
                     \/ SetDrState(p) \/ NeighborDead(p)
                     \/ \E k \in Own[p] : Originate(p, k)

\* Packets that are not lost arrive, Hellos recur, and so do ticks, whatever is on
\* its way at one moment (hence SF).
Fairness ==
    \A p \in Router : /\ WF_vars(Receive(p))
                      /\ WF_vars(RecvHello(p))
                      /\ SF_vars(PollDd(p))
                      /\ SF_vars(PollLsRequest(p))
                      /\ SF_vars(PollRetransmit(p))

Spec == Init /\ [][Next]_vars /\ Fairness
---------------------------------------------------------------------------
(* Properties *)

Numbered(x) ==
    /\ x.version \in {2, 3} /\ x.phase \in Phases /\ x.master \in BOOLEAN /\ x.started \in BOOLEAN
    /\ x.seq \in Nat /\ x.cursor \in 0..Cardinality(Key)
    /\ x.wanted \subseteq Key /\ x.lastLsr \subseteq Key

\* Every variable has its type; the paging cursor stays within the database.
TypeOK ==
    /\ link \in {s.link : s \in Starts}
    /\ nbr \in [Router -> NeighborStates]
    /\ gate \in [Router -> BOOLEAN]
    /\ \A p \in Router : Numbered(ex[p])
    /\ lsdb \in [Router -> [Key -> Nat]]
    /\ rxmt \in [Router -> [Key -> Nat]]
    /\ \A p \in Router : \A i \in DOMAIN chan[p] : chan[p][i].type \in {"DD", "LSR", "LSU", "ACK"}

\* Full means synchronised: when both ends are Full, each has every instance of
\* the other or it is still on the other's retransmission list, whatever was
\* lost, repeated or originated on the way.  Instances that the ack of an older
\* one took off the list are left out (apply_acks compares keys only).
FullMeansSynced ==
    (\A p \in Router : ex[p].phase = "Full") =>
        \A p \in Router, k \in Key :
            \/ lsdb[p][k] <= lsdb[Other(p)][k]
            \/ rxmt[p][k] = lsdb[p][k]
            \/ <<p, k>> \in misacked

\* An LS Request only asks for news: what p still has to load is newer at the
\* neighbor than in p's own database, also when flooding brought it meanwhile.
RequestsAreNews ==
    \A p \in Router : \A k \in ex[p].wanted : lsdb[Other(p)][k] > lsdb[p][k]

\* After finitely many faults two routers with one MTU, between which elections
\* stop forbidding the adjacency, become and stay Full with equal databases, over
\* OSPFv2 and OSPFv3.  Left out is an OSPFv3 session that an election demoted and
\* that never died since: set_ospf_dr_state left it an exchange for OSPFv2, and it
\* never forms its adjacency again.
Synced == /\ \A p \in Router : nbr[p] = "Full"
          /\ misacked = {} => \A p, q \in Router : lsdb[p] = lsdb[q]

Able == \A p \in Router : gate[p] /\ ex[p].version = link.version

EventuallySynced ==
    (\A p, q \in Router : link.mtu[p] = link.mtu[q]) /\ <>[]Able => <>[]Synced
=============================================================================
