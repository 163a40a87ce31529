---------------------------- MODULE OspfElection ----------------------------
(***************************************************************************)
(* The routers of a broadcast segment under the OSPF daemon: the table of   *)
(* neighbors heard, the election of Designated Router and Backup, and the   *)
(* sessions whose adjacency the election allows or forbids.  The daemons of *)
(* OSPFv2 and OSPFv3 differ here only in the identity of a neighbor whose   *)
(* session a packet other than a Hello opened.                              *)
(*                                                                          *)
(* A pass of the daemon's loop (pump) is one action.  It reads all that has *)
(* arrived, elects, drops dead neighbors and may send a Hello.  A router is *)
(* its number: its router ID and its address on the segment.  0 is none.    *)
(* The loop runs many times in a Hello interval, so a Hello is sent after   *)
(* every receiver has read the one before.  Timers expire at any moment.    *)
(***************************************************************************)
EXTENDS Integers, FiniteSets, Functions

CONSTANTS
    MaxId,    \* the largest router ID: 2^32 - 1 in the code
    Router,   \* the routers of the segment
    Labs      \* what differs between segments: see LabAssumption

ASSUME RouterAssumption == MaxId \in Nat /\ Router \subseteq 1..MaxId
ASSUME LabAssumption ==
    \A l \in Labs : /\ l.version \in {2, 3}          \* of OSPF
                    /\ l.prio \in [Router -> 0..255]
                    /\ l.present \subseteq Router     \* routers that may run
                    /\ l.settled \subseteq l.present  \* those that have held their election,
                    /\ {l.dr, l.bdr} \subseteq l.settled \cup {0}   \* with this result
                    /\ l.dr # l.bdr \/ l.dr = 0
                    /\ l.faults \in Nat              \* bound

VARIABLES
    lab,     \* the member of Labs this behaviour is about
    node,    \* the interface of each router, Off while it does not run
    wire,    \* wire[s][r]: the Hello of s that r has not read, or NoHello
    faults   \* crashes, lost Hellos and dead intervals of a running neighbor so far

vars == <<lab, node, wire, faults>>

Off == [state |-> "Down", dr |-> 0, bdr |-> 0, dirty |-> FALSE, heard |-> <<>>, nbr |-> <<>>]
NoHello == [dr |-> 0, bdr |-> 0, seen |-> {0}]
On(r) == node[r].state # "Down"

\* f, and g where f is not defined.
Over(f, g) == [x \in DOMAIN f \cup DOMAIN g |-> IF x \in DOMAIN f THEN f[x] ELSE g[x]]

---------------------------------------------------------------------------
(* The election.  c[e] is what e claims, for every elector e. *)

\* pick: the highest priority, the highest router ID among equals; 0 if there is none.
Pick(C, prio) ==
    IF C = {} THEN 0
    ELSE CHOOSE e \in C : \A f \in C : prio[f] < prio[e] \/ (prio[f] = prio[e] /\ f <= e)

\* round: the Backup first, from those that do not claim to be Designated Router.
Round(c, prio) ==
    LET eligible == {e \in DOMAIN c : prio[e] > 0}
        claimDr == {e \in eligible : c[e].dr = e}
        rest == eligible \ claimDr
        claimBdr == {e \in rest : c[e].bdr = e}
        bdr == Pick(IF claimBdr # {} THEN claimBdr ELSE rest, prio)
    IN  [dr |-> IF claimDr # {} THEN Pick(claimDr, prio) ELSE bdr, bdr |-> bdr]

\* Does `was` name `self` where `is` does not, or the reverse?
Newly(self, was, is) == (was = self) # (is = self)

\* Mutant: no second round.
ElectOnce(c, prio, self) == Round(c, prio)

\* elect: a second round in which the router claims the roles it won or lost in the first.
Elect(c, prio, self) ==
    LET first == Round(c, prio)
        second == Round([c EXCEPT ![self] = first], prio)
        again == /\ prio[self] > 0
                 /\ \/ Newly(self, c[self].dr, first.dr)
                    \/ Newly(self, c[self].bdr, first.bdr)
    IN  IF ~again THEN first
        ELSE [dr |-> IF second.dr = 0 THEN second.bdr ELSE second.dr, bdr |-> second.bdr]

---------------------------------------------------------------------------
(* Sessions. *)

\* adjacency_viable: one side is Designated Router or Backup.  ip is 0 where the session
\* was made without the neighbor's address.
Viable(r, ip, dr, bdr) ==
    /\ {dr, bdr} # {0}
    /\ r \in {dr, bdr} \/ (ip # 0 /\ ip \in {dr, bdr})

\* AdjOk from 2-Way; "Adjacent" is ExStart and every later state.
AdjOk(r, x, dr, bdr) ==
    IF Viable(r, x.ip, dr, bdr) THEN [x EXCEPT !.state = "Adjacent"] ELSE x

\* handle_packet for a Hello that lists r or does not.
OnHello(r, x, dr, bdr, lists) ==
    CASE x.state = "Down" -> [x EXCEPT !.state = "Init"]
      [] x.state \in {"Init", "TwoWay"} /\ lists -> AdjOk(r, [x EXCEPT !.state = "TwoWay"], dr, bdr)
      [] OTHER -> x

\* handle_packet for a Database Description.
OnDbDesc(r, x, dr, bdr) ==
    IF x.state \in {"Init", "TwoWay"} THEN AdjOk(r, [x EXCEPT !.state = "TwoWay"], dr, bdr) ELSE x

\* Mutant: a session that no longer qualifies stays adjacent.
SetDrStateOpens(r, x, dr, bdr) == IF x.state = "TwoWay" THEN AdjOk(r, x, dr, bdr) ELSE x

\* set_ospf_dr_state.  A session's dr and bdr are those of its interface: the daemon pushes
\* them when it makes the session and after every election.
SetDrState(r, x, dr, bdr) ==
    CASE x.state = "TwoWay" -> AdjOk(r, x, dr, bdr)
      [] x.state = "Adjacent" /\ ~Viable(r, x.ip, dr, bdr) -> [x EXCEPT !.state = "TwoWay"]
      [] OTHER -> x

---------------------------------------------------------------------------
(* The parts of a pass. *)

\* A Hello of s changes the electors, or what s claims for itself.
NeighborChange(n, r, s, h) ==
    IF s \in DOMAIN n.heard
    THEN \/ (n.heard[s].dr = s) # (h.dr = s)
         \/ (n.heard[s].bdr = s) # (h.bdr = s)
         \/ r \in h.seen /\ ~n.heard[s].two
    ELSE r \in h.seen

\* track_hello, for all Hellos that have arrived.
TrackHello(n, r, hs) ==
    [n EXCEPT
        !.heard = Over([s \in DOMAIN hs |->
                          [two |-> r \in hs[s].seen, dr |-> hs[s].dr, bdr |-> hs[s].bdr]], @),
        !.dirty = @ \/ \E s \in DOMAIN hs : NeighborChange(n, r, s, hs[s])]

\* The session of s, made if need be.
Session(n, s) ==
    IF s \in DOMAIN n.nbr THEN n.nbr[s]
    ELSE [state |-> "Down", ip |-> IF lab.version = 3 \/ s \in DOMAIN n.heard THEN s ELSE 0]

\* pump_inbound: the Hellos hs and Database Descriptions of dds, other routers.
Inbound(n, r, hs, dds) ==
    LET t == TrackHello(n, r, hs)
        fed == [s \in DOMAIN hs \cup dds |->
                  IF s \in dds THEN OnDbDesc(r, Session(t, s), t.dr, t.bdr)
                  ELSE OnHello(r, Session(t, s), t.dr, t.bdr, r \in hs[s].seen)]
    IN  [t EXCEPT !.nbr = Over(fed, @)]

\* run_election over the neighbors heard in both directions and not late, and r itself.
\* Every interface has an address (or Router ID), so the guards on a zero self_ip are left out.
RunElection(n, r, late) ==
    LET electors == {s \in DOMAIN n.heard \ late : n.heard[s].two} \cup {r}
        claim(e) == IF e = r THEN [dr |-> n.dr, bdr |-> n.bdr]
                    ELSE [dr |-> n.heard[e].dr, bdr |-> n.heard[e].bdr]
        won == Elect([e \in electors |-> claim(e)], lab.prio, r)
    IN  [n EXCEPT !.dr = won.dr, !.bdr = won.bdr, !.dirty = FALSE,
                  !.state = IF r = won.dr THEN "Dr" ELSE IF r = won.bdr THEN "Backup" ELSE "DrOther",
                  !.nbr = [s \in DOMAIN @ |-> SetDrState(r, @[s], won.dr, won.bdr)]]

\* pump_election.
Election(n, r, waited, late) == IF n.dirty \/ waited THEN RunElection(n, r, late) ELSE n

\* Mutant: the session is closed, the neighbor stays in the table.
DeadTimerKeepsHeard(n, late) ==
    [n EXCEPT !.nbr = Restrict(@, DOMAIN @ \ late), !.dirty = @ \/ late \cap DOMAIN n.nbr # {}]

\* Mutant: the death of a neighbor is no NeighborChange.
DeadTimerQuiet(n, late) ==
    [n EXCEPT !.heard = Restrict(@, DOMAIN @ \ late), !.nbr = Restrict(@, DOMAIN @ \ late)]

\* pump_dead_timer: the election comes with the next pass.
DeadTimer(n, late) ==
    [n EXCEPT !.heard = Restrict(@, DOMAIN @ \ late), !.nbr = Restrict(@, DOMAIN @ \ late),
              !.dirty = @ \/ late \cap DOMAIN n.nbr # {}]

---------------------------------------------------------------------------
(* A pass, and the segment. *)

Fault == faults < lab.faults /\ faults' = faults + 1

Adjacent(r, s) == s \in DOMAIN node[r].nbr /\ node[r].nbr[s].state = "Adjacent"

Pending(r) == {s \in Router : wire[s][r] # NoHello}

\* pump_hellos: what r's Hello says.
Hello(n) == [dr |-> n.dr, bdr |-> n.bdr, seen |-> DOMAIN n.heard]

\* pump: dds have sent Database Descriptions, the wait timer has expired or not, the dead
\* intervals of late are over, the Hello interval is over (sends) or not.
Pass(r, dds, waited, late, sends) ==
    LET hs == [s \in Pending(r) |-> wire[s][r]]
        n == DeadTimer(Election(Inbound(node[r], r, hs, dds), r, waited, late), late)
    IN  /\ node' = [node EXCEPT ![r] = n]
        /\ wire' = [s \in Router |->
                      IF s = r /\ sends
                      THEN [p \in Router |-> IF p # r /\ On(p) THEN Hello(n) ELSE NoHello]
                      ELSE [wire[s] EXCEPT ![r] = NoHello]]
        /\ UNCHANGED lab

Read(r) == On(r) /\ Pending(r) # {} /\ Pass(r, {}, FALSE, {}, FALSE) /\ UNCHANGED faults

\* A neighbor adjacent to r on its side retransmits, and no Hello of it is on the wire.
ReadDbDesc(r) ==
    \E s \in Router \ ({r} \cup Pending(r)) :
        /\ On(r) /\ On(s)
        /\ Adjacent(s, r)
        /\ Pass(r, {s}, FALSE, {}, FALSE)
        /\ UNCHANGED faults

Elects(r) == On(r) /\ node[r].dirty /\ Pass(r, {}, FALSE, {}, FALSE) /\ UNCHANGED faults

\* The wait timer runs for a dead interval: a neighbor that has held its election is heard
\* before it expires, unless its Hellos were lost.
WaitTimer(r) ==
    /\ node[r].state = "Waiting"
    /\ IF \E s \in Router \ {r} : node[s].state \notin {"Down", "Waiting"}
       THEN Fault ELSE UNCHANGED faults
    /\ Pass(r, {}, TRUE, {}, FALSE)

SendHello(r) ==
    /\ On(r)
    /\ \A p \in Router : wire[r][p] = NoHello
    /\ Pass(r, {}, FALSE, {}, TRUE)
    /\ UNCHANGED faults

\* The dead interval of s is over: s does not run, or its Hellos were lost.
Dead(r, s) ==
    /\ On(r) /\ s \in DOMAIN node[r].heard \ Pending(r)
    /\ IF On(s) THEN Fault ELSE UNCHANGED faults
    /\ Pass(r, {}, FALSE, {s}, FALSE)

Lose(s, r) ==
    /\ wire[s][r] # NoHello
    /\ Fault
    /\ wire' = [wire EXCEPT ![s][r] = NoHello]
    /\ UNCHANGED <<lab, node>>

Started(r) == [Off EXCEPT !.state = IF lab.prio[r] > 0 THEN "Waiting" ELSE "DrOther"]

Start(r) ==
    /\ r \in lab.present /\ ~On(r)
    /\ node' = [node EXCEPT ![r] = Started(r)]
    /\ UNCHANGED <<lab, wire, faults>>

Crash(r) ==
    /\ On(r)
    /\ Fault
    /\ node' = [node EXCEPT ![r] = Off]
    /\ wire' = [s \in Router |-> [wire[s] EXCEPT ![r] = NoHello]]
    /\ UNCHANGED lab

\* r in a segment that has held its election.
Settled(r) ==
    LET others == lab.settled \ {r}
        claim == [two |-> TRUE, dr |-> lab.dr, bdr |-> lab.bdr]
        adjacent(s) == Viable(r, s, lab.dr, lab.bdr)
    IN  [Off EXCEPT !.state = IF r = lab.dr THEN "Dr" ELSE IF r = lab.bdr THEN "Backup" ELSE "DrOther",
                    !.dr = lab.dr, !.bdr = lab.bdr, !.heard = [s \in others |-> claim],
                    !.nbr = [s \in others |->
                        [state |-> IF adjacent(s) THEN "Adjacent" ELSE "TwoWay", ip |-> s]]]

Init ==
    /\ lab \in Labs
    /\ node = [r \in Router |-> IF r \in lab.settled THEN Settled(r) ELSE Off]
    /\ wire = [s \in Router |-> [r \in Router |-> NoHello]]
    /\ faults = 0

Next ==
    \/ \E r \in Router :
        Read(r) \/ ReadDbDesc(r) \/ Elects(r) \/ WaitTimer(r) \/ SendHello(r) \/ Start(r) \/ Crash(r)
    \/ \E r, s \in Router : Dead(r, s) \/ Lose(r, s)

Spec == Init /\ [][Next]_vars

\* Each pass of a running daemon reads what has arrived, holds the election that is due and
\* drops the neighbors that fell silent; the wait timer expires, and the Hello interval.
Fairness ==
    \A r \in Router :
        /\ []<>(Pending(r) = {})
        /\ []<>(~node[r].dirty /\ node[r].state # "Waiting")
        /\ []<>(\A s \in DOMAIN node[r].heard : On(s))
        /\ []<>(On(r) => \A s \in Router \ {r} : On(s) => wire[r][s] # NoHello)

FairSpec == Spec /\ Fairness

---------------------------------------------------------------------------
(* Properties. *)

\* Types, and every neighbor in the table has a session: pump_dead_timer asks for an
\* election only where it finds the session of the neighbor it drops.
TypeOK ==
    /\ lab \in Labs
    /\ \A r \in Router :
        LET n == node[r]
        IN  /\ n.state \in {"Down", "Waiting", "DrOther", "Backup", "Dr"}
            /\ {n.dr, n.bdr} \subseteq Router \cup {0}
            /\ n.dirty \in BOOLEAN
            /\ DOMAIN n.heard \subseteq DOMAIN n.nbr
            /\ DOMAIN n.nbr \subseteq Router \ {r}
            /\ \A s \in DOMAIN n.nbr : /\ n.nbr[s].state \in {"Down", "Init", "TwoWay", "Adjacent"}
                                       /\ n.nbr[s].ip \in {0, s}
    /\ faults \in 0..lab.faults

\* No router takes itself for Designated Router and Backup at once: the promise of elect
\* ("this guarantees no router ends up declaring itself both DR and BDR").
NeverBoth == \A r \in Router : On(r) => ~(node[r].dr = r /\ node[r].bdr = r)

\* A session that reached 2-Way is adjacent exactly when the latest election of its
\* interface allows it, whichever of Hello, Database Description, election and death of a
\* neighbor came last: what set_ospf_dr_state and handle_packet keep up together.
AdjacencyFollowsElection ==
    \A r \in Router : \A s \in DOMAIN node[r].nbr :
        LET x == node[r].nbr[s]
            viable == Viable(r, x.ip, node[r].dr, node[r].bdr)
        IN  (x.state = "Adjacent" => viable) /\ (x.state = "TwoWay" => ~viable)

\* The segment agrees: one Designated Router and one Backup, both running and eligible, a
\* Backup where two routers are eligible, and every router adjacent to both.
Running == {r \in Router : On(r)}
Eligible == {r \in Running : lab.prio[r] > 0}
Nameless(r, s) == s \in DOMAIN node[r].nbr /\ node[r].nbr[s].ip = 0
Agreed ==
    /\ \A r, s \in Running : node[r].dr = node[s].dr /\ node[r].bdr = node[s].bdr
    /\ \A r \in Running :
        /\ IF Eligible = {} THEN node[r].dr = 0 ELSE node[r].dr \in Eligible
        /\ IF Cardinality(Eligible) < 2 THEN node[r].bdr = 0
           ELSE node[r].bdr \in Eligible \ {node[r].dr}
    /\ \A r \in Running : \A s \in Running \ {r} :
        r \in {node[s].dr, node[s].bdr} => Adjacent(r, s) /\ (Adjacent(s, r) \/ Nameless(s, r))

\* Once crashes and losses stop, the segment agrees for good.  Each router elects from its
\* own table, at its own time, and only when track_hello or the dead timer saw a change; no
\* order of Hellos, deaths and elections leaves two routers with different results.
Agree == <>[]Agreed

\* A session whose neighbor is Designated Router or Backup does not stay in 2-Way: "a
\* bidirectional neighbor that now qualifies advances to ExStart" (set_ospf_dr_state).
NeighborQualifies ==
    \A r \in Router : \A s \in DOMAIN node[r].nbr :
        s \in {node[r].dr, node[r].bdr} => node[r].nbr[s].state # "TwoWay"
=============================================================================
