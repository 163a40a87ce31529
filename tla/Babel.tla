-------------------------------- MODULE Babel --------------------------------
(***************************************************************************)
(* lr daemons that speak Babel over point-to-point links, one Babel session *)
(* per interface.  A session has a route table (BabelRouteTable) with one   *)
(* feasibility distance per prefix; what its best route is at the end of a  *)
(* frame or an expiry sweep is diffed against what the session published    *)
(* before (BabelRuntime::diff) and the difference goes into the router's    *)
(* direct_rib.  Once a period the daemon polls its links, sweeps, and       *)
(* announces on every interface: its own prefix, the best routes of the     *)
(* other interfaces, and a retraction of what it no longer reaches.         *)
(*                                                                          *)
(* One prefix.  Every daemon has one configured router-id, its number; all  *)
(* use the same hello interval, which is the unit of time.                  *)
(***************************************************************************)
EXTENDS Integers, Sequences, SequencesExt, FiniteSets

CONSTANTS
    Router,      \* the daemons; their numbers are the router-ids and the session order
    Link,        \* pairs {r, n}
    Origin,      \* the daemons that may have the prefix as a static route
    Boot,        \* what a behaviour may start with: static routes, links that work
    CheckLink,   \* interfaces <<r, n>> with `check link`
    SeqnoMod,    \* sequence numbers are modulo this (2^16 in the code)
    MaxMetric,   \* the largest finite metric (0xfffe in the code)
    Hold,        \* periods a route lives without being announced again
    FaultKinds,  \* which of "loss", "link", "restart" and "static" may happen
    MaxFaults    \* bound: how many of them happen

ASSUME BabelAssumption ==
    /\ Router \subseteq Nat /\ Origin \subseteq Router
    /\ \A e \in Link : e \subseteq Router /\ Cardinality(e) = 2
    /\ SeqnoMod \in Nat \ {0} /\ SeqnoMod % 2 = 0 /\ MaxMetric \in Nat \ {0} /\ Hold \in Nat

VARIABLES
    static,      \* daemons that hold the prefix in static_routes
    routes,      \* routes[i]: the route table of interface i = <<r, n>>
    fd,          \* fd[i]: its feasibility distance, {} while there is none
    lastId,      \* lastId[i]: the last Router-Id TLV the session read, 0 if none
    published,   \* published[i]: the route the session last published, {} if none
    direct,      \* direct[r]: the router's direct_rib entry
    seqno,       \* seqno[i]: the announcement seqno of an Origin's interface
    sig,         \* sig[i]: last_sig, the content of its last announcement
    advertised,  \* advertised[i]: claims re-advertised on i and not retracted
    linkUp,      \* interfaces the daemon believes up
    wire,        \* links that carry frames
    net,         \* net[<<r, n>>]: <<f>>, the frame r sent that n has not read, or <<>>
    done,        \* daemons that announced in this period
    dropped,     \* daemons where one session's withdrawal took the direct_rib entry
                 \* while another session publishes a route (history)
    faults       \* counts what MaxFaults bounds

vars == <<static, routes, fd, lastId, published, direct, seqno, sig, advertised, linkUp,
          wire, net, done, dropped, faults>>

Iface == {i \in Router \X Router : {i[1], i[2]} \in Link}
Peers(r) == {n \in Router : <<r, n>> \in Iface}
Back(i) == <<i[2], i[1]>>

Infinity == MaxMetric + 1

---------------------------------------------------------------------------
(* The route table of one session. *)

\* (a as i16).wrapping_sub(b as i16) > 0
Newer(a, b) == (a - b) % SeqnoMod \in 1..(SeqnoMod \div 2 - 1)

Feasible(u, f) == Newer(u.seqno, f.seqno) \/ (u.seqno = f.seqno /\ u.metric < f.metric)

Claim(q) == [seqno |-> q.seqno, metric |-> q.metric]

\* The first of the routes with the lowest metric, in key order.
Best(R) == CHOOSE q \in R : \A p \in R :
               q.metric < p.metric \/ (q.metric = p.metric /\ q.rid <= p.rid)
BestOf(R) == IF R = {} THEN {} ELSE {Best(R)}

\* insert_timed: the same claim again only renews the timer, an infeasible one is ignored.
InsertTimed(t, u) ==
    LET old == {q \in t.routes : q.rid = u.rid} IN
    CASE \E q \in old : Claim(q) = Claim(u) ->
            [t EXCEPT !.routes = (@ \ old) \cup {u}]
      [] \A q \in old : Claim(q) # Claim(u) ->
            IF \E f \in t.fd : ~Feasible(u, f) THEN t
            ELSE [routes |-> (t.routes \ old) \cup {u}, fd |-> {Claim(u)}]

\* Mutant: the distance outlives the routes it was learned from.
WithdrawKeepsFd(t, rid) == [t EXCEPT !.routes = {q \in @ : q.rid # rid}]

\* withdraw: when the selected route goes, the distance is forgotten.
Withdraw(t, rid) ==
    [routes |-> {q \in t.routes : q.rid # rid},
     fd     |-> IF \E q \in BestOf(t.routes) : q.rid = rid THEN {} ELSE t.fd]

Expired(R) == {q.rid : q \in {p \in R : p.age > Hold}}

\* expire: the lapsed keys are withdrawn one after the other.
Expire(t) == FoldLeft(Withdraw, t, SetToSortSeq(Expired(t.routes), <))

---------------------------------------------------------------------------
(* BabelRuntime: one Update, one frame. *)

\* The link cost is 1: the IHU that carries it precedes the Updates of every frame.
ApplyUpdate(r, t, u) ==
    CASE u.metric = Infinity -> Withdraw(t, u.rid)
      [] u.metric # Infinity /\ u.rid = r -> t
      [] u.metric # Infinity /\ u.rid # r ->
            InsertTimed(t, [u EXCEPT !.metric = IF @ + 1 > MaxMetric THEN MaxMetric ELSE @ + 1])

HandleFrame(r, t, frame) ==
    LET f[k \in 0..Len(frame)] ==
            IF k = 0 THEN t ELSE ApplyUpdate(r, f[k - 1], frame[k])
    IN  f[Len(frame)]

Table(i) == [routes |-> routes[i], fd |-> fd[i]]
NoTable == [routes |-> {}, fd |-> {}]

\* The route published for the Loc-RIB: seqno and router-id ride as attributes, and
\* origin.peer is the session's last Router-Id, whichever Updates it stood before.
Published(t, id) ==
    {[rid |-> q.rid, seqno |-> q.seqno, metric |-> q.metric, peer |-> id] : q \in BestOf(t.routes)}

\* A frame has the sender's Router-Id and then one before each group of Updates.
LastId(i, frame) == IF frame = <<>> THEN i[2] ELSE Last(frame).rid

---------------------------------------------------------------------------
(* The announcement of an interface. *)

\* babel_reachable: the best route of every other session, one per source claim.
ReachableFrom(tab, i) ==
    LET cands == UNION {{[rid |-> q.rid, seqno |-> q.seqno, metric |-> q.metric, via |-> n]
                           : q \in BestOf(tab[<<i[1], n>>].routes)} : n \in Peers(i[1]) \ {i[2]}}
        best(k) == CHOOSE c \in {d \in cands : d.rid = k} : \A d \in cands : d.rid = k =>
                       c.metric < d.metric \/ (c.metric = d.metric /\ c.via <= d.via)
    IN  {[rid |-> k, seqno |-> best(k).seqno, metric |-> best(k).metric] : k \in {c.rid : c \in cands}}

\* babel_announcement_signature: the seqno of a claim is not part of it.
Signature(r, reach) == [own |-> r \in static, foreign |-> {[rid |-> c.rid, metric |-> c.metric] : c \in reach}]
NoSignature == [own |-> FALSE, foreign |-> {}]

ByRid(c, d) == c.rid <= d.rid
NoAge(c) == [rid |-> c.rid, seqno |-> c.seqno, metric |-> c.metric, age |-> 0]

\* Retractions: what the interface advertised and no longer reaches.
Retracted(i, reach) == {a \in advertised[i] : \A c \in reach : c.rid # a.rid}

Frame(i, reach, sn) ==
    (IF i[1] \in static THEN <<[rid |-> i[1], seqno |-> sn, metric |-> 0, age |-> 0]>> ELSE <<>>)
    \o SetToSortSeq({NoAge(c) : c \in reach}, ByRid)
    \o SetToSortSeq({[rid |-> a.rid, seqno |-> a.seqno, metric |-> Infinity, age |-> 0]
                       : a \in Retracted(i, reach)}, ByRid)

---------------------------------------------------------------------------
Init ==
    /\ \E b \in Boot : static = b.static /\ wire = b.wire
    /\ routes = [i \in Iface |-> {}] /\ fd = [i \in Iface |-> {}]
    /\ lastId = [i \in Iface |-> 0] /\ published = [i \in Iface |-> {}] /\ direct = [r \in Router |-> {}]
    /\ seqno = [i \in Iface |-> 0]
    /\ sig = [i \in Iface |-> NoSignature] /\ advertised = [i \in Iface |-> {}]
    /\ linkUp = Iface
    /\ net = [i \in Iface |-> <<>>] /\ done = {} /\ dropped = {} /\ faults = 0

Mine(r) == {i \in Iface : i[1] = r}

\* diff, apply_runtime_delta: the router's entry after one session's best moved.
Merged(entry, i, old, new) ==
    CASE new # {} /\ new # old ->
            {[rid |-> q.rid, seqno |-> q.seqno, metric |-> q.metric, via |-> i[2]] : q \in new}
      [] new = {} /\ old # {} -> {}
      [] OTHER -> entry

\* babel_flush_session, babel_gc: of a sweep's delta only a withdrawal is ever applied,
\* as gc returns an empty delta when nothing was withdrawn.
SweptDirect(entry, sessions, tab) ==
    IF \E i \in sessions : published[i] # {} /\ tab[i].routes = {} THEN {} ELSE entry

\* After the sessions W of r, if any, have withdrawn the route.
NoteDropped(r, W) ==
    dropped' = {d \in dropped \cup (IF W = {} THEN {} ELSE {r}) :
                   direct'[d] = {} /\ \E j \in Mine(d) : published'[j] # {}}

\* The frames r has sent are read before it announces again, by whoever still reads.
Quiet(i) == net[i] = <<>> \/ Back(i) \notin linkUp

\* The first pass of r's loop in a period: link poll, expiry sweep, announcements.
Period(r) ==
    /\ r \notin done
    /\ \A i \in Mine(r) : Quiet(i)
    /\ \E up \in {{i \in Mine(r) : IF i \in CheckLink THEN {i[1], i[2]} \in wire ELSE i \in linkUp}} :
       \E lost \in {(Mine(r) \cap linkUp) \ up} :
       \E swept \in {{i \in Mine(r) \ lost : Expired(routes[i]) # {}}} :
       \E tab \in {[i \in Iface |-> IF i \in lost THEN NoTable
                                    ELSE IF i \in swept THEN Expire(Table(i)) ELSE Table(i)]} :
       \E reach \in {[i \in up |-> ReachableFrom(tab, i)]} :
       \E moved \in {{i \in up : r \in Origin /\ Signature(r, reach[i]) # sig[i]}} :
          /\ linkUp' = (linkUp \ Mine(r)) \cup up
          /\ routes' = [i \in Iface |-> tab[i].routes]
          /\ fd' = [i \in Iface |-> tab[i].fd]
          /\ published' = [i \in Iface |-> IF i \in lost \cup swept THEN Published(tab[i], lastId[i]) ELSE published[i]]
          /\ direct' = [direct EXCEPT ![r] = SweptDirect(@, lost \cup swept, tab)]
          /\ NoteDropped(r, {i \in lost \cup swept : published[i] # {} /\ tab[i].routes = {}})
          /\ seqno' = [i \in Iface |-> IF i \in moved THEN (seqno[i] + 1) % SeqnoMod ELSE seqno[i]]
          /\ sig' = [i \in Iface |-> IF i \in moved THEN Signature(r, reach[i]) ELSE sig[i]]
          /\ advertised' = [i \in Iface |->
                IF i \in up THEN {[rid |-> c.rid, seqno |-> c.seqno] : c \in reach[i]} ELSE advertised[i]]
          /\ net' = [i \in Iface |->
                IF i \in up /\ {i[1], i[2]} \in wire THEN <<Frame(i, reach[i], seqno'[i])>> ELSE net[i]]
    /\ done' = done \cup {r}
    /\ UNCHANGED <<static, lastId, wire, faults>>

\* feed_input for a Babel session: the frame, the diff, the router's direct_rib.
Receive(i) ==
    /\ i \in linkUp /\ net[Back(i)] # <<>>
    /\ \E t \in {HandleFrame(i[1], Table(i), Head(net[Back(i)]))} :
       \E new \in {Published(t, LastId(i, Head(net[Back(i)])))} :
          /\ routes' = [routes EXCEPT ![i] = t.routes]
          /\ fd' = [fd EXCEPT ![i] = t.fd]
          /\ lastId' = [lastId EXCEPT ![i] = LastId(i, Head(net[Back(i)]))]
          /\ published' = [published EXCEPT ![i] = new]
          /\ direct' = [direct EXCEPT ![i[1]] = Merged(@, i, published[i], new)]
          /\ NoteDropped(i[1], IF published[i] # {} /\ new = {} THEN {i} ELSE {})
    /\ net' = [net EXCEPT ![Back(i)] = <<>>]
    /\ UNCHANGED <<static, seqno, sig, advertised, linkUp, wire, done, faults>>

\* A period has passed everywhere.
Tick ==
    /\ done = Router /\ \A i \in Iface : Quiet(i)
    /\ done' = {}
    /\ routes' = [i \in Iface |-> {[q EXCEPT !.age = IF @ > Hold THEN @ ELSE @ + 1] : q \in routes[i]}]
    /\ UNCHANGED <<static, fd, lastId, published, direct, seqno, sig, advertised, linkUp, wire, net,
                   dropped, faults>>

---------------------------------------------------------------------------
(* What happens to the daemons: a lost frame, a link that fails or returns, a    *)
(* restart, a static route added or removed.                                     *)

Fault(kind) == kind \in FaultKinds /\ faults < MaxFaults /\ faults' = faults + 1

Lose(i) ==
    /\ Fault("loss") /\ net[i] # <<>>
    /\ net' = [net EXCEPT ![i] = <<>>]
    /\ UNCHANGED <<static, routes, fd, lastId, published, direct, seqno, sig, advertised, linkUp,
                   wire, done, dropped>>

LinkFails(e) ==
    /\ Fault("link") /\ e \in wire
    /\ wire' = wire \ {e}
    /\ UNCHANGED <<static, routes, fd, lastId, published, direct, seqno, sig, advertised, linkUp,
                   net, done, dropped>>

LinkReturns(e) ==
    /\ Fault("link") /\ e \notin wire
    /\ wire' = wire \cup {e}
    /\ UNCHANGED <<static, routes, fd, lastId, published, direct, seqno, sig, advertised, linkUp,
                   net, done, dropped>>

\* A new process with a random announcement seqno; what waits for the old one is gone.
Restart(r) ==
    /\ Fault("restart")
    /\ routes' = [i \in Iface |-> IF i[1] = r THEN {} ELSE routes[i]]
    /\ fd' = [i \in Iface |-> IF i[1] = r THEN {} ELSE fd[i]]
    /\ lastId' = [i \in Iface |-> IF i[1] = r THEN 0 ELSE lastId[i]]
    /\ published' = [i \in Iface |-> IF i[1] = r THEN {} ELSE published[i]]
    /\ direct' = [direct EXCEPT ![r] = {}] /\ dropped' = dropped \ {r}
    /\ \E boot \in IF r \in Origin THEN 0..(SeqnoMod - 1) ELSE {0} :
          seqno' = [i \in Iface |-> IF i[1] = r THEN boot ELSE seqno[i]]
    /\ sig' = [i \in Iface |-> IF i[1] = r THEN NoSignature ELSE sig[i]]
    /\ advertised' = [i \in Iface |-> IF i[1] = r THEN {} ELSE advertised[i]]
    /\ linkUp' = linkUp \cup Mine(r)
    /\ net' = [i \in Iface |-> IF i[2] = r THEN <<>> ELSE net[i]]
    /\ UNCHANGED <<static, wire, done>>

SetStatic(r) ==
    /\ Fault("static") /\ r \in Origin
    /\ static' = (static \ {r}) \cup ({r} \ static)
    /\ UNCHANGED <<routes, fd, lastId, published, direct, seqno, sig, advertised, linkUp, wire, net,
                   done, dropped>>

Next ==
    \/ \E r \in Router : Period(r) \/ Restart(r) \/ SetStatic(r)
    \/ \E i \in Iface : Receive(i) \/ Lose(i)
    \/ \E e \in Link : LinkFails(e) \/ LinkReturns(e)
    \/ Tick

\* Time goes on.  A period ends only when every daemon has announced and every frame that
\* somebody reads has been read, so this gives each its turn.
Fairness == []<><<Tick>>_vars

Spec == Init /\ [][Next]_vars /\ Fairness

---------------------------------------------------------------------------
Route == [rid : Router, seqno : 0..(SeqnoMod - 1), metric : 1..MaxMetric, peer : Router \cup {0}]
TimedRoute == [rid : Router, seqno : 0..(SeqnoMod - 1), metric : 1..MaxMetric, age : 0..(Hold + 1)]

\* Types of the state; a table has one route per source claim (the BTreeMap key), a session
\* one distance and one published route for the prefix.
TypeOK ==
    /\ static \subseteq Origin /\ wire \subseteq Link /\ linkUp \subseteq Iface /\ done \subseteq Router
    /\ dropped \subseteq Router
    /\ \A i \in Iface :
          /\ routes[i] \subseteq TimedRoute
          /\ \A q, p \in routes[i] : q.rid = p.rid => q = p
          /\ fd[i] \subseteq [seqno : 0..(SeqnoMod - 1), metric : 1..MaxMetric] /\ Cardinality(fd[i]) <= 1
          /\ lastId[i] \in Router \cup {0}
          /\ published[i] \subseteq Route /\ Cardinality(published[i]) <= 1
          /\ seqno[i] \in 0..(SeqnoMod - 1)
          /\ advertised[i] \subseteq [rid : Router, seqno : 0..(SeqnoMod - 1)]
    /\ \A r \in Router : Cardinality(direct[r]) <= 1
    /\ faults \in 0..MaxFaults

\* The daemons to which the links that work connect a daemon with the static route.
Served ==
    LET Grow(S) == S \cup {n \in Router : \E r \in S : {r, n} \in wire}
        f[k \in 0..Cardinality(Router)] == IF k = 0 THEN static ELSE Grow(f[k - 1])
    IN  f[Cardinality(Router)]

Learned(r) == \E i \in Mine(r) : published[i] # {}

\* Once the faults are over, every daemon connected to an origin has, and keeps, the
\* prefix in the table of one of its sessions, whatever seqno a restarted origin came back
\* with and whatever distance its neighbours remember (insert_timed, withdraw, the
\* announcement loop); and it has a route in the direct_rib, unless one session's
\* withdrawal took the only entry there is for the prefix while another session, which
\* has nothing new to publish, does not put its own route back (apply_runtime_delta).
RoutesLearned ==
    <>[](\A r \in Served \ static : Learned(r) /\ (direct[r] # {} \/ r \in dropped))

NextHop(r) == IF r \in static THEN {} ELSE {q.via : q \in direct[r]}

\* "loops stay impossible" (build_babel_announcement): no two daemons forward the prefix to
\* each other.  The direct_rib has one entry per prefix for all sessions and keeps what was
\* installed last, so each of two neighbours can end up on the route it has from the other.
LoopFree == \A i \in Iface : ~(i[2] \in NextHop(i[1]) /\ i[1] \in NextHop(i[2]))

=============================================================================
