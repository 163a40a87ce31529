---------------------------- MODULE RibExport ----------------------------
(***************************************************************************)
(* The RIB pipeline of DefaultRouter (lr-router) for BGP: Adj-RIB-In,       *)
(* local and static routes, the decision process, Loc-RIB, and per session  *)
(* the export diff, Adj-RIB-Out and the MRAI queue.  Every call takes the   *)
(* router's write lock, so one call is one action.                          *)
(*                                                                          *)
(* A session is its numeric handle (origin.peer); 0 is the router itself.   *)
(* A route keeps its source, its rank among BGP paths (val, higher wins),   *)
(* the protocol and age_ms, which takes part in the equality of routes.     *)
(***************************************************************************)
EXTENDS Integers, FiniteSets

CONSTANTS
    Session,     \* BGP session handles
    Key,         \* route keys
    Val,         \* ranks a received path may have
    LocalVal,    \* rank of a locally originated path
    Internal,    \* iBGP sessions (origin.proto = 1)
    Client,      \* iBGP sessions that are route-reflector clients
    AddPath,     \* sessions that negotiated Add-Path transmission
    MaxPaths,    \* add_path_max_paths
    Rejected,    \* Rejected[s]: ranks the import checks of s drop
    Denied,      \* Denied[s]: sources the export policy of s drops
    Refused,     \* Refused[s]: paths <<source, rank>> whose attributes bar them from
                 \* s: inactive family, OTC, LLGR_STALE, no next hop to encode
    Static,      \* keys a static route may be configured for
    Retaining,   \* sessions whose routes survive a silent loss (RFC 4724)
    Intervals,   \* values set_mrai is called with
    MaxTime      \* bound: clock ticks

ASSUME SessionAssumption == Session \subseteq Nat \ {0}
ASSUME RankAssumption == Val \subseteq Nat /\ LocalVal \in Nat /\ MaxPaths \in Nat \ {0}
ASSUME MraiAssumption == Intervals \subseteq Nat /\ MaxTime \in Nat

VARIABLES
    now,         \* now_ms
    est,         \* sessions whose peer is Established
    adjIn,       \* adj_rib_in: adjIn[s][k], NoRoute when absent
    offer,       \* what peer s last announced for k (history), NoVal if nothing
    originated,  \* keys of the originated map
    static,      \* keys of static_routes
    loc,         \* loc_rib: the ranked set of each key
    egress,      \* egress[s][k]: Adj-RIB-Out, MRAI entry and the peer's view
    interval,    \* interval_ms of each session
    gr,          \* graceful_restart: retention record of each session
    fresh        \* sessions that came up with an empty Adj-RIB-Out slice (history)

vars == <<now, est, adjIn, offer, originated, static, loc, egress, interval,
          gr, fresh>>

Never == -1
NoVal == -1
NoRoute == [src |-> 0, val |-> 0, proto |-> "none", age |-> 0]

Local == [src |-> 0, val |-> LocalVal, proto |-> "bgp", age |-> 0]
StaticRoute == [src |-> 0, val |-> 0, proto |-> "static", age |-> 0]
Learned(s, v) == [src |-> s, val |-> v, proto |-> "bgp", age |-> now]

Route == [src: Session \cup {0}, val: Nat, proto: {"bgp", "static"}, age: Nat]

\* Paths by transmit path identifier.
Empty == [i \in {} |-> NoRoute]
Keep(f, S) == [i \in DOMAIN f \cap S |-> f[i]]
Over(f, g) == [i \in DOMAIN f \cup DOMAIN g |-> IF i \in DOMAIN f THEN f[i] ELSE g[i]]

---------------------------------------------------------------------------
(* Decision process: reselect. *)

Candidates(k, A, O, S) ==
    {A[s][k] : s \in {s \in Session : A[s][k] # NoRoute}}
        \cup (IF k \in O THEN {Local} ELSE {})
        \cup (IF k \in S THEN {StaticRoute} ELSE {})

\* BestPath::compare: the attributes, then the lowest peer handle.
Better(q, r) == q.val > r.val \/ (q.val = r.val /\ q.src < r.src)

Slot(C, r) == 1 + Cardinality({q \in C : Better(q, r)})

\* Only BGP candidates: BestPath::rank truncated to add_path_max_paths.
\* Otherwise RouteSelector::select, where the static route's distance wins.
Select(C) ==
    IF \A r \in C : r.proto = "bgp"
    THEN {r \in C : Slot(C, r) <= MaxPaths}
    ELSE {r \in C : r.proto = "static"}

---------------------------------------------------------------------------
(* Export: export_work_for and what transmits its result. *)

\* Identifiers: rank slot for Add-Path sessions, 0 for the best path otherwise.
Paths(s, L) ==
    IF s \in AddPath
    THEN [i \in {Slot(L, r) : r \in L} |-> CHOOSE r \in L : Slot(L, r) = i]
    ELSE [i \in {0 : r \in {r \in L : Slot(L, r) = 1}} |->
             CHOOSE r \in L : Slot(L, r) = 1]

\* Mutant: the split-horizon test is dropped.
ExportableAnywhere(s, r) == r.proto = "bgp" /\ r.src \notin Denied[s]

\* Split horizon, protocol gate, export policy.
Exportable(s, r) ==
    /\ r.proto = "bgp"
    /\ r.src # s
    /\ r.src \notin Denied[s]

Desired(s, L) ==
    LET P == Paths(s, L) IN Keep(P, {i \in DOMAIN P : Exportable(s, P[i])})

\* advertise_with_originator returns false for an iBGP-learned path to an iBGP
\* peer that is not a client, and for a path its attribute gates refuse.
Sendable(s, r) ==
    /\ ~(r.src \in Internal /\ s \in Internal \ Client)
    /\ <<r.src, r.val>> \notin Refused[s]

SendablePaths(s, P) == Keep(P, {i \in DOMAIN P : Sendable(s, P[i])})

Cell(out, heard, last, pend, due) ==
    [out |-> out, heard |-> heard, last |-> last, pend |-> pend, due |-> due]

\* send_advertisement_set: once one path went out, all are recorded.
Transmit(c, s, P) ==
    LET sent == SendablePaths(s, P)
    IN  IF DOMAIN sent = {} THEN c
        ELSE Cell(Over(P, c.out), Over(sent, c.heard), now, c.pend, c.due)

\* Mutant: an advertisement is never held back.
AdvertiseNow(c, s, P) == Transmit(c, s, P)

\* queue_or_send_advertisement.
Advertise(c, s, P) ==
    IF DOMAIN P = {} THEN c
    ELSE IF interval[s] # 0 /\ c.last # Never /\ now < c.last + interval[s]
    THEN Cell(c.out, c.heard, c.last, P, c.last + interval[s])
    ELSE Transmit(c, s, P)

\* Mutant: the paths are forgotten without being withdrawn on the wire.
ForgetPaths(c, ids) ==
    IF ids = {} THEN c
    ELSE Cell(Keep(c.out, DOMAIN c.out \ ids), c.heard, now, Empty, 0)

\* queue_or_send_withdrawal: at once, and any pending set is dropped.
Withdraw(c, ids) ==
    IF ids = {} THEN c
    ELSE Cell(Keep(c.out, DOMAIN c.out \ ids), Keep(c.heard, DOMAIN c.heard \ ids),
              now, Empty, 0)

\* Mutant: the whole set counts as changed only when an identifier is new.
NewIdsOnly(c, s, L) ==
    LET D == Desired(s, L)
    IN  Advertise(Withdraw(c, DOMAIN c.out \ DOMAIN D), s,
                  Keep(D, DOMAIN D \ DOMAIN c.out))

\* The diff of one key against Adj-RIB-Out, withdrawals first.
Export(c, s, L) ==
    LET D == Desired(s, L)
        changed == {i \in DOMAIN D : i \notin DOMAIN c.out \/ c.out[i] # D[i]}
    IN  Advertise(Withdraw(c, DOMAIN c.out \ DOMAIN D), s, Keep(D, changed))

\* export_selection (or propagate_withdrawal when the set is empty) for the
\* keys K with selections L towards the established sessions E.
Exported(base, K, L, E) ==
    [s \in Session |-> [k \in Key |->
        IF s \in E /\ k \in K THEN Export(base[s][k], s, L[k]) ELSE base[s][k]]]

\* Mutant: the last candidate of a key is not uninstalled.
ReselectedNonEmpty(K, A, O, S) ==
    [k \in Key |-> IF k \in K /\ Candidates(k, A, O, S) # {}
                   THEN Select(Candidates(k, A, O, S)) ELSE loc[k]]

Reselected(K, A, O, S) ==
    [k \in Key |-> IF k \in K THEN Select(Candidates(k, A, O, S)) ELSE loc[k]]

\* reselect and apply_selection for the keys K.
Reselect(K, A, O, S) ==
    LET L == Reselected(K, A, O, S)
    IN  /\ adjIn' = A
        /\ originated' = O
        /\ static' = S
        /\ loc' = L
        /\ egress' = Exported(egress, K, L, est)

---------------------------------------------------------------------------
(* Received routes: dispatch_bgp_actions, import_route. *)

\* A route that an import check drops leaves the pipeline before Adj-RIB-In.
RecvAnnounce(s, k, v) ==
    /\ s \in est
    /\ offer' = [offer EXCEPT ![s][k] = v]
    /\ IF v \in Rejected[s]
       THEN UNCHANGED <<adjIn, originated, static, loc, egress, gr>>
       ELSE /\ Reselect({k}, [adjIn EXCEPT ![s][k] = Learned(s, v)], originated, static)
            /\ gr' = [gr EXCEPT ![s].refreshed = IF gr[s].on THEN @ \cup {k} ELSE @]
    /\ UNCHANGED <<now, est, interval, fresh>>

\* The withdrawal looks the route up under origin.proto 0.
RecvWithdraw(s, k) ==
    /\ s \in est
    /\ offer[s][k] # NoVal
    /\ offer' = [offer EXCEPT ![s][k] = NoVal]
    /\ IF s \in Internal \/ adjIn[s][k] = NoRoute
       THEN UNCHANGED <<adjIn, originated, static, loc, egress>>
       ELSE Reselect({k}, [adjIn EXCEPT ![s][k] = NoRoute], originated, static)
    /\ UNCHANGED <<now, est, interval, gr, fresh>>

\* RFC 2918 request of the peer: reannounce_to_session.  Everything is
\* withdrawn and the Loc-RIB sent again; there is no protocol gate here.
Refreshed(c, s, L) ==
    LET P == Paths(s, L)
        again == SendablePaths(s, Keep(P, {i \in DOMAIN P :
                     P[i].src # s /\ P[i].src \notin Denied[s]}))
    IN  Cell(again, again, c.last, c.pend, c.due)

RouteRefresh(s) ==
    /\ s \in est
    /\ egress' = [egress EXCEPT ![s] = [k \in Key |-> Refreshed(@[k], s, loc[k])]]
    /\ UNCHANGED <<now, est, adjIn, offer, originated, static, loc, interval, gr, fresh>>

---------------------------------------------------------------------------
(* Local routes. *)

\* originate and install_static put their route into Loc-RIB unseen by the
\* decision process.
Install(k, r, O, S) ==
    /\ originated' = O
    /\ static' = S
    /\ loc' = [loc EXCEPT ![k] = {r}]
    /\ egress' = Exported(egress, {k}, [loc EXCEPT ![k] = {r}], est)
    /\ UNCHANGED <<now, est, adjIn, offer, interval, gr, fresh>>

Originate(k) == Install(k, Local, originated \cup {k}, static)

InstallStatic(k) == k \in Static /\ Install(k, StaticRoute, originated, static \cup {k})

\* Mutant: the prefix is uninstalled without a new selection.
UnoriginateOnly(k) ==
    /\ k \in originated
    /\ originated' = originated \ {k}
    /\ loc' = [loc EXCEPT ![k] = {}]
    /\ egress' = Exported(egress, {k}, [loc EXCEPT ![k] = {}], est)
    /\ UNCHANGED <<now, est, adjIn, offer, static, interval, gr, fresh>>

Unoriginate(k) ==
    /\ k \in originated
    /\ Reselect({k}, adjIn, originated \ {k}, static)
    /\ UNCHANGED <<now, est, offer, interval, gr, fresh>>

UninstallStatic(k) ==
    /\ k \in static
    /\ Reselect({k}, adjIn, originated, static \ {k})
    /\ UNCHANGED <<now, est, offer, interval, gr, fresh>>

---------------------------------------------------------------------------
(* Session lifecycle and clock. *)

\* on_bgp_established: the initial dump goes out past the MRAI queue.
Dumped(c, s, L) ==
    LET P == SendablePaths(s, Desired(s, L))
    IN  Cell(Over(P, c.out), P, c.last, c.pend, c.due)

SessionUp(s) ==
    /\ s \notin est
    /\ est' = est \cup {s}
    /\ egress' = [egress EXCEPT ![s] = [k \in Key |-> Dumped(@[k], s, loc[k])]]
    /\ fresh' = IF \A k \in Key : DOMAIN egress[s][k].out = {}
                THEN fresh \cup {s} ELSE fresh \ {s}
    /\ UNCHANGED <<now, adjIn, offer, originated, static, loc, interval, gr>>

\* teardown_bgp_session clears the MRAI state; the peer forgets our routes.
ClearQueue(c) == Cell(c.out, Empty, Never, Empty, 0)

Forgotten(c) == Cell(Empty, c.heard, c.last, c.pend, c.due)

\* session_down_cleanup: returns early when the session contributed no route.
Cleanup(s, base, E) ==
    LET K == {k \in Key : adjIn[s][k] # NoRoute}
        A == [adjIn EXCEPT ![s] = [k \in Key |-> NoRoute]]
        L == Reselected(K, A, originated, static)
        cleared == IF K = {} THEN base
                   ELSE [base EXCEPT ![s] = [k \in Key |-> Forgotten(@[k])]]
    IN  /\ adjIn' = A
        /\ loc' = L
        /\ egress' = Exported(cleared, K, L, E)

QueueCleared(s) == [egress EXCEPT ![s] = [k \in Key |-> ClearQueue(@[k])]]

\* Mutant: the routes of the session are not purged.
SessionDownUnpurged(s) ==
    /\ s \in est \/ gr[s].on
    /\ est' = est \ {s}
    /\ offer' = [offer EXCEPT ![s] = [k \in Key |-> NoVal]]
    /\ egress' = QueueCleared(s)
    /\ UNCHANGED <<now, adjIn, originated, static, loc, interval, gr, fresh>>

\* teardown_bgp_session without retention: of an established session, or of a
\* handshake that fails, which also purges what retention has kept so far.
SessionDown(s) ==
    /\ s \in est \/ gr[s].on
    /\ est' = est \ {s}
    /\ offer' = [offer EXCEPT ![s] = [k \in Key |-> NoVal]]
    /\ Cleanup(s, QueueCleared(s), est \ {s})
    /\ UNCHANGED <<now, originated, static, interval, gr, fresh>>

NoRetention == [on |-> FALSE, marked |-> FALSE, refreshed |-> {}]

\* RFC 4724 retention: the routes stay.  A record that is still there is kept.
SessionLost(s) ==
    /\ s \in est \cap Retaining
    /\ est' = est \ {s}
    /\ offer' = [offer EXCEPT ![s] = [k \in Key |-> NoVal]]
    /\ egress' = QueueCleared(s)
    /\ gr' = [gr EXCEPT ![s].on = TRUE]
    /\ UNCHANGED <<now, adjIn, originated, static, loc, interval, fresh>>

\* The restart window elapses (process_graceful_restart without LLGR): a
\* session that is back waits for End-of-RIB, one that is down is purged.
RetentionExpires(s) ==
    /\ gr[s].on /\ ~gr[s].marked
    /\ IF s \in est
       THEN /\ gr' = [gr EXCEPT ![s].marked = TRUE]
            /\ UNCHANGED <<adjIn, loc, egress>>
       ELSE /\ gr' = [gr EXCEPT ![s] = NoRetention]
            /\ Cleanup(s, egress, est)
    /\ UNCHANGED <<now, est, offer, originated, static, interval, fresh>>

\* on_end_of_rib after a restart: what was not announced again goes.
EndOfRib(s) ==
    LET K == {k \in Key : adjIn[s][k] # NoRoute /\ k \notin gr[s].refreshed}
    IN  /\ s \in est
        /\ gr[s].on
        /\ gr' = [gr EXCEPT ![s] = NoRetention]
        /\ Reselect(K, [adjIn EXCEPT ![s] = [k \in Key |->
                          IF k \in K THEN NoRoute ELSE @[k]]], originated, static)
        /\ UNCHANGED <<now, est, offer, interval, fresh>>

FlushCell(c, s, t) ==
    LET sent == SendablePaths(s, c.pend)
    IN  IF DOMAIN c.pend = {} THEN c
        ELSE IF DOMAIN sent = {} THEN Cell(c.out, c.heard, c.last, Empty, 0)
        ELSE Cell(Over(c.pend, c.out), Over(sent, c.heard), t, Empty, 0)

\* Mutant: updates due at this very millisecond wait for the next tick.
FlushLate(c, s, t) == IF c.due >= t THEN c ELSE FlushCell(c, s, t)

FlushDue(c, s, t) == IF c.due > t THEN c ELSE FlushCell(c, s, t)

\* tick ends with flush_mrai.
Tick ==
    /\ now < MaxTime
    /\ now' = now + 1
    /\ egress' = [s \in Session |-> [k \in Key |-> FlushDue(egress[s][k], s, now + 1)]]
    /\ UNCHANGED <<est, adjIn, offer, originated, static, loc, interval, gr, fresh>>

\* set_mrai: switching the interval off sends everything pending.
SetMrai(s, i) ==
    /\ interval' = [interval EXCEPT ![s] = i]
    /\ egress' = IF i # 0 THEN egress
                 ELSE [egress EXCEPT ![s] = [k \in Key |-> FlushCell(@[k], s, now)]]
    /\ UNCHANGED <<now, est, adjIn, offer, originated, static, loc, gr, fresh>>

---------------------------------------------------------------------------

Init ==
    /\ now = 0
    /\ est = {}
    /\ adjIn = [s \in Session |-> [k \in Key |-> NoRoute]]
    /\ offer = [s \in Session |-> [k \in Key |-> NoVal]]
    /\ originated = {}
    /\ static = {}
    /\ loc = [k \in Key |-> {}]
    /\ egress = [s \in Session |-> [k \in Key |-> Cell(Empty, Empty, Never, Empty, 0)]]
    /\ interval = [s \in Session |-> 0]
    /\ gr = [s \in Session |-> NoRetention]
    /\ fresh = {}

Next ==
    \/ \E s \in Session, k \in Key : \/ \E v \in Val : RecvAnnounce(s, k, v)
                                     \/ RecvWithdraw(s, k)
    \/ \E k \in Key : \/ Originate(k) \/ Unoriginate(k)
                      \/ InstallStatic(k) \/ UninstallStatic(k)
    \/ \E s \in Session : \/ RouteRefresh(s) \/ SessionUp(s) \/ SessionDown(s)
                          \/ SessionLost(s) \/ RetentionExpires(s) \/ EndOfRib(s)
                          \/ \E i \in Intervals : SetMrai(s, i)
    \/ Tick

Spec == Init /\ [][Next]_vars
---------------------------------------------------------------------------
(* Properties *)

PathMap(f) == f \in [DOMAIN f -> Route]

IsCell(c) ==
    /\ c = Cell(c.out, c.heard, c.last, c.pend, c.due)
    /\ PathMap(c.out) /\ PathMap(c.heard) /\ PathMap(c.pend)
    /\ c.last \in Nat \cup {Never}
    /\ c.due \in Nat

\* Every variable has its type; deadlines and timestamps are natural numbers.
TypeOK ==
    /\ now \in Nat
    /\ est \subseteq Session
    /\ adjIn \in [Session -> [Key -> Route \cup {NoRoute}]]
    /\ offer \in [Session -> [Key -> Val \cup {NoVal}]]
    /\ originated \subseteq Key
    /\ static \subseteq Key
    /\ loc \in [Key -> SUBSET Route]
    /\ egress = [s \in Session |-> [k \in Key |-> egress[s][k]]]
    /\ \A s \in Session, k \in Key : IsCell(egress[s][k])
    /\ interval \in [Session -> Nat]
    /\ gr \in [Session -> [on: BOOLEAN, marked: BOOLEAN, refreshed: SUBSET Key]]
    /\ fresh \subseteq Session

\* Every prefix in Loc-RIB comes from a source that still offers it: whatever
\* removes a route from Adj-RIB-In, the originated or the static table also
\* re-runs the selection for its key.
NoGhostInLocRib ==
    \A k \in Key : loc[k] \subseteq Candidates(k, adjIn, originated, static)

\* ... and no prefix that some source offers is missing from Loc-RIB.
NoLostPrefix ==
    \A k \in Key : Candidates(k, adjIn, originated, static) # {} => loc[k] # {}

\* Split horizon, also across the MRAI queue, a route refresh and the initial
\* dump: no peer is ever sent a path that was learned from it.
SplitHorizon ==
    \A s \in est, k \in Key : \A i \in DOMAIN egress[s][k].heard :
        egress[s][k].heard[i].src # s

\* Whatever the peer holds is recorded in Adj-RIB-Out under the same path
\* identifier, so a later diff is able to withdraw or replace it.
PeerPathsRecorded ==
    \A s \in est, k \in Key : DOMAIN egress[s][k].heard \subseteq DOMAIN egress[s][k].out

\* The paths h, held by the peer of s, against the selection L.
HeardFollows(s, h, L) ==
    LET D == Desired(s, L)
    IN  /\ DOMAIN h \subseteq DOMAIN D
        /\ \A i \in DOMAIN D : Sendable(s, D[i]) => i \in DOMAIN h /\ h[i] = D[i]

\* On a router without MRAI, the peer of a session that came up with an empty
\* Adj-RIB-Out slice holds, for every prefix whose selection is a BGP one, every
\* path that the decision process and the export policy give it and that may be
\* sent to it, and nothing under any other identifier.  Under the identifier of
\* a path that advertise_with_originator refuses it may still hold the path that
\* one replaced: the diff replaces, it does not withdraw.
ExportExact ==
    Intervals \subseteq {0} =>
        \A s \in est \cap fresh, k \in Key :
            (\A r \in loc[k] : r.proto = "bgp") => HeardFollows(s, egress[s][k].heard, loc[k])

\* Adj-RIB-In holds what the peer announced last and nothing it has withdrawn,
\* across any number of sessions: for eBGP peers without graceful restart whose
\* import checks let everything pass.
AdjInFollowsPeer ==
    \A s \in est \ (Internal \cup Retaining), k \in Key :
        Rejected[s] = {} /\ adjIn[s][k] # NoRoute => adjIn[s][k].val = offer[s][k]

\* flush_mrai leaves nothing behind: an update in the MRAI queue belongs to an
\* established session and is due strictly in the future.
PendingNotOverdue ==
    \A s \in Session, k \in Key :
        DOMAIN egress[s][k].pend # {} => s \in est /\ egress[s][k].due > now

\* The peer is told of a new or different path of k in this step.
Told(s, k) ==
    /\ s \in est /\ s \in est'
    /\ \E i \in DOMAIN egress'[s][k].heard :
          \/ i \notin DOMAIN egress[s][k].heard
          \/ egress'[s][k].heard[i] # egress[s][k].heard[i]

\* MRAI: apart from a route refresh, an advertisement of a prefix to a peer
\* leaves at least the interval now in force after the last update of it.
MraiSpacing ==
    [][\A s \in Session, k \in Key :
          Told(s, k) /\ ~RouteRefresh(s) /\ egress[s][k].last # Never
              => now' >= egress[s][k].last + interval'[s]]_vars

===========================================================================
