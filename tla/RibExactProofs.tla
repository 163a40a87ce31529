-------------------------- MODULE RibExactProofs --------------------------
(***************************************************************************)
(* Proof that, without MRAI, what a peer holds follows what the decision    *)
(* process and the export policy select for it (ExportExact of RibExport).  *)
(*                                                                          *)
(* ExportExact is not inductive: a diff against Adj-RIB-Out only corrects   *)
(* what the peer holds if Adj-RIB-Out records it, paths that may not be     *)
(* sent excepted, and only when nothing is waiting in the MRAI queue.       *)
(* ExactInv adds both.                                                      *)
(***************************************************************************)
EXTENDS RibExportProofs

---------------------------------------------------------------------------
(* One cell *)

\* advertise_with_originator sends the paths it does not refuse, unchanged.
LEMMA SentFacts ==
    ASSUME NEW s, NEW P, PathMap(P)
    PROVE  LET sent == SendablePaths(s, P) IN
           /\ PathMap(sent)
           /\ \A i : i \in DOMAIN sent <=> i \in DOMAIN P /\ Sendable(s, P[i])
           /\ \A i \in DOMAIN sent : sent[i] = P[i]
<1> DEFINE D == {i \in DOMAIN P : Sendable(s, P[i])}
<1>1. \A i : i \in D <=> i \in DOMAIN P /\ Sendable(s, P[i])
  OBVIOUS
<1>2. SendablePaths(s, P) = Keep(P, D)
  BY DEF SendablePaths
<1> HIDE DEF D
<1>3. /\ PathMap(Keep(P, D))
      /\ \A i : i \in DOMAIN Keep(P, D) <=> i \in DOMAIN P /\ i \in D
      /\ \A i \in DOMAIN Keep(P, D) : Keep(P, D)[i] = P[i]
  BY KeepFacts
<1> QED BY <1>1, <1>2, <1>3

\* Adj-RIB-Out o of session s against what the peer holds, h: it records every
\* identifier the peer knows, and only a path that may not be sent is recorded
\* without the peer holding it.
Records(s, o, h) ==
    /\ PathMap(o) /\ PathMap(h)
    /\ DOMAIN h \subseteq DOMAIN o
    /\ \A i \in DOMAIN o : Sendable(s, o[i]) => i \in DOMAIN h /\ h[i] = o[i]

\* ... and what the peer holds follows the selection.
ExactCell(s, c, L) ==
    /\ Records(s, c.out, c.heard)
    /\ (\A r \in L : r.proto = "bgp") => HeardFollows(s, c.heard, L)

\* What is left of the paths after the withdrawals of a diff.
LEMMA WithdrawKeeps ==
    ASSUME NEW s, NEW c, NEW ids, Records(s, c.out, c.heard)
    PROVE  LET w == Withdraw(c, ids) IN
           /\ Records(s, w.out, w.heard)
           /\ \A i : i \in DOMAIN w.out <=> i \in DOMAIN c.out /\ i \notin ids
           /\ \A i \in DOMAIN w.out : w.out[i] = c.out[i]
<1>1. CASE ids = {}
  BY <1>1 DEF Withdraw
<1>2. CASE ids # {}
  <2> DEFINE o == Keep(c.out, DOMAIN c.out \ ids)
             h == Keep(c.heard, DOMAIN c.heard \ ids)
  <2>1. Withdraw(c, ids) = Cell(o, h, now, Empty, 0)
    BY <1>2 DEF Withdraw
  <2>2. /\ PathMap(o)
        /\ \A i : i \in DOMAIN o <=> i \in DOMAIN c.out /\ i \in DOMAIN c.out \ ids
        /\ \A i \in DOMAIN o : o[i] = c.out[i]
    BY KeepFacts DEF Records
  <2>3. /\ PathMap(h)
        /\ \A i : i \in DOMAIN h <=> i \in DOMAIN c.heard /\ i \in DOMAIN c.heard \ ids
        /\ \A i \in DOMAIN h : h[i] = c.heard[i]
    BY KeepFacts DEF Records
  <2> HIDE DEF o, h
  <2>4. Withdraw(c, ids).out = o /\ Withdraw(c, ids).heard = h
    BY <2>1, CellFields
  <2>5. Records(s, o, h)
    BY <2>2, <2>3 DEF Records
  <2> QED BY <2>2, <2>4, <2>5
<1> QED BY <1>1, <1>2

\* Without MRAI an advertisement leaves at once, unless all of it is refused.
LEMMA AdvertiseSends ==
    ASSUME NEW c, NEW s, NEW P, interval[s] = 0
    PROVE  LET a == Advertise(c, s, P)
               sent == SendablePaths(s, P)
           IN  \/ a = c /\ (DOMAIN P = {} \/ DOMAIN sent = {})
               \/ a.out = Over(P, c.out) /\ a.heard = Over(sent, c.heard)
<1> DEFINE sent == SendablePaths(s, P)
<1>1. CASE DOMAIN P = {} \/ DOMAIN sent = {}
  BY <1>1 DEF Advertise, Transmit
<1>2. CASE DOMAIN P # {} /\ DOMAIN sent # {}
  <2>1. Advertise(c, s, P) = Cell(Over(P, c.out), Over(sent, c.heard), now, c.pend, c.due)
    BY <1>2 DEF Advertise, Transmit
  <2> QED BY <2>1, CellFields
<1> QED BY <1>1, <1>2

\* A diff against a sound Adj-RIB-Out makes the peer follow the new selection,
\* whatever the old one was.
LEMMA ExportIsExact ==
    ASSUME NEW s \in Session, NEW c, Records(s, c.out, c.heard), interval[s] = 0,
           NEW L \in SUBSET Route
    PROVE  ExactCell(s, Export(c, s, L), L)
<1> DEFINE D == Desired(s, L)
           changed == {i \in DOMAIN D : i \notin DOMAIN c.out \/ c.out[i] # D[i]}
           w == Withdraw(c, DOMAIN c.out \ DOMAIN D)
           P == Keep(D, changed)
           sent == SendablePaths(s, P)
           e == Advertise(w, s, P)
<1>1. Export(c, s, L) = e
  BY DEF Export
<1>2. PathMap(D)
  BY DesiredFacts
<1>3. \A i : i \in changed <=> i \in DOMAIN D /\ (i \notin DOMAIN c.out \/ c.out[i] # D[i])
  OBVIOUS
<1> SUFFICES /\ Records(s, e.out, e.heard)
             /\ DOMAIN e.heard \subseteq DOMAIN D
             /\ \A i \in DOMAIN D : Sendable(s, D[i]) => i \in DOMAIN e.heard /\ e.heard[i] = D[i]
  BY <1>1 DEF ExactCell, HeardFollows
<1> HIDE DEF D, changed
<1>4. /\ PathMap(P)
      /\ \A i : i \in DOMAIN P <=> i \in DOMAIN D /\ i \in changed
      /\ \A i \in DOMAIN P : P[i] = D[i]
  BY <1>2, KeepFacts
<1>5. /\ Records(s, w.out, w.heard)
      /\ \A i : i \in DOMAIN w.out <=> i \in DOMAIN c.out /\ i \notin DOMAIN c.out \ DOMAIN D
      /\ \A i \in DOMAIN w.out : w.out[i] = c.out[i]
  BY WithdrawKeeps
<1> HIDE DEF P, w
<1>6. /\ PathMap(sent)
      /\ \A i : i \in DOMAIN sent <=> i \in DOMAIN P /\ Sendable(s, P[i])
      /\ \A i \in DOMAIN sent : sent[i] = P[i]
  BY <1>4, SentFacts
<1>7. \/ e = w /\ (DOMAIN P = {} \/ DOMAIN sent = {})
      \/ e.out = Over(P, w.out) /\ e.heard = Over(sent, w.heard)
  BY AdvertiseSends
<1>8. PathMap(w.out) /\ PathMap(w.heard) /\ DOMAIN w.heard \subseteq DOMAIN w.out
  BY <1>5 DEF Records
<1>9. \A i \in DOMAIN D : Sendable(s, D[i]) =>
          \/ i \in DOMAIN sent /\ sent[i] = D[i]
          \/ i \notin DOMAIN sent /\ i \in DOMAIN w.heard /\ w.heard[i] = D[i]
  BY <1>3, <1>4, <1>5, <1>6 DEF Records
<1> HIDE DEF e, sent
<1>10. CASE e = w /\ (DOMAIN P = {} \/ DOMAIN sent = {})
  <2>1. DOMAIN sent = {}
    BY <1>6, <1>10
  <2>2. DOMAIN w.heard \subseteq DOMAIN D
    BY <1>5, <1>8
  <2> QED BY <1>5, <1>9, <1>10, <2>1, <2>2
<1>11. CASE e.out = Over(P, w.out) /\ e.heard = Over(sent, w.heard)
  <2>1. /\ PathMap(Over(P, w.out))
        /\ \A i : i \in DOMAIN Over(P, w.out) <=> i \in DOMAIN P \/ i \in DOMAIN w.out
        /\ \A i \in DOMAIN P : Over(P, w.out)[i] = P[i]
        /\ \A i \in DOMAIN w.out \ DOMAIN P : Over(P, w.out)[i] = w.out[i]
    BY <1>4, <1>8, OverFacts
  <2>2. /\ PathMap(Over(sent, w.heard))
        /\ \A i : i \in DOMAIN Over(sent, w.heard) <=> i \in DOMAIN sent \/ i \in DOMAIN w.heard
        /\ \A i \in DOMAIN sent : Over(sent, w.heard)[i] = sent[i]
        /\ \A i \in DOMAIN w.heard \ DOMAIN sent : Over(sent, w.heard)[i] = w.heard[i]
    BY <1>6, <1>8, OverFacts
  <2> DEFINE o == Over(P, w.out)
             h == Over(sent, w.heard)
  <2> HIDE DEF o, h
  <2>3. DOMAIN h \subseteq DOMAIN o
    BY <1>6, <1>8, <2>1, <2>2 DEF o, h
  <2>4. ASSUME NEW i \in DOMAIN o, Sendable(s, o[i])
        PROVE  i \in DOMAIN h /\ h[i] = o[i]
    <3>1. CASE i \in DOMAIN P
      BY <1>6, <2>1, <2>2, <2>4, <3>1 DEF o, h
    <3>2. CASE i \notin DOMAIN P
      <4>1. i \in DOMAIN w.out /\ o[i] = w.out[i] /\ i \notin DOMAIN sent
        BY <1>6, <2>1, <3>2 DEF o
      <4>2. i \in DOMAIN w.heard /\ w.heard[i] = w.out[i]
        BY <1>5, <2>4, <4>1 DEF Records
      <4> QED BY <2>2, <4>1, <4>2 DEF h
    <3> QED BY <3>1, <3>2
  <2>5. Records(s, o, h)
    BY <2>1, <2>2, <2>3, <2>4 DEF o, h, Records
  <2>6. DOMAIN h \subseteq DOMAIN D
    BY <1>4, <1>5, <1>6, <1>8, <2>2 DEF h
  <2>7. \A i \in DOMAIN D : Sendable(s, D[i]) => i \in DOMAIN h /\ h[i] = D[i]
    BY <1>9, <2>2 DEF h
  <2>8. e.out = o /\ e.heard = h
    BY <1>11 DEF o, h
  <2> QED BY <2>5, <2>6, <2>7, <2>8
<1> QED BY <1>7, <1>10, <1>11

\* ... and queues nothing.
LEMMA ExportQueuesNothing ==
    ASSUME NEW s, NEW c, interval[s] = 0, DOMAIN c.pend = {}, NEW L
    PROVE  DOMAIN Export(c, s, L).pend = {}
<1>1. \A ids : DOMAIN Withdraw(c, ids).pend = {}
  BY EmptyFacts, CellFields DEF Withdraw
<1>2. ASSUME NEW d, NEW P, DOMAIN d.pend = {}
      PROVE  DOMAIN Advertise(d, s, P).pend = {}
  <2>1. DOMAIN Transmit(d, s, P).pend = {}
    BY <1>2, CellFields DEF Transmit
  <2> QED BY <1>2, <2>1 DEF Advertise
<1> QED BY <1>1, <1>2 DEF Export

\* The initial dump over an empty Adj-RIB-Out slice is exact.
LEMMA DumpedIsExact ==
    ASSUME NEW s \in Session, NEW c, PathMap(c.out), DOMAIN c.out = {},
           NEW L \in SUBSET Route
    PROVE  ExactCell(s, Dumped(c, s, L), L)
<1> DEFINE D == Desired(s, L)
           P == SendablePaths(s, D)
           o == Over(P, c.out)
<1>1. PathMap(D)
  BY DesiredFacts
<1>2. /\ PathMap(P)
      /\ \A i : i \in DOMAIN P <=> i \in DOMAIN D /\ Sendable(s, D[i])
      /\ \A i \in DOMAIN P : P[i] = D[i]
  BY <1>1, SentFacts
<1>3. Dumped(c, s, L).out = o /\ Dumped(c, s, L).heard = P
  BY CellFields DEF Dumped
<1> HIDE DEF D, P
<1>4. /\ PathMap(o)
      /\ \A i : i \in DOMAIN o <=> i \in DOMAIN P \/ i \in DOMAIN c.out
      /\ \A i \in DOMAIN P : o[i] = P[i]
  BY <1>2, OverFacts
<1> HIDE DEF o
<1>5. Records(s, o, P)
  BY <1>2, <1>4 DEF Records
<1>6. /\ DOMAIN P \subseteq DOMAIN D
      /\ \A i \in DOMAIN D : Sendable(s, D[i]) => i \in DOMAIN P /\ P[i] = D[i]
  BY <1>2
<1>7. HeardFollows(s, P, L)
  BY <1>6 DEF HeardFollows, D
<1> QED BY <1>3, <1>5, <1>7 DEF ExactCell

\* A route refresh is exact, also with respect to a selection it leaks.
LEMMA RefreshedIsExact ==
    ASSUME NEW s \in Session, NEW c, NEW L \in SUBSET Route
    PROVE  ExactCell(s, Refreshed(c, s, L), L)
<1> DEFINE P == Paths(s, L)
           F == {i \in DOMAIN P : P[i].src # s /\ P[i].src \notin Denied[s]}
           G == {i \in DOMAIN P : Exportable(s, P[i])}
           K == Keep(P, F)
           again == SendablePaths(s, K)
<1>1. Refreshed(c, s, L) = Cell(again, again, c.last, c.pend, c.due)
  BY DEF Refreshed
<1>2. Refreshed(c, s, L).out = again /\ Refreshed(c, s, L).heard = again
  BY <1>1, CellFields
<1>3. PathMap(P) /\ \A i \in DOMAIN P : P[i] \in L
  BY PathsFacts
<1>4. Desired(s, L) = Keep(P, G)
  BY DEF Desired
<1>5. ASSUME \A r \in L : r.proto = "bgp" PROVE F = G
  BY <1>3, <1>5 DEF Exportable
<1> HIDE DEF P, F, G
<1>6. PathMap(K)
  BY <1>3, KeepFacts
<1> HIDE DEF K
<1>7. /\ PathMap(again)
      /\ \A i : i \in DOMAIN again <=> i \in DOMAIN K /\ Sendable(s, K[i])
      /\ \A i \in DOMAIN again : again[i] = K[i]
  BY <1>6, SentFacts
<1> HIDE DEF again
<1>8. Records(s, again, again)
  BY <1>7 DEF Records
<1>9. (\A r \in L : r.proto = "bgp") => K = Desired(s, L)
  BY <1>4, <1>5 DEF K
<1>10. /\ DOMAIN again \subseteq DOMAIN K
       /\ \A i \in DOMAIN K : Sendable(s, K[i]) => i \in DOMAIN again /\ again[i] = K[i]
  BY <1>7
<1>11. (\A r \in L : r.proto = "bgp") => HeardFollows(s, again, L)
  BY <1>9, <1>10, Zenon DEF HeardFollows
<1> QED BY <1>2, <1>8, <1>11 DEF ExactCell

---------------------------------------------------------------------------
(* All cells *)

Watched(E, F) == E \cap F

ExactCells(eg, W, L) ==
    \A s \in Session, k \in Key :
        /\ DOMAIN eg[s][k].pend = {}
        /\ s \in W => ExactCell(s, eg[s][k], L[k])

NoIntervals == \A s \in Session : interval[s] = 0

\* The inductive invariant, given RibInv and a router without MRAI.
Exact == NoIntervals /\ ExactCells(egress, Watched(est, fresh), loc)

ExactInv == Intervals \subseteq {0} => Exact

\* export_selection for the keys whose selection changed.
LEMMA ExportedIsExact ==
    ASSUME NEW base, NEW K, NEW E \in SUBSET Session, NEW F,
           NEW M, NEW L \in [Key -> SUBSET Route], \A k \in Key : k \notin K => L[k] = M[k],
           NoIntervals, CellsInv(base, E, now), ExactCells(base, Watched(E, F), M)
    PROVE  ExactCells(Exported(base, K, L, E), Watched(E, F), L)
<1> DEFINE G == Exported(base, K, L, E)
<1>1. G = [s \in Session |-> [k \in Key |->
              IF s \in E /\ k \in K THEN Export(base[s][k], s, L[k]) ELSE base[s][k]]]
  BY DEF Exported
<1>2. ASSUME NEW s \in Session, NEW k \in Key
      PROVE  /\ DOMAIN G[s][k].pend = {}
             /\ s \in Watched(E, F) => ExactCell(s, G[s][k], L[k])
  <2>1. /\ DOMAIN base[s][k].pend = {}
        /\ s \in Watched(E, F) => ExactCell(s, base[s][k], M[k])
    BY DEF ExactCells
  <2>2. interval[s] = 0
    BY DEF NoIntervals
  <2>3. CASE s \in E /\ k \in K
    <3>1. G[s][k] = Export(base[s][k], s, L[k])
      BY <1>1, <2>3
    <3>2. DOMAIN Export(base[s][k], s, L[k]).pend = {}
      BY <2>1, <2>2, ExportQueuesNothing, Zenon
    <3>3. ASSUME s \in Watched(E, F) PROVE ExactCell(s, Export(base[s][k], s, L[k]), L[k])
      <4>1. Records(s, base[s][k].out, base[s][k].heard)
        BY <2>1, <3>3 DEF ExactCell
      <4>2. L[k] \in SUBSET Route
        OBVIOUS
      <4> QED BY <2>2, <4>1, <4>2, ExportIsExact
    <3> QED BY <3>1, <3>2, <3>3
  <2>4. CASE ~(s \in E /\ k \in K)
    <3>1. G[s][k] = base[s][k]
      BY <1>1, <2>4
    <3>2. s \in Watched(E, F) => L[k] = M[k]
      BY <2>4 DEF Watched
    <3> QED BY <2>1, <3>1, <3>2
  <2> QED BY <2>3, <2>4
<1> QED BY <1>2 DEF ExactCells

\* New cells for one session.
LEMMA RowIsExact ==
    ASSUME NEW base, NEW W, NEW V, NEW L, NEW s, NEW G,
           ExactCells(base, W, L),
           \A k \in Key : DOMAIN G[s][k].pend = {},
           \A k \in Key : s \in V => ExactCell(s, G[s][k], L[k]),
           \A u \in Session : u # s => G[u] = base[u],
           \A u \in Session : u # s /\ u \in V => u \in W
    PROVE  ExactCells(G, V, L)
<1> SUFFICES ASSUME NEW u \in Session, NEW k \in Key
             PROVE  /\ DOMAIN G[u][k].pend = {}
                    /\ u \in V => ExactCell(u, G[u][k], L[k])
  BY DEF ExactCells
<1>1. CASE u = s
  BY <1>1
<1>2. CASE u # s
  <2>1. G[u][k] = base[u][k] /\ (u \in V => u \in W)
    BY <1>2
  <2> QED BY <2>1 DEF ExactCells
<1> QED BY <1>1, <1>2

---------------------------------------------------------------------------
(* The steps *)

\* Any step that touches neither the cells nor what they depend on.
LEMMA NothingExported ==
    ASSUME Exact, UNCHANGED <<est, loc, egress, interval, fresh>>
    PROVE  Exact'
BY DEF Exact, NoIntervals, ExactCells

\* reselect exports the keys it selects anew.
LEMMA ReselectIsExact ==
    ASSUME RibInv, Exact, NEW K, NEW A, AdjInType(A), NEW O, NEW S,
           Reselect(K, A, O, S), UNCHANGED <<est, interval, fresh>>
    PROVE  Exact'
<1> DEFINE L == Reselected(K, A, O, S)
<1>1. loc' = L /\ egress' = Exported(egress, K, L, est)
  BY DEF Reselect
<1>2. /\ loc \in [Key -> SUBSET Route] /\ est \in SUBSET Session
      /\ CellsInv(egress, est, now)
  BY DEF RibInv, Types
<1>3. L \in [Key -> SUBSET Route] /\ \A k \in Key : k \notin K => L[k] = loc[k]
  BY <1>2, ReselectedFacts
<1> HIDE DEF L
<1>4. NoIntervals /\ ExactCells(egress, Watched(est, fresh), loc)
  BY DEF Exact
<1>5. ExactCells(Exported(egress, K, L, est), Watched(est, fresh), L)
  BY <1>2, <1>3, <1>4, ExportedIsExact
<1>6. ExactCells(egress', Watched(est', fresh'), loc')
  BY <1>1, <1>5
<1>7. NoIntervals'
  BY <1>4 DEF NoIntervals
<1> QED BY <1>6, <1>7 DEF Exact

\* originate and install_static.
LEMMA InstallIsExact ==
    ASSUME RibInv, Exact, NEW k \in Key, NEW r \in Route, NEW O, NEW S, Install(k, r, O, S)
    PROVE  Exact'
<1> DEFINE L == [loc EXCEPT ![k] = {r}]
<1>1. /\ UNCHANGED <<est, interval, fresh>> /\ loc' = L
      /\ egress' = Exported(egress, {k}, L, est)
  BY DEF Install
<1>2. /\ loc \in [Key -> SUBSET Route] /\ est \in SUBSET Session
      /\ CellsInv(egress, est, now)
  BY DEF RibInv, Types
<1>3. L \in [Key -> SUBSET Route] /\ \A j \in Key : j \notin {k} => L[j] = loc[j]
  BY <1>2
<1> HIDE DEF L
<1>4. NoIntervals /\ ExactCells(egress, Watched(est, fresh), loc)
  BY DEF Exact
<1>5. ExactCells(Exported(egress, {k}, L, est), Watched(est, fresh), L)
  BY <1>2, <1>3, <1>4, ExportedIsExact
<1>6. ExactCells(egress', Watched(est', fresh'), loc')
  BY <1>1, <1>5
<1>7. NoIntervals'
  BY <1>1, <1>4 DEF NoIntervals
<1> QED BY <1>6, <1>7 DEF Exact

\* Received announcements and withdrawals, and the four local operations.
LEMMA RouteChangeIsExact ==
    ASSUME RibInv, Exact, NEW k \in Key,
           \/ \E s \in Session : (\E v \in Val : RecvAnnounce(s, k, v)) \/ RecvWithdraw(s, k)
           \/ Originate(k) \/ Unoriginate(k) \/ InstallStatic(k) \/ UninstallStatic(k)
    PROVE  Exact'
<1>1. AdjInType(adjIn) /\ now \in Nat
  BY DEF RibInv, Types
<1>2. ASSUME NEW s \in Session, NEW v \in Val, RecvAnnounce(s, k, v)
      PROVE  Exact'
  <2>1. UNCHANGED <<est, interval, fresh>>
    BY <1>2 DEF RecvAnnounce
  <2>2. CASE v \in Rejected[s]
    <3>1. UNCHANGED <<loc, egress>>
      BY <1>2, <2>2 DEF RecvAnnounce
    <3> QED BY <2>1, <3>1, NothingExported
  <2>3. CASE v \notin Rejected[s]
    <3> DEFINE A == [adjIn EXCEPT ![s][k] = Learned(s, v)]
    <3>1. Reselect({k}, A, originated, static)
      BY <1>2, <2>3 DEF RecvAnnounce
    <3>2. Learned(s, v) \in Route
      BY <1>1, RankAssumption DEF Learned, Route
    <3>3. AdjInType(A)
      BY <1>1, <3>2 DEF AdjInType
    <3> HIDE DEF A
    <3> QED BY <2>1, <3>1, <3>3, ReselectIsExact
  <2> QED BY <2>2, <2>3
<1>3. ASSUME NEW s \in Session, RecvWithdraw(s, k)
      PROVE  Exact'
  <2>1. UNCHANGED <<est, interval, fresh>>
    BY <1>3 DEF RecvWithdraw
  <2>2. CASE s \in Internal \/ adjIn[s][k] = NoRoute
    <3>1. UNCHANGED <<loc, egress>>
      BY <1>3, <2>2 DEF RecvWithdraw
    <3> QED BY <2>1, <3>1, NothingExported
  <2>3. CASE ~(s \in Internal \/ adjIn[s][k] = NoRoute)
    <3> DEFINE A == [adjIn EXCEPT ![s][k] = NoRoute]
    <3>1. Reselect({k}, A, originated, static)
      BY <1>3, <2>3 DEF RecvWithdraw
    <3>2. AdjInType(A)
      BY <1>1 DEF AdjInType
    <3> HIDE DEF A
    <3> QED BY <2>1, <3>1, <3>2, ReselectIsExact
  <2> QED BY <2>2, <2>3
<1>4. CASE Originate(k)
  BY <1>4, RouteFacts, InstallIsExact DEF Originate
<1>5. CASE InstallStatic(k)
  BY <1>5, RouteFacts, InstallIsExact DEF InstallStatic
<1>6. CASE Unoriginate(k)
  BY <1>1, <1>6, ReselectIsExact DEF Unoriginate
<1>7. CASE UninstallStatic(k)
  BY <1>1, <1>7, ReselectIsExact DEF UninstallStatic
<1> QED BY <1>2, <1>3, <1>4, <1>5, <1>6, <1>7

\* A route refresh leaves the MRAI queue alone.
LEMMA RefreshedPend == ASSUME NEW c, NEW s, NEW R PROVE Refreshed(c, s, R).pend = c.pend
BY CellFields DEF Refreshed

\* So does the initial dump.
LEMMA DumpedPend == ASSUME NEW c, NEW s, NEW R PROVE Dumped(c, s, R).pend = c.pend
BY CellFields DEF Dumped

\* And so does a purge.
LEMMA ForgottenPend == ASSUME NEW c PROVE Forgotten(c).pend = c.pend
BY CellFields DEF Forgotten

\* A route refresh.
LEMMA RouteRefreshIsExact ==
    ASSUME RibInv, Exact, NEW s \in Session, RouteRefresh(s)
    PROVE  Exact'
<1> DEFINE W == Watched(est, fresh)
<1> PICK V : V = Watched(est', fresh')
  OBVIOUS
<1>1. UNCHANGED <<est, loc, interval, fresh>>
  BY DEF RouteRefresh
<1>2. loc \in [Key -> SUBSET Route] /\ CellsInv(egress, est, now)
  BY DEF RibInv, Types
<1>3. NoIntervals /\ ExactCells(egress, W, loc)
  BY DEF Exact
<1>4. /\ \A k \in Key : egress'[s][k] = Refreshed(egress[s][k], s, loc[k])
      /\ \A u \in Session : u # s => egress'[u] = egress[u]
  BY <1>2 DEF RouteRefresh, CellsInv, Shape
<1>5. ASSUME NEW k \in Key
      PROVE  /\ DOMAIN egress'[s][k].pend = {}
             /\ s \in V => ExactCell(s, egress'[s][k], loc[k])
  <2>1. DOMAIN egress[s][k].pend = {} /\ loc[k] \in SUBSET Route
    BY <1>2, <1>3 DEF ExactCells
  <2>2. Refreshed(egress[s][k], s, loc[k]).pend = egress[s][k].pend
    BY RefreshedPend, Zenon
  <2>3. s \in V => ExactCell(s, Refreshed(egress[s][k], s, loc[k]), loc[k])
    BY <2>1, RefreshedIsExact
  <2> QED BY <1>4, <2>1, <2>2, <2>3
<1>6. \A u \in Session : u # s /\ u \in V => u \in W
  BY <1>1 DEF Watched
<1> HIDE DEF W
<1>7. ExactCells(egress', V, loc)
  <2>1. \A k \in Key : DOMAIN egress'[s][k].pend = {}
    BY <1>5
  <2>2. \A k \in Key : s \in V => ExactCell(s, egress'[s][k], loc[k])
    BY <1>5
  <2>3. \A u \in Session : u # s => egress'[u] = egress[u]
    BY <1>4
  <2>4. ExactCells(egress, W, loc)
    BY <1>3
  <2> QED BY <1>6, <2>1, <2>2, <2>3, <2>4, RowIsExact, Zenon
<1>8. NoIntervals'
  BY <1>1, <1>3 DEF NoIntervals
<1> QED BY <1>1, <1>7, <1>8 DEF Exact

\* A session comes up; it is watched only if its Adj-RIB-Out slice was empty.
LEMMA SessionUpIsExact ==
    ASSUME RibInv, Exact, NEW s \in Session, SessionUp(s)
    PROVE  Exact'
<1> DEFINE W == Watched(est, fresh)
<1> PICK V : V = Watched(est', fresh')
  OBVIOUS
<1>1. /\ UNCHANGED <<loc, interval>> /\ est' = est \cup {s}
      /\ fresh' = IF \A k \in Key : DOMAIN egress[s][k].out = {}
                  THEN fresh \cup {s} ELSE fresh \ {s}
  BY DEF SessionUp
<1>2. loc \in [Key -> SUBSET Route] /\ CellsInv(egress, est, now)
  BY DEF RibInv, Types
<1>3. NoIntervals /\ ExactCells(egress, W, loc)
  BY DEF Exact
<1>4. /\ \A k \in Key : egress'[s][k] = Dumped(egress[s][k], s, loc[k])
      /\ \A u \in Session : u # s => egress'[u] = egress[u]
  BY <1>2 DEF SessionUp, CellsInv, Shape
<1>5. ASSUME NEW k \in Key
      PROVE  /\ DOMAIN egress'[s][k].pend = {}
             /\ s \in V => ExactCell(s, egress'[s][k], loc[k])
  <2>1. DOMAIN egress[s][k].pend = {} /\ loc[k] \in SUBSET Route
    BY <1>2, <1>3 DEF ExactCells
  <2>2. Dumped(egress[s][k], s, loc[k]).pend = egress[s][k].pend
    BY DumpedPend, Zenon
  <2>3. s \in V => DOMAIN egress[s][k].out = {}
    BY <1>1 DEF Watched
  <2>4. PathMap(egress[s][k].out)
    BY <1>2, Zenon DEF CellsInv, CellInv, IsCell
  <2>5. s \in V => ExactCell(s, Dumped(egress[s][k], s, loc[k]), loc[k])
    BY <2>1, <2>3, <2>4, DumpedIsExact, Zenon
  <2> QED BY <1>4, <2>1, <2>2, <2>5
<1>6. \A u \in Session : u # s /\ u \in V => u \in W
  BY <1>1 DEF Watched
<1> HIDE DEF W
<1>7. ExactCells(egress', V, loc)
  <2>1. \A k \in Key : DOMAIN egress'[s][k].pend = {}
    BY <1>5
  <2>2. \A k \in Key : s \in V => ExactCell(s, egress'[s][k], loc[k])
    BY <1>5
  <2>3. \A u \in Session : u # s => egress'[u] = egress[u]
    BY <1>4
  <2>4. ExactCells(egress, W, loc)
    BY <1>3
  <2> QED BY <1>6, <2>1, <2>2, <2>3, <2>4, RowIsExact, Zenon
<1>8. NoIntervals'
  BY <1>1, <1>3 DEF NoIntervals
<1> QED BY <1>1, <1>7, <1>8 DEF Exact

\* teardown_bgp_session: the session that went down is not watched.
LEMMA QueueClearedIsExact ==
    ASSUME RibInv, Exact, NEW s \in Session
    PROVE  ExactCells(QueueCleared(s), Watched(est \ {s}, fresh), loc)
<1> DEFINE Q == QueueCleared(s)
           W == Watched(est, fresh)
           V == Watched(est \ {s}, fresh)
<1>1. CellsInv(egress, est, now) /\ ExactCells(egress, W, loc)
  BY DEF RibInv, Exact
<1>2. /\ \A k \in Key : Q[s][k] = ClearQueue(egress[s][k])
      /\ \A u \in Session : u # s => Q[u] = egress[u]
  BY <1>1 DEF QueueCleared, CellsInv, Shape
<1>3. \A k \in Key : DOMAIN Q[s][k].pend = {}
  BY <1>2, EmptyFacts, CellFields DEF ClearQueue
<1>4. s \notin V /\ \A u \in Session : u # s /\ u \in V => u \in W
  BY DEF Watched
<1> HIDE DEF Q, W, V
<1>5. ExactCells(Q, V, loc)
  <2>1. \A k \in Key : s \in V => ExactCell(s, Q[s][k], loc[k])
    BY <1>4, Zenon
  <2> QED BY <1>1, <1>2, <1>3, <1>4, <2>1, RowIsExact, Zenon
<1> QED BY <1>5 DEF Q, V

\* session_down_cleanup: every key whose route is purged is exported again.
LEMMA CleanupIsExact ==
    ASSUME RibInv, NoIntervals, NEW s \in Session, NEW base, NEW E \in SUBSET Session,
           s \notin E, CellsInv(base, E, now), ExactCells(base, Watched(E, fresh), loc),
           Cleanup(s, base, E)
    PROVE  ExactCells(egress', Watched(E, fresh), loc')
<1> DEFINE K == {k \in Key : adjIn[s][k] # NoRoute}
           A == [adjIn EXCEPT ![s] = [k \in Key |-> NoRoute]]
           L == Reselected(K, A, originated, static)
           row == [k \in Key |-> Forgotten(base[s][k])]
           forgot == [base EXCEPT ![s] = [k \in Key |-> row[k]]]
           cleared == IF K = {} THEN base ELSE forgot
           W == Watched(E, fresh)
<1>1. Shape(base)
  BY DEF CellsInv
<1>2. forgot = [base EXCEPT ![s] = [k \in Key |-> Forgotten(@[k])]]
  BY <1>1, Zenon DEF Shape
<1>3. loc' = L /\ egress' = Exported(cleared, K, L, E)
  BY <1>2 DEF Cleanup
<1>4. loc \in [Key -> SUBSET Route] /\ now \in Nat /\ AdjInType(adjIn)
  BY DEF RibInv, Types
<1>5. AdjInType(A)
  BY <1>4 DEF AdjInType
<1>6. ASSUME NEW k \in Key PROVE CellInv(s, row[k], E, now)
  <2>1. CellInv(s, base[s][k], E, now)
    BY DEF CellsInv
  <2>2. CellInv(s, Forgotten(base[s][k]), E, now)
    BY <1>4, <2>1, ForgottenInv
  <2> QED BY <2>2
<1>7. ASSUME NEW k \in Key PROVE DOMAIN row[k].pend = {}
  <2>1. DOMAIN base[s][k].pend = {}
    BY DEF ExactCells
  <2>2. Forgotten(base[s][k]).pend = base[s][k].pend
    BY ForgottenPend, Zenon
  <2> QED BY <2>1, <2>2
<1> HIDE DEF A, K, row
<1>8. L \in [Key -> SUBSET Route] /\ \A k \in Key : k \notin K => L[k] = loc[k]
  <2>1. /\ L \in [Key -> SUBSET Route]
        /\ \A k \in Key : /\ k \in K => L[k] \subseteq Candidates(k, A, originated, static)
                          /\ k \notin K => L[k] = loc[k]
    BY <1>4, <1>5, ReselectedFacts
  <2> HIDE DEF L
  <2> QED BY <2>1, Zenon
<1>9. CellsInv(forgot, E, now)
  BY <1>6, SameRowInv, Zenon
<1>10. ExactCells(forgot, W, loc)
  <2>1. /\ \A k \in Key : forgot[s][k] = row[k]
        /\ \A u \in Session : u # s => forgot[u] = base[u]
    BY <1>1 DEF Shape
  <2> HIDE DEF forgot
  <2>2. \A k \in Key : DOMAIN forgot[s][k].pend = {}
    BY <1>7, <2>1
  <2>3. s \notin W /\ ExactCells(base, W, loc)
    BY DEF Watched
  <2> HIDE DEF W
  <2>4. /\ \A k \in Key : s \in W => ExactCell(s, forgot[s][k], loc[k])
        /\ \A u \in Session : u # s /\ u \in W => u \in W
    BY <2>3, Zenon
  <2> QED BY <2>1, <2>2, <2>3, <2>4, RowIsExact, Zenon
<1> HIDE DEF L, forgot
<1>11. CellsInv(cleared, E, now) /\ ExactCells(cleared, W, loc)
  BY <1>9, <1>10
<1> HIDE DEF cleared
<1>12. ExactCells(Exported(cleared, K, L, E), W, L)
  BY <1>8, <1>11, ExportedIsExact
<1> QED BY <1>3, <1>12

\* A session goes down, with or without retention of its routes.
LEMMA SessionEndsIsExact ==
    ASSUME RibInv, Exact, NEW s \in Session, SessionDown(s) \/ SessionLost(s)
    PROVE  Exact'
<1>1. UNCHANGED <<interval, fresh>> /\ est' = est \ {s}
  BY DEF SessionDown, SessionLost
<1>2. ExactCells(QueueCleared(s), Watched(est \ {s}, fresh), loc)
  BY QueueClearedIsExact
<1>3. NoIntervals
  BY DEF Exact
<1>4. CASE SessionDown(s)
  <2>1. Cleanup(s, QueueCleared(s), est \ {s})
    BY <1>4 DEF SessionDown
  <2>2. est \ {s} \in SUBSET Session /\ s \notin est \ {s}
    BY DEF RibInv, Types
  <2>3. CellsInv(QueueCleared(s), est \ {s}, now)
    BY QueueClearedInv
  <2>4. ExactCells(egress', Watched(est \ {s}, fresh), loc')
    BY <1>2, <1>3, <2>1, <2>2, <2>3, CleanupIsExact
  <2>5. NoIntervals'
    BY <1>1, <1>3 DEF NoIntervals
  <2> QED BY <1>1, <2>4, <2>5 DEF Exact
<1>5. CASE SessionLost(s)
  <2>1. egress' = QueueCleared(s) /\ loc' = loc
    BY <1>5 DEF SessionLost
  <2>2. NoIntervals'
    BY <1>1, <1>3 DEF NoIntervals
  <2> QED BY <1>1, <1>2, <2>1, <2>2 DEF Exact
<1> QED BY <1>4, <1>5

\* The restart window elapses.
LEMMA RetentionExpiresIsExact ==
    ASSUME RibInv, Exact, NEW s \in Session, RetentionExpires(s)
    PROVE  Exact'
<1>1. UNCHANGED <<est, interval, fresh>>
  BY DEF RetentionExpires
<1>2. CASE s \in est
  <2>1. UNCHANGED <<loc, egress>>
    BY <1>2 DEF RetentionExpires
  <2> QED BY <1>1, <2>1, NothingExported
<1>3. CASE s \notin est
  <2>1. Cleanup(s, egress, est)
    BY <1>3 DEF RetentionExpires
  <2>2. est \in SUBSET Session /\ CellsInv(egress, est, now)
    BY DEF RibInv, Types
  <2>3. NoIntervals /\ ExactCells(egress, Watched(est, fresh), loc)
    BY DEF Exact
  <2>4. ExactCells(egress', Watched(est, fresh), loc')
    BY <1>3, <2>1, <2>2, <2>3, CleanupIsExact
  <2>5. NoIntervals'
    BY <1>1, <2>3 DEF NoIntervals
  <2> QED BY <1>1, <2>4, <2>5 DEF Exact
<1> QED BY <1>2, <1>3

\* End-of-RIB after a restart.
LEMMA EndOfRibIsExact ==
    ASSUME RibInv, Exact, NEW s \in Session, EndOfRib(s)
    PROVE  Exact'
<1> DEFINE K == {k \in Key : adjIn[s][k] # NoRoute /\ k \notin gr[s].refreshed}
           A == [adjIn EXCEPT ![s] = [k \in Key |-> IF k \in K THEN NoRoute ELSE @[k]]]
<1>1. UNCHANGED <<est, interval, fresh>> /\ Reselect(K, A, originated, static)
  BY Zenon DEF EndOfRib
<1>2. AdjInType(adjIn)
  BY DEF RibInv, Types
<1>3. AdjInType(A)
  <2> HIDE DEF K
  <2> QED BY <1>2 DEF AdjInType
<1> HIDE DEF A, K
<1> QED BY <1>1, <1>3, ReselectIsExact

\* The clock and set_mrai find nothing to flush.
LEMMA FlushIsExact ==
    ASSUME RibInv, Exact, Intervals \subseteq {0},
           Tick \/ \E s \in Session, i \in Intervals : SetMrai(s, i)
    PROVE  Exact'
<1>1. NoIntervals /\ ExactCells(egress, Watched(est, fresh), loc)
  BY DEF Exact
<1>2. \A s \in Session, k \in Key : \A t : FlushCell(egress[s][k], s, t) = egress[s][k]
  BY <1>1, Zenon DEF ExactCells, FlushCell
<1>3. Shape(egress)
  BY DEF RibInv, CellsInv
<1>4. UNCHANGED <<est, loc, fresh>>
  BY DEF Tick, SetMrai
<1>5. \A s \in Session, k \in Key : egress'[s][k] = egress[s][k]
  <2>1. CASE Tick
    BY <1>2, <2>1, Zenon DEF Tick, FlushDue
  <2>2. ASSUME NEW s \in Session, NEW i \in Intervals, SetMrai(s, i)
        PROVE  \A u \in Session, k \in Key : egress'[u][k] = egress[u][k]
    <3>1. i = 0
      OBVIOUS
    <3>2. egress' = [egress EXCEPT ![s] = [k \in Key |-> FlushCell(@[k], s, now)]]
      BY <2>2, <3>1 DEF SetMrai
    <3>3. DOMAIN egress = Session
      BY <1>3 DEF Shape
    <3> QED BY <1>2, <3>2, <3>3
  <2> QED BY <2>1, <2>2
<1>6. NoIntervals'
  <2>1. CASE Tick
    BY <1>1, <2>1, Zenon DEF Tick, NoIntervals
  <2>2. ASSUME NEW s \in Session, NEW i \in Intervals, SetMrai(s, i)
        PROVE  NoIntervals'
    <3>1. i = 0 /\ interval' = [interval EXCEPT ![s] = i]
      BY <2>2 DEF SetMrai
    <3>2. interval \in [Session -> Nat]
      BY DEF RibInv, Types
    <3> QED BY <1>1, <3>1, <3>2 DEF NoIntervals
  <2> QED BY <2>1, <2>2
<1>7. ExactCells(egress', Watched(est', fresh'), loc')
  BY <1>1, <1>4, <1>5 DEF ExactCells
<1> QED BY <1>6, <1>7 DEF Exact

---------------------------------------------------------------------------
(* The theorem *)

\* A new DefaultRouter has sent nothing and has nothing to send.
LEMMA ExactInit == Init => ExactInv
<1> SUFFICES ASSUME Init PROVE Exact
  BY DEF ExactInv
<1>1. NoIntervals
  BY DEF Init, NoIntervals
<1>2. \A s \in Session, k \in Key : egress[s][k] = Cell(Empty, Empty, Never, Empty, 0)
  BY DEF Init
<1>3. \A s \in Session, k \in Key : DOMAIN egress[s][k].pend = {}
  BY SMTT(60), <1>2, EmptyFacts, CellFields
<1>4. Watched(est, fresh) = {}
  BY DEF Init, Watched
<1>5. ExactCells(egress, Watched(est, fresh), loc)
  BY <1>3, <1>4 DEF ExactCells
<1> QED BY <1>1, <1>5 DEF Exact

\* Every call keeps the peers' views exact.
LEMMA ExactNext == RibInv /\ ExactInv /\ [Next]_vars => ExactInv'
<1> SUFFICES ASSUME RibInv, Exact, Intervals \subseteq {0}, [Next]_vars PROVE Exact'
  BY DEF ExactInv
<1>1. CASE UNCHANGED vars
  <2>1. UNCHANGED <<est, loc, egress, interval, fresh>>
    BY <1>1 DEF vars
  <2> QED BY <2>1, NothingExported
<1>2. ASSUME NEW s \in Session, NEW k \in Key,
             (\E v \in Val : RecvAnnounce(s, k, v)) \/ RecvWithdraw(s, k)
      PROVE  Exact'
  BY <1>2, RouteChangeIsExact
<1>3. ASSUME NEW k \in Key,
             Originate(k) \/ Unoriginate(k) \/ InstallStatic(k) \/ UninstallStatic(k)
      PROVE  Exact'
  BY <1>3, RouteChangeIsExact
<1>4. ASSUME NEW s \in Session,
             \/ RouteRefresh(s) \/ SessionUp(s) \/ SessionDown(s)
             \/ SessionLost(s) \/ RetentionExpires(s) \/ EndOfRib(s)
             \/ \E i \in Intervals : SetMrai(s, i)
      PROVE  Exact'
  BY <1>4, RouteRefreshIsExact, SessionUpIsExact, SessionEndsIsExact,
     RetentionExpiresIsExact, EndOfRibIsExact, FlushIsExact
<1>5. CASE Tick
  BY <1>5, FlushIsExact
<1> QED BY <1>1, <1>2, <1>3, <1>4, <1>5 DEF Next

\* An exact Adj-RIB-Out gives the property of the run.
LEMMA ExactImplies == RibInv /\ ExactInv => ExportExact
<1> SUFFICES ASSUME RibInv, Exact, Intervals \subseteq {0},
                    NEW s \in est \cap fresh, NEW k \in Key,
                    \A r \in loc[k] : r.proto = "bgp"
             PROVE  HeardFollows(s, egress[s][k].heard, loc[k])
  BY DEF ExactInv, ExportExact
<1>1. s \in Session /\ s \in Watched(est, fresh)
  BY DEF RibInv, Types, Watched
<1>2. ExactCell(s, egress[s][k], loc[k])
  BY <1>1 DEF Exact, ExactCells
<1> QED BY <1>2 DEF ExactCell

\* Without MRAI, for every prefix whose selection is a BGP one, the peer of a
\* session that came up over an empty Adj-RIB-Out slice holds every path that
\* Loc-RIB, split horizon and the export policy prescribe and that
\* advertise_with_originator does not refuse, and no identifier beyond them,
\* after any history of updates, local changes, purges, refreshes and losses
\* of other sessions.  Under the identifier of a refused path the peer may
\* still hold the path it replaced.
THEOREM ExportNeverDrifts == Spec => []ExportExact
<1>1. Spec => []ExactInv
  BY RibInvariant, ExactInit, ExactNext, PTL DEF Spec
<1> QED BY <1>1, RibInvariant, ExactImplies, PTL

===========================================================================
