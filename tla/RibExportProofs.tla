-------------------------- MODULE RibExportProofs --------------------------
(***************************************************************************)
(* Proofs about the RIB pipeline, for any number of sessions, prefixes and  *)
(* ranks.  First the operations on Adj-RIB-Out: what each does to one cell, *)
(* and then to all cells, so that the actions only have to say which cells  *)
(* they touch.  Then the invariant of the tables and its preservation by    *)
(* every action.                                                            *)
(***************************************************************************)
EXTENDS RibExport, TLAPS

USE DEF Never, NoVal

---------------------------------------------------------------------------
(* Path maps *)

\* Restricting a map of paths leaves a map of paths.
LEMMA KeepFacts ==
    ASSUME NEW f, NEW S, PathMap(f)
    PROVE  /\ PathMap(Keep(f, S))
           /\ \A i : i \in DOMAIN Keep(f, S) <=> i \in DOMAIN f /\ i \in S
           /\ \A i \in DOMAIN Keep(f, S) : Keep(f, S)[i] = f[i]
BY DEF PathMap, Keep

\* Overwriting one map of paths with another gives a map of paths.
LEMMA OverFacts ==
    ASSUME NEW f, NEW g, PathMap(f), PathMap(g)
    PROVE  /\ PathMap(Over(f, g))
           /\ \A i : i \in DOMAIN Over(f, g) <=> i \in DOMAIN f \/ i \in DOMAIN g
           /\ \A i \in DOMAIN f : Over(f, g)[i] = f[i]
           /\ \A i \in DOMAIN g \ DOMAIN f : Over(f, g)[i] = g[i]
BY DEF PathMap, Over

\* The empty table of paths is a table of paths.
LEMMA EmptyFacts == PathMap(Empty) /\ DOMAIN Empty = {}
BY DEF PathMap, Empty

\* The identifiers given to a ranked set lead to members of the set.
LEMMA PathsFacts ==
    ASSUME NEW s \in Session, NEW L \in SUBSET Route
    PROVE  /\ PathMap(Paths(s, L))
           /\ \A i \in DOMAIN Paths(s, L) : Paths(s, L)[i] \in L
<1>1. CASE s \in AddPath
  <2>1. \A i \in {Slot(L, r) : r \in L} :
            (CHOOSE r \in L : Slot(L, r) = i) \in L
    OBVIOUS
  <2>2. Paths(s, L) = [i \in {Slot(L, r) : r \in L} |->
                          CHOOSE r \in L : Slot(L, r) = i]
    BY <1>1 DEF Paths
  <2> QED BY <2>1, <2>2 DEF PathMap
<1>2. CASE s \notin AddPath
  <2> DEFINE B == {0 : r \in {r \in L : Slot(L, r) = 1}}
  <2>1. \A i \in B : (CHOOSE r \in L : Slot(L, r) = 1) \in L
    OBVIOUS
  <2>2. Paths(s, L) = [i \in B |-> CHOOSE r \in L : Slot(L, r) = 1]
    BY <1>2 DEF Paths
  <2> HIDE DEF B
  <2> QED BY <2>1, <2>2 DEF PathMap
<1> QED BY <1>1, <1>2

\* export_work_for offers paths of the ranked set that may go to s.
LEMMA DesiredFacts ==
    ASSUME NEW s \in Session, NEW L \in SUBSET Route
    PROVE  /\ PathMap(Desired(s, L))
           /\ \A i \in DOMAIN Desired(s, L) :
                 Desired(s, L)[i] \in L /\ Desired(s, L)[i].src # s
<1> DEFINE P == Paths(s, L)
           D == {i \in DOMAIN P : Exportable(s, P[i])}
<1>1. PathMap(P) /\ \A i \in DOMAIN P : P[i] \in L
  BY PathsFacts
<1>2. Desired(s, L) = Keep(P, D)
  BY DEF Desired
<1>3. /\ PathMap(Keep(P, D))
      /\ \A i : i \in DOMAIN Keep(P, D) <=> i \in DOMAIN P /\ i \in D
      /\ \A i \in DOMAIN Keep(P, D) : Keep(P, D)[i] = P[i]
  <2> HIDE DEF P, D
  <2> QED BY <1>1, KeepFacts
<1>4. \A i \in D : P[i].src # s
  BY DEF Exportable
<1> HIDE DEF P, D
<1> QED BY <1>1, <1>2, <1>3, <1>4

---------------------------------------------------------------------------
(* One cell *)

\* Paths that may be sent to s.
PathsFor(s, P) == PathMap(P) /\ \A i \in DOMAIN P : P[i].src # s

\* What holds of the cell c of session s when E are the established sessions
\* and t is the time.
CellInv(s, c, E, t) ==
    /\ IsCell(c)
    /\ PathsFor(s, c.heard)
    /\ PathsFor(s, c.pend)
    /\ DOMAIN c.heard \subseteq DOMAIN c.out
    /\ DOMAIN c.pend # {} => s \in E /\ c.due > t
    /\ s \notin E => DOMAIN c.heard = {}

\* Merging two tables of paths fit for s (BTreeMap inserts of Adj-RIB-Out).
LEMMA OverPathsFor ==
    ASSUME NEW s, NEW f, NEW g, PathsFor(s, f), PathsFor(s, g)
    PROVE  /\ PathsFor(s, Over(f, g))
           /\ \A i : i \in DOMAIN Over(f, g) <=> i \in DOMAIN f \/ i \in DOMAIN g
<1>1. /\ PathMap(f) /\ \A i \in DOMAIN f : f[i].src # s
      /\ PathMap(g) /\ \A i \in DOMAIN g : g[i].src # s
  BY DEF PathsFor
<1>2. /\ PathMap(Over(f, g))
      /\ \A i : i \in DOMAIN Over(f, g) <=> i \in DOMAIN f \/ i \in DOMAIN g
      /\ \A i \in DOMAIN f : Over(f, g)[i] = f[i]
      /\ \A i \in DOMAIN g \ DOMAIN f : Over(f, g)[i] = g[i]
  BY <1>1, OverFacts
<1> QED BY <1>1, <1>2 DEF PathsFor

\* Restricting a table of paths fit for s.
LEMMA KeepPathsFor ==
    ASSUME NEW s, NEW f, NEW S, PathsFor(s, f)
    PROVE  /\ PathsFor(s, Keep(f, S))
           /\ \A i : i \in DOMAIN Keep(f, S) <=> i \in DOMAIN f /\ i \in S
<1>1. PathMap(f) /\ \A i \in DOMAIN f : f[i].src # s
  BY DEF PathsFor
<1>2. /\ PathMap(Keep(f, S))
      /\ \A i : i \in DOMAIN Keep(f, S) <=> i \in DOMAIN f /\ i \in S
      /\ \A i \in DOMAIN Keep(f, S) : Keep(f, S)[i] = f[i]
  BY <1>1, KeepFacts
<1> QED BY <1>1, <1>2 DEF PathsFor

\* What advertise_with_originator lets through is part of what was asked for.
LEMMA SendableFacts ==
    ASSUME NEW s, NEW P, PathsFor(s, P)
    PROVE  /\ PathsFor(s, SendablePaths(s, P))
           /\ DOMAIN SendablePaths(s, P) \subseteq DOMAIN P
<1> DEFINE D == {i \in DOMAIN P : Sendable(s, P[i])}
<1>1. SendablePaths(s, P) = Keep(P, D)
  BY DEF SendablePaths
<1> HIDE DEF D
<1>2. /\ PathsFor(s, Keep(P, D))
      /\ \A i : i \in DOMAIN Keep(P, D) <=> i \in DOMAIN P /\ i \in D
  BY KeepPathsFor, Zenon
<1> QED BY <1>1, <1>2

\* The fields of an egress cell.
LEMMA CellFields ==
    ASSUME NEW o, NEW h, NEW l, NEW p, NEW d
    PROVE  /\ Cell(o, h, l, p, d).out = o
           /\ Cell(o, h, l, p, d).heard = h
           /\ Cell(o, h, l, p, d).last = l
           /\ Cell(o, h, l, p, d).pend = p
           /\ Cell(o, h, l, p, d).due = d
BY DEF Cell

\* A cell put together from sound parts is sound.
LEMMA MakeCell ==
    ASSUME NEW s, NEW E, NEW t \in Nat,
           NEW o, NEW h, NEW l \in Nat \cup {Never}, NEW p, NEW d \in Nat,
           PathMap(o), PathsFor(s, h), PathsFor(s, p),
           DOMAIN h \subseteq DOMAIN o,
           DOMAIN p # {} => s \in E /\ d > t,
           s \notin E => DOMAIN h = {}
    PROVE  CellInv(s, Cell(o, h, l, p, d), E, t)
BY CellFields DEF CellInv, IsCell, PathsFor

\* send_advertisement_set keeps a cell sound.
LEMMA TransmitInv ==
    ASSUME NEW E, NEW s \in E, NEW c, NEW P, now \in Nat,
           CellInv(s, c, E, now), PathsFor(s, P)
    PROVE  CellInv(s, Transmit(c, s, P), E, now)
<1> DEFINE sent == SendablePaths(s, P)
<1>1. CASE DOMAIN sent = {}
  BY <1>1 DEF Transmit
<1>2. CASE DOMAIN sent # {}
  <2>1. Transmit(c, s, P) = Cell(Over(P, c.out), Over(sent, c.heard), now, c.pend, c.due)
    BY <1>2 DEF Transmit
  <2>2. PathsFor(s, sent) /\ DOMAIN sent \subseteq DOMAIN P
    BY SendableFacts
  <2> HIDE DEF sent
  <2>3. /\ PathMap(Over(P, c.out))
        /\ \A i : i \in DOMAIN Over(P, c.out) <=> i \in DOMAIN P \/ i \in DOMAIN c.out
    BY OverFacts DEF CellInv, IsCell, PathsFor
  <2>4. /\ PathsFor(s, Over(sent, c.heard))
        /\ \A i : i \in DOMAIN Over(sent, c.heard) <=> i \in DOMAIN sent \/ i \in DOMAIN c.heard
    <3>1. PathsFor(s, c.heard)
      BY DEF CellInv
    <3>2. PathsFor(s, sent)
      BY <2>2
    <3> QED BY <3>1, <3>2, OverPathsFor, Zenon
  <2>5. CellInv(s, Cell(Over(P, c.out), Over(sent, c.heard), now, c.pend, c.due), E, now)
    <3>1. /\ PathsFor(s, c.pend) /\ c.due \in Nat
          /\ DOMAIN c.pend # {} => s \in E /\ c.due > now
          /\ DOMAIN Over(sent, c.heard) \subseteq DOMAIN Over(P, c.out)
      BY <2>2, <2>3, <2>4 DEF CellInv, IsCell
    <3> QED BY <2>3, <2>4, <3>1, MakeCell
  <2> QED BY <2>1, <2>5
<1> QED BY <1>1, <1>2

\* queue_or_send_advertisement keeps a cell sound; a queued set is due later.
LEMMA AdvertiseInv ==
    ASSUME NEW E \in SUBSET Session, NEW s \in E, NEW c, NEW P, now \in Nat,
           interval \in [Session -> Nat],
           CellInv(s, c, E, now), PathsFor(s, P)
    PROVE  CellInv(s, Advertise(c, s, P), E, now)
<1> DEFINE wait == interval[s] # 0 /\ c.last # Never /\ now < c.last + interval[s]
<1>1. CASE DOMAIN P = {}
  BY <1>1 DEF Advertise
<1>2. CASE DOMAIN P # {} /\ ~wait
  BY <1>2, TransmitInv DEF Advertise
<1>3. CASE DOMAIN P # {} /\ wait
  <2>1. Advertise(c, s, P) = Cell(c.out, c.heard, c.last, P, c.last + interval[s])
    BY <1>3 DEF Advertise
  <2>3. c.last \in Nat /\ c.last + interval[s] \in Nat /\ c.last + interval[s] > now
    BY <1>3 DEF CellInv, IsCell
  <2>4. /\ PathMap(c.out) /\ PathsFor(s, c.heard)
        /\ DOMAIN c.heard \subseteq DOMAIN c.out
    BY DEF CellInv, IsCell
  <2>5. CellInv(s, Cell(c.out, c.heard, c.last, P, c.last + interval[s]), E, now)
    BY <2>3, <2>4, MakeCell, Zenon
  <2> QED BY <2>1, <2>5
<1> QED BY <1>1, <1>2, <1>3, Zenon

\* A withdrawal keeps a cell sound.
LEMMA WithdrawInv ==
    ASSUME NEW E, NEW s \in E, NEW c, NEW ids, now \in Nat,
           CellInv(s, c, E, now)
    PROVE  CellInv(s, Withdraw(c, ids), E, now)
<1> DEFINE o == Keep(c.out, DOMAIN c.out \ ids)
           h == Keep(c.heard, DOMAIN c.heard \ ids)
<1>1. CASE ids = {}
  BY <1>1 DEF Withdraw
<1>2. CASE ids # {}
  <2>1. Withdraw(c, ids) = Cell(o, h, now, Empty, 0)
    BY <1>2 DEF Withdraw
  <2>2. PathMap(c.out) /\ PathsFor(s, c.heard) /\ DOMAIN c.heard \subseteq DOMAIN c.out
    BY DEF CellInv, IsCell
  <2>3. /\ PathMap(o)
        /\ \A i : i \in DOMAIN o <=> i \in DOMAIN c.out /\ i \in DOMAIN c.out \ ids
    BY <2>2, KeepFacts
  <2>4. /\ PathsFor(s, h)
        /\ \A i : i \in DOMAIN h <=> i \in DOMAIN c.heard /\ i \in DOMAIN c.heard \ ids
    BY <2>2, KeepPathsFor, Zenon
  <2>5. PathsFor(s, Empty) /\ DOMAIN Empty = {}
    BY EmptyFacts DEF PathsFor
  <2> HIDE DEF o, h
  <2>6. DOMAIN h \subseteq DOMAIN o
    BY <2>2, <2>3, <2>4
  <2>7. CellInv(s, Cell(o, h, now, Empty, 0), E, now)
    BY <2>3, <2>4, <2>5, <2>6, MakeCell
  <2> QED BY <2>1, <2>7
<1> QED BY <1>1, <1>2

\* The export diff keeps a cell sound, whatever the new selection.
LEMMA ExportInv ==
    ASSUME NEW E \in SUBSET Session, NEW s \in E, NEW c, NEW L \in SUBSET Route,
           now \in Nat, interval \in [Session -> Nat], CellInv(s, c, E, now)
    PROVE  CellInv(s, Export(c, s, L), E, now)
<1> DEFINE D == Desired(s, L)
           changed == {i \in DOMAIN D : i \notin DOMAIN c.out \/ c.out[i] # D[i]}
           w == Withdraw(c, DOMAIN c.out \ DOMAIN D)
<1>1. Export(c, s, L) = Advertise(w, s, Keep(D, changed))
  BY DEF Export
<1>2. CellInv(s, w, E, now)
  BY WithdrawInv
<1>3. PathsFor(s, D)
  BY DesiredFacts DEF PathsFor
<1> HIDE DEF D, changed, w
<1>4. PathsFor(s, Keep(D, changed))
  BY <1>3, KeepPathsFor
<1>5. CellInv(s, Advertise(w, s, Keep(D, changed)), E, now)
  BY <1>2, <1>4, AdvertiseInv
<1> QED BY <1>1, <1>5

\* The initial table dump keeps a cell sound.
LEMMA DumpedInv ==
    ASSUME NEW E, NEW s \in Session, s \notin E, NEW c, NEW L \in SUBSET Route,
           NEW F, s \in F, now \in Nat, CellInv(s, c, E, now)
    PROVE  CellInv(s, Dumped(c, s, L), F, now)
<1> DEFINE P == SendablePaths(s, Desired(s, L))
<1>1. Dumped(c, s, L) = Cell(Over(P, c.out), P, c.last, c.pend, c.due)
  BY DEF Dumped
<1>2. PathsFor(s, P)
  BY DesiredFacts, SendableFacts DEF PathsFor
<1> HIDE DEF P
<1>3. /\ PathMap(c.out) /\ PathsFor(s, c.pend) /\ c.due \in Nat
      /\ c.last \in Nat \cup {Never} /\ DOMAIN c.pend = {}
  BY DEF CellInv, IsCell
<1>4. PathMap(P)
  BY <1>2 DEF PathsFor
<1>5. /\ PathMap(Over(P, c.out))
      /\ \A i : i \in DOMAIN Over(P, c.out) <=> i \in DOMAIN P \/ i \in DOMAIN c.out
  BY <1>3, <1>4, OverFacts
<1>6. CellInv(s, Cell(Over(P, c.out), P, c.last, c.pend, c.due), F, now)
  <2>1. DOMAIN P \subseteq DOMAIN Over(P, c.out)
    BY <1>5
  <2> QED BY <1>2, <1>3, <1>5, <2>1, MakeCell, Zenon
<1> QED BY <1>1, <1>6

\* A route refresh keeps a cell sound.
LEMMA RefreshedInv ==
    ASSUME NEW E, NEW s \in E, s \in Session, NEW c, NEW L \in SUBSET Route,
           now \in Nat, CellInv(s, c, E, now)
    PROVE  CellInv(s, Refreshed(c, s, L), E, now)
<1> DEFINE P == Paths(s, L)
           D == {i \in DOMAIN P : P[i].src # s /\ P[i].src \notin Denied[s]}
           again == SendablePaths(s, Keep(P, D))
<1>1. Refreshed(c, s, L) = Cell(again, again, c.last, c.pend, c.due)
  BY DEF Refreshed
<1>2. PathMap(P)
  BY PathsFacts
<1>3. \A i \in D : P[i].src # s
  OBVIOUS
<1> HIDE DEF P, D
<1>4. PathsFor(s, Keep(P, D))
  <2>1. /\ PathMap(Keep(P, D))
        /\ \A i : i \in DOMAIN Keep(P, D) <=> i \in DOMAIN P /\ i \in D
        /\ \A i \in DOMAIN Keep(P, D) : Keep(P, D)[i] = P[i]
    BY <1>2, KeepFacts
  <2> QED BY <1>3, <2>1 DEF PathsFor
<1>5. PathsFor(s, again)
  BY <1>4, SendableFacts
<1> HIDE DEF again
<1>6. /\ PathsFor(s, c.pend) /\ c.due \in Nat
      /\ c.last \in Nat \cup {Never}
      /\ DOMAIN c.pend # {} => s \in E /\ c.due > now
  BY DEF CellInv, IsCell
<1>7. CellInv(s, Cell(again, again, c.last, c.pend, c.due), E, now)
  <2>1. PathMap(again)
    BY <1>5 DEF PathsFor
  <2> QED BY <1>5, <1>6, <2>1, MakeCell, Zenon
<1> QED BY <1>1, <1>7

\* After a teardown the cell is sound for a session that is no longer up.
LEMMA ClearQueueInv ==
    ASSUME NEW E, NEW s, NEW c, IsCell(c), NEW t \in Nat
    PROVE  CellInv(s, ClearQueue(c), E, t)
<1>1. PathMap(c.out)
  BY DEF IsCell
<1>2. PathsFor(s, Empty) /\ DOMAIN Empty = {}
  BY EmptyFacts DEF PathsFor
<1>3. CellInv(s, Cell(c.out, Empty, Never, Empty, 0), E, t)
  BY <1>1, <1>2, MakeCell, Zenon
<1> QED BY <1>3 DEF ClearQueue

\* Clearing the Adj-RIB-Out slice of a session that is down.
LEMMA ForgottenInv ==
    ASSUME NEW E, NEW s, s \notin E, NEW c, NEW t \in Nat, CellInv(s, c, E, t)
    PROVE  CellInv(s, Forgotten(c), E, t)
<1>1. /\ PathsFor(s, c.heard) /\ PathsFor(s, c.pend) /\ c.due \in Nat
      /\ c.last \in Nat \cup {Never} /\ DOMAIN c.pend = {} /\ DOMAIN c.heard = {}
  BY DEF CellInv, IsCell
<1>2. PathMap(Empty)
  BY EmptyFacts
<1>3. CellInv(s, Cell(Empty, c.heard, c.last, c.pend, c.due), E, t)
  BY <1>1, <1>2, MakeCell, Zenon
<1> QED BY <1>3 DEF Forgotten

\* Sending what is pending keeps a cell sound, at the same or a later time.
LEMMA FlushCellInv ==
    ASSUME NEW E, NEW s, NEW c, NEW t \in Nat, NEW u \in Nat, u >= t,
           CellInv(s, c, E, t)
    PROVE  CellInv(s, FlushCell(c, s, u), E, u)
<1> DEFINE sent == SendablePaths(s, c.pend)
<1>1. /\ PathMap(c.out) /\ PathsFor(s, c.heard) /\ PathsFor(s, c.pend)
      /\ DOMAIN c.heard \subseteq DOMAIN c.out
      /\ c.due \in Nat /\ c.last \in Nat \cup {Never}
      /\ DOMAIN c.pend # {} => s \in E
      /\ s \notin E => DOMAIN c.heard = {}
  BY DEF CellInv, IsCell
<1>2. PathsFor(s, Empty) /\ DOMAIN Empty = {}
  BY EmptyFacts DEF PathsFor
<1>3. CASE DOMAIN c.pend = {}
  <2>1. CellInv(s, c, E, u)
    BY <1>3 DEF CellInv
  <2> QED BY <1>3, <2>1 DEF FlushCell
<1>4. CASE DOMAIN c.pend # {} /\ DOMAIN sent = {}
  <2>1. CellInv(s, Cell(c.out, c.heard, c.last, Empty, 0), E, u)
    BY <1>1, <1>2, MakeCell, Zenon
  <2> QED BY <1>4, <2>1 DEF FlushCell
<1>5. CASE DOMAIN c.pend # {} /\ DOMAIN sent # {}
  <2>1. FlushCell(c, s, u) = Cell(Over(c.pend, c.out), Over(sent, c.heard), u, Empty, 0)
    BY <1>5 DEF FlushCell
  <2>2. PathsFor(s, sent) /\ DOMAIN sent \subseteq DOMAIN c.pend
    BY <1>1, SendableFacts
  <2> HIDE DEF sent
  <2>3. PathMap(c.pend) /\ PathsFor(s, sent)
    BY <1>1, <2>2 DEF PathsFor
  <2>4. /\ PathMap(Over(c.pend, c.out))
        /\ \A i : i \in DOMAIN Over(c.pend, c.out) <=> i \in DOMAIN c.pend \/ i \in DOMAIN c.out
    BY <1>1, <2>3, OverFacts
  <2>5. /\ PathsFor(s, Over(sent, c.heard))
        /\ \A i : i \in DOMAIN Over(sent, c.heard) <=> i \in DOMAIN sent \/ i \in DOMAIN c.heard
    BY <1>1, <2>3, OverPathsFor, Zenon
  <2>6. DOMAIN Over(sent, c.heard) \subseteq DOMAIN Over(c.pend, c.out)
    BY <1>1, <2>2, <2>4, <2>5
  <2>7. s \in E
    BY <1>1, <1>5
  <2>8. CellInv(s, Cell(Over(c.pend, c.out), Over(sent, c.heard), u, Empty, 0), E, u)
    BY <1>2, <2>4, <2>5, <2>6, <2>7, MakeCell, Zenon
  <2> QED BY <2>1, <2>8
<1> QED BY <1>3, <1>4, <1>5, Zenon

\* flush_mrai keeps a cell sound while time moves on.
LEMMA FlushDueInv ==
    ASSUME NEW E, NEW s, NEW c, NEW t \in Nat, CellInv(s, c, E, t)
    PROVE  CellInv(s, FlushDue(c, s, t + 1), E, t + 1)
<1>1. CASE c.due > t + 1
  <2>1. CellInv(s, c, E, t + 1)
    BY <1>1 DEF CellInv
  <2> QED BY <1>1, <2>1 DEF FlushDue
<1>2. CASE ~(c.due > t + 1)
  <2>1. t + 1 \in Nat /\ t + 1 >= t
    OBVIOUS
  <2>2. CellInv(s, FlushCell(c, s, t + 1), E, t + 1)
    BY <2>1, FlushCellInv
  <2> QED BY <1>2, <2>2 DEF FlushDue
<1> QED BY <1>1, <1>2

---------------------------------------------------------------------------
(* All cells *)

Shape(eg) == eg = [s \in Session |-> [k \in Key |-> eg[s][k]]]

CellsInv(eg, E, t) ==
    /\ Shape(eg)
    /\ \A s \in Session, k \in Key : CellInv(s, eg[s][k], E, t)

\* export_selection keeps every cell sound.
LEMMA ExportedInv ==
    ASSUME NEW base, NEW K, NEW L \in [Key -> SUBSET Route], NEW E \in SUBSET Session,
           now \in Nat, interval \in [Session -> Nat], CellsInv(base, E, now)
    PROVE  CellsInv(Exported(base, K, L, E), E, now)
<1> DEFINE G == Exported(base, K, L, E)
<1>1. G = [s \in Session |-> [k \in Key |->
              IF s \in E /\ k \in K THEN Export(base[s][k], s, L[k]) ELSE base[s][k]]]
  BY DEF Exported
<1>2. ASSUME NEW s \in Session, NEW k \in Key
      PROVE  CellInv(s, G[s][k], E, now)
  <2>1. CellInv(s, base[s][k], E, now)
    BY DEF CellsInv
  <2>2. CASE s \in E /\ k \in K
    <3>1. L[k] \in SUBSET Route
      OBVIOUS
    <3>2. CellInv(s, Export(base[s][k], s, L[k]), E, now)
      BY <2>1, <2>2, <3>1, ExportInv
    <3> QED BY <1>1, <2>2, <3>2
  <2>3. CASE ~(s \in E /\ k \in K)
    BY <1>1, <2>1, <2>3
  <2> QED BY <2>2, <2>3
<1>3. Shape(G)
  BY <1>1 DEF Shape
<1> QED BY <1>2, <1>3 DEF CellsInv

\* New cells for one session leave the cells of the others sound, also when
\* that session comes up or goes down.
LEMMA RowInv ==
    ASSUME NEW base, NEW E, NEW F, NEW t, NEW s \in Session, NEW row,
           CellsInv(base, E, t),
           \A k \in Key : CellInv(s, row[k], F, t),
           \A u \in Session : u # s => (u \in E <=> u \in F)
    PROVE  CellsInv([base EXCEPT ![s] = [k \in Key |-> row[k]]], F, t)
<1> DEFINE G == [base EXCEPT ![s] = [k \in Key |-> row[k]]]
<1>1. Shape(base)
  BY DEF CellsInv
<1>2. DOMAIN base = Session
  BY <1>1 DEF Shape
<1>3. /\ \A k \in Key : G[s][k] = row[k]
      /\ \A u \in Session : u # s => G[u] = base[u]
  BY <1>2
<1>4. Shape(G)
  <2>1. \A u \in Session : base[u] = [k \in Key |-> base[u][k]]
    BY <1>1 DEF Shape
  <2>2. \A u \in Session : G[u] = [k \in Key |-> G[u][k]]
    BY <1>2, <2>1
  <2>3. G = [u \in Session |-> G[u]]
    BY <1>2, Zenon
  <2> HIDE DEF G
  <2> QED BY <2>2, <2>3 DEF Shape
<1> HIDE DEF G
<1>5. ASSUME NEW u \in Session, NEW k \in Key
      PROVE  CellInv(u, G[u][k], F, t)
  <2>1. CASE u = s
    BY <1>3, <2>1
  <2>2. CASE u # s
    <3>1. CellInv(u, base[u][k], E, t) /\ G[u] = base[u] /\ (u \in E <=> u \in F)
      BY <1>3, <2>2 DEF CellsInv
    <3> QED BY <3>1 DEF CellInv
  <2> QED BY <2>1, <2>2
<1>6. CellsInv(G, F, t)
  BY <1>4, <1>5 DEF CellsInv
<1> QED BY <1>6 DEF G

\* The same when the set of established sessions stays.
LEMMA SameRowInv ==
    ASSUME NEW base, NEW E, NEW t, NEW s \in Session, NEW row,
           CellsInv(base, E, t), \A k \in Key : CellInv(s, row[k], E, t)
    PROVE  CellsInv([base EXCEPT ![s] = [k \in Key |-> row[k]]], E, t)
BY RowInv

\* The same when s comes up or goes down.
LEMMA UpRowInv ==
    ASSUME NEW base, NEW E, NEW t, NEW s \in Session, NEW row,
           CellsInv(base, E, t), \A k \in Key : CellInv(s, row[k], E \cup {s}, t)
    PROVE  CellsInv([base EXCEPT ![s] = [k \in Key |-> row[k]]], E \cup {s}, t)
<1> PICK F : F = E \cup {s}
  OBVIOUS
<1> QED BY RowInv

\* ... and goes down.
LEMMA DownRowInv ==
    ASSUME NEW base, NEW E, NEW t, NEW s \in Session, NEW row,
           CellsInv(base, E, t), \A k \in Key : CellInv(s, row[k], E \ {s}, t)
    PROVE  CellsInv([base EXCEPT ![s] = [k \in Key |-> row[k]]], E \ {s}, t)
<1> PICK F : F = E \ {s}
  OBVIOUS
<1> QED BY RowInv

HIDE DEF Never, NoVal

---------------------------------------------------------------------------
(* The decision process *)

AdjInType(A) == A \in [Session -> [Key -> Route \cup {NoRoute}]]

\* The router's own routes are routes.
LEMMA RouteFacts == Local \in Route /\ StaticRoute \in Route
BY RankAssumption DEF Local, StaticRoute, Route

\* The candidates reselect collects are routes.
LEMMA CandidatesType ==
    ASSUME NEW A, AdjInType(A), NEW O, NEW S, NEW k \in Key
    PROVE  Candidates(k, A, O, S) \in SUBSET Route
BY RouteFacts DEF AdjInType, Candidates

\* The selection is made among the candidates, for typed candidates.
LEMMA ReselectedFacts ==
    ASSUME NEW K, NEW A, AdjInType(A), NEW O, NEW S, loc \in [Key -> SUBSET Route]
    PROVE  /\ Reselected(K, A, O, S) \in [Key -> SUBSET Route]
           /\ \A k \in Key :
                 /\ k \in K => Reselected(K, A, O, S)[k] \subseteq Candidates(k, A, O, S)
                 /\ k \notin K => Reselected(K, A, O, S)[k] = loc[k]
<1> DEFINE R == Reselected(K, A, O, S)
<1>1. R = [k \in Key |-> IF k \in K THEN Select(Candidates(k, A, O, S)) ELSE loc[k]]
  BY DEF Reselected
<1>2. \A C : Select(C) \subseteq C
  BY DEF Select
<1>3. \A k \in Key : Candidates(k, A, O, S) \in SUBSET Route
  BY CandidatesType
<1>4. ASSUME NEW k \in Key
      PROVE  /\ R[k] \in SUBSET Route
             /\ k \in K => R[k] \subseteq Candidates(k, A, O, S)
             /\ k \notin K => R[k] = loc[k]
  <2>1. Select(Candidates(k, A, O, S)) \subseteq Candidates(k, A, O, S)
    BY <1>2
  <2> QED BY <1>1, <1>3, <2>1
<1>5. R \in [Key -> SUBSET Route]
  BY <1>1, <1>4
<1> HIDE DEF R
<1> QED BY <1>4, <1>5 DEF R

---------------------------------------------------------------------------
(* The invariant *)

\* The type invariant without the cells.
Types ==
    /\ now \in Nat
    /\ est \in SUBSET Session
    /\ AdjInType(adjIn)
    /\ offer \in [Session -> [Key -> Val \cup {NoVal}]]
    /\ originated \in SUBSET Key
    /\ static \in SUBSET Key
    /\ loc \in [Key -> SUBSET Route]
    /\ interval \in [Session -> Nat]
    /\ gr \in [Session -> [on: BOOLEAN, marked: BOOLEAN, refreshed: SUBSET Key]]
    /\ fresh \in SUBSET Session

\* NoGhostInLocRib for given tables.
Backed(L, A, O, S) == \A k \in Key : L[k] \subseteq Candidates(k, A, O, S)

\* The inductive invariant: the types, the Loc-RIB backed by its sources, and
\* every cell sound.
RibInv == Types /\ Backed(loc, adjIn, originated, static) /\ CellsInv(egress, est, now)

\* The inductive invariant implies the properties the runs check.
LEMMA RibInvImplies ==
    RibInv => /\ TypeOK /\ NoGhostInLocRib /\ SplitHorizon
              /\ PeerPathsRecorded /\ PendingNotOverdue
<1> SUFFICES ASSUME RibInv
             PROVE  /\ TypeOK /\ NoGhostInLocRib /\ SplitHorizon
                    /\ PeerPathsRecorded /\ PendingNotOverdue
  OBVIOUS
<1>1. TypeOK
  BY DEF RibInv, Types, AdjInType, CellsInv, Shape, CellInv, TypeOK
<1>2. NoGhostInLocRib
  BY Zenon DEF RibInv, Backed, NoGhostInLocRib
<1>3. \A s \in Session, k \in Key :
         /\ PathsFor(s, egress[s][k].heard)
         /\ DOMAIN egress[s][k].heard \subseteq DOMAIN egress[s][k].out
         /\ DOMAIN egress[s][k].pend # {} => s \in est /\ egress[s][k].due > now
  BY DEF RibInv, CellsInv, CellInv
<1>4. est \subseteq Session
  BY DEF RibInv, Types
<1>5. SplitHorizon
  BY <1>3, <1>4, Zenon DEF SplitHorizon, PathsFor
<1>6. PeerPathsRecorded
  BY <1>3, <1>4 DEF PeerPathsRecorded
<1>7. PendingNotOverdue
  BY <1>3 DEF PendingNotOverdue
<1> QED BY <1>1, <1>2, <1>5, <1>6, <1>7

\* A new DefaultRouter satisfies the inductive invariant.
LEMMA RibInvInit == Init => RibInv
<1> SUFFICES ASSUME Init PROVE RibInv
  OBVIOUS
<1>1. Types
  BY DEF Init, Types, AdjInType, NoRetention
<1>2. Backed(loc, adjIn, originated, static)
  BY DEF Init, Backed
<1>3. CellsInv(egress, est, now)
  <2>1. \A s \in Session, k \in Key : egress[s][k] = Cell(Empty, Empty, Never, Empty, 0)
    BY DEF Init
  <2>2. Shape(egress)
    BY DEF Init, Shape
  <2>3. now = 0 /\ est = {}
    BY DEF Init
  <2>4. \A s : PathsFor(s, Empty)
    BY EmptyFacts DEF PathsFor
  <2>5. \A s \in Session : CellInv(s, Cell(Empty, Empty, Never, Empty, 0), est, now)
    BY <2>3, <2>4, EmptyFacts, MakeCell, Zenon
  <2> QED BY <2>1, <2>2, <2>5 DEF CellsInv
<1> QED BY <1>1, <1>2, <1>3 DEF RibInv

\* A new selection for the keys K is backed by the changed tables, provided
\* that no other key lost a candidate.
LEMMA SelectionBacked ==
    ASSUME RibInv, NEW K, NEW A, AdjInType(A), NEW O \in SUBSET Key, NEW S \in SUBSET Key,
           \A k \in Key : k \notin K =>
               Candidates(k, adjIn, originated, static) \subseteq Candidates(k, A, O, S)
    PROVE  /\ Reselected(K, A, O, S) \in [Key -> SUBSET Route]
           /\ Backed(Reselected(K, A, O, S), A, O, S)
<1> DEFINE L == Reselected(K, A, O, S)
<1>1. loc \in [Key -> SUBSET Route] /\ Backed(loc, adjIn, originated, static)
  BY DEF RibInv, Types
<1>2. /\ L \in [Key -> SUBSET Route]
      /\ \A k \in Key : /\ k \in K => L[k] \subseteq Candidates(k, A, O, S)
                        /\ k \notin K => L[k] = loc[k]
  BY <1>1, ReselectedFacts
<1> HIDE DEF L
<1>3. ASSUME NEW k \in Key
      PROVE  L[k] \subseteq Candidates(k, A, O, S)
  <2>1. CASE k \in K
    BY <1>2, <2>1
  <2>2. CASE k \notin K
    <3>1. loc[k] \subseteq Candidates(k, adjIn, originated, static)
      BY <1>1 DEF Backed
    <3>2. Candidates(k, adjIn, originated, static) \subseteq Candidates(k, A, O, S)
      BY <2>2
    <3>3. L[k] = loc[k]
      BY <1>2, <2>2
    <3> QED BY <3>1, <3>2, <3>3
  <2> QED BY <2>1, <2>2
<1>4. Backed(L, A, O, S)
  BY <1>3 DEF Backed
<1> QED BY <1>2, <1>4, Zenon DEF L

\* ... and reselect, with the exports it causes, preserves what it touches.
LEMMA ReselectStep ==
    ASSUME RibInv, NEW K, NEW A, AdjInType(A), NEW O \in SUBSET Key, NEW S \in SUBSET Key,
           Reselect(K, A, O, S), now' = now, est' = est,
           \A k \in Key : k \notin K =>
               Candidates(k, adjIn, originated, static) \subseteq Candidates(k, A, O, S)
    PROVE  /\ AdjInType(adjIn') /\ originated' \in SUBSET Key /\ static' \in SUBSET Key
           /\ loc' \in [Key -> SUBSET Route]
           /\ Backed(loc', adjIn', originated', static')
           /\ CellsInv(egress', est', now')
<1> DEFINE L == Reselected(K, A, O, S)
<1>1. /\ adjIn' = A /\ originated' = O /\ static' = S /\ loc' = L
      /\ egress' = Exported(egress, K, L, est)
  BY DEF Reselect
<1>2. L \in [Key -> SUBSET Route] /\ Backed(L, A, O, S)
  BY SelectionBacked
<1> HIDE DEF L
<1>3. CellsInv(Exported(egress, K, L, est), est, now)
  <2>1. /\ est \in SUBSET Session /\ now \in Nat /\ interval \in [Session -> Nat]
        /\ CellsInv(egress, est, now)
    BY DEF RibInv, Types
  <2> QED BY <1>2, <2>1, ExportedInv
<1> QED BY <1>1, <1>2, <1>3

\* A changed entry of one session and key costs no other key a candidate.
LEMMA OtherKeys ==
    ASSUME NEW A, NEW B, NEW k, NEW O, NEW S, NEW P, NEW T,
           \A s \in Session : A[s][k] = B[s][k],
           k \in O => k \in P, k \in S => k \in T
    PROVE  Candidates(k, A, O, S) \subseteq Candidates(k, B, P, T)
BY DEF Candidates

\* import_route keeps the invariant, whether or not a check drops the route.
LEMMA RecvAnnounceStep ==
    ASSUME RibInv, NEW s \in Session, NEW k \in Key, NEW v \in Val, RecvAnnounce(s, k, v)
    PROVE  RibInv'
<1>1. /\ UNCHANGED <<now, est, interval, fresh>>
      /\ offer' = [offer EXCEPT ![s][k] = v]
  BY DEF RecvAnnounce
<1>2. offer' \in [Session -> [Key -> Val \cup {NoVal}]]
  BY <1>1 DEF RibInv, Types
<1>3. CASE v \in Rejected[s]
  <2>1. UNCHANGED <<adjIn, originated, static, loc, egress, gr>>
    BY <1>3 DEF RecvAnnounce
  <2> QED BY <1>1, <1>2, <2>1 DEF RibInv, Types, Backed, AdjInType
<1>4. CASE v \notin Rejected[s]
  <2> DEFINE A == [adjIn EXCEPT ![s][k] = Learned(s, v)]
  <2>1. Reselect({k}, A, originated, static)
    BY <1>4 DEF RecvAnnounce
  <2>2. gr' = [gr EXCEPT ![s].refreshed = IF gr[s].on THEN @ \cup {k} ELSE @]
    BY <1>4 DEF RecvAnnounce
  <2>3. gr' \in [Session -> [on: BOOLEAN, marked: BOOLEAN, refreshed: SUBSET Key]]
    <3> DEFINE R == IF gr[s].on THEN gr[s].refreshed \cup {k} ELSE gr[s].refreshed
    <3>1. gr \in [Session -> [on: BOOLEAN, marked: BOOLEAN, refreshed: SUBSET Key]]
      BY DEF RibInv, Types
    <3>2. R \in SUBSET Key
      BY <3>1
    <3>3. gr' = [gr EXCEPT ![s].refreshed = R]
      BY <2>2, <3>1
    <3> HIDE DEF R
    <3> QED BY <3>1, <3>2, <3>3
  <2>4. Learned(s, v) \in Route
    BY RankAssumption DEF RibInv, Types, Learned, Route
  <2>5. AdjInType(A)
    BY <2>4 DEF RibInv, Types, AdjInType
  <2>6. \A j \in Key : j # k => \A t \in Session : adjIn[t][j] = A[t][j]
    BY DEF RibInv, Types, AdjInType
  <2> HIDE DEF A
  <2>7. \A j \in Key : j \notin {k} =>
           Candidates(j, adjIn, originated, static) \subseteq Candidates(j, A, originated, static)
    BY <2>6, OtherKeys
  <2>8. originated \in SUBSET Key /\ static \in SUBSET Key
    BY DEF RibInv, Types
  <2>9. /\ AdjInType(adjIn') /\ originated' \in SUBSET Key /\ static' \in SUBSET Key
        /\ loc' \in [Key -> SUBSET Route]
        /\ Backed(loc', adjIn', originated', static')
        /\ CellsInv(egress', est', now')
    BY <1>1, <2>1, <2>5, <2>7, <2>8, ReselectStep
  <2> QED BY <1>1, <1>2, <2>3, <2>9 DEF RibInv, Types
<1> QED BY <1>3, <1>4

\* A withdrawal from the peer.
LEMMA RecvWithdrawStep ==
    ASSUME RibInv, NEW s \in Session, NEW k \in Key, RecvWithdraw(s, k)
    PROVE  RibInv'
<1>1. /\ UNCHANGED <<now, est, interval, gr, fresh>>
      /\ offer' = [offer EXCEPT ![s][k] = NoVal]
  BY DEF RecvWithdraw
<1>2. offer' \in [Session -> [Key -> Val \cup {NoVal}]]
  BY <1>1 DEF RibInv, Types
<1>3. CASE s \in Internal \/ adjIn[s][k] = NoRoute
  <2>1. UNCHANGED <<adjIn, originated, static, loc, egress>>
    BY <1>3 DEF RecvWithdraw
  <2> QED BY <1>1, <1>2, <2>1, Zenon DEF RibInv, Types, Backed, AdjInType
<1>4. CASE ~(s \in Internal \/ adjIn[s][k] = NoRoute)
  <2> DEFINE A == [adjIn EXCEPT ![s][k] = NoRoute]
  <2>1. Reselect({k}, A, originated, static)
    BY <1>4 DEF RecvWithdraw
  <2>2. AdjInType(A)
    BY DEF RibInv, Types, AdjInType
  <2>3. \A j \in Key : j # k => \A t \in Session : adjIn[t][j] = A[t][j]
    BY DEF RibInv, Types, AdjInType
  <2> HIDE DEF A
  <2>4. \A j \in Key : j \notin {k} =>
           Candidates(j, adjIn, originated, static) \subseteq Candidates(j, A, originated, static)
    BY <2>3, OtherKeys
  <2>5. originated \in SUBSET Key /\ static \in SUBSET Key
    BY DEF RibInv, Types
  <2>6. /\ AdjInType(adjIn') /\ originated' \in SUBSET Key /\ static' \in SUBSET Key
        /\ loc' \in [Key -> SUBSET Route]
        /\ Backed(loc', adjIn', originated', static')
        /\ CellsInv(egress', est', now')
    BY <1>1, <2>1, <2>2, <2>4, <2>5, ReselectStep, Zenon
  <2> QED BY <1>1, <1>2, <2>6, Zenon DEF RibInv, Types
<1> QED BY <1>3, <1>4

\* A route refresh touches the cells of one session only.
LEMMA RouteRefreshStep ==
    ASSUME RibInv, NEW s \in Session, RouteRefresh(s)
    PROVE  RibInv'
<1> DEFINE row == [k \in Key |-> Refreshed(egress[s][k], s, loc[k])]
<1>1. /\ UNCHANGED <<now, est, adjIn, offer, originated, static, loc, interval, gr, fresh>>
      /\ s \in est
  BY Zenon DEF RouteRefresh
<1>2. /\ now \in Nat /\ loc \in [Key -> SUBSET Route] /\ CellsInv(egress, est, now)
  BY DEF RibInv, Types
<1>3. egress' = [egress EXCEPT ![s] = [k \in Key |-> row[k]]]
  BY <1>2, Zenon DEF RouteRefresh, CellsInv, Shape
<1>4. ASSUME NEW k \in Key PROVE CellInv(s, row[k], est, now)
  <2>1. CellInv(s, egress[s][k], est, now) /\ loc[k] \in SUBSET Route
    BY <1>2 DEF CellsInv
  <2>2. CellInv(s, Refreshed(egress[s][k], s, loc[k]), est, now)
    BY <1>1, <1>2, <2>1, RefreshedInv
  <2> QED BY <2>2
<1> HIDE DEF row
<1>5. CellsInv([egress EXCEPT ![s] = [k \in Key |-> row[k]]], est, now)
  BY <1>2, <1>4, SameRowInv, Zenon
<1>6. CellsInv(egress', est', now')
  BY <1>1, <1>3, <1>5
<1> QED BY <1>1, <1>6 DEF RibInv, Types, Backed, AdjInType

\* originate and install_static: the installed route is a candidate of its key.
LEMMA InstallStep ==
    ASSUME RibInv, NEW k \in Key, NEW r \in Route, NEW O \in SUBSET Key, NEW S \in SUBSET Key,
           originated \subseteq O, static \subseteq S,
           r \in Candidates(k, adjIn, O, S), Install(k, r, O, S)
    PROVE  RibInv'
<1> DEFINE L == [loc EXCEPT ![k] = {r}]
<1>1. /\ UNCHANGED <<now, est, adjIn, offer, interval, gr, fresh>>
      /\ originated' = O /\ static' = S /\ loc' = L
      /\ egress' = Exported(egress, {k}, L, est)
  BY DEF Install
<1>2. /\ now \in Nat /\ est \in SUBSET Session /\ interval \in [Session -> Nat]
      /\ loc \in [Key -> SUBSET Route] /\ CellsInv(egress, est, now)
      /\ Backed(loc, adjIn, originated, static)
  BY DEF RibInv, Types
<1>3. L \in [Key -> SUBSET Route] /\ L[k] = {r} /\ \A j \in Key : j # k => L[j] = loc[j]
  BY <1>2
<1> HIDE DEF L
<1>4. CellsInv(Exported(egress, {k}, L, est), est, now)
  BY <1>2, <1>3, ExportedInv
<1>5. ASSUME NEW j \in Key PROVE L[j] \subseteq Candidates(j, adjIn, O, S)
  <2>1. CASE j = k
    BY <1>3, <2>1
  <2>2. CASE j # k
    <3>1. Candidates(j, adjIn, originated, static) \subseteq Candidates(j, adjIn, O, S)
      BY OtherKeys
    <3>2. loc[j] \subseteq Candidates(j, adjIn, originated, static)
      BY <1>2 DEF Backed
    <3> QED BY <1>3, <2>2, <3>1, <3>2
  <2> QED BY <2>1, <2>2
<1>6. Backed(L, adjIn, O, S)
  BY <1>5 DEF Backed
<1> QED BY <1>1, <1>3, <1>4, <1>6 DEF RibInv, Types, AdjInType, Backed

\* The four operations on local routes.
LEMMA LocalStep ==
    ASSUME RibInv, NEW k \in Key,
           Originate(k) \/ Unoriginate(k) \/ InstallStatic(k) \/ UninstallStatic(k)
    PROVE  RibInv'
<1>1. originated \in SUBSET Key /\ static \in SUBSET Key /\ AdjInType(adjIn)
  BY DEF RibInv, Types
<1>2. CASE Originate(k)
  <2>1. Local \in Candidates(k, adjIn, originated \cup {k}, static)
    BY DEF Candidates
  <2>2. Install(k, Local, originated \cup {k}, static)
    BY <1>2 DEF Originate
  <2>3. Local \in Route /\ originated \cup {k} \in SUBSET Key
    BY <1>1, RouteFacts
  <2> QED BY <1>1, <2>1, <2>2, <2>3, InstallStep
<1>3. CASE InstallStatic(k)
  <2>1. StaticRoute \in Candidates(k, adjIn, originated, static \cup {k})
    BY DEF Candidates
  <2>2. Install(k, StaticRoute, originated, static \cup {k})
    BY <1>3 DEF InstallStatic
  <2>3. StaticRoute \in Route /\ static \cup {k} \in SUBSET Key
    BY <1>1, RouteFacts
  <2> QED BY <1>1, <2>1, <2>2, <2>3, InstallStep
<1>4. ASSUME NEW O \in SUBSET Key, NEW S \in SUBSET Key,
             \A j \in Key : j # k => (j \in originated => j \in O) /\ (j \in static => j \in S),
             Reselect({k}, adjIn, O, S), UNCHANGED <<now, est, offer, interval, gr, fresh>>
      PROVE  RibInv'
  <2>1. \A j \in Key : j \notin {k} =>
           Candidates(j, adjIn, originated, static) \subseteq Candidates(j, adjIn, O, S)
    BY <1>4, OtherKeys
  <2>2. /\ AdjInType(adjIn') /\ originated' \in SUBSET Key /\ static' \in SUBSET Key
        /\ loc' \in [Key -> SUBSET Route]
        /\ Backed(loc', adjIn', originated', static')
        /\ CellsInv(egress', est', now')
    BY <1>1, <1>4, <2>1, ReselectStep, Zenon
  <2> QED BY <1>4, <2>2 DEF RibInv, Types
<1>5. CASE Unoriginate(k)
  <2>1. /\ Reselect({k}, adjIn, originated \ {k}, static)
        /\ UNCHANGED <<now, est, offer, interval, gr, fresh>>
    BY <1>5 DEF Unoriginate
  <2> QED BY <1>1, <1>4, <2>1
<1>6. CASE UninstallStatic(k)
  <2>1. /\ Reselect({k}, adjIn, originated, static \ {k})
        /\ UNCHANGED <<now, est, offer, interval, gr, fresh>>
    BY <1>6 DEF UninstallStatic
  <2> QED BY <1>1, <1>4, <2>1
<1> QED BY <1>2, <1>3, <1>5, <1>6

\* The initial dump of a session that comes up.
LEMMA SessionUpStep ==
    ASSUME RibInv, NEW s \in Session, SessionUp(s)
    PROVE  RibInv'
<1> DEFINE row == [k \in Key |-> Dumped(egress[s][k], s, loc[k])]
<1>1. /\ UNCHANGED <<now, adjIn, offer, originated, static, loc, interval, gr>>
      /\ s \notin est /\ est' = est \cup {s}
      /\ fresh' = fresh \cup {s} \/ fresh' = fresh \ {s}
  BY Zenon DEF SessionUp
<1>2. /\ now \in Nat /\ loc \in [Key -> SUBSET Route] /\ CellsInv(egress, est, now)
      /\ est \in SUBSET Session /\ fresh \in SUBSET Session
  BY DEF RibInv, Types
<1>3. egress' = [egress EXCEPT ![s] = [k \in Key |-> row[k]]]
  BY <1>2, Zenon DEF SessionUp, CellsInv, Shape
<1>4. ASSUME NEW k \in Key PROVE CellInv(s, row[k], est \cup {s}, now)
  <2>1. CellInv(s, egress[s][k], est, now) /\ loc[k] \in SUBSET Route
    BY <1>2 DEF CellsInv
  <2>2. CellInv(s, Dumped(egress[s][k], s, loc[k]), est \cup {s}, now)
    <3>1. s \notin est /\ s \in est \cup {s}
      BY <1>1
    <3> QED BY <1>2, <2>1, <3>1, DumpedInv, Zenon
  <2> QED BY <2>2
<1> HIDE DEF row
<1>5. CellsInv([egress EXCEPT ![s] = [k \in Key |-> row[k]]], est \cup {s}, now)
  BY <1>2, <1>4, UpRowInv, Zenon
<1>6. CellsInv(egress', est', now')
  BY <1>1, <1>3, <1>5
<1>7. est' \in SUBSET Session /\ fresh' \in SUBSET Session
  BY <1>1, <1>2
<1> QED BY <1>1, <1>6, <1>7 DEF RibInv, Types, Backed, AdjInType

\* teardown_bgp_session leaves sound cells behind when s is no longer up.
LEMMA QueueClearedInv ==
    ASSUME RibInv, NEW s \in Session
    PROVE  CellsInv(QueueCleared(s), est \ {s}, now)
<1> DEFINE row == [k \in Key |-> ClearQueue(egress[s][k])]
<1>1. now \in Nat /\ CellsInv(egress, est, now)
  BY DEF RibInv, Types
<1>2. QueueCleared(s) = [egress EXCEPT ![s] = [k \in Key |-> row[k]]]
  BY <1>1, Zenon DEF QueueCleared, CellsInv, Shape
<1>3. ASSUME NEW k \in Key PROVE CellInv(s, row[k], est \ {s}, now)
  <2>1. IsCell(egress[s][k])
    BY <1>1 DEF CellsInv, CellInv
  <2>2. CellInv(s, ClearQueue(egress[s][k]), est \ {s}, now)
    BY <1>1, <2>1, ClearQueueInv
  <2> QED BY <2>2
<1> HIDE DEF row
<1>4. CellsInv([egress EXCEPT ![s] = [k \in Key |-> row[k]]], est \ {s}, now)
  BY <1>1, <1>3, DownRowInv, Zenon
<1> QED BY <1>2, <1>4

\* session_down_cleanup for a session that is down.
LEMMA CleanupStep ==
    ASSUME RibInv, NEW s \in Session, NEW base, NEW E \in SUBSET Session, s \notin E,
           CellsInv(base, E, now), Cleanup(s, base, E), UNCHANGED <<originated, static>>
    PROVE  /\ AdjInType(adjIn')
           /\ loc' \in [Key -> SUBSET Route]
           /\ Backed(loc', adjIn', originated', static')
           /\ CellsInv(egress', E, now)
<1> DEFINE K == {k \in Key : adjIn[s][k] # NoRoute}
           A == [adjIn EXCEPT ![s] = [k \in Key |-> NoRoute]]
           L == Reselected(K, A, originated, static)
           row == [k \in Key |-> Forgotten(base[s][k])]
           forgot == [base EXCEPT ![s] = [k \in Key |-> row[k]]]
           cleared == IF K = {} THEN base ELSE forgot
<1>1. Shape(base)
  BY DEF CellsInv
<1>2. forgot = [base EXCEPT ![s] = [k \in Key |-> Forgotten(@[k])]]
  BY <1>1, Zenon DEF Shape
<1>3. /\ adjIn' = A /\ loc' = L /\ egress' = Exported(cleared, K, L, E)
  BY <1>2, Zenon DEF Cleanup
<1>4. /\ now \in Nat /\ interval \in [Session -> Nat] /\ AdjInType(adjIn)
      /\ originated \in SUBSET Key /\ static \in SUBSET Key
  BY DEF RibInv, Types
<1>5. AdjInType(A)
  BY <1>4 DEF AdjInType
<1>6. \A j \in Key : j \notin K => \A t \in Session : adjIn[t][j] = A[t][j]
  BY <1>4 DEF AdjInType
<1>7. ASSUME NEW k \in Key PROVE CellInv(s, row[k], E, now)
  <2>1. CellInv(s, base[s][k], E, now)
    BY DEF CellsInv
  <2>2. CellInv(s, Forgotten(base[s][k]), E, now)
    BY <1>4, <2>1, ForgottenInv
  <2> QED BY <2>2
<1> HIDE DEF A, K, row
<1>8. \A j \in Key : j \notin K =>
         Candidates(j, adjIn, originated, static) \subseteq Candidates(j, A, originated, static)
  BY <1>6, OtherKeys
<1>9. L \in [Key -> SUBSET Route] /\ Backed(L, A, originated, static)
  BY <1>4, <1>5, <1>8, SelectionBacked
<1>10. CellsInv(forgot, E, now)
  BY <1>7, SameRowInv, Zenon
<1> HIDE DEF L, forgot
<1>11. CellsInv(cleared, E, now)
  BY <1>10
<1> HIDE DEF cleared
<1>12. CellsInv(Exported(cleared, K, L, E), E, now)
  BY <1>4, <1>9, <1>11, ExportedInv
<1> QED BY <1>3, <1>5, <1>9, <1>12

\* A session goes down and its routes are purged.
LEMMA SessionDownStep ==
    ASSUME RibInv, NEW s \in Session, SessionDown(s)
    PROVE  RibInv'
<1>1. /\ UNCHANGED <<now, originated, static, interval, gr, fresh>>
      /\ est' = est \ {s} /\ Cleanup(s, QueueCleared(s), est \ {s})
      /\ offer' = [offer EXCEPT ![s] = [k \in Key |-> NoVal]]
  BY DEF SessionDown
<1>2. est \ {s} \in SUBSET Session /\ s \notin est \ {s}
  BY DEF RibInv, Types
<1>3. CellsInv(QueueCleared(s), est \ {s}, now)
  BY QueueClearedInv
<1>4. /\ AdjInType(adjIn') /\ loc' \in [Key -> SUBSET Route]
      /\ Backed(loc', adjIn', originated', static')
      /\ CellsInv(egress', est \ {s}, now)
  BY <1>1, <1>2, <1>3, CleanupStep
<1>5. CellsInv(egress', est', now')
  BY <1>1, <1>4
<1>6. offer' \in [Session -> [Key -> Val \cup {NoVal}]]
  BY <1>1 DEF RibInv, Types
<1> QED BY <1>1, <1>2, <1>4, <1>5, <1>6 DEF RibInv, Types

\* A session is lost and its routes are retained.
LEMMA SessionLostStep ==
    ASSUME RibInv, NEW s \in Session, SessionLost(s)
    PROVE  RibInv'
<1>1. /\ UNCHANGED <<now, adjIn, originated, static, loc, interval, fresh>>
      /\ est' = est \ {s} /\ egress' = QueueCleared(s)
      /\ offer' = [offer EXCEPT ![s] = [k \in Key |-> NoVal]]
      /\ gr' = [gr EXCEPT ![s].on = TRUE]
  BY DEF SessionLost
<1>2. CellsInv(QueueCleared(s), est \ {s}, now)
  BY QueueClearedInv
<1>3. CellsInv(egress', est', now')
  BY <1>1, <1>2
<1>4. /\ offer' \in [Session -> [Key -> Val \cup {NoVal}]]
      /\ gr' \in [Session -> [on: BOOLEAN, marked: BOOLEAN, refreshed: SUBSET Key]]
      /\ est' \in SUBSET Session
  BY <1>1, Zenon DEF RibInv, Types
<1> QED BY <1>1, <1>3, <1>4, Zenon DEF RibInv, Types, Backed, AdjInType

\* The restart window of a session elapses.
LEMMA RetentionExpiresStep ==
    ASSUME RibInv, NEW s \in Session, RetentionExpires(s)
    PROVE  RibInv'
<1>1. UNCHANGED <<now, est, offer, originated, static, interval, fresh>>
  BY DEF RetentionExpires
<1>2. gr' \in [Session -> [on: BOOLEAN, marked: BOOLEAN, refreshed: SUBSET Key]]
  <2>1. \/ gr' = [gr EXCEPT ![s].marked = TRUE]
        \/ gr' = [gr EXCEPT ![s] = NoRetention]
    BY DEF RetentionExpires
  <2>2. NoRetention \in [on: BOOLEAN, marked: BOOLEAN, refreshed: SUBSET Key]
    BY DEF NoRetention
  <2>3. gr \in [Session -> [on: BOOLEAN, marked: BOOLEAN, refreshed: SUBSET Key]]
    BY DEF RibInv, Types
  <2>4. CASE gr' = [gr EXCEPT ![s].marked = TRUE]
    BY <2>3, <2>4, Zenon
  <2>5. CASE gr' = [gr EXCEPT ![s] = NoRetention]
    BY <2>2, <2>3, <2>5
  <2> QED BY <2>1, <2>4, <2>5
<1>3. CASE s \in est
  <2>1. UNCHANGED <<adjIn, loc, egress>>
    BY <1>3 DEF RetentionExpires
  <2> QED BY <1>1, <1>2, <2>1 DEF RibInv, Types, Backed, AdjInType
<1>4. CASE s \notin est
  <2>1. Cleanup(s, egress, est)
    BY <1>4 DEF RetentionExpires
  <2>2. est \in SUBSET Session /\ CellsInv(egress, est, now)
    BY DEF RibInv, Types
  <2>3. /\ AdjInType(adjIn') /\ loc' \in [Key -> SUBSET Route]
        /\ Backed(loc', adjIn', originated', static')
        /\ CellsInv(egress', est, now)
    BY <1>1, <1>4, <2>1, <2>2, CleanupStep
  <2>4. CellsInv(egress', est', now')
    BY <1>1, <2>3
  <2> QED BY <1>1, <1>2, <2>3, <2>4, Zenon DEF RibInv, Types
<1> QED BY <1>3, <1>4

\* End-of-RIB after a restart.
LEMMA EndOfRibStep ==
    ASSUME RibInv, NEW s \in Session, EndOfRib(s)
    PROVE  RibInv'
<1> DEFINE K == {k \in Key : adjIn[s][k] # NoRoute /\ k \notin gr[s].refreshed}
           A == [adjIn EXCEPT ![s] = [k \in Key |-> IF k \in K THEN NoRoute ELSE @[k]]]
<1>1. /\ UNCHANGED <<now, est, offer, interval, fresh>>
      /\ gr' = [gr EXCEPT ![s] = NoRetention]
      /\ Reselect(K, A, originated, static)
  BY Zenon DEF EndOfRib
<1>2. AdjInType(adjIn) /\ originated \in SUBSET Key /\ static \in SUBSET Key
  BY DEF RibInv, Types
<1>3. AdjInType(A)
  BY <1>2, Zenon DEF AdjInType
<1>4. \A j \in Key : j \notin K => \A t \in Session : adjIn[t][j] = A[t][j]
  BY <1>2 DEF AdjInType
<1>5. gr' \in [Session -> [on: BOOLEAN, marked: BOOLEAN, refreshed: SUBSET Key]]
  BY <1>1 DEF NoRetention, RibInv, Types
<1> HIDE DEF A, K
<1>6. \A j \in Key : j \notin K =>
         Candidates(j, adjIn, originated, static) \subseteq Candidates(j, A, originated, static)
  BY <1>4, OtherKeys
<1>7. /\ AdjInType(adjIn') /\ originated' \in SUBSET Key /\ static' \in SUBSET Key
      /\ loc' \in [Key -> SUBSET Route]
      /\ Backed(loc', adjIn', originated', static')
      /\ CellsInv(egress', est', now')
  BY <1>1, <1>2, <1>3, <1>6, ReselectStep
<1> QED BY <1>1, <1>5, <1>7 DEF RibInv, Types

\* The clock moves and flush_mrai sends what is due.
LEMMA TickStep ==
    ASSUME RibInv, Tick
    PROVE  RibInv'
<1>1. /\ UNCHANGED <<est, adjIn, offer, originated, static, loc, interval, gr, fresh>>
      /\ now' = now + 1
      /\ egress' = [s \in Session |-> [k \in Key |-> FlushDue(egress[s][k], s, now + 1)]]
  BY DEF Tick
<1>2. now \in Nat /\ CellsInv(egress, est, now)
  BY DEF RibInv, Types
<1>3. Shape(egress')
  BY <1>1 DEF Shape
<1>4. ASSUME NEW s \in Session, NEW k \in Key
      PROVE  CellInv(s, egress'[s][k], est', now')
  <2>1. CellInv(s, egress[s][k], est, now)
    BY <1>2 DEF CellsInv
  <2>2. CellInv(s, FlushDue(egress[s][k], s, now + 1), est, now + 1)
    BY <1>2, <2>1, FlushDueInv
  <2>3. egress'[s][k] = FlushDue(egress[s][k], s, now + 1)
    BY <1>1
  <2> QED BY <1>1, <2>2, <2>3
<1>5. CellsInv(egress', est', now')
  BY <1>3, <1>4 DEF CellsInv
<1>6. now' \in Nat
  BY <1>1, <1>2
<1> QED BY <1>1, <1>5, <1>6, Zenon DEF RibInv, Types, Backed, AdjInType

\* set_mrai, whose switch to 0 flushes the queue of the session.
LEMMA SetMraiStep ==
    ASSUME RibInv, NEW s \in Session, NEW i \in Intervals, SetMrai(s, i)
    PROVE  RibInv'
<1> DEFINE row == [k \in Key |-> FlushCell(egress[s][k], s, now)]
<1>1. /\ UNCHANGED <<now, est, adjIn, offer, originated, static, loc, gr, fresh>>
      /\ interval' = [interval EXCEPT ![s] = i]
  BY DEF SetMrai
<1>2. now \in Nat /\ CellsInv(egress, est, now)
  BY DEF RibInv, Types
<1>3. interval' \in [Session -> Nat]
  BY <1>1, MraiAssumption DEF RibInv, Types
<1>4. CellsInv(egress', est', now')
  <2>1. CASE i # 0
    <3>1. egress' = egress
      BY <2>1 DEF SetMrai
    <3> QED BY <1>1, <1>2, <3>1
  <2>2. CASE i = 0
    <3>1. egress' = [egress EXCEPT ![s] = [k \in Key |-> row[k]]]
      BY <1>2, <2>2, Zenon DEF SetMrai, CellsInv, Shape
    <3>2. ASSUME NEW k \in Key PROVE CellInv(s, row[k], est, now)
      <4>1. CellInv(s, egress[s][k], est, now) /\ now >= now
        BY <1>2 DEF CellsInv
      <4>2. CellInv(s, FlushCell(egress[s][k], s, now), est, now)
        BY <1>2, <4>1, FlushCellInv
      <4> QED BY <4>2
    <3> HIDE DEF row
    <3>3. CellsInv([egress EXCEPT ![s] = [k \in Key |-> row[k]]], est, now)
      BY <1>2, <3>2, SameRowInv, Zenon
    <3> QED BY <1>1, <3>1, <3>3
  <2> QED BY <2>1, <2>2
<1> QED BY <1>1, <1>3, <1>4 DEF RibInv, Types, Backed, AdjInType

---------------------------------------------------------------------------
(* The theorems *)

\* Every step of the router preserves the invariant.
LEMMA RibInvNext == RibInv /\ [Next]_vars => RibInv'
<1> SUFFICES ASSUME RibInv, [Next]_vars PROVE RibInv'
  OBVIOUS
<1>1. CASE UNCHANGED vars
  <2>1. UNCHANGED <<now, est, adjIn, offer, originated, static, loc, egress, interval, gr, fresh>>
    BY <1>1 DEF vars
  <2> QED BY <2>1 DEF RibInv, Types, Backed, AdjInType
<1>2. ASSUME NEW s \in Session, NEW k \in Key,
             (\E v \in Val : RecvAnnounce(s, k, v)) \/ RecvWithdraw(s, k)
      PROVE  RibInv'
  BY <1>2, RecvAnnounceStep, RecvWithdrawStep
<1>3. ASSUME NEW k \in Key,
             Originate(k) \/ Unoriginate(k) \/ InstallStatic(k) \/ UninstallStatic(k)
      PROVE  RibInv'
  BY <1>3, LocalStep
<1>4. ASSUME NEW s \in Session,
             \/ RouteRefresh(s) \/ SessionUp(s) \/ SessionDown(s)
             \/ SessionLost(s) \/ RetentionExpires(s) \/ EndOfRib(s)
             \/ \E i \in Intervals : SetMrai(s, i)
      PROVE  RibInv'
  BY <1>4, RouteRefreshStep, SessionUpStep, SessionDownStep, SessionLostStep,
     RetentionExpiresStep, EndOfRibStep, SetMraiStep
<1>5. CASE Tick
  BY <1>5, TickStep
<1> QED BY <1>1, <1>2, <1>3, <1>4, <1>5 DEF Next

\* RibInv holds in every reachable state of the pipeline.
THEOREM RibInvariant == Spec => []RibInv
<1> QED BY RibInvInit, RibInvNext, PTL DEF Spec

\* Type correctness: the tables of DefaultRouter keep their shapes.
THEOREM TypeCorrect == Spec => []TypeOK
<1>1. RibInv => TypeOK
  BY RibInvImplies
<1> QED BY <1>1, RibInvariant, PTL

\* Whatever import_route, withdrawals, purges and local changes do, Loc-RIB
\* holds no route without a source (reselect is run for every removed route).
THEOREM LocRibBacked == Spec => []NoGhostInLocRib
<1>1. RibInv => NoGhostInLocRib
  BY RibInvImplies
<1> QED BY <1>1, RibInvariant, PTL

\* export_work_for, the dump, the refresh and the MRAI queue never send a peer
\* a path learned from it.
THEOREM NeverSentBack == Spec => []SplitHorizon
<1>1. RibInv => SplitHorizon
  BY RibInvImplies
<1> QED BY <1>1, RibInvariant, PTL

\* Whatever the peer holds can be withdrawn: Adj-RIB-Out has its identifier.
THEOREM Withdrawable == Spec => []PeerPathsRecorded
<1>1. RibInv => PeerPathsRecorded
  BY RibInvImplies
<1> QED BY <1>1, RibInvariant, PTL

\* flush_mrai leaves nothing that is due, nor anything of a session that is down.
THEOREM QueueInTime == Spec => []PendingNotOverdue
<1>1. RibInv => PendingNotOverdue
  BY RibInvImplies
<1> QED BY <1>1, RibInvariant, PTL

===========================================================================
