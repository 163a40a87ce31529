--------------------------- MODULE RibTheorems ---------------------------
(***************************************************************************)
(* Further proofs about the RIB pipeline, on top of its invariant RibInv:   *)
(* the MRAI queue spaces advertisements, Adj-RIB-In follows what the peers  *)
(* announce, and no prefix that has a source is lost from Loc-RIB.          *)
(***************************************************************************)
EXTENDS RibExportProofs, Sequences, WellFoundedInduction

---------------------------------------------------------------------------
(* The advertisement interval *)

\* What the MRAI queue knows of one key at time t when the interval is i: no update lies in the
\* future, and an update that waits is due one interval after the last one.
MraiCell(c, t, i) ==
    /\ c.last <= t
    /\ DOMAIN c.pend # {} => i # 0 /\ c.last # Never /\ c.due = c.last + i

\* A table of paths says something new.
Tells(h, g) == \E i \in DOMAIN g : i \notin DOMAIN h \/ g[i] # h[i]

MraiInv ==
    /\ \A s \in Session, k \in Key : MraiCell(egress[s][k], now, interval[s])
    /\ \A s \in Session : interval[s] \in Intervals \cup {0}

\* A step keeps the spacing for one session and key: the body of MraiSpacing.
Spaced(s, k) ==
    Told(s, k) /\ ~RouteRefresh(s) /\ egress[s][k].last # Never
        => now' >= egress[s][k].last + interval'[s]

MraiStep == MraiInv' /\ \A s \in Session, k \in Key : Spaced(s, k)

\* A withdrawal tells of no path, and restarts the interval.
LEMMA WithdrawSpaced ==
    ASSUME NEW c, NEW ids, NEW i \in Nat, now \in Nat, c.last \in Nat \cup {Never},
           MraiCell(c, now, i), DOMAIN c.pend # {} => c.due > now
    PROVE  LET w == Withdraw(c, ids)
           IN  /\ MraiCell(w, now, i)
               /\ w.last \in Nat \cup {Never}
               /\ w.last >= c.last
               /\ DOMAIN w.pend # {} => w.due > now
               /\ ~Tells(c.heard, w.heard)
<1>1. CASE ids = {}
  BY <1>1 DEF Withdraw, Tells, Never
<1>2. CASE ids # {}
  <2> DEFINE o == Keep(c.out, DOMAIN c.out \ ids)
             h == Keep(c.heard, DOMAIN c.heard \ ids)
  <2>1. Withdraw(c, ids) = Cell(o, h, now, Empty, 0)
    BY <1>2 DEF Withdraw
  <2>2. ~Tells(c.heard, h)
    BY Zenon DEF Keep, Tells
  <2> HIDE DEF o, h
  <2> DEFINE w == Cell(o, h, now, Empty, 0)
  <2>3. w.heard = h /\ w.last = now /\ w.pend = Empty
    BY CellFields
  <2> HIDE DEF w
  <2>4. MraiCell(w, now, i) /\ DOMAIN w.pend = {}
    BY <2>3, EmptyFacts DEF MraiCell
  <2>5. w.last \in Nat \cup {Never} /\ w.last >= c.last
    BY <2>3 DEF MraiCell
  <2>6. ~Tells(c.heard, w.heard)
    BY <2>2, <2>3
  <2> QED BY <2>1, <2>4, <2>5, <2>6, Zenon DEF w
<1> QED BY <1>1, <1>2

\* An advertisement waits for its interval: queue_or_send_advertisement.
LEMMA AdvertiseSpaced ==
    ASSUME NEW s, NEW d, NEW P, now \in Nat, interval[s] \in Nat, d.last \in Nat \cup {Never},
           MraiCell(d, now, interval[s]), DOMAIN d.pend # {} => d.due > now
    PROVE  LET e == Advertise(d, s, P)
           IN  /\ MraiCell(e, now, interval[s])
               /\ \/ e.heard = d.heard
                  \/ d.last # Never => now >= d.last + interval[s]
<1> DEFINE i == interval[s]
           wait == i # 0 /\ d.last # Never /\ now < d.last + i
           sent == SendablePaths(s, P)
<1>1. CASE DOMAIN P = {} \/ (~wait /\ DOMAIN sent = {})
  BY <1>1 DEF Advertise, Transmit
<1>2. CASE DOMAIN P # {} /\ wait
  <2> DEFINE e == Cell(d.out, d.heard, d.last, P, d.last + i)
  <2>1. Advertise(d, s, P) = e
    BY <1>2 DEF Advertise
  <2>2. e.heard = d.heard /\ e.last = d.last /\ e.due = d.last + i
    BY CellFields
  <2> HIDE DEF e
  <2>3. MraiCell(e, now, i)
    BY <1>2, <2>2 DEF MraiCell
  <2> QED BY <2>1, <2>2, <2>3
<1>3. CASE DOMAIN P # {} /\ ~wait /\ DOMAIN sent # {}
  <2> DEFINE o == Over(P, d.out)
             h == Over(sent, d.heard)
             e == Cell(o, h, now, d.pend, d.due)
  <2>1. Advertise(d, s, P) = e
    BY <1>3 DEF Advertise, Transmit
  <2>2. d.last # Never => now >= d.last + i
    BY <1>3 DEF MraiCell, Never
  <2>3. DOMAIN d.pend = {}
    BY <1>3, <2>2 DEF MraiCell
  <2> HIDE DEF o, h
  <2>4. e.last = now /\ e.pend = d.pend
    BY CellFields
  <2> HIDE DEF e
  <2>5. MraiCell(e, now, i)
    BY <2>3, <2>4 DEF MraiCell
  <2> QED BY <2>1, <2>2, <2>5
<1> QED BY <1>1, <1>2, <1>3, Zenon

\* The export of one key: what it tells the peer left an interval after the last update.
LEMMA ExportSpaced ==
    ASSUME NEW s, NEW c, NEW L, now \in Nat, interval[s] \in Nat, c.last \in Nat \cup {Never},
           MraiCell(c, now, interval[s]), DOMAIN c.pend # {} => c.due > now
    PROVE  LET e == Export(c, s, L)
           IN  /\ MraiCell(e, now, interval[s])
               /\ Tells(c.heard, e.heard) /\ c.last # Never => now >= c.last + interval[s]
<1> DEFINE D == Desired(s, L)
           ids == DOMAIN c.out \ DOMAIN D
           changed == {j \in DOMAIN D : j \notin DOMAIN c.out \/ c.out[j] # D[j]}
           P == Keep(D, changed)
           w == Withdraw(c, ids)
           e == Advertise(w, s, P)
<1>1. Export(c, s, L) = e
  BY DEF Export
<1> HIDE DEF P, ids
<1>2. /\ MraiCell(w, now, interval[s])
      /\ w.last \in Nat \cup {Never}
      /\ w.last >= c.last
      /\ DOMAIN w.pend # {} => w.due > now
      /\ ~Tells(c.heard, w.heard)
  BY WithdrawSpaced, Zenon
<1> HIDE DEF w
<1>3. /\ MraiCell(e, now, interval[s])
      /\ \/ e.heard = w.heard
         \/ w.last # Never => now >= w.last + interval[s]
  BY <1>2, AdvertiseSpaced, Zenon
<1> HIDE DEF e
<1>4. ASSUME Tells(c.heard, e.heard), c.last # Never PROVE now >= c.last + interval[s]
  <2>1. w.last # Never => now >= w.last + interval[s]
    BY <1>2, <1>3, <1>4
  <2> QED BY <1>2, <1>4, <2>1 DEF Never
<1> QED BY <1>1, <1>3, <1>4, Zenon

\* A flush at time u: it tells only what was waiting, and leaves nothing that waits.
LEMMA FlushSpaced ==
    ASSUME NEW c, NEW s, NEW t \in Nat, NEW u \in Nat, t <= u, NEW i, NEW j,
           c.last \in Nat \cup {Never}, MraiCell(c, t, i)
    PROVE  LET e == FlushCell(c, s, u)
           IN  /\ MraiCell(e, u, j)
               /\ DOMAIN c.pend = {} => e = c
<1> DEFINE sent == SendablePaths(s, c.pend)
           a == Cell(c.out, c.heard, c.last, Empty, 0)
           o == Over(c.pend, c.out)
           h == Over(sent, c.heard)
           b == Cell(o, h, u, Empty, 0)
<1>1. c.last <= u
  BY DEF MraiCell, Never
<1>2. CASE DOMAIN c.pend = {}
  BY <1>1, <1>2 DEF FlushCell, MraiCell
<1>3. CASE DOMAIN c.pend # {}
  <2>1. FlushCell(c, s, u) \in {a, b}
    BY <1>3 DEF FlushCell
  <2> HIDE DEF o, h
  <2>2. a.last = c.last /\ a.pend = Empty /\ b.last = u /\ b.pend = Empty
    BY CellFields
  <2> HIDE DEF a, b
  <2>3. MraiCell(a, u, j) /\ MraiCell(b, u, j)
    BY <1>1, <2>2, EmptyFacts DEF MraiCell
  <2> QED BY <1>3, <2>1, <2>3
<1> QED BY <1>2, <1>3

\* What MraiInv and RibInv say of one cell.
LEMMA CellAtHand ==
    ASSUME RibInv, MraiInv, NEW s \in Session, NEW k \in Key
    PROVE  /\ now \in Nat /\ interval[s] \in Nat
           /\ egress[s][k].last \in Nat \cup {Never}
           /\ MraiCell(egress[s][k], now, interval[s])
           /\ DOMAIN egress[s][k].pend # {} => egress[s][k].due > now
<1>1. CellInv(s, egress[s][k], est, now)
  BY DEF RibInv, CellsInv
<1>2. now \in Nat /\ interval \in [Session -> Nat]
  BY DEF RibInv, Types
<1> QED BY <1>1, <1>2 DEF CellInv, IsCell, MraiInv

\* A step that leaves a peer's table of paths alone says nothing new.
LEMMA SilentSpaced ==
    ASSUME NEW s, NEW k, s \notin est \/ s \notin est' \/ egress'[s][k].heard = egress[s][k].heard
    PROVE  Spaced(s, k)
BY DEF Spaced, Told

\* export_selection towards the established sessions, after rows of other sessions changed.
LEMMA ExportedSpaced ==
    ASSUME RibInv, MraiInv, NEW base, NEW K, NEW L, egress' = Exported(base, K, L, est'),
           now' = now, interval' = interval, \A s \in est' : base[s] = egress[s],
           \A s \in Session, k \in Key : MraiCell(base[s][k], now, interval[s])
    PROVE  MraiStep
<1>1. ASSUME NEW s \in Session, NEW k \in Key
      PROVE  MraiCell(egress'[s][k], now, interval[s]) /\ Spaced(s, k)
  <2> DEFINE c == egress[s][k]
             e == Export(c, s, L[k])
  <2>1. egress'[s][k] = IF s \in est' /\ k \in K THEN Export(base[s][k], s, L[k]) ELSE base[s][k]
    BY DEF Exported
  <2>2. CASE s \in est' /\ k \in K
    <3>1. egress'[s][k] = e
      BY <2>1, <2>2
    <3>2. /\ MraiCell(e, now, interval[s])
          /\ Tells(c.heard, e.heard) /\ c.last # Never => now >= c.last + interval[s]
      BY CellAtHand, ExportSpaced, Zenon
    <3> HIDE DEF e
    <3>3. Told(s, k) => Tells(c.heard, e.heard)
      BY <3>1 DEF Told, Tells
    <3> QED BY <3>1, <3>2, <3>3 DEF Spaced
  <2>3. CASE ~(s \in est' /\ k \in K)
    <3>1. egress'[s][k] = base[s][k]
      BY <2>1, <2>3
    <3>2. s \notin est' \/ egress'[s][k].heard = egress[s][k].heard
      BY <3>1
    <3> QED BY <3>1, <3>2, SilentSpaced
  <2> QED BY <2>2, <2>3
<1>2. \A s \in Session : interval'[s] \in Intervals \cup {0}
  BY DEF MraiInv
<1>3. \A s \in Session, k \in Key : MraiCell(egress'[s][k], now', interval'[s])
  BY <1>1
<1> QED BY <1>1, <1>2, <1>3 DEF MraiStep, MraiInv

\* A call that changes the row of one session.
LEMMA RowSpaced ==
    ASSUME MraiInv, NEW s \in Session, now' = now, interval' = interval,
           \A u \in Session : u # s => egress'[u] = egress[u],
           \A k \in Key : MraiCell(egress'[s][k], now, interval[s]) /\ Spaced(s, k)
    PROVE  MraiStep
<1>1. ASSUME NEW u \in Session, NEW k \in Key
      PROVE  MraiCell(egress'[u][k], now', interval'[u]) /\ Spaced(u, k)
  <2>1. CASE u = s
    BY <2>1
  <2>2. CASE u # s
    <3>1. egress'[u][k] = egress[u][k]
      BY <2>2
    <3>2. MraiCell(egress'[u][k], now', interval'[u])
      BY <3>1 DEF MraiInv
    <3>3. Spaced(u, k)
      BY <3>1, SilentSpaced
    <3> QED BY <3>2, <3>3
  <2> QED BY <2>1, <2>2
<1>2. \A u \in Session : interval'[u] \in Intervals \cup {0}
  BY DEF MraiInv
<1> QED BY <1>1, <1>2 DEF MraiStep, MraiInv

\* A call that leaves the export side alone.
LEMMA QuietSpaced ==
    ASSUME MraiInv, egress' = egress, now' = now, interval' = interval
    PROVE  MraiStep
<1>1. \A u \in Session, k \in Key : Spaced(u, k)
  BY SilentSpaced
<1> QED BY <1>1 DEF MraiStep, MraiInv

\* reselect exports towards the established sessions.
LEMMA ReselectSpaced ==
    ASSUME RibInv, MraiInv, NEW K, NEW A, NEW O, NEW S, Reselect(K, A, O, S),
           now' = now, interval' = interval, est' = est
    PROVE  MraiStep
<1> DEFINE L == Reselected(K, A, O, S)
<1>1. egress' = Exported(egress, K, L, est')
  BY DEF Reselect
<1> HIDE DEF L
<1>2. \A s \in Session, k \in Key : MraiCell(egress[s][k], now, interval[s])
  BY DEF MraiInv
<1> QED BY <1>1, <1>2, ExportedSpaced, Zenon

\* session_down_cleanup: the session's own row is forgotten, the others get the new selection.
LEMMA CleanupSpaced ==
    ASSUME RibInv, MraiInv, NEW s \in Session, NEW base, est' \subseteq Session, s \notin est',
           Cleanup(s, base, est'), now' = now, interval' = interval, Shape(base),
           \A u \in Session : u # s => base[u] = egress[u],
           \A u \in Session, k \in Key : MraiCell(base[u][k], now, interval[u])
    PROVE  MraiStep
<1> DEFINE K == {k \in Key : adjIn[s][k] # NoRoute}
           L == Reselected(K, [adjIn EXCEPT ![s] = [k \in Key |-> NoRoute]], originated, static)
           G == [base EXCEPT ![s] = [k \in Key |-> Forgotten(@[k])]]
           cleared == IF K = {} THEN base ELSE G
<1>1. egress' = Exported(cleared, K, L, est')
  BY Zenon DEF Cleanup
<1> HIDE DEF K, L
<1>2. /\ \A u \in Session : u # s => G[u] = base[u]
      /\ \A k \in Key : G[s][k] = Forgotten(base[s][k])
  BY DEF Shape
<1>3. ASSUME NEW k \in Key PROVE MraiCell(Forgotten(base[s][k]), now, interval[s])
  <2> DEFINE c == base[s][k]
  <2>1. Forgotten(c).last = c.last /\ Forgotten(c).pend = c.pend /\ Forgotten(c).due = c.due
    <3>1. Forgotten(c) = Cell(Empty, c.heard, c.last, c.pend, c.due)
      BY Zenon DEF Forgotten
    <3> HIDE DEF c
    <3> QED BY <3>1, CellFields
  <2>2. MraiCell(c, now, interval[s])
    OBVIOUS
  <2> HIDE DEF c
  <2>3. MraiCell(Forgotten(c), now, interval[s])
    BY <2>1, <2>2 DEF MraiCell
  <2> QED BY <2>3 DEF c
<1> HIDE DEF G
<1>4. \A u \in Session : u # s => cleared[u] = egress[u]
  BY <1>2
<1>5. \A u \in Session, k \in Key : MraiCell(cleared[u][k], now, interval[u])
  BY <1>2, <1>3
<1> HIDE DEF cleared
<1>6. \A u \in est' : cleared[u] = egress[u]
  BY <1>4
<1> QED BY <1>1, <1>5, <1>6, ExportedSpaced, Zenon

\* The calls that change routes.
LEMMA RouteChangeSpaced ==
    ASSUME RibInv, MraiInv,
           \/ \E s \in Session, k \in Key : RecvWithdraw(s, k) \/ \E v \in Val : RecvAnnounce(s, k, v)
           \/ \E k \in Key : \/ Originate(k) \/ Unoriginate(k)
                             \/ InstallStatic(k) \/ UninstallStatic(k)
           \/ \E s \in Session : EndOfRib(s)
    PROVE  MraiStep
<1>1. ASSUME NEW s \in Session, NEW k \in Key, NEW v \in Val, RecvAnnounce(s, k, v) PROVE MraiStep
  <2> DEFINE A == [adjIn EXCEPT ![s][k] = Learned(s, v)]
  <2>1. /\ now' = now /\ interval' = interval /\ est' = est
        /\ egress' = egress \/ Reselect({k}, A, originated, static)
    BY <1>1, Zenon DEF RecvAnnounce
  <2> HIDE DEF A
  <2> QED BY <2>1, QuietSpaced, ReselectSpaced, Zenon
<1>2. ASSUME NEW s \in Session, NEW k \in Key, RecvWithdraw(s, k) PROVE MraiStep
  <2> DEFINE A == [adjIn EXCEPT ![s][k] = NoRoute]
  <2>1. /\ now' = now /\ interval' = interval /\ est' = est
        /\ egress' = egress \/ Reselect({k}, A, originated, static)
    BY <1>2, Zenon DEF RecvWithdraw
  <2> HIDE DEF A
  <2> QED BY <2>1, QuietSpaced, ReselectSpaced, Zenon
<1>3. ASSUME NEW k \in Key, NEW r, NEW O, NEW S, Install(k, r, O, S) PROVE MraiStep
  <2> DEFINE L == [loc EXCEPT ![k] = {r}]
  <2>1. egress' = Exported(egress, {k}, L, est') /\ now' = now /\ interval' = interval
    BY <1>3, Zenon DEF Install
  <2> HIDE DEF L
  <2>2. \A s \in Session, j \in Key : MraiCell(egress[s][j], now, interval[s])
    BY DEF MraiInv
  <2> QED BY <2>1, <2>2, ExportedSpaced, Zenon
<1>4. ASSUME NEW k \in Key, Originate(k) \/ InstallStatic(k) PROVE MraiStep
  BY <1>3, <1>4, Zenon DEF Originate, InstallStatic
<1>5. ASSUME NEW k \in Key, Unoriginate(k) \/ UninstallStatic(k) PROVE MraiStep
  BY <1>5, ReselectSpaced, Zenon DEF Unoriginate, UninstallStatic
<1>6. ASSUME NEW s \in Session, EndOfRib(s) PROVE MraiStep
  BY <1>6, ReselectSpaced, Zenon DEF EndOfRib
<1> QED BY <1>1, <1>2, <1>4, <1>5, <1>6, Zenon

\* The calls of a session's life.
LEMMA SessionSpaced ==
    ASSUME RibInv, MraiInv, NEW s \in Session,
           \/ RouteRefresh(s) \/ SessionUp(s) \/ SessionDown(s)
           \/ SessionLost(s) \/ RetentionExpires(s)
    PROVE  MraiStep
<1>1. est \subseteq Session /\ Shape(egress)
  BY DEF RibInv, Types, CellsInv
<1>2. \A k \in Key : MraiCell(egress[s][k], now, interval[s])
  BY DEF MraiInv
<1>3. \A c, R : /\ MraiCell(c, now, interval[s]) =>
                      /\ MraiCell(Refreshed(c, s, R), now, interval[s])
                      /\ MraiCell(Dumped(c, s, R), now, interval[s])
                /\ now \in Nat => MraiCell(ClearQueue(c), now, interval[s])
  <2> SUFFICES ASSUME NEW c, NEW R
               PROVE  /\ MraiCell(c, now, interval[s]) =>
                            /\ MraiCell(Refreshed(c, s, R), now, interval[s])
                            /\ MraiCell(Dumped(c, s, R), now, interval[s])
                      /\ now \in Nat => MraiCell(ClearQueue(c), now, interval[s])
    OBVIOUS
  <2>1. \A o, h : LET d == Cell(o, h, c.last, c.pend, c.due)
                  IN  d.last = c.last /\ d.pend = c.pend /\ d.due = c.due
    BY CellFields
  <2>2. MraiCell(c, now, interval[s]) =>
            \A o, h : MraiCell(Cell(o, h, c.last, c.pend, c.due), now, interval[s])
    BY <2>1 DEF MraiCell
  <2>3. ClearQueue(c).last = Never /\ ClearQueue(c).pend = Empty
    BY CellFields DEF ClearQueue
  <2>4. now \in Nat => MraiCell(ClearQueue(c), now, interval[s])
    BY <2>3, EmptyFacts DEF MraiCell, Never
  <2> QED BY <2>2, <2>4, Zenon DEF Refreshed, Dumped
<1>4. now \in Nat
  BY DEF RibInv, Types
<1>5. CASE RouteRefresh(s)
  <2>1. now' = now /\ interval' = interval
        /\ egress' = [egress EXCEPT ![s] = [k \in Key |-> Refreshed(@[k], s, loc[k])]]
    BY <1>5 DEF RouteRefresh
  <2>2. /\ \A u \in Session : u # s => egress'[u] = egress[u]
        /\ \A k \in Key : egress'[s][k] = Refreshed(egress[s][k], s, loc[k])
    BY <1>1, <2>1 DEF Shape
  <2>3. \A k \in Key : MraiCell(egress'[s][k], now, interval[s])
    BY <1>2, <1>3, <2>2, Zenon
  <2>4. \A k \in Key : Spaced(s, k)
    BY <1>5 DEF Spaced
  <2> QED BY <2>1, <2>2, <2>3, <2>4, RowSpaced
<1>6. CASE SessionUp(s)
  <2>1. now' = now /\ interval' = interval /\ s \notin est
        /\ egress' = [egress EXCEPT ![s] = [k \in Key |-> Dumped(@[k], s, loc[k])]]
    BY <1>6 DEF SessionUp
  <2>2. /\ \A u \in Session : u # s => egress'[u] = egress[u]
        /\ \A k \in Key : egress'[s][k] = Dumped(egress[s][k], s, loc[k])
    BY <1>1, <2>1 DEF Shape
  <2>3. \A k \in Key : MraiCell(egress'[s][k], now, interval[s])
    BY <1>2, <1>3, <2>2, Zenon
  <2>4. \A k \in Key : Spaced(s, k)
    BY <2>1, SilentSpaced, Zenon
  <2> QED BY <2>1, <2>2, <2>3, <2>4, RowSpaced
<1> DEFINE Q == QueueCleared(s)
<1>7. /\ Shape(Q)
      /\ \A u \in Session : u # s => Q[u] = egress[u]
      /\ \A k \in Key : Q[s][k] = ClearQueue(egress[s][k])
  BY <1>1 DEF Shape, QueueCleared
<1>8. \A u \in Session, k \in Key : MraiCell(Q[u][k], now, interval[u])
  <2> HIDE DEF Q
  <2>1. \A k \in Key : MraiCell(Q[s][k], now, interval[s])
    BY <1>3, <1>4, <1>7
  <2> QED BY <1>7, <2>1 DEF MraiInv
<1>9. CASE SessionDown(s)
  <2>1. now' = now /\ interval' = interval /\ est' = est \ {s} /\ Cleanup(s, Q, est \ {s})
    BY <1>9 DEF SessionDown
  <2> HIDE DEF Q
  <2>2. est' \subseteq Session /\ s \notin est' /\ Cleanup(s, Q, est')
    BY <1>1, <2>1
  <2> QED BY <1>7, <1>8, <2>1, <2>2, CleanupSpaced, Zenon
<1>10. CASE SessionLost(s)
  <2>1. now' = now /\ interval' = interval /\ s \notin est' /\ egress' = Q
    BY <1>10 DEF SessionLost
  <2> HIDE DEF Q
  <2>2. \A k \in Key : Spaced(s, k)
    BY <2>1, SilentSpaced
  <2> QED BY <1>7, <1>8, <2>1, <2>2, RowSpaced
<1>11. CASE RetentionExpires(s)
  <2>1. /\ now' = now /\ interval' = interval /\ est' = est
        /\ egress' = egress \/ (s \notin est /\ Cleanup(s, egress, est))
    BY <1>11, Zenon DEF RetentionExpires
  <2>2. CASE egress' = egress
    BY <2>1, <2>2, QuietSpaced
  <2>3. CASE s \notin est /\ Cleanup(s, egress, est)
    <3>1. est' \subseteq Session /\ s \notin est' /\ Cleanup(s, egress, est')
      BY <1>1, <2>1, <2>3
    <3>2. \A u \in Session, k \in Key : MraiCell(egress[u][k], now, interval[u])
      BY DEF MraiInv
    <3> QED BY <1>1, <2>1, <3>1, <3>2, CleanupSpaced, Zenon
  <2> QED BY <2>1, <2>2, <2>3
<1> QED BY <1>5, <1>6, <1>9, <1>10, <1>11

\* tick: what leaves the queue was due, one interval after the last update.
LEMMA TickSpaced ==
    ASSUME RibInv, MraiInv, Tick
    PROVE  MraiStep
<1>1. now \in Nat /\ now' = now + 1 /\ interval' = interval
  BY DEF Tick, RibInv, Types
<1>2. ASSUME NEW s \in Session, NEW k \in Key
      PROVE  MraiCell(egress'[s][k], now', interval'[s]) /\ Spaced(s, k)
  <2> DEFINE c == egress[s][k]
             i == interval[s]
             e == FlushCell(c, s, now + 1)
  <2>1. egress'[s][k] = IF c.due > now + 1 THEN c ELSE e
    BY DEF Tick, FlushDue
  <2>2. i \in Nat /\ c.last \in Nat \cup {Never} /\ MraiCell(c, now, i)
    BY CellAtHand
  <2>3. now + 1 \in Nat /\ now <= now + 1
    BY <1>1
  <2> HIDE DEF i, c
  <2>4. MraiCell(e, now + 1, i) /\ (DOMAIN c.pend = {} => e = c)
    BY <1>1, <2>2, <2>3, FlushSpaced, Zenon
  <2>5. MraiCell(c, now + 1, i)
    BY <1>1, <2>2 DEF MraiCell, Never
  <2> HIDE DEF e
  <2>6. MraiCell(egress'[s][k], now', interval'[s])
    BY <1>1, <2>1, <2>4, <2>5 DEF i
  <2>7. CASE egress'[s][k] = c
    BY <2>6, <2>7, SilentSpaced DEF c
  <2>8. CASE egress'[s][k] # c
    <3>1. ~(c.due > now + 1) /\ DOMAIN c.pend # {}
      BY <2>1, <2>4, <2>8
    <3>2. c.last # Never /\ c.due = c.last + i
      BY <2>2, <3>1 DEF MraiCell
    <3>3. now' >= c.last + i
      BY <1>1, <2>2, <3>1, <3>2
    <3> QED BY <1>1, <2>6, <3>3 DEF Spaced, c, i
  <2> QED BY <2>7, <2>8
<1>3. \A s \in Session : interval'[s] \in Intervals \cup {0}
  BY <1>1 DEF MraiInv
<1> QED BY <1>2, <1>3 DEF MraiStep, MraiInv

\* set_mrai: switched off, the queue is sent at once and nothing has to wait; switched on, no
\* update waits for a different interval.
LEMMA SetMraiSpaced ==
    ASSUME RibInv, MraiInv, \A i, j \in Intervals \ {0} : i = j,
           NEW s \in Session, NEW n \in Intervals, SetMrai(s, n)
    PROVE  MraiStep
<1>1. /\ now \in Nat /\ now' = now /\ interval \in [Session -> Nat] /\ Shape(egress)
      /\ interval' = [interval EXCEPT ![s] = n]
      /\ egress' = IF n # 0 THEN egress
                   ELSE [egress EXCEPT ![s] = [k \in Key |-> FlushCell(@[k], s, now)]]
  BY DEF SetMrai, RibInv, Types, CellsInv
<1>2. interval'[s] = n /\ \A u \in Session : u # s => interval'[u] = interval[u]
  BY <1>1
<1>3. ASSUME NEW u \in Session, NEW k \in Key
      PROVE  MraiCell(egress'[u][k], now', interval'[u]) /\ Spaced(u, k)
  <2> DEFINE c == egress[u][k]
             i == interval[u]
             e == FlushCell(c, u, now)
  <2>1. i \in Nat /\ c.last \in Nat \cup {Never} /\ MraiCell(c, now, i)
    BY CellAtHand
  <2>2. CASE u # s \/ n # 0
    <3>1. egress'[u][k] = c
      BY <1>1, <2>2 DEF Shape
    <3>2. Spaced(u, k)
      BY <3>1, SilentSpaced
    <3>3. i # 0 => interval'[u] = i
      <4>1. CASE u # s
        BY <1>2, <4>1
      <4>2. CASE u = s
        <5>1. i \in Intervals \cup {0} /\ n # 0
          BY <2>2, <4>2 DEF MraiInv
        <5> QED BY <1>2, <4>2, <5>1
      <4> QED BY <4>1, <4>2
    <3>4. MraiCell(c, now', interval'[u])
      BY <1>1, <2>1, <3>3 DEF MraiCell
    <3> QED BY <3>1, <3>2, <3>4
  <2>3. CASE u = s /\ n = 0
    <3>1. egress'[u][k] = e
      BY <1>1, <2>3 DEF Shape
    <3>2. now <= now
      BY <1>1
    <3> HIDE DEF c, i
    <3>3. MraiCell(e, now, 0)
      BY <1>1, <2>1, <3>2, FlushSpaced, Zenon
    <3>4. c.last # Never => now >= c.last + 0
      BY <1>1, <2>1 DEF MraiCell, Never
    <3> QED BY <1>1, <1>2, <2>3, <3>1, <3>3, <3>4 DEF Spaced, c
  <2> QED BY <2>2, <2>3
<1>4. \A u \in Session : interval'[u] \in Intervals \cup {0}
  BY <1>2 DEF MraiInv
<1> QED BY <1>3, <1>4 DEF MraiStep, MraiInv

\* Every step keeps the queue's invariant and the spacing.
LEMMA MraiNext ==
    ASSUME \A i, j \in Intervals \ {0} : i = j
    PROVE  RibInv /\ MraiInv /\ [Next]_vars => MraiStep
<1> SUFFICES ASSUME RibInv, MraiInv, [Next]_vars PROVE MraiStep
  OBVIOUS
<1>1. UNCHANGED vars => MraiStep
  BY QuietSpaced DEF vars
<1> QED BY <1>1, RouteChangeSpaced, SessionSpaced, TickSpaced, SetMraiSpaced, Zenon DEF Next

\* On a router that is configured with one advertisement interval, which may be switched off and
\* on again, consecutive advertisements of a prefix to a peer are at least that interval apart
\* (queue_or_send_advertisement, queue_or_send_withdrawal, flush_mrai and set_mrai).  With two
\* different intervals it is false of the code: an update that waits keeps its due time when
\* set_mrai raises the interval.
THEOREM AdvertisementsSpaced ==
    ASSUME \A i, j \in Intervals \ {0} : i = j
    PROVE  Spec => MraiSpacing
<1>1. Init => MraiInv
  <2> SUFFICES ASSUME Init PROVE MraiInv
    OBVIOUS
  <2>1. ASSUME NEW s \in Session, NEW k \in Key PROVE MraiCell(egress[s][k], now, interval[s])
    <3> DEFINE c == Cell(Empty, Empty, Never, Empty, 0)
    <3>1. egress[s][k] = c /\ now = 0
      BY DEF Init
    <3>2. c.last = Never /\ c.pend = Empty
      BY CellFields
    <3> HIDE DEF c
    <3> QED BY <3>1, <3>2, EmptyFacts DEF MraiCell, Never
  <2>2. \A s \in Session : interval[s] \in Intervals \cup {0}
    BY DEF Init
  <2> QED BY <2>1, <2>2 DEF MraiInv
<1>2. RibInv /\ MraiInv /\ [Next]_vars => MraiInv'
  BY MraiNext DEF MraiStep
<1>3. RibInv /\ MraiInv /\ [Next]_vars =>
          [\A s \in Session, k \in Key :
              Told(s, k) /\ ~RouteRefresh(s) /\ egress[s][k].last # Never
                  => now' >= egress[s][k].last + interval'[s]]_vars
  BY MraiNext, Zenon DEF MraiStep, Spaced
<1> QED BY <1>1, <1>2, <1>3, RibInvariant, PTL DEF Spec, MraiSpacing

---------------------------------------------------------------------------
(* Adj-RIB-In *)

\* The property without the condition that the session is established: what it says of a
\* session that is down is what a later session starts from.
Follows ==
    \A s \in Session \ (Internal \cup Retaining), k \in Key :
        Rejected[s] = {} /\ adjIn[s][k] # NoRoute => adjIn[s][k].val = offer[s][k]

\* Routes only leave, and what stays was not announced anew.
LEMMA FollowsKept ==
    ASSUME Follows,
           \A s \in Session, k \in Key :
               \/ adjIn'[s][k] = NoRoute
               \/ adjIn'[s][k] = adjIn[s][k] /\ offer'[s][k] = offer[s][k]
    PROVE  Follows'
<1> SUFFICES ASSUME NEW s \in Session, s \notin Internal, s \notin Retaining, NEW k \in Key,
                    Rejected[s] = {}, adjIn'[s][k] # NoRoute
             PROVE  adjIn'[s][k].val = offer'[s][k]
  BY DEF Follows
<1>1. adjIn'[s][k] = adjIn[s][k] /\ offer'[s][k] = offer[s][k]
  OBVIOUS
<1> QED BY <1>1 DEF Follows

\* Every call keeps Adj-RIB-In in step with the peers.
LEMMA FollowsNext == RibInv /\ Follows /\ [Next]_vars => Follows'
<1> SUFFICES ASSUME RibInv, Follows, [Next]_vars PROVE Follows'
  OBVIOUS
<1>1. adjIn \in [Session -> [Key -> Route \cup {NoRoute}]] /\ offer \in [Session -> [Key -> Val \cup {NoVal}]]
  BY DEF RibInv, Types, AdjInType
<1>2. CASE adjIn' = adjIn /\ offer' = offer
  BY <1>2, FollowsKept
<1>3. ASSUME NEW s \in Session, NEW k \in Key, NEW v \in Val, RecvAnnounce(s, k, v) PROVE Follows'
  <2>1. offer' = [offer EXCEPT ![s][k] = v]
    BY <1>3 DEF RecvAnnounce
  <2>2. \A u \in Session, j \in Key : offer'[u][j] = IF u = s /\ j = k THEN v ELSE offer[u][j]
    BY <1>1, <2>1
  <2>3. CASE v \in Rejected[s]
    <3>1. adjIn' = adjIn /\ Rejected[s] # {}
      BY <1>3, <2>3 DEF RecvAnnounce
    <3> QED BY <2>2, <3>1 DEF Follows
  <2>4. CASE v \notin Rejected[s]
    <3>1. adjIn' = [adjIn EXCEPT ![s][k] = Learned(s, v)]
      BY <1>3, <2>4 DEF RecvAnnounce, Reselect
    <3>2. \A u \in Session, j \in Key : adjIn'[u][j] = IF u = s /\ j = k THEN Learned(s, v) ELSE adjIn[u][j]
      BY <1>1, <3>1
    <3>3. Learned(s, v).val = v
      BY DEF Learned
    <3> QED BY <2>2, <3>2, <3>3 DEF Follows
  <2> QED BY <2>3, <2>4
<1>4. ASSUME NEW s \in Session, NEW k \in Key, RecvWithdraw(s, k) PROVE Follows'
  <2>1. offer' = [offer EXCEPT ![s][k] = NoVal]
    BY <1>4 DEF RecvWithdraw
  <2>2. \A u \in Session, j \in Key : u # s \/ j # k => offer'[u][j] = offer[u][j]
    BY <1>1, <2>1
  <2>3. CASE s \in Internal \/ adjIn[s][k] = NoRoute
    <3>1. adjIn' = adjIn
      BY <1>4, <2>3 DEF RecvWithdraw
    <3> QED BY <2>2, <2>3, <3>1 DEF Follows
  <2>4. CASE ~(s \in Internal \/ adjIn[s][k] = NoRoute)
    <3>1. adjIn' = [adjIn EXCEPT ![s][k] = NoRoute]
      BY <1>4, <2>4 DEF RecvWithdraw, Reselect
    <3>2. \A u \in Session, j \in Key : adjIn'[u][j] = IF u = s /\ j = k THEN NoRoute ELSE adjIn[u][j]
      BY <1>1, <3>1
    <3> QED BY <2>2, <3>2, FollowsKept
  <2> QED BY <2>3, <2>4
<1>5. ASSUME NEW s \in Session, adjIn' = [adjIn EXCEPT ![s] = [k \in Key |-> NoRoute]],
             offer' = offer \/ offer' = [offer EXCEPT ![s] = [k \in Key |-> NoVal]]
      PROVE  Follows'
  <2>1. \A u \in Session, j \in Key : adjIn'[u][j] = IF u = s THEN NoRoute ELSE adjIn[u][j]
    BY <1>1, <1>5
  <2>2. \A u \in Session, j \in Key : u # s => offer'[u][j] = offer[u][j]
    BY <1>1, <1>5
  <2> QED BY <2>1, <2>2, FollowsKept
<1>6. ASSUME NEW s \in Session, SessionDown(s) \/ RetentionExpires(s) PROVE Follows'
  <2>1. \/ adjIn' = adjIn /\ offer' = offer
        \/ /\ adjIn' = [adjIn EXCEPT ![s] = [k \in Key |-> NoRoute]]
           /\ offer' = offer \/ offer' = [offer EXCEPT ![s] = [k \in Key |-> NoVal]]
    BY <1>6, Zenon DEF SessionDown, RetentionExpires, Cleanup
  <2> QED BY <1>2, <1>5, <2>1
<1>7. ASSUME NEW s \in Session, SessionLost(s) PROVE Follows'
  <2>1. s \in Retaining /\ adjIn' = adjIn /\ offer' = [offer EXCEPT ![s] = [k \in Key |-> NoVal]]
    BY <1>7 DEF SessionLost
  <2>2. \A u \in Session, j \in Key : u # s => offer'[u][j] = offer[u][j]
    BY <1>1, <2>1
  <2> QED BY <2>1, <2>2 DEF Follows
<1>8. ASSUME NEW s \in Session, EndOfRib(s) PROVE Follows'
  <2> DEFINE K == {k \in Key : adjIn[s][k] # NoRoute /\ k \notin gr[s].refreshed}
  <2>1. offer' = offer /\ adjIn' = [adjIn EXCEPT ![s] = [k \in Key |-> IF k \in K THEN NoRoute ELSE @[k]]]
    BY <1>8, Zenon DEF EndOfRib, Reselect
  <2> HIDE DEF K
  <2>2. \A u \in Session, j \in Key : adjIn'[u][j] = NoRoute \/ adjIn'[u][j] = adjIn[u][j]
    BY <1>1, <2>1
  <2> QED BY <2>1, <2>2, FollowsKept
<1>9. ASSUME NEW k \in Key, Originate(k) \/ Unoriginate(k) \/ InstallStatic(k) \/ UninstallStatic(k)
      PROVE  adjIn' = adjIn /\ offer' = offer
  BY <1>9, Zenon DEF Originate, Unoriginate, InstallStatic, UninstallStatic, Install, Reselect
<1>10. ASSUME NEW s \in Session, RouteRefresh(s) \/ SessionUp(s) \/ \E i \in Intervals : SetMrai(s, i)
       PROVE  adjIn' = adjIn /\ offer' = offer
  BY <1>10, Zenon DEF RouteRefresh, SessionUp, SetMrai
<1>11. Tick \/ UNCHANGED vars => adjIn' = adjIn /\ offer' = offer
  BY Zenon DEF Tick, vars
<1> QED BY <1>2, <1>3, <1>4, <1>6, <1>7, <1>8, <1>9, <1>10, <1>11, Zenon DEF Next

\* Adj-RIB-In of an eBGP peer without graceful restart whose import checks let everything pass
\* holds what the peer announced last, after any number of sessions (import_route, the
\* withdrawal of dispatch_bgp_actions, session_down_cleanup).
THEOREM AdjInFollows == Spec => []AdjInFollowsPeer
<1>1. Init => Follows
  BY DEF Init, Follows
<1>2. RibInv /\ Follows => AdjInFollowsPeer
  BY Zenon DEF RibInv, Types, Follows, AdjInFollowsPeer
<1> QED BY <1>1, <1>2, FollowsNext, RibInvariant, PTL DEF Spec

---------------------------------------------------------------------------
(* No prefix is lost *)

Less == {p \in Nat \X Nat : p[1] < p[2]}

\* A set of natural numbers has a least element.
LEMMA LeastOf ==
    ASSUME NEW S \in SUBSET Nat, S # {}
    PROVE  \E m \in S : \A n \in S : m <= n
<1>1. IsWellFoundedOn(Less, Nat)
  BY NatLessThanWellFounded DEF Less, OpToRel
<1>2. PICK m \in S : \A n \in S : <<n, m>> \notin Less
  BY <1>1, WFMin, Zenon
<1>3. \A n \in S : ~(n < m)
  BY <1>2, Zenon DEF Less
<1> QED BY <1>3

\* The empty set has no elements to count: the definition of Cardinality at {}.
LEMMA NoneAbove == Cardinality({}) = 0
<1> DEFINE F(CS) == [T \in SUBSET {} |-> IF T = {} THEN 0 ELSE 1 + CS[T \ {CHOOSE x : x \in T}]]
           g == [T \in SUBSET {} |-> 0]
<1>1. g = F(g)
  OBVIOUS
<1>2. (CHOOSE CS : CS = F(CS)) = F(CHOOSE CS : CS = F(CS))
  <2> HIDE DEF F, g
  <2> QED BY <1>1, Zenon
<1>3. {} \in SUBSET {}
  OBVIOUS
<1>4. (CHOOSE CS : CS = F(CS))[{}] = 0
  BY <1>2, <1>3, Zenon
<1> QED BY <1>4, Zenon DEF Cardinality

\* The candidates for a key are finitely many: one for each session, and two of the router.
LEMMA CandidatesFinite ==
    ASSUME IsFiniteSet(Session), NEW k, NEW A, NEW O, NEW S, Candidates(k, A, O, S) # {}
    PROVE  IsFiniteSet(Candidates(k, A, O, S))
<1> DEFINE C == Candidates(k, A, O, S)
<1>1. PICK q \in Seq(Session) : \A s \in Session : \E n \in 1..Len(q) : q[n] = s
  BY Zenon DEF IsFiniteSet
<1>2. PICK c \in C : TRUE
  OBVIOUS
<1> DEFINE n == Len(q)
           g == [i \in 1..(n + 2) |->
                    IF i <= n /\ A[q[i]][k] # NoRoute THEN A[q[i]][k]
                    ELSE IF i = n + 1 /\ k \in O THEN Local
                    ELSE IF i = n + 2 /\ k \in S THEN StaticRoute ELSE c]
<1>3. n \in Nat /\ \A i \in 1..n : q[i] \in Session
  BY <1>1
<1>4. \A r : r \in C <=> \/ \E s \in Session : A[s][k] # NoRoute /\ r = A[s][k]
                         \/ k \in O /\ r = Local
                         \/ k \in S /\ r = StaticRoute
  BY Zenon DEF Candidates
<1> HIDE DEF n, C
<1>5. \A i \in 1..(n + 2) : g[i] \in C
  <2> SUFFICES ASSUME NEW i \in 1..(n + 2) PROVE g[i] \in C
    OBVIOUS
  <2>1. CASE i <= n
    <3>1. q[i] \in Session
      BY <1>3, <2>1
    <3> QED BY <1>2, <1>3, <1>4, <2>1, <3>1
  <2>2. CASE ~(i <= n)
    BY <1>2, <1>4, <2>2
  <2> QED BY <2>1, <2>2
<1>6. \A r \in C : \E i \in 1..(n + 2) : g[i] = r
  <2> SUFFICES ASSUME NEW r \in C PROVE \E i \in 1..(n + 2) : g[i] = r
    OBVIOUS
  <2>1. ASSUME NEW s \in Session, A[s][k] # NoRoute, r = A[s][k]
        PROVE  \E i \in 1..(n + 2) : g[i] = r
    <3>1. PICK i \in 1..n : q[i] = s
      BY <1>1 DEF n
    <3>2. i \in 1..(n + 2) /\ i <= n
      BY <1>3
    <3>3. g[i] = r
      BY <2>1, <3>1, <3>2
    <3> QED BY <3>2, <3>3
  <2>2. CASE k \in O /\ r = Local
    <3>1. n + 1 \in 1..(n + 2) /\ ~(n + 1 <= n)
      BY <1>3
    <3>2. g[n + 1] = r
      BY <2>2, <3>1
    <3> QED BY <3>1, <3>2
  <2>3. CASE k \in S /\ r = StaticRoute
    <3>1. n + 2 \in 1..(n + 2) /\ ~(n + 2 <= n) /\ n + 2 # n + 1
      BY <1>3
    <3>2. g[n + 2] = r
      BY <2>3, <3>1
    <3> QED BY <3>1, <3>2
  <2> QED BY <1>4, <2>1, <2>2, <2>3
<1>7. g \in Seq(C) /\ Len(g) = n + 2
  <2>1. n + 2 \in Nat
    BY <1>3
  <2>2. g \in [1..(n + 2) -> C]
    BY <1>5
  <2> HIDE DEF g
  <2> QED BY <2>1, <2>2
<1> HIDE DEF g
<1>8. IsFiniteSet(C)
  BY <1>6, <1>7, Zenon DEF IsFiniteSet
<1> QED BY <1>8 DEF C

\* Among routes, Better orders strictly.
LEMMA BetterOrders ==
    /\ \A r \in Route : ~Better(r, r)
    /\ \A p, q, r \in Route : Better(p, q) /\ Better(q, r) => Better(p, r)
<1>1. \A p \in Route : p.val \in Nat /\ p.src \in Session \cup {0}
  BY DEF Route
<1>2. \A x \in Session \cup {0} : x \in Nat
  BY SessionAssumption
<1>3. \A p \in Route : p.val \in Nat /\ p.src \in Nat
  BY <1>1, <1>2
<1> QED BY <1>3 DEF Better

\* A finite set of candidates has one no other is better than: the first in the ranking.
LEMMA FirstExists ==
    ASSUME NEW C \in SUBSET Route, IsFiniteSet(C), C # {}
    PROVE  \E r \in C : {q \in C : Better(q, r)} = {}
<1>1. PICK c \in Seq(C) : \A r \in C : \E n \in 1..Len(c) : c[n] = r
  BY Zenon DEF IsFiniteSet
<1> DEFINE N == Len(c)
           Leads(m, n) == \A i \in 1..n : ~Better(c[i], c[m])
           W == {n \in 1..N : \A m \in 1..n : ~Leads(m, n)}
<1>2. N \in Nat /\ \A i \in 1..N : c[i] \in C /\ c[i] \in Route
  BY <1>1
<1>3. N # 0
  BY <1>1, <1>2
<1>4. W = {}
  <2> SUFFICES ASSUME W # {} PROVE FALSE
    OBVIOUS
  <2>1. W \in SUBSET Nat
    BY <1>2
  <2>2. PICK n \in W : \A j \in W : n <= j
    BY <2>1, LeastOf, Zenon
  <2>3. n \in 1..N /\ n \in Nat /\ c[n] \in Route
    BY <1>2
  <2>6. \A m \in 1..n : ~Leads(m, n)
    OBVIOUS
  <2>7. \A j \in 1..N : j \notin W => \E m \in 1..j : Leads(m, j)
    OBVIOUS
  <2> HIDE DEF W, N
  <2>4. CASE n = 1
    <3>1. Leads(1, 1)
      <4>1. \A i \in 1..1 : i = 1
        OBVIOUS
      <4> QED BY <2>3, <2>4, <4>1, BetterOrders
    <3> QED BY <2>4, <2>6, <3>1
  <2>5. CASE n # 1
    <3>1. n - 1 \in 1..N /\ ~(n <= n - 1)
      BY <1>2, <2>3, <2>5
    <3>2. PICK m \in 1..(n - 1) : Leads(m, n - 1)
      BY <2>2, <2>7, <3>1
    <3>3. m \in 1..n /\ c[m] \in Route /\ \A i \in 1..n : i \in 1..(n - 1) \/ i = n
      BY <1>2, <2>3
    <3>4. \A i \in 1..n : c[i] \in Route
      BY <1>2, <2>3
    <3>5. CASE Better(c[n], c[m])
      <4>1. Leads(n, n)
        BY <2>3, <3>2, <3>3, <3>4, <3>5, BetterOrders
      <4>2. n \in 1..n
        BY <2>3
      <4> QED BY <2>6, <4>1, <4>2, Zenon
    <3>6. CASE ~Better(c[n], c[m])
      <4>1. Leads(m, n)
        BY <3>2, <3>3, <3>6
      <4> QED BY <2>6, <3>3, <4>1
    <3> QED BY <3>5, <3>6
  <2> QED BY <2>4, <2>5
<1>5. PICK m \in 1..N : Leads(m, N)
  <2>1. N \in 1..N
    BY <1>2, <1>3
  <2> QED BY <1>4, <2>1, Zenon
<1>6. \A q \in C : ~Better(q, c[m])
  BY <1>1, <1>5, Zenon
<1> QED BY <1>2, <1>6

\* reselect selects something whenever there is a candidate.
LEMMA SelectsSome ==
    ASSUME NEW C \in SUBSET Route, IsFiniteSet(C), C # {}
    PROVE  Select(C) # {}
<1>1. CASE \A r \in C : r.proto = "bgp"
  <2>1. PICK r \in C : {q \in C : Better(q, r)} = {}
    BY FirstExists
  <2>2. Slot(C, r) = 1 + 0
    BY <2>1, NoneAbove, Zenon DEF Slot
  <2>3. Slot(C, r) <= MaxPaths
    BY <2>2, RankAssumption
  <2>4. r \in Select(C)
    BY <1>1, <2>3, Zenon DEF Select
  <2> QED BY <2>4
<1>2. CASE ~ \A r \in C : r.proto = "bgp"
  <2>1. PICK r \in C : r.proto # "bgp"
    BY <1>2
  <2>2. r.proto = "static"
    BY <2>1 DEF Route
  <2>3. r \in Select(C)
    BY <1>2, <2>2, Zenon DEF Select
  <2> QED BY <2>3
<1> QED BY <1>1, <1>2

\* The tables become A, O and S, and the decision process runs for the keys K.
Selects(K, A, O, S) ==
    adjIn' = A /\ originated' = O /\ static' = S /\ loc' = Reselected(K, A, O, S)

\* The tables A, O and S offer nothing new but for the keys K.
OnlyKeys(K, A, O, S) ==
    \A k \in Key : k \notin K => Candidates(k, A, O, S) \subseteq Candidates(k, adjIn, originated, static)

\* A new selection for the keys K loses no prefix, provided that no other key won a candidate.
LEMMA SelectionComplete ==
    ASSUME IsFiniteSet(Session), RibInv, NoLostPrefix, NEW K, NEW A, AdjInType(A), NEW O, NEW S,
           Selects(K, A, O, S), OnlyKeys(K, A, O, S)
    PROVE  NoLostPrefix'
<1> SUFFICES \A k \in Key : Candidates(k, adjIn', originated', static') # {} => loc'[k] # {}
  BY DEF NoLostPrefix, Candidates
<1> SUFFICES ASSUME NEW k \in Key, Candidates(k, A, O, S) # {}
             PROVE  loc'[k] # {}
  BY DEF Selects
<1> DEFINE C == Candidates(k, A, O, S)
<1>1. loc'[k] = IF k \in K THEN Select(C) ELSE loc[k]
  BY DEF Selects, Reselected
<1>2. C \in SUBSET Route
  BY CandidatesType
<1>5. IsFiniteSet(C)
  BY CandidatesFinite, Zenon
<1> HIDE DEF C
<1>3. CASE k \in K
  <2>1. C # {}
    BY DEF C
  <2> QED BY <1>1, <1>2, <1>3, <1>5, <2>1, SelectsSome
<1>4. CASE k \notin K
  BY <1>1, <1>4 DEF NoLostPrefix, OnlyKeys, C
<1> QED BY <1>3, <1>4

\* reselect for the keys whose routes changed.
LEMMA ReselectComplete ==
    ASSUME IsFiniteSet(Session), RibInv, NoLostPrefix, NEW K, NEW A, AdjInType(A), NEW O, NEW S,
           Reselect(K, A, O, S), OnlyKeys(K, A, O, S)
    PROVE  NoLostPrefix'
<1>1. Selects(K, A, O, S)
  BY DEF Reselect, Selects
<1> QED BY <1>1, SelectionComplete, Zenon

\* session_down_cleanup.
LEMMA CleanupComplete ==
    ASSUME IsFiniteSet(Session), RibInv, NoLostPrefix, NEW s \in Session, NEW base, NEW E,
           Cleanup(s, base, E), UNCHANGED <<originated, static>>
    PROVE  NoLostPrefix'
<1> DEFINE K == {k \in Key : adjIn[s][k] # NoRoute}
           A == [adjIn EXCEPT ![s] = [k \in Key |-> NoRoute]]
<1>1. adjIn' = A /\ loc' = Reselected(K, A, originated, static)
  BY Zenon DEF Cleanup
<1>2. adjIn \in [Session -> [Key -> Route \cup {NoRoute}]]
  BY DEF RibInv, Types, AdjInType
<1>3. AdjInType(A)
  BY <1>2 DEF AdjInType
<1>4. \A j \in Key : j \notin K => \A t \in Session : A[t][j] = adjIn[t][j]
  BY <1>2
<1> HIDE DEF A, K
<1>5. OnlyKeys(K, A, originated, static)
  BY <1>4, OtherKeys DEF OnlyKeys
<1>6. Selects(K, A, originated, static)
  BY <1>1 DEF Selects
<1> QED BY <1>3, <1>5, <1>6, SelectionComplete, Zenon

\* Every call leaves each prefix that has a source in Loc-RIB.
LEMMA CompleteNext ==
    ASSUME IsFiniteSet(Session)
    PROVE  RibInv /\ NoLostPrefix /\ [Next]_vars => NoLostPrefix'
<1> SUFFICES ASSUME RibInv, NoLostPrefix, [Next]_vars PROVE NoLostPrefix'
  OBVIOUS
<1>1. /\ adjIn \in [Session -> [Key -> Route \cup {NoRoute}]]
      /\ now \in Nat /\ loc \in [Key -> SUBSET Route]
  BY DEF RibInv, Types, AdjInType
<1>2. CASE UNCHANGED <<adjIn, originated, static, loc>>
  BY <1>2 DEF NoLostPrefix, Candidates
<1>3. ASSUME NEW s \in Session, NEW k \in Key, NEW v \in Val, RecvAnnounce(s, k, v)
      PROVE  NoLostPrefix'
  <2> DEFINE A == [adjIn EXCEPT ![s][k] = Learned(s, v)]
  <2>1. UNCHANGED <<adjIn, originated, static, loc>> \/ Reselect({k}, A, originated, static)
    BY <1>3, Zenon DEF RecvAnnounce
  <2>2. Learned(s, v) \in Route
    BY <1>1, RankAssumption DEF Learned, Route
  <2>3. AdjInType(A) /\ \A j \in Key : j # k => \A t \in Session : A[t][j] = adjIn[t][j]
    BY <1>1, <2>2 DEF AdjInType
  <2> HIDE DEF A
  <2>4. OnlyKeys({k}, A, originated, static)
    BY <2>3, OtherKeys DEF OnlyKeys
  <2> QED BY <1>2, <2>1, <2>3, <2>4, ReselectComplete, Zenon
<1>4. ASSUME NEW s \in Session, NEW k \in Key, RecvWithdraw(s, k) PROVE NoLostPrefix'
  <2> DEFINE A == [adjIn EXCEPT ![s][k] = NoRoute]
  <2>1. UNCHANGED <<adjIn, originated, static, loc>> \/ Reselect({k}, A, originated, static)
    BY <1>4, Zenon DEF RecvWithdraw
  <2>2. AdjInType(A) /\ \A j \in Key : j # k => \A t \in Session : A[t][j] = adjIn[t][j]
    BY <1>1 DEF AdjInType
  <2> HIDE DEF A
  <2>3. OnlyKeys({k}, A, originated, static)
    BY <2>2, OtherKeys DEF OnlyKeys
  <2> QED BY <1>2, <2>1, <2>2, <2>3, ReselectComplete, Zenon
<1>5. ASSUME NEW k \in Key, Unoriginate(k) \/ UninstallStatic(k) PROVE NoLostPrefix'
  <2>1. \/ Reselect({k}, adjIn, originated \ {k}, static)
        \/ Reselect({k}, adjIn, originated, static \ {k})
    BY <1>5 DEF Unoriginate, UninstallStatic
  <2>2. AdjInType(adjIn)
    BY DEF RibInv, Types
  <2>3. /\ OnlyKeys({k}, adjIn, originated \ {k}, static)
        /\ OnlyKeys({k}, adjIn, originated, static \ {k})
    BY OtherKeys DEF OnlyKeys
  <2> QED BY <2>1, <2>2, <2>3, ReselectComplete, Zenon
<1>6. ASSUME NEW k \in Key, NEW r, NEW O, NEW S, Install(k, r, O, S),
             \A j \in Key : j # k => (j \in O => j \in originated) /\ (j \in S => j \in static)
      PROVE  NoLostPrefix'
  <2>1. /\ adjIn' = adjIn /\ originated' = O /\ static' = S /\ loc' = [loc EXCEPT ![k] = {r}]
    BY <1>6 DEF Install
  <2>2. loc'[k] # {} /\ \A j \in Key : j # k => loc'[j] = loc[j]
    BY <1>1, <2>1
  <2>3. \A j \in Key : j # k =>
            Candidates(j, adjIn, O, S) \subseteq Candidates(j, adjIn, originated, static)
    BY <1>6, OtherKeys
  <2>4. \A j \in Key : Candidates(j, adjIn, O, S) # {} => loc'[j] # {}
    BY <2>2, <2>3 DEF NoLostPrefix
  <2> QED BY <2>1, <2>4, Zenon DEF NoLostPrefix, Candidates
<1>7. ASSUME NEW k \in Key, Originate(k) \/ InstallStatic(k) PROVE NoLostPrefix'
  <2>1. \/ Install(k, Local, originated \cup {k}, static)
        \/ Install(k, StaticRoute, originated, static \cup {k})
    BY <1>7 DEF Originate, InstallStatic
  <2>2. \A j \in Key : j # k => /\ j \in originated \cup {k} => j \in originated
                                /\ j \in static \cup {k} => j \in static
    OBVIOUS
  <2> QED BY <1>6, <2>1, <2>2, Zenon
<1>8. ASSUME NEW s \in Session, SessionDown(s) \/ RetentionExpires(s) PROVE NoLostPrefix'
  <2>1. /\ UNCHANGED <<originated, static>>
        /\ \/ adjIn' = adjIn /\ loc' = loc
           \/ Cleanup(s, QueueCleared(s), est \ {s})
           \/ Cleanup(s, egress, est)
    BY <1>8, Zenon DEF SessionDown, RetentionExpires
  <2> QED BY <1>2, <2>1, CleanupComplete, Zenon
<1>9. ASSUME NEW s \in Session, EndOfRib(s) PROVE NoLostPrefix'
  <2> DEFINE K == {k \in Key : adjIn[s][k] # NoRoute /\ k \notin gr[s].refreshed}
             A == [adjIn EXCEPT ![s] = [k \in Key |-> IF k \in K THEN NoRoute ELSE @[k]]]
  <2>1. Reselect(K, A, originated, static)
    BY <1>9, Zenon DEF EndOfRib
  <2> HIDE DEF K
  <2>2. AdjInType(A) /\ \A j \in Key : j \notin K => \A t \in Session : A[t][j] = adjIn[t][j]
    BY <1>1 DEF AdjInType
  <2> HIDE DEF A
  <2>3. OnlyKeys(K, A, originated, static)
    BY <2>2, OtherKeys DEF OnlyKeys
  <2> QED BY <2>1, <2>2, <2>3, ReselectComplete, Zenon
<1>10. ASSUME NEW s \in Session,
              \/ RouteRefresh(s) \/ SessionUp(s) \/ SessionLost(s)
              \/ \E i \in Intervals : SetMrai(s, i)
       PROVE  UNCHANGED <<adjIn, originated, static, loc>>
  BY <1>10, Zenon DEF RouteRefresh, SessionUp, SessionLost, SetMrai
<1>11. Tick \/ UNCHANGED vars => UNCHANGED <<adjIn, originated, static, loc>>
  BY Zenon DEF Tick, vars
<1> QED BY <1>2, <1>3, <1>4, <1>5, <1>7, <1>8, <1>9, <1>10, <1>11, Zenon DEF Next

\* No call forgets a prefix that a peer, the originated or the static table still offers: after
\* a withdrawal, the end of a session or of a retention, or the removal of a local route, the
\* decision process falls back to what is left (reselect, BestPath::rank, RouteSelector::select).
THEOREM NothingLost ==
    ASSUME IsFiniteSet(Session)
    PROVE  Spec => []NoLostPrefix
<1>1. Init => NoLostPrefix
  BY DEF Init, NoLostPrefix, Candidates
<1> QED BY <1>1, CompleteNext, RibInvariant, PTL DEF Spec

===========================================================================
