------------------------- MODULE BgpSessionTheorems -------------------------
(***************************************************************************)
(* The theorems about the BGP session: the two ends agree, the hold timer   *)
(* ends a session only after silence, and no UPDATE is dropped.             *)
(*                                                                          *)
(* The router sends one KEEPALIVE for each KEEPALIVE entry that is due, so  *)
(* the invariants rest on one more: the timer queue is finite.              *)
(***************************************************************************)
EXTENDS BgpSessionProofs, FiniteSetTheorems

Finite == \A p \in Peer : IsFiniteSet(timers[p])

\* A finite queue can be counted.
LEMMA FiniteCounted == Finite => Counted
<1> SUFFICES ASSUME Finite, NEW p \in Peer, NEW ts \in SUBSET timers[p] PROVE Cardinality(ts) \in Nat
  BY FS_EmptySet DEF Counted
<1>1. IsFiniteSet(timers[p])
  BY DEF Finite
<1>2. IsFiniteSet(ts)
  BY <1>1, FS_Subset
<1> QED BY <1>2, FS_CardinalityType

\* What a function makes of a finite set is finite.
LEMMA FiniteImage ==
    ASSUME NEW S, IsFiniteSet(S), NEW R, NEW f \in [S -> R]
    PROVE  IsFiniteSet({f[x] : x \in S})
<1> DEFINE T == {f[x] : x \in S}
<1>1. f \in [S -> T] /\ \A t \in T : \E x \in S : f[x] = t
  OBVIOUS
<1> HIDE DEF T
<1>2. f \in Surjection(S, T)
  BY <1>1 DEF Surjection
<1>3. IsFiniteSet(T)
  BY <1>2, FS_Surjection, Zenon
<1> QED BY <1>3 DEF T

\* Entries that are aged or armed again are no more than before.
LEMMA FiniteAged ==
    ASSUME NEW p \in Peer, IsFiniteSet(timers[p]), NEW S, S \subseteq Due(p), NEW k \in Nat
    PROVE  IsFiniteSet(Elapsed(p) \cup {[t EXCEPT !.left = k] : t \in S})
<1> DEFINE U == timers[p] \ Due(p)
           f == [t \in U |-> [t EXCEPT !.left = @ - 1]]
           g == [t \in S |-> [t EXCEPT !.left = k]]
           A == {f[t] : t \in U}
           B == {g[t] : t \in S}
<1>1. Elapsed(p) = A /\ {[t EXCEPT !.left = k] : t \in S} = B
  BY Zenon DEF Elapsed
<1>2. IsFiniteSet(U) /\ IsFiniteSet(S)
  BY FS_Subset DEF Due
<1>3. f \in [U -> A]
  BY Zenon
<1>4. g \in [S -> B]
  BY Zenon
<1> HIDE DEF f, g, U, A, B
<1>5. IsFiniteSet(A)
  <2>1. IsFiniteSet({f[t] : t \in U})
    BY <1>2, <1>3, FiniteImage, Zenon
  <2> QED BY <2>1 DEF A
<1>6. IsFiniteSet(B)
  <2>1. IsFiniteSet({g[t] : t \in S})
    BY <1>2, <1>4, FiniteImage, Zenon
  <2> QED BY <2>1 DEF B
<1>7. IsFiniteSet(A \cup B)
  BY <1>5, <1>6, FS_Union, Zenon
<1> QED BY <1>1, <1>7, Zenon

\* An action that changes the queue of p only.
LEMMA FiniteQueue ==
    ASSUME Types, Finite, NEW p \in Peer, NEW S, IsFiniteSet(S), timers' = [timers EXCEPT ![p] = S]
    PROVE  Finite'
BY DEF Finite, Types

\* Handlers arm a bounded number of entries.
LEMMA FiniteStep == SessionInv /\ Finite /\ [Next]_vars => Finite'
<1> SUFFICES ASSUME SessionInv, Finite, [Next]_vars PROVE Finite'
  OBVIOUS
<1>0. Types
  BY DEF SessionInv
<1>1. ASSUME UNCHANGED timers PROVE Finite'
  BY <1>1 DEF Finite
<1>2. ASSUME NEW p \in Peer, StartSession(p) PROVE Finite'
  <2>1. IsFiniteSet(timers[p] \cup {Entry("CONNECT_RETRY", ConnectRetry, starts)})
    BY FS_AddElement, Zenon DEF Finite
  <2>2. timers' = [timers EXCEPT ![p] = timers[p] \cup {Entry("CONNECT_RETRY", ConnectRetry, starts)}]
    BY <1>2, Zenon DEF StartSession
  <2> QED BY <1>0, <2>1, <2>2, FiniteQueue, Zenon
<1>3. ASSUME NEW p \in Peer, AcceptOpen(p) PROVE Finite'
  <2> DEFINE h == NegotiatedHold(p, Head(chan[p]))
             a == Entry("HOLD", h, starts)
             b == Entry("KEEPALIVE", KeepaliveRemaining(p, h), starts)
             S == timers[p] \cup IF h > 0 THEN {a, b} ELSE {}
  <2>1. timers' = [timers EXCEPT ![p] = S]
    BY <1>3, Zenon DEF AcceptOpen
  <2> HIDE DEF h, a, b
  <2>2. IsFiniteSet(S)
    <3>1. IsFiniteSet(timers[p] \cup {a})
      BY FS_AddElement DEF Finite
    <3>2. IsFiniteSet((timers[p] \cup {a}) \cup {b})
      BY <3>1, FS_AddElement
    <3>3. S = (timers[p] \cup {a}) \cup {b} \/ S = timers[p]
      OBVIOUS
    <3> QED BY <3>2, <3>3 DEF Finite
  <2> HIDE DEF S
  <2> QED BY <1>0, <2>1, <2>2, FiniteQueue, Zenon
<1>4. ASSUME NEW p \in Peer, RearmHold(p) PROVE Finite'
  <2> DEFINE C == Cancel(timers[p], "HOLD")
             e == Entry("HOLD", neg[p], starts)
  <2>1. timers' = [timers EXCEPT ![p] = C \cup {e}]
    BY <1>4, Zenon DEF RearmHold
  <2>2. C \subseteq timers[p] /\ IsFiniteSet(timers[p])
    BY DEF Cancel, Finite
  <2> HIDE DEF C, e
  <2>3. IsFiniteSet(C)
    BY <2>2, FS_Subset
  <2>4. IsFiniteSet(C \cup {e})
    BY <2>3, FS_AddElement
  <2> QED BY <1>0, <2>1, <2>4, FiniteQueue, Zenon
<1>5. ASSUME NEW p \in Peer, Tick(p) PROVE Finite'
  <2>1. PICK ts \in SUBSET {t \in Due(p) : t.id = "KEEPALIVE"},
             ms \in {<<>>, <<Notification("HoldTimerExpired")>>} : Fires(p, ts, ms)
    BY <1>5, TickIs, Zenon
  <2> DEFINE k == KeepaliveRemaining(p, neg[p])
             S == Elapsed(p) \cup {[t EXCEPT !.left = k] : t \in ts}
  <2>2. timers' = [timers EXCEPT ![p] = S]
    BY <2>1, Zenon DEF Fires
  <2>3. ts \subseteq Due(p) /\ IsFiniteSet(timers[p]) /\ k \in Nat
    BY <1>0, TimerArithmetic, Zenon DEF Finite, Types
  <2> HIDE DEF k
  <2>4. IsFiniteSet(S)
    BY <2>3, FiniteAged, Zenon
  <2> HIDE DEF S
  <2> QED BY <1>0, <2>2, <2>4, FiniteQueue, Zenon
<1>6. ASSUME NEW p \in Peer, Receive(p) PROVE Finite'
  <2>1. UNCHANGED timers \/ AcceptOpen(p) \/ RearmHold(p)
    BY <1>6, Zenon DEF Receive, RecvOpen, RecvKeepalive, RecvUpdate, RecvNotification, RecvMalformed,
         RecvIgnored, RejectOpen, GoIdle, Establish, RefreshHold
  <2> QED BY <1>1, <1>3, <1>4, <2>1, Zenon
<1>7. ASSUME NEW p \in Peer, PumpExit(p) \/ ReadEof(p) \/ ReadError(p) \/ ShutdownSession(p) \/ SendMalformed(p)
      PROVE  UNCHANGED timers
  BY <1>7, Zenon DEF PumpExit, ReadEof, ReadError, ShutdownSession, SendMalformed, CloseSession
<1>8. Dial \/ Cut \/ UNCHANGED vars => UNCHANGED timers
  BY Zenon DEF Dial, Cut, vars
<1> QED BY <1>1, <1>2, <1>5, <1>6, <1>7, <1>8, Zenon DEF Next, Fixed, Environment, Router

\* The invariant of a session.
THEOREM SessionInvariant == Spec => [](SessionInv /\ Counted)
<1>1. Init => SessionInv /\ Finite
  BY SessionInit, FS_EmptySet DEF Init, Finite
<1>2. SessionInv /\ Finite /\ [Next]_vars => SessionInv' /\ Finite'
  BY SessionStep, FiniteStep, FiniteCounted
<1> QED BY <1>1, <1>2, FiniteCounted, PTL DEF Spec

\* The handshake of BgpPeer: whatever is configured, cut or shut down, a router is Established
\* only with a peer that has accepted its OPEN, with the same hold time.
THEOREM SessionAgreed == Spec => []NoHalfOpenSession
BY SessionInvariant, SessionAgreement, PTL
---------------------------------------------------------------------------
(* The hold timer. *)

\* A HOLD entry of the present connection has no less to go than the negotiated time minus
\* the silence; there is none before the OPEN is read.
Measures(p) ==
    \A t \in timers[p] :
        /\ t.run <= starts
        /\ t.id = "HOLD" /\ t.run = starts
             => ~Fresh(p) /\ neg[p] <= MaxHold /\ t.left + silence[p] >= neg[p]

HoldInv == \A p \in Peer : Measures(p)

\* The negotiated hold time is not above the longest one configured.
LEMMA HoldBounds ==
    ASSUME Types, NEW p \in Peer
    PROVE  Hold(p) <= MaxHold
<1>1. Other(p) \in Peer /\ cfg[p].hold \in Nat /\ cfg[Other(p)].hold \in Nat
  BY TwoPeers DEF Types, Configs
<1>2. MaxHold \in Nat /\ cfg[p].hold <= MaxHold
  BY MaxHoldIs
<1>3. Open(Other(p)).hold = cfg[Other(p)].hold
  BY DEF Open
<1> QED BY <1>1, <1>2, <1>3 DEF Hold, NegotiatedHold, Min2

\* An end whose timers do not change.
LEMMA MeasuresKept ==
    ASSUME NEW r \in Peer, Measures(r), cfg' = cfg, starts' = starts, timers'[r] = timers[r],
           neg'[r] = neg[r], silence'[r] = silence[r], Fresh(r)' => Fresh(r)
    PROVE  Measures(r)'
<1>1. MaxHold' = MaxHold
  BY DEF MaxHold
<1> QED BY <1>1 DEF Measures

\* An end whose HOLD entries of this connection, if any, have the full hold time.
LEMMA MeasuresAnew ==
    ASSUME NEW r \in Peer, cfg' = cfg, neg'[r] \in Nat, neg'[r] <= MaxHold, silence'[r] = 0,
           \A t \in timers'[r] : t.run <= starts',
           \A t \in timers'[r] : t.id = "HOLD" /\ t.run = starts' => ~Fresh(r)' /\ t.left = neg'[r]
    PROVE  Measures(r)'
<1>1. MaxHold' = MaxHold
  BY DEF MaxHold
<1> QED BY <1>1 DEF Measures

\* feed_bytes: a hold timer is armed with the negotiated time when something was heard.
LEMMA HoldReceive ==
    ASSUME SessionInv, HoldInv, NEW p \in Peer, Receive(p), cfg' = cfg
    PROVE  Measures(p)'
<1>1. /\ Types /\ Measures(p) /\ Knows(p) /\ link[p] = "up" /\ link' = link /\ starts' = starts
      /\ starts \in Nat /\ neg[p] \in Nat
  <2>1. link[p] = "up" /\ link' = link /\ starts' = starts
    BY Zenon DEF Receive, RecvOpen, RecvKeepalive, RecvUpdate, RecvNotification, RecvMalformed,
         RecvIgnored, HasMsg
  <2>2. Types /\ Measures(p) /\ Knows(p) /\ starts \in Nat /\ neg[p] \in Nat
    BY DEF SessionInv, HoldInv, Types
  <2> QED BY <2>1, <2>2 DEF Measures
<1>2. CASE RecvOpen(p)
  <2>1. /\ state[p] = "OpenSent" /\ silence' = [silence EXCEPT ![p] = 0]
        /\ IF OpenRejected(p, Head(chan[p])) THEN RejectOpen(p) ELSE AcceptOpen(p)
        /\ chan[p] # <<>>
    BY <1>2, Zenon DEF RecvOpen, HasMsg
  <2>2. silence'[p] = 0 /\ Fresh(p)
    BY <1>1, <2>1 DEF Types, Fresh
  <2>3. \A t \in timers[p] : t.run <= starts /\ ~(t.id = "HOLD" /\ t.run = starts)
    BY <1>1, <2>2 DEF Measures
  <2>4. CASE RejectOpen(p)
    <3>1. timers' = timers /\ neg' = neg /\ ~Fresh(p)'
      BY <1>1, <2>4 DEF RejectOpen, GoIdle, Fresh, Types
    <3> QED BY <1>1, <2>3, <3>1 DEF Measures
  <2>5. CASE AcceptOpen(p)
    <3> DEFINE h == NegotiatedHold(p, Head(chan[p]))
               S == {Entry("HOLD", h, starts), Entry("KEEPALIVE", KeepaliveRemaining(p, h), starts)}
    <3>1. /\ state' = [state EXCEPT ![p] = "OpenConfirm"] /\ neg' = [neg EXCEPT ![p] = h]
          /\ timers' = [timers EXCEPT ![p] = timers[p] \cup IF h > 0 THEN S ELSE {}]
      BY <2>5, Zenon DEF AcceptOpen
    <3>2. h = Hold(p)
      BY <1>1, <2>1, HeadIs DEF Hold
    <3>3. h \in Nat /\ h <= MaxHold
      BY <1>1, <3>2, HoldBounds, TimerArithmetic, Zenon
    <3>4. \A t \in S : t.run <= starts /\ (t.id = "HOLD" => t.left = h)
      BY <1>1 DEF Entry
    <3> HIDE DEF h, S
    <3>5. timers'[p] \subseteq timers[p] \cup S /\ neg'[p] = h /\ state'[p] = "OpenConfirm"
      BY <1>1, <3>1 DEF Types
    <3>6. ~Fresh(p)'
      BY <1>1, <3>5 DEF Fresh
    <3>7. \A t \in timers'[p] : t.run <= starts /\ (t.id = "HOLD" /\ t.run = starts => t.left = h)
      BY <2>3, <3>4, <3>5, Zenon
    <3> QED BY <1>1, <2>2, <3>3, <3>5, <3>6, <3>7, MeasuresAnew, Zenon
  <2> QED BY <2>1, <2>4, <2>5
<1>3. CASE RefreshHold(p) /\ neg' = neg
  <2>1. /\ state[p] = "Established" /\ state' = state /\ silence'[p] = 0
        /\ timers'[p] = Cancel(timers[p], "HOLD") \cup {Entry("HOLD", neg[p], starts)}
    BY <1>1, <1>3 DEF RefreshHold, RearmHold, Types
  <2>2. ~Fresh(p)'
    BY <1>1, <2>1 DEF Fresh
  <2>3. neg[p] <= MaxHold
    BY <1>1, <2>1, HoldBounds, Zenon DEF Knows
  <2>4. \A t \in timers'[p] : t.run <= starts /\ (t.id = "HOLD" => t.left = neg[p])
    BY <1>1, <2>1 DEF Cancel, Entry, Measures
  <2> QED BY <1>1, <1>3, <2>1, <2>2, <2>3, <2>4, MeasuresAnew, Zenon
<1>4. CASE UNCHANGED <<timers, neg, silence>> /\ (state'[p] = "OpenSent" => state[p] = "OpenSent")
  BY <1>1, <1>4, MeasuresKept DEF Fresh
<1>5. RecvKeepalive(p) => (RefreshHold(p) /\ neg' = neg)
                          \/ (UNCHANGED <<timers, neg, silence>> /\ state'[p] = "Established")
  BY <1>1 DEF RecvKeepalive, Establish, Types
<1>6. RecvUpdate(p) => RefreshHold(p) /\ neg' = neg
  BY DEF RecvUpdate
<1>7. RecvNotification(p) \/ RecvMalformed(p) => UNCHANGED <<timers, neg, silence>> /\ state'[p] = "Idle"
  BY <1>1 DEF RecvNotification, RecvMalformed, GoIdle, Types
<1>8. RecvIgnored(p) => UNCHANGED <<timers, neg, silence, state>>
  BY Zenon DEF RecvIgnored
<1> QED BY <1>2, <1>3, <1>4, <1>5, <1>6, <1>7, <1>8 DEF Receive

\* DefaultRouter::tick: what an entry loses in time, the silence gains.
LEMMA HoldTick ==
    ASSUME SessionInv, HoldInv, NEW p \in Peer, Tick(p), cfg' = cfg
    PROVE  Measures(p)'
<1>1. /\ Types /\ Measures(p) /\ Ends(p) /\ UNCHANGED <<neg, link, conn, starts>>
      /\ silence' = [silence EXCEPT ![p] = Min2(silence[p] + 1, MaxHold)]
  BY Zenon DEF SessionInv, HoldInv, Tick
<1>2. PICK ts \in SUBSET {t \in Due(p) : t.id = "KEEPALIVE"},
           ms \in {<<>>, <<Notification("HoldTimerExpired")>>} : Fires(p, ts, ms)
  BY TickIs, Zenon
<1>3. MaxHold' = MaxHold /\ MaxHold \in Nat
  BY <1>1, MaxHoldIs DEF MaxHold
<1>4. /\ silence'[p] = Min2(silence[p] + 1, MaxHold) /\ silence[p] \in Nat /\ neg[p] \in Nat
      /\ timers[p] \in SUBSET Entries
  BY <1>1 DEF Types
<1>5. Fresh(p)' => Fresh(p)
  <2>1. state'[p] = state[p] \/ state'[p] = "Idle"
    BY <1>1, <1>2 DEF Fires, Types
  <2> QED BY <1>1, <2>1 DEF Fresh
<1>6. timers'[p] = Elapsed(p) \cup {[t EXCEPT !.left = KeepaliveRemaining(p, neg[p])] : t \in ts}
  <2>1. p \in DOMAIN timers
    BY <1>1 DEF Types
  <2> QED BY <1>2, <2>1, Zenon DEF Fires
<1>7. ASSUME NEW u \in timers'[p], u.id = "HOLD"
      PROVE  \E t \in timers[p] : /\ t.id = "HOLD" /\ u.run = t.run /\ u.left = t.left - 1
                                  /\ t.left \in Nat /\ t.left > 1
  <2>1. CASE u \in Elapsed(p)
    <3>1. PICK t \in timers[p] \ Due(p) : u = [t EXCEPT !.left = @ - 1]
      BY <2>1 DEF Elapsed
    <3>2. t \in Entries
      BY <1>4
    <3>3. u.id = t.id /\ u.run = t.run /\ u.left = t.left - 1 /\ t.left \in Nat
      BY <3>1, <3>2 DEF Entries
    <3>4. t.left > 1
      BY <3>1, <3>3 DEF Due
    <3> QED BY <1>7, <3>1, <3>3, <3>4
  <2>2. CASE u \in {[t EXCEPT !.left = KeepaliveRemaining(p, neg[p])] : t \in ts}
    <3>1. PICK t \in ts : u = [t EXCEPT !.left = KeepaliveRemaining(p, neg[p])]
      BY <2>2
    <3>2. t \in Entries /\ t.id = "KEEPALIVE"
      BY <1>4 DEF Due
    <3> QED BY <1>7, <3>1, <3>2 DEF Entries
  <2> QED BY <1>6, <2>1, <2>2
<1>8. ASSUME NEW u \in timers'[p] PROVE u.run <= starts
  <2>1. CASE u \in Elapsed(p)
    BY <1>1, <1>4, <2>1 DEF Elapsed, Due, Measures, Entries
  <2>2. CASE u \in {[t EXCEPT !.left = KeepaliveRemaining(p, neg[p])] : t \in ts}
    <3>1. PICK t \in ts : u = [t EXCEPT !.left = KeepaliveRemaining(p, neg[p])]
      BY <2>2
    <3>2. t \in timers[p] /\ t \in Entries
      BY <1>4 DEF Due
    <3>3. u.run = t.run
      BY <3>1, <3>2 DEF Entries
    <3> QED BY <1>1, <3>2, <3>3 DEF Measures
  <2> QED BY <1>6, <2>1, <2>2
<1>9. ASSUME NEW u \in timers'[p], u.id = "HOLD", u.run = starts
      PROVE  ~Fresh(p) /\ neg[p] <= MaxHold /\ u.left + silence'[p] >= neg[p]
  <2>1. PICK t \in timers[p] : /\ t.id = "HOLD" /\ u.run = t.run /\ u.left = t.left - 1
                               /\ t.left \in Nat /\ t.left > 1
    BY <1>7, <1>9
  <2>2. ~Fresh(p) /\ neg[p] <= MaxHold /\ t.left + silence[p] >= neg[p]
    BY <1>1, <1>9, <2>1 DEF Measures
  <2> QED BY <1>3, <1>4, <2>1, <2>2 DEF Min2
<1> QED BY <1>1, <1>3, <1>5, <1>8, <1>9 DEF Measures

\* Every action keeps the hold timers of the present connection in step with the silence.
LEMMA HoldStep == SessionInv /\ HoldInv /\ [Next]_vars => HoldInv'
<1> SUFFICES ASSUME SessionInv, HoldInv, [Next]_vars PROVE HoldInv'
  OBVIOUS
<1>1. Types /\ (\A r \in Peer : Measures(r)) /\ cfg' = cfg
  BY DEF SessionInv, HoldInv, Next, Fixed, vars
<1>2. SUFFICES \A r \in Peer : Measures(r)'
  BY <1>1 DEF HoldInv
<1>3. ASSUME UNCHANGED <<timers, neg, silence, starts>>, state' = state, link' = link
      PROVE  \A r \in Peer : Measures(r)'
  BY <1>1, <1>3, MeasuresKept DEF Fresh
<1>4. ASSUME NEW p \in Peer, NEW q, q = Other(p), Measures(p)', starts' = starts,
             timers'[q] = timers[q], neg'[q] = neg[q], silence'[q] = silence[q],
             state'[q] = state[q], link'[q] = link[q]
      PROVE  \A r \in Peer : Measures(r)'
  <2>1. q \in Peer /\ \A r \in Peer : r = p \/ r = q
    BY <1>4, TwoPeers
  <2>2. Fresh(q)' => Fresh(q)
    BY <1>4 DEF Fresh
  <2>3. Measures(q)'
    BY <1>1, <1>4, <2>1, <2>2, MeasuresKept, Zenon
  <2> QED BY <1>4, <2>1, <2>3, Zenon
<1>5. CASE Dial
  <2>1. /\ starts' = starts + 1 /\ timers' = timers /\ starts \in Nat
        /\ \A r \in Peer : timers[r] \in SUBSET Entries
    BY <1>1, <1>5 DEF Dial, Types
  <2>2. ASSUME NEW r \in Peer, NEW t \in timers[r] PROVE t.run \in Nat /\ t.run <= starts
    BY <1>1, <2>1 DEF Measures, Entries
  <2>3. \A r \in Peer : \A t \in timers[r] : t.run <= starts' /\ t.run # starts'
    BY <2>1, <2>2
  <2> QED BY <2>1, <2>3 DEF Measures
<1>6. CASE Cut \/ (\E p \in Peer : SendMalformed(p)) \/ UNCHANGED vars
  BY <1>3, <1>6 DEF Cut, SendMalformed, vars
<1>7. ASSUME NEW p \in Peer, PumpExit(p) \/ ReadEof(p) \/ ReadError(p) \/ ShutdownSession(p)
      PROVE  \A r \in Peer : Measures(r)'
  <2> DEFINE q == Other(p)
  <2>1. /\ state' = [state EXCEPT ![p] = "Idle"] /\ link' = [link EXCEPT ![p] = "none"]
        /\ UNCHANGED <<neg, timers, starts, silence>>
    BY <1>7, Zenon DEF PumpExit, ReadEof, ReadError, ShutdownSession, CloseSession
  <2>2. /\ q # p /\ q \in Peer /\ state'[p] = "Idle" /\ state'[q] = state[q] /\ link'[p] = "none" /\ link'[q] = link[q]
    BY <1>1, <2>1, TwoPeers DEF Types
  <2>3. ~Fresh(p)'
    BY <2>2 DEF Fresh
  <2>4. Measures(p)'
    BY <1>1, <2>1, <2>2, <2>3, MeasuresKept, Zenon
  <2> QED BY <1>4, <2>1, <2>2, <2>4, Zenon
<1>8. ASSUME NEW p \in Peer, StartSession(p) PROVE \A r \in Peer : Measures(r)'
  <2> DEFINE q == Other(p)
             e == Entry("CONNECT_RETRY", ConnectRetry, starts)
  <2>1. /\ state' = [state EXCEPT ![p] = "OpenSent"] /\ link' = [link EXCEPT ![p] = "up"] /\ link[p] = "ready"
        /\ neg' = [neg EXCEPT ![p] = 0] /\ starts' = starts /\ silence' = [silence EXCEPT ![p] = 0]
        /\ timers' = [timers EXCEPT ![p] = timers[p] \cup {e}]
    BY <1>8, Zenon DEF StartSession
  <2>2. e.id # "HOLD" /\ e.run <= starts
    BY <1>1 DEF Entry, Types
  <2> HIDE DEF e
  <2>3. /\ q # p /\ q \in Peer /\ state'[q] = state[q] /\ link'[q] = link[q] /\ neg'[q] = neg[q]
        /\ silence'[q] = silence[q] /\ timers'[q] = timers[q] /\ timers'[p] = timers[p] \cup {e}
    BY <1>1, <2>1, TwoPeers DEF Types
  <2>4. \A t \in timers[p] : t.run <= starts /\ ~(t.id = "HOLD" /\ t.run = starts)
    BY <1>1, <2>1 DEF Measures, Fresh
  <2>5. Measures(p)'
    BY <2>1, <2>2, <2>3, <2>4, Zenon DEF Measures
  <2> QED BY <1>4, <2>1, <2>3, <2>5, Zenon
<1>9. ASSUME NEW p \in Peer, Receive(p) \/ Tick(p) PROVE \A r \in Peer : Measures(r)'
  <2> DEFINE q == Other(p)
  <2>1. q # p /\ q \in Peer /\ Measures(p)'
    BY <1>1, <1>9, HoldReceive, HoldTick, TwoPeers
  <2>2. /\ link' = link /\ starts' = starts
        /\ silence' = silence \/ \E x : silence' = [silence EXCEPT ![p] = x]
        /\ neg' = neg \/ \E x : neg' = [neg EXCEPT ![p] = x]
        /\ state' = state \/ \E x : state' = [state EXCEPT ![p] = x]
        /\ timers' = timers \/ \E x : timers' = [timers EXCEPT ![p] = x]
    <3>1. CASE Receive(p)
      BY <3>1, Zenon DEF Receive, RecvOpen, RejectOpen, AcceptOpen, RecvKeepalive, Establish, RefreshHold,
           RearmHold, RecvUpdate, RecvNotification, RecvMalformed, RecvIgnored, GoIdle
    <3>2. CASE Tick(p)
      <4>1. PICK ts \in SUBSET {t \in Due(p) : t.id = "KEEPALIVE"},
                 ms \in {<<>>, <<Notification("HoldTimerExpired")>>} : Fires(p, ts, ms)
        BY <3>2, TickIs, Zenon
      <4>2. UNCHANGED <<neg, link, starts>> /\ \E x : silence' = [silence EXCEPT ![p] = x]
        BY <3>2, Zenon DEF Tick
      <4> QED BY <4>1, <4>2, Zenon DEF Fires
    <3> QED BY <1>9, <3>1, <3>2
  <2>3. /\ silence'[q] = silence[q] /\ neg'[q] = neg[q] /\ state'[q] = state[q] /\ timers'[q] = timers[q]
        /\ link'[q] = link[q]
    BY <1>1, <2>1, <2>2 DEF Types
  <2> QED BY <1>4, <2>1, <2>2, <2>3, Zenon
<1> QED BY <1>5, <1>6, <1>7, <1>8, <1>9, Zenon DEF Next, Fixed, Environment, Router

\* A HOLD entry that comes out of the queue has seen the silence it is about.
LEMMA HoldExpiry ==
    ASSUME SessionInv, HoldInv, [Next]_vars, NEW p \in Peer, HoldExpires(p), OwnHold(p)
    PROVE  silence'[p] >= neg[p]
<1>1. Types /\ Measures(p) /\ state'[p] # state[p] /\ ahead' # ahead
  BY DEF SessionInv, HoldInv, HoldExpires
<1>2. ASSUME NEW r \in Peer, Receive(r) PROVE ahead' = ahead
  BY <1>2, Zenon DEF Receive, RecvOpen, RecvKeepalive, RecvUpdate, RecvNotification, RecvMalformed, RecvIgnored
<1>3. \E r \in Peer : Tick(r)
  BY <1>1, <1>2, Zenon DEF Next, Fixed, Environment, Router, Dial, Cut, ShutdownSession, SendMalformed,
       CloseSession, StartSession, PumpExit, ReadEof, ReadError, vars
<1>4. Tick(p)
  <2>1. PICK r \in Peer : Tick(r)
    BY <1>3
  <2>2. state' = state \/ state' = [state EXCEPT ![r] = "Idle"]
    BY <2>1, Zenon DEF Tick
  <2>3. r = p
    BY <1>1, <2>2 DEF Types
  <2> QED BY <2>1, <2>3
<1>5. PICK t \in Due(p) : t.id = "HOLD"
  <2>1. \E ts \in SUBSET {t \in Due(p) : t.id = "KEEPALIVE"},
           ms \in {<<>>, <<Notification("HoldTimerExpired")>>} : Fires(p, ts, ms)
    BY <1>4, TickIs, Zenon
  <2> QED BY <1>1, <2>1, Zenon DEF Fires
<1>6. t \in timers[p] /\ t.run = starts /\ t.left \in Nat /\ t.left <= 1
  BY <1>1, <1>5 DEF Due, Types, Entries, OwnHold
<1>7. neg[p] <= MaxHold /\ t.left + silence[p] >= neg[p]
  BY <1>1, <1>5, <1>6 DEF Measures
<1>8. /\ silence'[p] = Min2(silence[p] + 1, MaxHold) /\ silence[p] \in Nat /\ neg[p] \in Nat /\ MaxHold \in Nat
  <2>1. silence' = [silence EXCEPT ![p] = Min2(silence[p] + 1, MaxHold)]
    BY <1>4, Zenon DEF Tick
  <2>2. MaxHold \in Nat
    BY <1>1, MaxHoldIs
  <2> QED BY <1>1, <2>1, <2>2 DEF Types
<1> QED BY <1>6, <1>7, <1>8 DEF Min2

---------------------------------------------------------------------------
(* The table dump. *)

\* p answers an OPEN with a KEEPALIVE.
Replies(p) == Hold(p) > 0 \/ p \in env.foreign

AcceptedOpen(p) == state[p] \in {"OpenConfirm", "Established"}

\* p is still to take the KEEPALIVE that establishes the session.
Awaits(p) == Fresh(p) \/ state[p] = "OpenConfirm"

\* While p awaits that KEEPALIVE no UPDATE is in front of it, and it is on its way once the
\* peer has accepted the OPEN.  A router that does not answer is never Established.
Dumps(p) ==
    /\ \A i \in 1..Len(chan[p]) : chan[p][i].type = "UPDATE" /\ Awaits(p)
         => \E j \in 1..(i - 1) : chan[p][j].type = "KEEPALIVE"
    /\ Awaits(p) /\ conn = "open" /\ AcceptedOpen(Other(p)) /\ Replies(Other(p))
         => \E j \in 1..Len(chan[p]) : chan[p][j].type = "KEEPALIVE"
    /\ ~Replies(p) => /\ state[p] # "Established"
                      /\ \A i \in 1..Len(chan[p]) : chan[p][i].type \notin {"KEEPALIVE", "UPDATE"}

\* The routers answer an OPEN alike.
Alike == \A p \in Peer : Replies(p) <=> Replies(Other(p))

DumpInv == Alike /\ \A p \in Peer : Dumps(p)

\* Configurations do not change, so neither does what is answered.
LEMMA RepliesKept ==
    ASSUME UNCHANGED <<cfg, env>>
    PROVE  (\A r : Replies(r)' <=> Replies(r)) /\ (Alike => Alike')
BY CfgKept DEF Replies, Alike

\* The end that does something: it reads at most one message, which is not the KEEPALIVE it
\* goes on to await.
LEMMA DumpsHere ==
    ASSUME SessionInv, NEW p \in Peer, NEW q, q = Other(p), Dumps(p), UNCHANGED <<cfg, env>>,
           state'[q] = state[q], conn' = conn \/ conn' # "open",
           \/ chan'[p] = chan[p] /\ (Awaits(p)' => Awaits(p))
           \/ /\ chan[p] # <<>> /\ chan'[p] = Tail(chan[p])
              /\ Awaits(p)' => Awaits(p) /\ Head(chan[p]).type # "KEEPALIVE"
           \/ chan'[p] = <<>> /\ conn' # "open",
           ~Replies(p) => state'[p] # "Established"
    PROVE  Dumps(p)'
<1>1. /\ chan[p] \in Seq(Message) /\ (Replies(p)' <=> Replies(p)) /\ (Replies(q)' <=> Replies(q))
      /\ (AcceptedOpen(q)' <=> AcceptedOpen(q))
  BY RepliesKept, Zenon DEF SessionInv, Types, AcceptedOpen
<1>2. CASE chan'[p] = chan[p] /\ (Awaits(p)' => Awaits(p))
  <2>1. ASSUME NEW i \in 1..Len(chan'[p]), chan'[p][i].type = "UPDATE", Awaits(p)'
        PROVE  \E j \in 1..(i - 1) : chan'[p][j].type = "KEEPALIVE"
    BY <1>2, <2>1 DEF Dumps
  <2>2. ASSUME Awaits(p)', conn' = "open", AcceptedOpen(q), Replies(q)
        PROVE  \E j \in 1..Len(chan'[p]) : chan'[p][j].type = "KEEPALIVE"
    BY <1>2, <2>2 DEF Dumps
  <2>3. ASSUME ~Replies(p), NEW i \in 1..Len(chan'[p])
        PROVE  chan'[p][i].type \notin {"KEEPALIVE", "UPDATE"}
    BY <1>2, <2>3 DEF Dumps
  <2> QED BY <1>1, <2>1, <2>2, <2>3, Zenon DEF Dumps
<1>3. CASE chan'[p] = <<>> /\ conn' # "open"
  <2>1. Len(chan'[p]) = 0
    BY <1>3
  <2> QED BY <1>1, <1>3, <2>1 DEF Dumps
<1>4. CASE /\ chan[p] # <<>> /\ chan'[p] = Tail(chan[p])
           /\ Awaits(p)' => Awaits(p) /\ Head(chan[p]).type # "KEEPALIVE"
  <2>1. /\ Len(chan[p]) \in Nat /\ Len(chan'[p]) = Len(chan[p]) - 1 /\ Head(chan[p]) = chan[p][1]
        /\ \A i \in 1..Len(chan'[p]) : i + 1 \in 1..Len(chan[p]) /\ chan'[p][i] = chan[p][i + 1]
    BY <1>1, <1>4
  <2>2. ASSUME Awaits(p)', NEW j \in 1..Len(chan[p]), chan[p][j].type = "KEEPALIVE"
        PROVE  j - 1 \in 1..Len(chan'[p]) /\ chan'[p][j - 1].type = "KEEPALIVE"
    <3>1. j # 1
      BY <1>4, <2>1, <2>2
    <3>2. j - 1 \in 1..Len(chan'[p]) /\ (j - 1) + 1 = j
      BY <2>1, <3>1
    <3> QED BY <2>1, <2>2, <3>2
  <2>3. ASSUME NEW i \in 1..Len(chan'[p]), chan'[p][i].type = "UPDATE", Awaits(p)'
        PROVE  \E j \in 1..(i - 1) : chan'[p][j].type = "KEEPALIVE"
    <3>1. i + 1 \in 1..Len(chan[p]) /\ chan[p][i + 1].type = "UPDATE" /\ Awaits(p)
      BY <1>4, <2>1, <2>3
    <3>2. PICK j \in 1..((i + 1) - 1) : chan[p][j].type = "KEEPALIVE"
      BY <3>1, Zenon DEF Dumps
    <3>3. j \in 1..Len(chan[p])
      BY <2>1, <3>1, <3>2
    <3>4. j - 1 \in 1..Len(chan'[p]) /\ chan'[p][j - 1].type = "KEEPALIVE"
      BY <2>2, <2>3, <3>2, <3>3, Zenon
    <3>5. j - 1 \in 1..(i - 1)
      BY <2>1, <3>2, <3>4
    <3> QED BY <3>4, <3>5, Zenon
  <2>4. ASSUME Awaits(p)', conn' = "open", AcceptedOpen(q), Replies(q)
        PROVE  \E j \in 1..Len(chan'[p]) : chan'[p][j].type = "KEEPALIVE"
    <3>1. PICK j \in 1..Len(chan[p]) : chan[p][j].type = "KEEPALIVE"
      BY <1>4, <2>4 DEF Dumps
    <3>2. j - 1 \in 1..Len(chan'[p]) /\ chan'[p][j - 1].type = "KEEPALIVE"
      BY <2>2, <2>4, <3>1
    <3> QED BY <3>2, Zenon
  <2>5. ASSUME ~Replies(p), NEW i \in 1..Len(chan'[p])
        PROVE  chan'[p][i].type \notin {"KEEPALIVE", "UPDATE"}
    BY <2>1, <2>5, Zenon DEF Dumps
  <2> QED BY <1>1, <2>3, <2>4, <2>5, Zenon DEF Dumps
<1> QED BY <1>2, <1>3, <1>4

\* The end that something may be sent to: an UPDATE comes from a router that has accepted the
\* OPEN, which has sent its KEEPALIVE before.
LEMMA DumpsThere ==
    ASSUME SessionInv, Alike, NEW p \in Peer, NEW q, q = Other(p), Dumps(q), UNCHANGED <<cfg, env>>,
           state'[q] = state[q], link'[q] = link[q], conn' = conn \/ conn' # "open",
           NEW M, Grown(chan[q], chan'[q], M), conn # "open" => chan'[q] = chan[q],
           \A m \in M : /\ m.type = "UPDATE" => AcceptedOpen(p)
                        /\ m.type \in {"KEEPALIVE", "UPDATE"} => Replies(p),
           AcceptedOpen(p)' /\ Replies(p) /\ conn = "open"
             => AcceptedOpen(p) \/ \E j \in 1..Len(chan'[q]) : chan'[q][j].type = "KEEPALIVE"
    PROVE  Dumps(q)'
<1>1. /\ q \in Peer /\ Other(q) = p /\ (Replies(p)' <=> Replies(p)) /\ (Replies(q)' <=> Replies(q))
      /\ (Replies(p) <=> Replies(q)) /\ (Awaits(q)' <=> Awaits(q))
  BY TwoPeers, RepliesKept, Zenon DEF Alike, Awaits, Fresh
<1>2. /\ Len(chan[q]) \in Nat /\ Len(chan'[q]) \in Nat /\ Len(chan[q]) <= Len(chan'[q])
      /\ \A i \in 1..Len(chan[q]) : i \in 1..Len(chan'[q]) /\ chan'[q][i] = chan[q][i]
      /\ \A i \in 1..Len(chan'[q]) : i \in 1..Len(chan[q]) \/ (i > Len(chan[q]) /\ chan'[q][i] \in M)
  BY DEF Grown
<1>3. ASSUME Awaits(q), conn = "open", AcceptedOpen(p), Replies(p)
      PROVE  \E j \in 1..Len(chan[q]) : chan'[q][j].type = "KEEPALIVE"
  BY <1>1, <1>2, <1>3, Zenon DEF Dumps
<1>4. ASSUME NEW i \in 1..Len(chan'[q]), chan'[q][i].type = "UPDATE", Awaits(q)
      PROVE  \E j \in 1..(i - 1) : chan'[q][j].type = "KEEPALIVE"
  <2>1. CASE i \in 1..Len(chan[q])
    <3>0. chan[q][i].type = "UPDATE"
      BY <1>2, <1>4, <2>1
    <3>1. PICK j \in 1..(i - 1) : chan[q][j].type = "KEEPALIVE"
      BY <1>4, <2>1, <3>0, Zenon DEF Dumps
    <3>2. j \in 1..Len(chan[q])
      BY <1>2, <2>1, <3>1
    <3> QED BY <1>2, <3>1, <3>2, Zenon
  <2>2. CASE i > Len(chan[q]) /\ chan'[q][i] \in M
    <3>1. AcceptedOpen(p) /\ Replies(p)
      BY <1>4, <2>2
    <3>2. conn = "open"
      BY <2>2, <1>2
    <3>3. PICK j \in 1..Len(chan[q]) : chan'[q][j].type = "KEEPALIVE"
      BY <1>3, <1>4, <3>1, <3>2, Zenon
    <3>4. j \in 1..(i - 1)
      BY <1>2, <2>2
    <3> QED BY <3>3, <3>4, Zenon
  <2> QED BY <1>2, <2>1, <2>2, Zenon
<1>5. ASSUME Awaits(q), conn' = "open", AcceptedOpen(p)', Replies(p)
      PROVE  \E j \in 1..Len(chan'[q]) : chan'[q][j].type = "KEEPALIVE"
  <2>1. conn = "open"
    BY <1>5
  <2>2. AcceptedOpen(p) \/ \E j \in 1..Len(chan'[q]) : chan'[q][j].type = "KEEPALIVE"
    BY <1>5, <2>1, Zenon
  <2> QED BY <1>2, <1>3, <1>5, <2>1, <2>2, Zenon
<1>6. ASSUME ~Replies(q) PROVE state'[q] # "Established"
  BY <1>6 DEF Dumps
<1>7. ASSUME ~Replies(q), NEW i \in 1..Len(chan'[q])
      PROVE  chan'[q][i].type \notin {"KEEPALIVE", "UPDATE"}
  <2>1. CASE i \in 1..Len(chan[q])
    BY <1>2, <1>7, <2>1, Zenon DEF Dumps
  <2>2. CASE chan'[q][i] \in M
    BY <1>1, <1>7, <2>2, Zenon
  <2> QED BY <1>2, <2>1, <2>2, Zenon
<1> QED BY <1>1, <1>4, <1>5, <1>6, <1>7, Zenon DEF Dumps

\* p reads a message and answers it.
LEMMA DumpReads ==
    ASSUME SessionInv, DumpInv, NEW p \in Peer, NEW q, q = Other(p), chan[p] # <<>>,
           NEW M \in SUBSET (Signs \cup Notices), NEW ms \in Seq(M), ReadAndSend(p, ms),
           UNCHANGED <<cfg, env, link, conn>>, state'[q] = state[q],
           \A m \in M : /\ m.type = "UPDATE" => AcceptedOpen(p)
                        /\ m.type \in {"KEEPALIVE", "UPDATE"} => Replies(p),
           Awaits(p)' => Awaits(p) /\ Head(chan[p]).type # "KEEPALIVE",
           AcceptedOpen(p)' /\ Replies(p) /\ conn = "open"
             => AcceptedOpen(p) \/ \E j \in 1..Len(chan'[q]) : chan'[q][j].type = "KEEPALIVE",
           ~Replies(p) => state'[p] # "Established"
    PROVE  \A r \in Peer : Dumps(r)'
<1>1. /\ q \in Peer /\ (\A r \in Peer : r = p \/ r = q) /\ Dumps(p) /\ Dumps(q) /\ Alike
      /\ UNCHANGED <<cfg, env>> /\ conn' = conn /\ link'[q] = link[q]
  BY TwoPeers, Zenon DEF DumpInv
<1>2. /\ chan'[p] = Tail(chan[p]) /\ Grown(chan[q], chan'[q], M) /\ (conn # "open" => chan'[q] = chan[q])
  BY Wire, Zenon
<1>3. Dumps(p)'
  BY <1>1, <1>2, DumpsHere, Zenon
<1>4. Dumps(q)'
  BY <1>1, <1>2, DumpsThere, Zenon
<1> QED BY <1>1, <1>3, <1>4, Zenon

\* The types of the messages that are sent.
LEMMA SentTypes ==
    /\ Keepalive.type = "KEEPALIVE" /\ Update.type = "UPDATE"
    /\ {Keepalive} \in SUBSET (Signs \cup Notices) /\ {Update} \in SUBSET (Signs \cup Notices)
    /\ {} \in SUBSET (Signs \cup Notices) /\ <<>> \in Seq({})
    /\ <<Keepalive>> \in Seq({Keepalive}) /\ <<Update>> \in Seq({Update})
BY DEF Keepalive, Update, Signs

\* handle_open_in_opensent.
LEMMA DumpRecvOpen ==
    ASSUME SessionInv, DumpInv, NEW p \in Peer, RecvOpen(p), UNCHANGED <<cfg, env>>
    PROVE  \A r \in Peer : Dumps(r)'
<1> DEFINE q == Other(p)
           h == NegotiatedHold(p, Head(chan[p]))
<1>1. /\ q \in Peer /\ q # p /\ Types /\ chan[p] \in Seq(Message) /\ chan[q] \in Seq(Message)
      /\ link[p] = "up" /\ chan[p] # <<>> /\ state[p] = "OpenSent"
      /\ Head(chan[p]).type = "OPEN" /\ UNCHANGED <<cfg, env, link, conn>>
  BY TwoPeers, Zenon DEF SessionInv, Types, RecvOpen, HasMsg
<1>2. CASE RejectOpen(p)
  <2>1. ReadAndSend(p, <<Notification("Open")>>) /\ state'[p] = "Idle" /\ state'[q] = state[q]
    BY <1>1, <1>2 DEF RejectOpen, GoIdle, Types
  <2>2. <<Notification("Open")>> \in Seq(Notices) /\ Notices \in SUBSET (Signs \cup Notices)
        /\ \A m \in Notices : m.type \notin {"KEEPALIVE", "UPDATE"}
    BY Answers, MessageTypes
  <2>3. ~Awaits(p)' /\ ~AcceptedOpen(p)'
    BY <1>1, <2>1 DEF Awaits, Fresh, AcceptedOpen
  <2> QED BY <1>1, <2>1, <2>2, <2>3, DumpReads, Zenon
<1>3. CASE AcceptOpen(p)
  <2> DEFINE M == {m \in {Keepalive} : Replies(p)}
             ms == OpenReply(p, h)
  <2>1. ReadAndSend(p, ms) /\ state'[p] = "OpenConfirm" /\ state'[q] = state[q]
    BY <1>1, <1>3 DEF AcceptOpen, Types
  <2>2. h = Hold(p)
    BY <1>1, HeadIs DEF Hold
  <2> HIDE DEF h
  <2>3. IF Replies(p) THEN ms = <<Keepalive>> ELSE ms = <<>>
    BY <2>2 DEF Replies, OpenReply
  <2> HIDE DEF ms
  <2>4. ms \in Seq(M)
    <3>1. CASE Replies(p)
      <4>1. M = {Keepalive}
        BY <3>1
      <4> QED BY <2>3, <3>1, <4>1, SentTypes, Zenon
    <3>2. CASE ~Replies(p)
      BY <2>3, <3>2
    <3> QED BY <3>1, <3>2
  <2>5. M \in SUBSET (Signs \cup Notices) /\ \A m \in M : m.type = "KEEPALIVE" /\ Replies(p)
    BY SentTypes
  <2>6. \A m \in M : /\ m.type = "UPDATE" => AcceptedOpen(p)
                     /\ m.type \in {"KEEPALIVE", "UPDATE"} => Replies(p)
    BY <2>5
  <2> HIDE DEF M
  <2>7. Awaits(p) /\ Head(chan[p]).type # "KEEPALIVE"
    BY <1>1 DEF Awaits, Fresh
  <2>8. ASSUME Replies(p), conn = "open"
        PROVE  \E j \in 1..Len(chan'[q]) : chan'[q][j].type = "KEEPALIVE"
    <3>1. chan'[q] = Sent(q, ms)
      BY <1>1, <2>1, <2>4, <2>5, Wire, Zenon
    <3>2. chan'[q] = chan[q] \o <<Keepalive>>
      BY <2>3, <2>8, <3>1, Zenon DEF Sent
    <3>3. Len(chan[q]) + 1 \in 1..Len(chan'[q]) /\ chan'[q][Len(chan[q]) + 1] = Keepalive
      BY <1>1, <3>2
    <3> QED BY <3>3, SentTypes, Zenon
  <2> QED BY <1>1, <2>1, <2>4, <2>5, <2>6, <2>7, <2>8, DumpReads, Zenon
<1> QED BY <1>2, <1>3, Zenon DEF RecvOpen

\* The KEEPALIVE that completes the handshake starts the dump.
LEMMA DumpEstablish ==
    ASSUME SessionInv, DumpInv, NEW p \in Peer, HasMsg(p, "KEEPALIVE"), Establish(p),
           UNCHANGED <<cfg, env, link, conn>>
    PROVE  \A r \in Peer : Dumps(r)'
<1> DEFINE q == Other(p)
<1>1. /\ q \in Peer /\ q # p /\ Types /\ chan[p] \in Seq(Message) /\ Dumps(p)
      /\ link[p] = "up" /\ chan[p] # <<>> /\ state[p] = "OpenConfirm"
      /\ Head(chan[p]).type = "KEEPALIVE" /\ ReadAndSend(p, <<Update>>)
      /\ state' = [state EXCEPT ![p] = "Established"]
  BY TwoPeers, Zenon DEF SessionInv, Types, DumpInv, Establish, HasMsg
<1>2. state'[p] = "Established" /\ state'[q] = state[q]
  BY <1>1 DEF Types
<1>3. Replies(p)
  <2>1. 1 \in 1..Len(chan[p]) /\ chan[p][1].type = "KEEPALIVE"
    BY <1>1
  <2> QED BY <1>1, <2>1, Zenon DEF Dumps
<1>4. AcceptedOpen(p) /\ ~Awaits(p)'
  BY <1>1, <1>2 DEF AcceptedOpen, Awaits, Fresh
<1>5. <<Update>> \in Seq({Update}) /\ {Update} \in SUBSET (Signs \cup Notices)
  BY SentTypes, Zenon
<1> QED BY <1>1, <1>2, <1>3, <1>4, <1>5, DumpReads, Zenon

\* A message that leaves the state as it is, other than a KEEPALIVE that p awaits.
LEMMA DumpListens ==
    ASSUME SessionInv, DumpInv, NEW p \in Peer, chan[p] # <<>>, ReadAndSend(p, <<>>),
           Awaits(p) => Head(chan[p]).type # "KEEPALIVE", UNCHANGED <<cfg, env, link, conn, state>>
    PROVE  \A r \in Peer : Dumps(r)'
<1> DEFINE q == Other(p)
<1>1. /\ (Awaits(p)' <=> Awaits(p)) /\ (AcceptedOpen(p)' <=> AcceptedOpen(p)) /\ Dumps(p)
      /\ UNCHANGED <<cfg, env, link, conn>> /\ state'[q] = state[q]
  BY Zenon DEF Awaits, Fresh, AcceptedOpen, DumpInv
<1>2. {} \in SUBSET (Signs \cup Notices) /\ <<>> \in Seq({})
  BY SentTypes
<1>3. ~Replies(p) => state'[p] # "Established"
  BY <1>1, Zenon DEF Dumps
<1> QED BY <1>1, <1>2, <1>3, DumpReads, Zenon

\* feed_bytes.
LEMMA DumpReceive ==
    ASSUME SessionInv, DumpInv, NEW p \in Peer, Receive(p), UNCHANGED <<cfg, env>>
    PROVE  \A r \in Peer : Dumps(r)'
<1> DEFINE q == Other(p)
<1>1. /\ q \in Peer /\ q # p /\ Types /\ link[p] = "up" /\ chan[p] # <<>> /\ UNCHANGED <<cfg, env, link, conn>>
  BY TwoPeers, Zenon DEF SessionInv, Receive, RecvOpen, RecvKeepalive, RecvUpdate, RecvNotification,
       RecvMalformed, RecvIgnored, HasMsg
<1>2. CASE RecvOpen(p)
  BY <1>2, DumpRecvOpen
<1>3. CASE RecvKeepalive(p) /\ Establish(p)
  BY <1>1, <1>3, DumpEstablish, Zenon DEF RecvKeepalive
<1>4. CASE RefreshHold(p)
  <2>1. state[p] = "Established" /\ state' = state /\ ReadAndSend(p, <<>>)
    BY <1>4, Zenon DEF RefreshHold
  <2>2. ~Awaits(p)
    BY <1>1, <2>1 DEF Awaits, Fresh
  <2>3. UNCHANGED <<cfg, env, link, conn, state>>
    BY <1>1, <2>1, Zenon
  <2> QED BY <1>1, <2>1, <2>2, <2>3, DumpListens, Zenon
<1>5. CASE RecvNotification(p) \/ RecvMalformed(p)
  <2>1. /\ state'[p] = "Idle" /\ state'[q] = state[q]
        /\ ReadAndSend(p, <<>>) \/ ReadAndSend(p, <<Notification("Update")>>)
    BY <1>1, <1>5 DEF RecvNotification, RecvMalformed, GoIdle, Types
  <2>2. <<>> \in Seq(Notices) /\ <<Notification("Update")>> \in Seq(Notices)
        /\ Notices \in SUBSET (Signs \cup Notices) /\ \A m \in Notices : m.type \notin {"KEEPALIVE", "UPDATE"}
    BY Answers, MessageTypes
  <2>3. PICK ms \in Seq(Notices) : ReadAndSend(p, ms)
    BY <2>1, <2>2, Zenon
  <2>4. ~Awaits(p)' /\ ~AcceptedOpen(p)'
    BY <1>1, <2>1 DEF Awaits, Fresh, AcceptedOpen
  <2> QED BY <1>1, <2>1, <2>2, <2>3, <2>4, DumpReads, Zenon
<1>6. CASE RecvIgnored(p)
  <2>1. ReadAndSend(p, <<>>) /\ state' = state
    BY <1>6, Zenon DEF RecvIgnored
  <2>2. state[p] = "OpenSent" => Head(chan[p]).type = "OPEN"
    BY <1>1, HeadIs, MessageTypes, Zenon
  <2>3. Head(chan[p]).type = "KEEPALIVE" => state[p] \notin {"OpenConfirm", "Established"}
    BY <1>6 DEF RecvIgnored, HasMsg
  <2>4. Awaits(p) => Head(chan[p]).type # "KEEPALIVE"
    BY <1>1, <2>2, <2>3 DEF Awaits, Fresh
  <2>5. UNCHANGED <<cfg, env, link, conn, state>>
    BY <1>1, <2>1, Zenon
  <2> QED BY <1>1, <2>1, <2>4, <2>5, DumpListens, Zenon
<1> QED BY <1>2, <1>3, <1>4, <1>5, <1>6, Zenon DEF Receive, RecvKeepalive, RecvUpdate

\* p sends without reading: what is sent is no UPDATE.
LEMMA DumpSends ==
    ASSUME SessionInv, DumpInv, NEW p \in Peer, NEW q, q = Other(p),
           NEW M \in SUBSET Message, NEW ms \in Seq(M),
           \/ chan' = [chan EXCEPT ![q] = Sent(q, ms)] /\ conn' = conn
           \/ chan' = [chan EXCEPT ![p] = <<>>, ![q] = Sent(q, ms)] /\ conn' # "open",
           UNCHANGED <<cfg, env>>, state'[q] = state[q], link'[q] = link[q],
           \A m \in M : /\ m.type # "UPDATE"
                        /\ m.type = "KEEPALIVE" => Replies(p),
           Awaits(p)' => Awaits(p), AcceptedOpen(p)' => AcceptedOpen(p),
           state'[p] = "Established" => state[p] = "Established"
    PROVE  \A r \in Peer : Dumps(r)'
<1>1. /\ q \in Peer /\ q # p /\ (\A r \in Peer : r = p \/ r = q) /\ Dumps(p) /\ Dumps(q) /\ Alike
      /\ chan \in [Peer -> Seq(Message)] /\ chan[q] \in Seq(Message)
  BY TwoPeers, Zenon DEF SessionInv, Types, DumpInv
<1>2. Grown(chan[q], Sent(q, ms), M) /\ (conn # "open" => Sent(q, ms) = chan[q])
  BY <1>1, SentGrown, Zenon
<1>3. /\ chan'[q] = Sent(q, ms) /\ (conn' = conn \/ conn' # "open")
      /\ chan'[p] = chan[p] \/ (chan'[p] = <<>> /\ conn' # "open")
  BY <1>1, Zenon
<1>4. ~Replies(p) => state'[p] # "Established"
  BY <1>1, Zenon DEF Dumps
<1>5. Dumps(p)'
  BY <1>1, <1>3, <1>4, DumpsHere, Zenon
<1>6. \A m \in M : /\ m.type = "UPDATE" => AcceptedOpen(p)
                   /\ m.type \in {"KEEPALIVE", "UPDATE"} => Replies(p)
  OBVIOUS
<1>7. Dumps(q)'
  <2>1. /\ Grown(chan[q], chan'[q], M) /\ (conn # "open" => chan'[q] = chan[q])
        /\ conn' = conn \/ conn' # "open"
    BY <1>2, <1>3, Zenon
  <2>2. AcceptedOpen(p)' /\ Replies(p) /\ conn = "open"
          => AcceptedOpen(p) \/ \E j \in 1..Len(chan'[q]) : chan'[q][j].type = "KEEPALIVE"
    BY Zenon
  <2> QED BY <1>1, <1>6, <2>1, <2>2, DumpsThere, Zenon
<1> QED BY <1>1, <1>5, <1>7, Zenon

\* A router that is Established sends KEEPALIVEs, one that is not sends nothing.
LEMMA DumpTick ==
    ASSUME SessionInv, Counted, DumpInv, NEW p \in Peer, Tick(p), UNCHANGED <<cfg, env>>
    PROVE  \A r \in Peer : Dumps(r)'
<1> DEFINE q == Other(p)
<1>1. /\ q \in Peer /\ q # p /\ Types /\ Ends(p) /\ Dumps(p) /\ UNCHANGED <<link, conn>>
  BY TwoPeers, Zenon DEF SessionInv, DumpInv, Tick
<1>2. PICK ts \in SUBSET {t \in Due(p) : t.id = "KEEPALIVE"},
           ms \in {<<>>, <<Notification("HoldTimerExpired")>>} : Fires(p, ts, ms)
  BY TickIs, Zenon
<1> DEFINE B == [i \in 1..Cardinality(ts) |-> Keepalive]
<1>3. chan' = [chan EXCEPT ![q] = Sent(q, B \o ms)]
  BY <1>2, Zenon DEF Fires
<1>4. /\ state' = state \/ state' = [state EXCEPT ![p] = "Idle"]
      /\ state[p] # "Established" => ts = {} /\ ms = <<>>
  BY <1>2, Zenon DEF Fires
<1>5. state'[q] = state[q] /\ (state'[p] = state[p] \/ state'[p] = "Idle")
  BY <1>1, <1>4 DEF Types
<1>6. /\ Awaits(p)' => Awaits(p)
      /\ AcceptedOpen(p)' => AcceptedOpen(p)
      /\ state'[p] = "Established" => state[p] = "Established"
  BY <1>1, <1>5 DEF Awaits, Fresh, AcceptedOpen
<1>7. CASE state[p] = "Established"
  <2> DEFINE M == {Keepalive} \cup Notices
  <2>1. Replies(p)
    BY <1>1, <1>7, Zenon DEF Dumps
  <2>2. B \in Seq({Keepalive}) /\ ms \in Seq(Notices)
    BY <1>1, Beating, Answers, Zenon
  <2> HIDE DEF B
  <2>3. B \o ms \in Seq(M)
    <3>1. B \in Seq(M) /\ ms \in Seq(M)
      BY <2>2
    <3> HIDE DEF M
    <3> QED BY <3>1
  <2>4. M \in SUBSET Message /\ \A m \in M : m.type # "UPDATE"
    BY MessageTypes, SentTypes DEF Signs
  <2> HIDE DEF M
  <2> QED BY <1>1, <1>3, <1>5, <1>6, <2>1, <2>3, <2>4, DumpSends, Zenon
<1>8. CASE state[p] # "Established"
  <2>1. [i \in 1..Cardinality({}) |-> Keepalive] = <<>>
    <3>1. Cardinality({}) = 0 /\ 1..0 = {}
      BY DEF Counted
    <3> QED BY <3>1
  <2>2. B = <<>> /\ ms = <<>>
    BY <1>4, <1>8, <2>1, Zenon
  <2> HIDE DEF B
  <2>3. B \o ms = <<>> /\ <<>> \in Seq({})
    BY <2>2
  <2>4. {} \in SUBSET Message
    OBVIOUS
  <2> QED BY <1>1, <1>3, <1>5, <1>6, <2>3, <2>4, DumpSends, Zenon
<1> QED BY <1>7, <1>8

\* start_session, the ways in which a session is closed, and what does not decode.
LEMMA DumpDaemon ==
    ASSUME SessionInv, DumpInv, NEW p \in Peer, UNCHANGED <<cfg, env>>,
           \/ StartSession(p) \/ PumpExit(p) \/ ReadEof(p) \/ ReadError(p)
           \/ ShutdownSession(p) \/ SendMalformed(p)
    PROVE  \A r \in Peer : Dumps(r)'
<1> DEFINE q == Other(p)
<1>1. q \in Peer /\ q # p /\ Types
  BY TwoPeers DEF SessionInv
<1>2. /\ <<>> \in Seq(Notices) /\ <<Notification("Cease")>> \in Seq(Notices) /\ Notices \in SUBSET Message
      /\ \A m \in Notices : m.type \notin {"KEEPALIVE", "UPDATE"}
  BY Answers, MessageTypes
<1>3. CASE StartSession(p)
  <2> DEFINE M == {Open(p)}
             ms == <<Open(p)>>
  <2>1. /\ chan' = [chan EXCEPT ![q] = Sent(q, ms)] /\ conn' = conn /\ link[p] = "ready"
        /\ state' = [state EXCEPT ![p] = "OpenSent"] /\ link' = [link EXCEPT ![p] = "up"]
    BY <1>3, Zenon DEF StartSession
  <2>2. Open(p) \in Message /\ Open(p).type = "OPEN"
    BY MessageTypes
  <2>3. /\ M \in SUBSET Message /\ ms \in Seq(M)
        /\ \A m \in M : m.type # "UPDATE" /\ (m.type = "KEEPALIVE" => Replies(p))
    BY <2>2
  <2> HIDE DEF M, ms
  <2>4. state'[p] = "OpenSent" /\ state'[q] = state[q] /\ link'[q] = link[q]
    BY <1>1, <2>1 DEF Types
  <2>5. /\ Awaits(p)' => Awaits(p)
        /\ AcceptedOpen(p)' => AcceptedOpen(p)
        /\ state'[p] = "Established" => state[p] = "Established"
    BY <2>1, <2>4 DEF Awaits, Fresh, AcceptedOpen
  <2>6. \/ chan' = [chan EXCEPT ![q] = Sent(q, ms)] /\ conn' = conn
        \/ chan' = [chan EXCEPT ![p] = <<>>, ![q] = Sent(q, ms)] /\ conn' # "open"
    BY <2>1
  <2> QED BY <2>3, <2>4, <2>5, <2>6, DumpSends, Zenon
<1>4. CASE PumpExit(p) \/ ReadEof(p) \/ ReadError(p) \/ ShutdownSession(p)
  <2>1. CloseSession(p, <<>>) \/ CloseSession(p, <<Notification("Cease")>>)
    BY <1>4 DEF PumpExit, ReadEof, ReadError, ShutdownSession
  <2>2. PICK ms \in Seq(Notices) : CloseSession(p, ms)
    BY <1>2, <2>1, Zenon
  <2>3. /\ state' = [state EXCEPT ![p] = "Idle"] /\ link' = [link EXCEPT ![p] = "none"]
        /\ chan' = [chan EXCEPT ![p] = <<>>, ![q] = Sent(q, ms)] /\ conn' # "open"
    BY <2>2 DEF CloseSession
  <2>4. state'[p] = "Idle" /\ state'[q] = state[q] /\ link'[p] = "none" /\ link'[q] = link[q]
    BY <1>1, <2>3 DEF Types
  <2>5. ~Awaits(p)' /\ ~AcceptedOpen(p)'
    BY <2>4 DEF Awaits, Fresh, AcceptedOpen
  <2>6. \A m \in Notices : m.type # "UPDATE" /\ (m.type = "KEEPALIVE" => Replies(p))
    BY <1>2
  <2>7. /\ Awaits(p)' => Awaits(p)
        /\ AcceptedOpen(p)' => AcceptedOpen(p)
        /\ state'[p] = "Established" => state[p] = "Established"
    BY <2>4, <2>5
  <2>8. \/ chan' = [chan EXCEPT ![q] = Sent(q, ms)] /\ conn' = conn
        \/ chan' = [chan EXCEPT ![p] = <<>>, ![q] = Sent(q, ms)] /\ conn' # "open"
    BY <2>3
  <2> QED BY <1>2, <2>4, <2>6, <2>7, <2>8, DumpSends, Zenon
<1>5. CASE SendMalformed(p)
  <2>1. chan' = [chan EXCEPT ![q] = Sent(q, <<Malformed>>)] /\ UNCHANGED <<state, link, conn>>
    BY <1>5, Zenon DEF SendMalformed
  <2>2. <<Malformed>> \in Seq(Notices)
    BY DEF Notices
  <2>3. (Awaits(p)' => Awaits(p)) /\ (AcceptedOpen(p)' => AcceptedOpen(p))
    BY <2>1, Zenon DEF Awaits, Fresh, AcceptedOpen
  <2> QED BY <1>2, <2>1, <2>2, <2>3, DumpSends, Zenon
<1> QED BY <1>3, <1>4, <1>5

\* Every action keeps the order of the first KEEPALIVE and the dump.
LEMMA DumpStep == SessionInv /\ Counted /\ DumpInv /\ [Next]_vars => DumpInv'
<1> SUFFICES ASSUME SessionInv, Counted, DumpInv, [Next]_vars PROVE DumpInv'
  OBVIOUS
<1>1. UNCHANGED <<cfg, env>>
  BY DEF Next, Fixed, vars
<1>2. Alike' /\ \A r : Replies(r)' <=> Replies(r)
  BY <1>1, RepliesKept, Zenon DEF DumpInv
<1>3. SUFFICES \A r \in Peer : Dumps(r)'
  BY <1>2 DEF DumpInv
<1>4. CASE UNCHANGED vars
  <2>1. UNCHANGED <<state, link, conn, chan>>
    BY <1>4 DEF vars
  <2> SUFFICES ASSUME NEW r \in Peer PROVE Dumps(r)'
    OBVIOUS
  <2>2. Dumps(r) /\ (Awaits(r)' <=> Awaits(r)) /\ (~Replies(r) => state'[r] # "Established")
    BY <2>1, Zenon DEF DumpInv, Dumps, Awaits, Fresh
  <2> QED BY <1>1, <2>1, <2>2, DumpsHere, Zenon
<1>5. CASE Dial \/ Cut
  <2> SUFFICES ASSUME NEW r \in Peer PROVE Dumps(r)'
    OBVIOUS
  <2>1. chan'[r] = <<>> /\ Len(<<>>) = 0 /\ state' = state /\ Dumps(r) /\ Other(r) \in Peer
    BY <1>5, TwoPeers DEF Dial, Cut, DumpInv
  <2>2. conn' = "open" => state[Other(r)] = "Idle"
    <3>1. Dial => link[Other(r)] = "none"
      BY <2>1 DEF Dial
    <3>2. Ends(Other(r))
      BY <2>1 DEF SessionInv
    <3> QED BY <1>5, <3>1, <3>2 DEF Cut, Ends
  <2>3. conn' = "open" => ~AcceptedOpen(Other(r))'
    BY <2>1, <2>2 DEF AcceptedOpen
  <2> QED BY <1>2, <2>1, <2>3 DEF Dumps
<1>6. ASSUME NEW p \in Peer, Router(p) \/ ShutdownSession(p) \/ SendMalformed(p)
      PROVE  \A r \in Peer : Dumps(r)'
  BY <1>1, <1>6, DumpReceive, DumpTick, DumpDaemon, Zenon DEF Router
<1> QED BY <1>4, <1>5, <1>6, Zenon DEF Next, Fixed, Environment

\* An UPDATE that is read first has no KEEPALIVE before it, so it is not awaited.
LEMMA DumpHeard == SessionInv /\ DumpInv => NoUpdateDropped
<1> SUFFICES ASSUME SessionInv, DumpInv, NEW p \in Peer, HasMsg(p, "UPDATE")
             PROVE  state[p] \in {"Established", "Idle"}
  BY Zenon DEF NoUpdateDropped
<1>1. /\ chan[p] \in Seq(Message) /\ chan[p] # <<>> /\ Head(chan[p]).type = "UPDATE" /\ Dumps(p)
      /\ state[p] \in {"Idle"} \cup Running
  BY DEF SessionInv, Types, HasMsg, DumpInv
<1>2. 1 \in 1..Len(chan[p]) /\ chan[p][1].type = "UPDATE" /\ 1..(1 - 1) = {}
  BY <1>1
<1>3. ~Awaits(p)
  BY <1>1, <1>2, Zenon DEF Dumps
<1> QED BY <1>1, <1>3 DEF Awaits, Fresh, Running

\* Two routers with the same manners, or with hold times to observe.
LEMMA DumpInit ==
    ASSUME \A s \in Scenarios : s.foreign \in {{}, Peer} \/ \A p \in Peer : s.cfg[p].hold > 0
    PROVE  Init => DumpInv
<1> SUFFICES ASSUME Init PROVE DumpInv
  OBVIOUS
<1>1. Types
  BY SessionInit DEF SessionInv
<1>2. PICK s \in Scenarios : cfg = s.cfg /\ env = [foreign |-> s.foreign, dials |-> s.dials, delay |-> s.delay]
  BY DEF Init
<1>3. env.foreign \in {{}, Peer} \/ \A p \in Peer : cfg[p].hold > 0
  BY <1>2
<1>4. ASSUME NEW p \in Peer PROVE Replies(p) <=> Replies(Other(p))
  <2>1. Other(p) \in Peer /\ Hold(p) = Hold(Other(p))
    BY <1>1, TwoPeers, TimerArithmetic
  <2>2. CASE env.foreign \in {{}, Peer}
    BY <2>1, <2>2 DEF Replies
  <2>3. CASE \A r \in Peer : cfg[r].hold > 0
    <3>1. /\ Open(Other(p)).hold = cfg[Other(p)].hold /\ cfg[p].hold \in Nat /\ cfg[Other(p)].hold \in Nat
          /\ cfg[p].hold > 0 /\ cfg[Other(p)].hold > 0
      BY <1>1, <2>1, <2>3 DEF Open, Types, Configs
    <3>2. Hold(p) > 0
      BY <3>1 DEF Hold, NegotiatedHold, Min2
    <3> QED BY <2>1, <3>2 DEF Replies
  <2> QED BY <1>3, <2>2, <2>3
<1>5. ASSUME NEW p \in Peer PROVE Dumps(p)
  <2>1. state[p] = "Idle" /\ conn = "none" /\ chan[p] = <<>> /\ Len(<<>>) = 0
    BY DEF Init
  <2> QED BY <2>1 DEF Dumps
<1> QED BY <1>4, <1>5 DEF DumpInv, Alike

---------------------------------------------------------------------------
(* What follows. *)

\* A peer's table reaches its reader (BgpPeer::step, feed_bytes): no UPDATE is read by a
\* router that still waits for the KEEPALIVE of the handshake.  Both routers answer an OPEN the
\* same way, or both have hold times configured: a router that negotiates a hold time of zero
\* sends no KEEPALIVE, so a speaker that does would be Established without it.
THEOREM SessionDumpRead ==
    ASSUME \A s \in Scenarios : s.foreign \in {{}, Peer} \/ \A p \in Peer : s.cfg[p].hold > 0
    PROVE  Spec => []NoUpdateDropped
<1>1. Init => DumpInv
  BY DumpInit
<1>2. SessionInv /\ Counted /\ DumpInv /\ [Next]_vars => DumpInv'
  BY DumpStep
<1>3. SessionInv /\ DumpInv => NoUpdateDropped
  BY DumpHeard
<1> QED BY <1>1, <1>2, <1>3, SessionInvariant, PTL DEF Spec

\* The hold timer (BgpPeer::step, TimerQueue::tick): on any connection, a HOLD entry that was
\* armed on it does not end the session before the peer was silent for the negotiated time.
THEOREM SessionSilence == Spec => HoldExpiryMeansSilence
<1>1. Init => HoldInv
  BY DEF Init, HoldInv, Measures
<1>2. SessionInv /\ HoldInv /\ [Next]_vars => HoldInv'
  BY HoldStep
<1>3. SessionInv /\ HoldInv /\ [Next]_vars
        => [\A p \in Peer : HoldExpires(p) /\ neg[p] > 0 /\ OwnHold(p) => silence'[p] >= neg[p]]_vars
  BY HoldExpiry
<1> QED BY <1>1, <1>2, <1>3, SessionInvariant, PTL DEF Spec, HoldExpiryMeansSilence
=============================================================================
