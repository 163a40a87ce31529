-------------------------- MODULE BgpSessionProofs --------------------------
(***************************************************************************)
(* Proofs about the BGP session, for any configuration of the two routers,  *)
(* any number of connections, any delay and any cut or shutdown: what it    *)
(* takes to be Established, what an UPDATE finds at the other end, and how  *)
(* long the peer was silent when the hold timer fires.                      *)
(*                                                                          *)
(* None of the three properties is inductive.  They follow from what the    *)
(* order of the messages on the wire says about the state of their sender.  *)
(***************************************************************************)
EXTENDS BgpSession, TLAPS

---------------------------------------------------------------------------
(* The inductive invariant. *)

Configs == [version: Nat, as: Nat, peer_as: Nat, confed: BOOLEAN,
            id: Nat, hold: Nat, keepalive: Nat]
Entries == [id: TimerIds, left: Nat, run: Nat]

Types ==
    /\ cfg \in [Peer -> Configs]
    /\ state \in [Peer -> {"Idle"} \cup Running]
    /\ neg \in [Peer -> Nat]
    /\ timers \in [Peer -> SUBSET Entries]
    /\ link \in [Peer -> {"none", "ready", "up"}]
    /\ chan \in [Peer -> Seq(Message)]
    /\ starts \in Nat
    /\ silence \in [Peer -> Nat]

\* p has read nothing on this connection yet, and still may.
Fresh(p) == link[p] = "ready" \/ state[p] = "OpenSent"

\* p finds the OPEN of its peer valid, and the hold time it then negotiates.
Valid(p) == ~OpenRejected(p, Open(Other(p)))
Hold(p) == NegotiatedHold(p, Open(Other(p)))

\* q has accepted its peer's OPEN on this connection.
Accepts(q) ==
    /\ Valid(q)
    /\ \/ state[q] \in {"OpenConfirm", "Established"}
       \/ state[q] = "Idle" /\ link[q] # "ready"

Ends(p) ==
    /\ link[p] # "up" => state[p] = "Idle"
    /\ link[p] = "none" => conn # "open" /\ chan[p] = <<>>
    /\ link[p] = "ready" => /\ chan[Other(p)] = <<>>
                            /\ link[Other(p)] = "up" => state[Other(p)] = "OpenSent"

Knows(p) ==
    /\ state[p] \in {"OpenConfirm", "Established"}
         => Valid(p) /\ neg[p] = Hold(p) /\ link[Other(p)] # "ready"
    /\ state[p] = "Established" => Accepts(Other(p))

\* What is on the wire to p: the OPEN comes first, and is never missing in front of
\* something else; a KEEPALIVE or an UPDATE means that its sender has accepted p's OPEN.
Stream(p) ==
    /\ Fresh(p) /\ chan[p] # <<>> => chan[p][1] = Open(Other(p))
    /\ Fresh(p) /\ chan[p] = <<>> => conn # "open" \/ link[Other(p)] = "ready"
    /\ \A i \in 1..Len(chan[p]) :
         /\ chan[p][i].type = "OPEN" => i = 1 /\ Fresh(p)
         /\ chan[p][i].type \in {"KEEPALIVE", "UPDATE"} => Accepts(Other(p))

SessionInv == Types /\ \A p \in Peer : Ends(p) /\ Knows(p) /\ Stream(p)

\* The timer entries can be counted.
Counted ==
    /\ Cardinality({}) = 0
    /\ \A p \in Peer : \A ts \in SUBSET timers[p] : Cardinality(ts) \in Nat

---------------------------------------------------------------------------
(* The two ends, and what is on the wire. *)

\* Of two routers, each is the other's other.
LEMMA TwoPeers ==
    ASSUME NEW p \in Peer
    PROVE  /\ Other(p) \in Peer /\ Other(p) # p /\ Other(Other(p)) = p
           /\ \A r \in Peer : r = p \/ r = Other(p)
<1>1. PICK a, b \in Peer : a # b /\ Peer = {a, b}
  BY PeerAssumption
<1>2. \A r \in Peer : Other(r) \in Peer /\ Other(r) # r
  <2> TAKE r \in Peer
  <2>1. \E q \in Peer : q # r
    BY <1>1
  <2> QED BY <2>1 DEF Other
<1> QED BY <1>1, <1>2

\* The messages that say that their sender has accepted an OPEN, and those that say nothing.
Signs == {Keepalive, Update}
Notices == {Malformed} \cup {Notification(c) : c \in {"Open", "HoldTimerExpired", "Cease", "Update"}}

\* Their types.
LEMMA MessageTypes ==
    /\ Signs \subseteq Message /\ Notices \subseteq Message
    /\ \A m \in Notices : m.type \notin {"OPEN", "KEEPALIVE", "UPDATE"}
    /\ \A m \in Signs : m.type \in {"KEEPALIVE", "UPDATE"}
    /\ \A p \in Peer : Open(p) \in Message /\ Open(p).type = "OPEN"
<1>1. Signs \subseteq Message /\ Notices \subseteq Message /\ \A p \in Peer : Open(p) \in Message
  BY DEF Signs, Notices, Message
<1>2. \A m \in Notices : m.type \notin {"OPEN", "KEEPALIVE", "UPDATE"}
  BY DEF Notices, Malformed, Notification
<1>3. \A m \in Signs : m.type \in {"KEEPALIVE", "UPDATE"}
  BY DEF Signs, Keepalive, Update
<1>4. \A p \in Peer : Open(p).type = "OPEN"
  BY DEF Open
<1> QED BY <1>1, <1>2, <1>3, <1>4, Zenon

\* t prolongs s with members of M.
Grown(s, t, M) ==
    /\ Len(s) \in Nat /\ Len(t) \in Nat /\ Len(t) >= Len(s)
    /\ \A i \in 1..Len(s) : t[i] = s[i]
    /\ \A i \in 1..Len(t) : i > Len(s) => t[i] \in M

\* A sequence prolongs itself.
LEMMA GrownSelf == ASSUME NEW S, NEW s \in Seq(S), NEW M PROVE Grown(s, s, M)
BY DEF Grown

\* What is sent arrives behind what is on its way, or not at all.
LEMMA SentGrown ==
    ASSUME NEW q \in Peer, chan[q] \in Seq(Message), NEW M \in SUBSET Message, NEW ms \in Seq(M)
    PROVE  /\ Grown(chan[q], Sent(q, ms), M)
           /\ conn # "open" => Sent(q, ms) = chan[q]
           /\ Sent(q, ms) \in Seq(Message)
<1>1. CASE conn = "open"
  <2> DEFINE s == chan[q]
             t == s \o ms
  <2>1. Sent(q, ms) = t
    BY <1>1 DEF Sent
  <2>2. s \in Seq(Message) /\ ms \in Seq(Message) /\ ms \in Seq(M)
    <3>1. ms \in Seq(Message)
      OBVIOUS
    <3> QED BY <3>1
  <2> HIDE DEF s
  <2>3. /\ t \in Seq(Message) /\ Len(t) = Len(s) + Len(ms) /\ Len(s) \in Nat /\ Len(ms) \in Nat
        /\ \A i \in 1..Len(s) : t[i] = s[i]
        /\ \A i \in 1..Len(ms) : t[Len(s) + i] = ms[i]
    BY <2>2
  <2>4. \A i \in 1..Len(ms) : ms[i] \in M
    OBVIOUS
  <2> HIDE DEF t
  <2>5. ASSUME NEW i \in 1..Len(t), i > Len(s) PROVE t[i] \in M
    <3>1. i - Len(s) \in 1..Len(ms) /\ i = Len(s) + (i - Len(s))
      BY <2>3, <2>5
    <3> QED BY <2>3, <2>4, <3>1, Zenon
  <2>6. Grown(s, t, M)
    BY <2>3, <2>5 DEF Grown
  <2> QED BY <1>1, <2>1, <2>3, <2>6 DEF s
<1>2. CASE conn # "open"
  BY <1>2, GrownSelf DEF Sent
<1> QED BY <1>1, <1>2
---------------------------------------------------------------------------
(* The handshake. *)

\* Configurations do not change, so neither does what is made of them.
LEMMA CfgKept ==
    ASSUME cfg' = cfg
    PROVE  \A r : Open(r)' = Open(r) /\ (Valid(r)' <=> Valid(r)) /\ Hold(r)' = Hold(r)
BY DEF Open, Valid, OpenRejected, Hold, NegotiatedHold

Forms(p) == Ends(p) /\ Knows(p) /\ Stream(p)

\* Where nothing changes, nothing has to be shown.
LEMMA StillForms ==
    ASSUME SessionInv, cfg' = cfg, state' = state, neg' = neg, link' = link, conn' = conn, chan' = chan
    PROVE  \A r \in Peer : Forms(r)'
<1> SUFFICES ASSUME NEW r \in Peer PROVE Forms(r)'
  OBVIOUS
<1>1. /\ Open(Other(r))' = Open(Other(r)) /\ (Valid(r)' <=> Valid(r)) /\ Hold(r)' = Hold(r)
      /\ (Valid(Other(r))' <=> Valid(Other(r)))
  BY CfgKept
<1>2. Ends(r) /\ Knows(r) /\ Stream(r)
  BY DEF SessionInv
<1>3. (Accepts(Other(r))' <=> Accepts(Other(r))) /\ (Fresh(r)' <=> Fresh(r))
  BY <1>1 DEF Accepts, Fresh
<1>4. Ends(r)'
  BY <1>2 DEF Ends
<1>5. Knows(r)'
  BY <1>1, <1>2, <1>3 DEF Knows
<1>6. Stream(r)'
  BY <1>1, <1>2, <1>3 DEF Stream
<1> QED BY <1>4, <1>5, <1>6 DEF Forms

\* p, whose connection is up, reads at most one message and sends what its state allows.
LEMMA Speaks ==
    ASSUME SessionInv, NEW p \in Peer, NEW q, q = Other(p), link[p] = "up",
           UNCHANGED <<cfg, link, conn>>, state'[q] = state[q], neg'[q] = neg[q],
           Grown(chan[q], chan'[q], Signs \cup Notices),
           conn # "open" => chan'[q] = chan[q],
           Accepts(p)' \/ Grown(chan[q], chan'[q], Notices),
           \/ chan'[p] = chan[p] /\ (state[p] = "OpenSent" <=> state'[p] = "OpenSent")
           \/ chan[p] # <<>> /\ chan'[p] = Tail(chan[p]) /\ state'[p] # "OpenSent",
           Knows(p)', Accepts(p) => Accepts(p)'
    PROVE  \A r \in Peer : Forms(r)'
<1>1. /\ q \in Peer /\ q # p /\ Other(q) = p /\ (\A r \in Peer : r = p \/ r = q)
      /\ chan[p] \in Seq(Message) /\ chan[q] \in Seq(Message)
      /\ Ends(p) /\ Knows(p) /\ Stream(p) /\ Ends(q) /\ Knows(q) /\ Stream(q)
  BY TwoPeers DEF SessionInv, Types
<1>2. /\ Open(p)' = Open(p) /\ Open(q)' = Open(q)
      /\ (Valid(p)' <=> Valid(p)) /\ (Valid(q)' <=> Valid(q)) /\ Hold(q)' = Hold(q)
  BY CfgKept
<1>3. /\ (Accepts(q)' <=> Accepts(q)) /\ (Fresh(q)' <=> Fresh(q))
  BY <1>2 DEF Accepts, Fresh
<1>4. Ends(p)'
  BY DEF Ends
<1>5. Ends(q)'
  <2>1. link[q] # "up" => state'[q] = "Idle"
    BY <1>1 DEF Ends
  <2>2. link[q] = "none" => conn # "open" /\ chan'[q] = <<>>
    BY <1>1 DEF Ends
  <2>3. link[q] = "ready" => chan'[p] = <<>> /\ state'[p] = "OpenSent"
    BY <1>1 DEF Ends
  <2> QED BY <1>1, <2>1, <2>2, <2>3 DEF Ends
<1>6. Knows(q)'
  BY <1>1, <1>2 DEF Knows
<1>7. Stream(p)'
  <2>1. CASE chan'[p] = chan[p] /\ (state[p] = "OpenSent" <=> state'[p] = "OpenSent")
    <3>1. Fresh(p)' <=> Fresh(p)
      BY <2>1 DEF Fresh
    <3> QED BY <1>1, <1>2, <1>3, <2>1, <3>1, Zenon DEF Stream
  <2>2. CASE chan[p] # <<>> /\ chan'[p] = Tail(chan[p]) /\ state'[p] # "OpenSent"
    <3>1. ~Fresh(p)'
      BY <2>2 DEF Fresh
    <3>2. ASSUME NEW i \in 1..Len(chan'[p])
          PROVE  i + 1 \in 1..Len(chan[p]) /\ chan'[p][i] = chan[p][i + 1] /\ i + 1 # 1
      BY <1>1, <2>2
    <3>3. ASSUME NEW i \in 1..Len(chan'[p])
          PROVE  /\ chan'[p][i].type # "OPEN"
                 /\ chan'[p][i].type \in {"KEEPALIVE", "UPDATE"} => Accepts(q)
      BY <1>1, <3>2, Zenon DEF Stream
    <3> QED BY <1>3, <3>1, <3>3, Zenon DEF Stream
  <2> QED BY <2>1, <2>2
<1>8. Stream(q)'
  <2>1. Fresh(q) /\ chan[q] = <<>> => conn # "open"
    BY <1>1 DEF Stream
  <2>2. chan'[q] = <<>> => chan[q] = <<>>
    BY <1>1 DEF Grown
  <2>3. Fresh(q) /\ chan'[q] # <<>> => chan'[q][1] = Open(p)
    <3>1. chan[q] # <<>> => 1 \in 1..Len(chan[q])
      BY <1>1
    <3>2. chan[q] # <<>> => chan'[q][1] = chan[q][1]
      BY <3>1 DEF Grown
    <3> QED BY <1>1, <2>1, <3>2, Zenon DEF Stream
  <2>4. ASSUME NEW i \in 1..Len(chan'[q])
        PROVE  /\ chan'[q][i].type = "OPEN" => i = 1 /\ Fresh(q)
               /\ chan'[q][i].type \in {"KEEPALIVE", "UPDATE"} => Accepts(p)'
    <3>1. CASE i <= Len(chan[q])
      <4>1. i \in 1..Len(chan[q]) /\ chan'[q][i] = chan[q][i]
        BY <3>1 DEF Grown
      <4> QED BY <1>1, <4>1, Zenon DEF Stream
    <3>2. CASE i > Len(chan[q])
      <4>1. chan'[q][i] \in Signs \cup Notices /\ (Accepts(p)' \/ chan'[q][i] \in Notices)
        BY <3>2 DEF Grown
      <4> QED BY <4>1, MessageTypes
    <3> QED BY <3>1, <3>2 DEF Grown
  <2> QED BY <1>1, <1>2, <1>3, <2>1, <2>2, <2>3, <2>4, Zenon DEF Stream
<1> QED BY <1>1, <1>4, <1>5, <1>6, <1>7, <1>8, Zenon DEF Forms

\* p closes its end, with or without a last NOTIFICATION.
LEMMA Closes ==
    ASSUME SessionInv, NEW p \in Peer, NEW q, q = Other(p), link[p] = "up", cfg' = cfg,
           link' = [link EXCEPT ![p] = "none"], state' = [state EXCEPT ![p] = "Idle"], neg' = neg,
           conn' # "open", chan'[p] = <<>>,
           Grown(chan[q], chan'[q], Notices), conn # "open" => chan'[q] = chan[q]
    PROVE  \A r \in Peer : Forms(r)'
<1>1. /\ q \in Peer /\ q # p /\ Other(q) = p /\ (\A r \in Peer : r = p \/ r = q)
      /\ chan[p] \in Seq(Message) /\ chan[q] \in Seq(Message)
      /\ Ends(p) /\ Knows(p) /\ Stream(p) /\ Ends(q) /\ Knows(q) /\ Stream(q)
  BY TwoPeers DEF SessionInv, Types
<1>2. /\ link'[p] = "none" /\ link'[q] = link[q] /\ state'[p] = "Idle" /\ state'[q] = state[q]
  BY <1>1 DEF SessionInv, Types
<1>3. /\ Open(p)' = Open(p) /\ (Valid(p)' <=> Valid(p)) /\ (Valid(q)' <=> Valid(q)) /\ Hold(q)' = Hold(q)
  BY CfgKept
<1>4. (Accepts(p) => Accepts(p)') /\ (Fresh(q)' <=> Fresh(q)) /\ ~Fresh(p)'
  BY <1>2, <1>3 DEF Accepts, Fresh
<1>5. Ends(p)' /\ Knows(p)'
  BY <1>2 DEF Ends, Knows
<1>6. Ends(q)'
  <2>1. link[q] # "up" => state[q] = "Idle"
    BY <1>1 DEF Ends
  <2>2. link[q] = "none" => chan'[q] = <<>>
    BY <1>1 DEF Ends
  <2> QED BY <1>1, <1>2, <2>1, <2>2 DEF Ends
<1>7. Knows(q)'
  BY <1>1, <1>2, <1>3, <1>4, Zenon DEF Knows
<1>8. Stream(p)'
  <2>1. Len(chan'[p]) = 0
    OBVIOUS
  <2> QED BY <1>4, <2>1 DEF Stream
<1>9. Stream(q)'
  <2>1. Fresh(q) /\ chan[q] = <<>> => conn # "open"
    BY <1>1 DEF Stream
  <2>2. Fresh(q) /\ chan'[q] # <<>> => chan'[q][1] = Open(p)
    <3>1. chan[q] # <<>> => 1 \in 1..Len(chan[q])
      BY <1>1
    <3>2. chan[q] # <<>> => chan'[q][1] = chan[q][1]
      BY <3>1 DEF Grown
    <3> QED BY <1>1, <2>1, <3>2, Zenon DEF Stream
  <2>3. ASSUME NEW i \in 1..Len(chan'[q])
        PROVE  /\ chan'[q][i].type = "OPEN" => i = 1 /\ Fresh(q)
               /\ chan'[q][i].type \in {"KEEPALIVE", "UPDATE"} => Accepts(p)
    <3>1. CASE i <= Len(chan[q])
      <4>1. i \in 1..Len(chan[q]) /\ chan'[q][i] = chan[q][i]
        BY <3>1 DEF Grown
      <4> QED BY <1>1, <4>1, Zenon DEF Stream
    <3>2. CASE i > Len(chan[q])
      <4>1. chan'[q][i] \in Notices
        BY <3>2 DEF Grown
      <4> QED BY <4>1, MessageTypes
    <3> QED BY <3>1, <3>2 DEF Grown
  <2> QED BY <1>1, <1>3, <1>4, <2>2, <2>3, Zenon DEF Stream
<1> QED BY <1>1, <1>5, <1>6, <1>7, <1>8, <1>9, Zenon DEF Forms

\* start_session: the OPEN is the first message of the connection.
LEMMA StartForms ==
    ASSUME SessionInv, NEW p \in Peer, StartSession(p), cfg' = cfg
    PROVE  \A r \in Peer : Forms(r)'
<1> DEFINE q == Other(p)
<1>1. /\ q \in Peer /\ q # p /\ Other(q) = p /\ (\A r \in Peer : r = p \/ r = q)
      /\ chan[p] \in Seq(Message) /\ chan[q] \in Seq(Message)
      /\ Ends(p) /\ Knows(p) /\ Stream(p) /\ Ends(q) /\ Knows(q) /\ Stream(q)
  BY TwoPeers DEF SessionInv, Types
<1>2. /\ link[p] = "ready" /\ link'[p] = "up" /\ link'[q] = link[q] /\ conn' = conn
      /\ state'[p] = "OpenSent" /\ state'[q] = state[q] /\ neg'[q] = neg[q]
      /\ chan'[p] = chan[p] /\ chan'[q] = Sent(q, <<Open(p)>>)
  BY <1>1 DEF StartSession, SessionInv, Types
<1>3. /\ chan[q] = <<>> /\ (link[q] = "up" => state[q] = "OpenSent")
  BY <1>1, <1>2, Zenon DEF Ends
<1>4. /\ Open(p)' = Open(p) /\ Open(q)' = Open(q)
      /\ (Valid(p)' <=> Valid(p)) /\ (Valid(q)' <=> Valid(q)) /\ Hold(q)' = Hold(q)
  BY CfgKept
<1> HIDE DEF q
<1>5. (Fresh(q)' <=> Fresh(q)) /\ Fresh(p)' /\ Fresh(p) /\ (Accepts(q)' <=> Accepts(q))
  BY <1>2, <1>4, Zenon DEF Fresh, Accepts
<1>6. IF conn = "open" THEN Len(chan'[q]) = 1 /\ chan'[q][1] = Open(p) ELSE chan'[q] = <<>>
  <2>1. \A x : Len(<<>> \o <<x>>) = 1 /\ (<<>> \o <<x>>)[1] = x
    OBVIOUS
  <2> QED BY <1>2, <1>3, <2>1 DEF Sent
<1>7. Ends(p)' /\ Knows(p)'
  BY <1>2, Zenon DEF Ends, Knows
<1>8. Ends(q)'
  <2>1. link[q] # "up" => state[q] = "Idle"
    BY <1>1 DEF Ends
  <2>2. link[q] = "none" => conn # "open" /\ chan'[q] = <<>>
    BY <1>1, <1>6 DEF Ends
  <2>3. link[q] = "ready" => chan[p] = <<>>
    BY <1>1 DEF Ends
  <2> QED BY <1>1, <1>2, <2>1, <2>2, <2>3 DEF Ends
<1>9. Knows(q)'
  BY <1>1, <1>2, Zenon DEF Knows
<1>10. Stream(p)'
  BY <1>1, <1>2, <1>4, <1>5, Zenon DEF Stream, q
<1>11. Stream(q)'
  <2>1. conn = "open" => Fresh(q)
    BY <1>1, <1>3 DEF Ends, Fresh, SessionInv, Types
  <2>2. Open(p).type = "OPEN"
    BY MessageTypes
  <2>3. CASE conn = "open"
    <3>1. Fresh(q)' /\ Other(q) = p /\ Open(p)' = Open(p) /\ Len(chan'[q]) = 1 /\ chan'[q][1] = Open(p)
      BY <1>1, <1>4, <1>5, <1>6, <2>1, <2>3
    <3>2. chan'[q] # <<>>
      BY <3>1
    <3>3. \A i \in 1..Len(chan'[q]) : i = 1 /\ chan'[q][i].type = "OPEN"
      BY <2>2, <3>1
    <3> QED BY <3>1, <3>2, <3>3, Zenon DEF Stream
  <2>4. CASE conn # "open"
    <3>1. chan'[q] = <<>> /\ Len(<<>>) = 0
      BY <1>6, <2>4
    <3> QED BY <1>2, <2>4, <3>1 DEF Stream
  <2> QED BY <2>3, <2>4
<1> QED BY <1>1, <1>7, <1>8, <1>9, <1>10, <1>11, Zenon DEF Forms

\* A new connection, when neither end runs the old one.
LEMMA DialForms ==
    ASSUME SessionInv, Dial, cfg' = cfg
    PROVE  \A r \in Peer : Forms(r)'
<1> SUFFICES ASSUME NEW p \in Peer PROVE Forms(p)'
  OBVIOUS
<1>1. Other(p) \in Peer
  BY TwoPeers
<1>2. /\ state'[p] = "Idle" /\ link'[p] = "ready" /\ link'[Other(p)] = "ready"
      /\ chan'[p] = <<>> /\ chan'[Other(p)] = <<>> /\ Len(<<>>) = 0
  BY <1>1 DEF Dial, SessionInv, Ends
<1>3. Ends(p)' /\ Knows(p)'
  BY <1>2, Zenon DEF Ends, Knows
<1>4. Stream(p)'
  BY <1>2 DEF Stream
<1> QED BY <1>3, <1>4, Zenon DEF Forms

\* What was in flight when the path died is lost.
LEMMA CutForms ==
    ASSUME SessionInv, Cut, cfg' = cfg
    PROVE  \A r \in Peer : Forms(r)'
<1> SUFFICES ASSUME NEW p \in Peer PROVE Forms(p)'
  OBVIOUS
<1>1. Other(p) \in Peer /\ Ends(p) /\ Knows(p)
  BY TwoPeers DEF SessionInv
<1>2. /\ UNCHANGED <<state, link, neg>> /\ conn' = "cut"
      /\ chan'[p] = <<>> /\ chan'[Other(p)] = <<>> /\ Len(<<>>) = 0
  BY <1>1 DEF Cut
<1>3. (Valid(p)' <=> Valid(p)) /\ (Valid(Other(p))' <=> Valid(Other(p))) /\ Hold(p)' = Hold(p)
  BY CfgKept
<1>4. Ends(p)'
  BY <1>1, <1>2 DEF Ends
<1>5. Knows(p)'
  BY <1>1, <1>2, <1>3 DEF Knows, Accepts
<1>6. Stream(p)'
  BY <1>2 DEF Stream
<1> QED BY <1>4, <1>5, <1>6 DEF Forms

---------------------------------------------------------------------------
(* Types. *)

\* What the arithmetic of the timers returns.
LEMMA TimerArithmetic ==
    ASSUME Types, NEW p \in Peer
    PROVE  /\ \A h \in Nat : KeepaliveRemaining(p, h) \in Nat
           /\ Hold(p) \in Nat /\ Hold(p) = Hold(Other(p))
<1>1. /\ Other(p) \in Peer /\ Other(Other(p)) = p
      /\ cfg[p].hold \in Nat /\ cfg[p].keepalive \in Nat /\ cfg[Other(p)].hold \in Nat
  BY TwoPeers DEF Types, Configs
<1>2. ASSUME NEW h \in Nat PROVE KeepaliveRemaining(p, h) \in Nat
  <2>1. h \div 3 \in Nat /\ cfg[p].hold \div 3 \in Nat
    BY <1>1
  <2> QED BY <1>1, <2>1 DEF KeepaliveRemaining, KeepaliveInterval, Min2, Max2
<1>3. Open(p).hold = cfg[p].hold /\ Open(Other(p)).hold = cfg[Other(p)].hold
  BY DEF Open
<1> QED BY <1>1, <1>2, <1>3 DEF Hold, NegotiatedHold, Min2

\* The longest hold time configured.
LEMMA MaxHoldIs ==
    ASSUME Types
    PROVE  MaxHold \in Nat /\ \A p \in Peer : cfg[p].hold <= MaxHold
<1>1. PICK a, b \in Peer : a # b /\ Peer = {a, b}
  BY PeerAssumption
<1> DEFINE holds == {cfg[p].hold : p \in Peer}
<1>2. holds = {cfg[a].hold, cfg[b].hold} /\ cfg[a].hold \in Nat /\ cfg[b].hold \in Nat
  BY <1>1 DEF Types, Configs
<1> HIDE DEF holds
<1>3. \E h \in holds : \A g \in holds : g <= h
  <2>1. \A x, y \in Nat : \E h \in {x, y} : \A g \in {x, y} : g <= h
    <3> TAKE x, y \in Nat
    <3>1. CASE x <= y
      BY <3>1
    <3>2. CASE y <= x
      BY <3>2
    <3> QED BY <3>1, <3>2
  <2>2. \E h \in {cfg[a].hold, cfg[b].hold} : \A g \in {cfg[a].hold, cfg[b].hold} : g <= h
    BY <1>2, <2>1, Zenon
  <2> QED BY <1>2, <2>2, Zenon
<1>4. MaxHold \in holds /\ \A g \in holds : g <= MaxHold
  BY <1>3 DEF MaxHold, holds
<1> QED BY <1>1, <1>2, <1>4

\* The entries of one router change.
LEMMA Arm ==
    ASSUME Types, NEW p \in Peer, NEW S, S \in SUBSET Entries, timers' = [timers EXCEPT ![p] = S]
    PROVE  timers' \in [Peer -> SUBSET Entries]
BY DEF Types

\* An entry a second later, or with a new time to go.
LEMMA Aged ==
    ASSUME Types, NEW p \in Peer, NEW S, S \subseteq Due(p), NEW k \in Nat,
           NEW R, \A r \in R : \E t \in S : r = [t EXCEPT !.left = k]
    PROVE  Elapsed(p) \cup R \in SUBSET Entries
<1>1. timers[p] \in SUBSET Entries /\ Due(p) \subseteq timers[p]
  BY DEF Types, Due
<1>2. Elapsed(p) \in SUBSET Entries
  <2> SUFFICES ASSUME NEW t \in timers[p], t \notin Due(p) PROVE [t EXCEPT !.left = @ - 1] \in Entries
    BY Zenon DEF Elapsed
  <2>1. t \in Entries /\ t.left \in Nat /\ ~(t.left <= 1)
    BY <1>1 DEF Entries, Due
  <2>2. t.left - 1 \in Nat
    BY <2>1
  <2> QED BY <2>1, <2>2 DEF Entries
<1>3. R \in SUBSET Entries
  BY <1>1 DEF Entries
<1> QED BY <1>2, <1>3, Zenon

\* Types, variable by variable.
LEMMA TypesKept ==
    ASSUME cfg' = cfg, cfg \in [Peer -> Configs],
           state' \in [Peer -> {"Idle"} \cup Running], neg' \in [Peer -> Nat],
           timers' \in [Peer -> SUBSET Entries],
           link' \in [Peer -> {"none", "ready", "up"}], chan' \in [Peer -> Seq(Message)],
           starts' \in Nat, silence' \in [Peer -> Nat]
    PROVE  Types'
<1>1. Message' = Message
  BY DEF Message, Open
<1> QED BY <1>1 DEF Types

---------------------------------------------------------------------------
(* Every step keeps the invariant. *)

\* The wire when p reads a message and answers with ms.
LEMMA Wire ==
    ASSUME SessionInv, NEW p \in Peer, NEW q, q = Other(p), chan[p] # <<>>,
           NEW M \in SUBSET (Signs \cup Notices), NEW ms \in Seq(M), ReadAndSend(p, ms)
    PROVE  /\ chan' \in [Peer -> Seq(Message)]
           /\ chan'[p] = Tail(chan[p]) /\ chan'[q] = Sent(q, ms)
           /\ Grown(chan[q], chan'[q], M) /\ (conn # "open" => chan'[q] = chan[q])
<1>1. /\ q \in Peer /\ q # p /\ chan \in [Peer -> Seq(Message)] /\ chan[p] \in Seq(Message) /\ chan[q] \in Seq(Message)
  BY TwoPeers DEF SessionInv, Types
<1>2. M \in SUBSET Message
  BY MessageTypes
<1>3. /\ Grown(chan[q], Sent(q, ms), M) /\ Sent(q, ms) \in Seq(Message)
      /\ conn # "open" => Sent(q, ms) = chan[q]
  BY <1>1, <1>2, SentGrown, Zenon
<1>4. chan' = [chan EXCEPT ![p] = Tail(chan[p]), ![q] = Sent(q, ms)]
  BY DEF ReadAndSend
<1>5. chan'[p] = Tail(chan[p]) /\ chan'[q] = Sent(q, ms)
  BY <1>1, <1>4
<1>6. Tail(chan[p]) \in Seq(Message)
  BY <1>1
<1>7. chan' \in [Peer -> Seq(Message)]
  BY <1>1, <1>3, <1>4, <1>6, Zenon
<1> QED BY <1>3, <1>5, <1>7, Zenon

\* p reads a message and answers it.
LEMMA Reads ==
    ASSUME SessionInv, NEW p \in Peer, NEW q, q = Other(p), link[p] = "up", chan[p] # <<>>,
           NEW M \in SUBSET (Signs \cup Notices), NEW ms \in Seq(M), ReadAndSend(p, ms),
           UNCHANGED <<cfg, link, conn>>, state'[q] = state[q], neg'[q] = neg[q],
           Accepts(p)' \/ M \subseteq Notices, state'[p] # "OpenSent",
           Knows(p)', Accepts(p) => Accepts(p)'
    PROVE  chan' \in [Peer -> Seq(Message)] /\ \A r \in Peer : Forms(r)'
<1>1. /\ chan' \in [Peer -> Seq(Message)] /\ chan'[p] = Tail(chan[p])
      /\ Grown(chan[q], chan'[q], M) /\ (conn # "open" => chan'[q] = chan[q])
  BY Wire, Zenon
<1>2. Grown(chan[q], chan'[q], Signs \cup Notices)
  BY <1>1, Zenon DEF Grown
<1>3. Accepts(p)' \/ Grown(chan[q], chan'[q], Notices)
  BY <1>1, Zenon DEF Grown
<1>4. \/ chan'[p] = chan[p] /\ (state[p] = "OpenSent" <=> state'[p] = "OpenSent")
      \/ chan[p] # <<>> /\ chan'[p] = Tail(chan[p]) /\ state'[p] # "OpenSent"
  BY <1>1
<1>5. \A r \in Peer : Forms(r)'
  BY <1>1, <1>2, <1>3, <1>4, Speaks, Zenon
<1> QED BY <1>1, <1>5, Zenon

\* The first message of a connection is the OPEN of the peer.
LEMMA HeadIs ==
    ASSUME SessionInv, NEW p \in Peer, link[p] = "up", chan[p] # <<>>
    PROVE  /\ state[p] = "OpenSent" => Head(chan[p]) = Open(Other(p))
           /\ Head(chan[p]).type \in {"KEEPALIVE", "UPDATE"} => Accepts(Other(p))
           /\ link[Other(p)] # "ready"
<1>1. /\ chan[p] \in Seq(Message) /\ Stream(p) /\ Ends(Other(p)) /\ Other(Other(p)) = p
  BY TwoPeers DEF SessionInv, Types
<1>2. 1 \in 1..Len(chan[p]) /\ Head(chan[p]) = chan[p][1]
  BY <1>1
<1> QED BY <1>1, <1>2 DEF Stream, Fresh, Ends

\* p leaves the session.
LEMMA Leaves ==
    ASSUME Types, NEW p \in Peer, cfg' = cfg, link[p] = "up", link' = link, state'[p] = "Idle"
    PROVE  Knows(p)' /\ (Accepts(p) => Accepts(p)')
<1>1. Valid(p)' <=> Valid(p)
  BY CfgKept
<1> QED BY <1>1 DEF Knows, Accepts

\* What the messages of an answer belong to.
LEMMA Answers ==
    /\ <<>> \in Seq(Notices) /\ <<Keepalive>> \in Seq(Signs) /\ <<Update>> \in Seq(Signs) /\ <<>> \in Seq(Signs)
    /\ \A c \in {"Open", "HoldTimerExpired", "Cease", "Update"} : <<Notification(c)>> \in Seq(Notices)
    /\ Signs \in SUBSET (Signs \cup Notices) /\ Notices \in SUBSET (Signs \cup Notices)
<1>1. Keepalive \in Signs /\ Update \in Signs
  BY DEF Signs
<1>2. \A c \in {"Open", "HoldTimerExpired", "Cease", "Update"} : Notification(c) \in Notices
  BY DEF Notices
<1> QED BY <1>1, <1>2

\* handle_open_in_opensent.
LEMMA RecvOpenStep ==
    ASSUME SessionInv, NEW p \in Peer, RecvOpen(p), cfg' = cfg
    PROVE  SessionInv'
<1> DEFINE q == Other(p)
           h == NegotiatedHold(p, Head(chan[p]))
<1>1. /\ q \in Peer /\ q # p /\ Types
      /\ link[p] = "up" /\ chan[p] # <<>> /\ state[p] = "OpenSent"
      /\ UNCHANGED <<link, conn, starts>> /\ silence' = [silence EXCEPT ![p] = 0]
  BY TwoPeers, Zenon DEF SessionInv, RecvOpen, HasMsg
<1>2. Head(chan[p]) = Open(q) /\ link[q] # "ready"
  BY <1>1, HeadIs
<1>3. starts' \in Nat /\ silence' \in [Peer -> Nat] /\ link' \in [Peer -> {"none", "ready", "up"}]
      /\ cfg \in [Peer -> Configs]
  BY <1>1 DEF Types
<1>4. CASE RejectOpen(p)
  <2>1. /\ ReadAndSend(p, <<Notification("Open")>>)
        /\ state' = [state EXCEPT ![p] = "Idle"] /\ UNCHANGED <<neg, timers>>
    BY <1>4 DEF RejectOpen, GoIdle
  <2>2. state'[p] = "Idle" /\ state'[q] = state[q] /\ state' \in [Peer -> {"Idle"} \cup Running]
    BY <1>1, <2>1 DEF Types
  <2>3. Knows(p)' /\ (Accepts(p) => Accepts(p)')
    BY <1>1, <2>2, Leaves
  <2>4. <<Notification("Open")>> \in Seq(Notices) /\ Notices \in SUBSET (Signs \cup Notices)
    BY Answers
  <2>5. chan' \in [Peer -> Seq(Message)] /\ \A r \in Peer : Forms(r)'
    BY <1>1, <2>1, <2>2, <2>3, <2>4, Reads, Zenon
  <2>6. Types'
    BY <1>1, <1>3, <2>1, <2>2, <2>5, TypesKept, Zenon DEF Types
  <2> QED BY <2>5, <2>6, Zenon DEF SessionInv, Forms
<1>5. CASE AcceptOpen(p) /\ ~OpenRejected(p, Head(chan[p]))
  <2>1. /\ ReadAndSend(p, OpenReply(p, h))
        /\ state' = [state EXCEPT ![p] = "OpenConfirm"] /\ neg' = [neg EXCEPT ![p] = h]
        /\ timers' = [timers EXCEPT ![p] = @ \cup
             IF h > 0 THEN {Entry("HOLD", h, starts),
                            Entry("KEEPALIVE", KeepaliveRemaining(p, h), starts)}
                      ELSE {}]
    BY <1>5 DEF AcceptOpen
  <2>2. h = Hold(p) /\ h \in Nat /\ Valid(p)
    BY <1>1, <1>2, <1>5, TimerArithmetic, Zenon DEF Hold, Valid
  <2> HIDE DEF h
  <2>3. /\ state'[p] = "OpenConfirm" /\ state'[q] = state[q]
        /\ state' \in [Peer -> {"Idle"} \cup Running] /\ neg' \in [Peer -> Nat]
        /\ neg'[p] = h /\ neg'[q] = neg[q]
    BY <1>1, <2>1, <2>2 DEF Types, Running
  <2>4. Valid(p)' /\ Hold(p)' = Hold(p)
    BY <2>2, CfgKept
  <2>5. Knows(p)' /\ Accepts(p)'
    BY <1>1, <1>2, <2>2, <2>3, <2>4 DEF Knows, Accepts
  <2>6. OpenReply(p, h) \in Seq(Signs) /\ Signs \in SUBSET (Signs \cup Notices)
    BY Answers DEF OpenReply
  <2>7. chan' \in [Peer -> Seq(Message)] /\ \A r \in Peer : Forms(r)'
    BY <1>1, <2>1, <2>3, <2>5, <2>6, Reads, Zenon
  <2>8. timers' \in [Peer -> SUBSET Entries]
    <3> DEFINE S == timers[p] \cup IF h > 0 THEN {Entry("HOLD", h, starts),
                                                  Entry("KEEPALIVE", KeepaliveRemaining(p, h), starts)}
                                            ELSE {}
    <3>1. /\ Entry("HOLD", h, starts) \in Entries
          /\ Entry("KEEPALIVE", KeepaliveRemaining(p, h), starts) \in Entries
      BY <1>1, <2>2, TimerArithmetic DEF Entry, Entries, Types, TimerIds
    <3>2. S \in SUBSET Entries
      BY <1>1, <3>1 DEF Types
    <3>3. timers' = [timers EXCEPT ![p] = S]
      BY <2>1
    <3> HIDE DEF S
    <3> QED BY <1>1, <3>2, <3>3, Arm, Zenon
  <2>9. Types'
    BY <1>1, <1>3, <2>3, <2>7, <2>8, TypesKept, Zenon
  <2> QED BY <2>7, <2>9, Zenon DEF SessionInv, Forms
<1> QED BY <1>4, <1>5 DEF RecvOpen

\* The KEEPALIVE that completes the handshake.
LEMMA EstablishStep ==
    ASSUME SessionInv, NEW p \in Peer, HasMsg(p, "KEEPALIVE"), Establish(p),
           UNCHANGED <<cfg, neg, link, conn, starts>>
    PROVE  SessionInv'
<1> DEFINE q == Other(p)
<1>1. /\ q \in Peer /\ q # p /\ Types /\ Knows(p)
      /\ link[p] = "up" /\ chan[p] # <<>> /\ state[p] = "OpenConfirm"
      /\ Head(chan[p]).type = "KEEPALIVE"
      /\ UNCHANGED <<timers, silence>> /\ ReadAndSend(p, <<Update>>)
      /\ state' = [state EXCEPT ![p] = "Established"]
  BY TwoPeers, Zenon DEF SessionInv, Establish, HasMsg
<1>2. Accepts(q)
  BY <1>1, HeadIs, Zenon
<1>3. /\ state'[p] = "Established" /\ state'[q] = state[q]
      /\ state' \in [Peer -> {"Idle"} \cup Running]
  BY <1>1 DEF Types, Running
<1>4. (Valid(p)' <=> Valid(p)) /\ Hold(p)' = Hold(p) /\ (Valid(q)' <=> Valid(q))
  BY CfgKept
<1>5. Knows(p)' /\ Accepts(p)'
  BY <1>1, <1>2, <1>3, <1>4, Zenon DEF Knows, Accepts
<1>6. <<Update>> \in Seq(Signs) /\ Signs \in SUBSET (Signs \cup Notices)
  BY Answers
<1>7. chan' \in [Peer -> Seq(Message)] /\ \A r \in Peer : Forms(r)'
  BY <1>1, <1>3, <1>5, <1>6, Reads, Zenon
<1>8. Types'
  BY <1>1, <1>3, <1>7, TypesKept, Zenon DEF Types
<1> QED BY <1>7, <1>8, Zenon DEF SessionInv, Forms

\* A message that leaves the state as it is and is not answered.
LEMMA Listens ==
    ASSUME SessionInv, NEW p \in Peer, link[p] = "up", chan[p] # <<>>, state[p] # "OpenSent",
           ReadAndSend(p, <<>>), UNCHANGED <<cfg, state, neg, link, conn>>
    PROVE  chan' \in [Peer -> Seq(Message)] /\ \A r \in Peer : Forms(r)'
<1> DEFINE q == Other(p)
<1>1. q \in Peer /\ q # p /\ Types /\ Knows(p)
  BY TwoPeers, Zenon DEF SessionInv
<1>2. /\ (Valid(p)' <=> Valid(p)) /\ Hold(p)' = Hold(p) /\ (Valid(q)' <=> Valid(q))
  BY CfgKept
<1>3. Knows(p)' /\ (Accepts(p) => Accepts(p)')
  BY <1>1, <1>2, Zenon DEF Knows, Accepts
<1>4. <<>> \in Seq(Notices) /\ Notices \in SUBSET (Signs \cup Notices)
  BY Answers
<1> QED BY <1>1, <1>3, <1>4, Reads, Zenon

\* A KEEPALIVE or an UPDATE of an Established session.
LEMMA RefreshStep ==
    ASSUME SessionInv, NEW p \in Peer, link[p] = "up", chan[p] # <<>>, RefreshHold(p),
           UNCHANGED <<cfg, neg, link, conn, starts>>
    PROVE  SessionInv'
<1>1. /\ Types /\ state[p] = "Established" /\ RearmHold(p) /\ ReadAndSend(p, <<>>)
      /\ silence' = [silence EXCEPT ![p] = 0] /\ state' = state
  BY DEF SessionInv, RefreshHold
<1>2. chan' \in [Peer -> Seq(Message)] /\ \A r \in Peer : Forms(r)'
  BY <1>1, Listens
<1>3. Entry("HOLD", neg[p], starts) \in Entries
  BY <1>1 DEF Types, Entry, Entries, TimerIds
<1>4. timers' \in [Peer -> SUBSET Entries]
  <2> DEFINE S == Cancel(timers[p], "HOLD") \cup {Entry("HOLD", neg[p], starts)}
  <2>1. timers' = [timers EXCEPT ![p] = S]
    BY <1>1 DEF RearmHold
  <2>2. S \in SUBSET Entries
    BY <1>1, <1>3 DEF Cancel, Types
  <2> HIDE DEF S
  <2> QED BY <1>1, <2>1, <2>2, Arm, Zenon
<1>5. silence' \in [Peer -> Nat]
  BY <1>1 DEF Types
<1>6. Types'
  BY <1>1, <1>2, <1>4, <1>5, TypesKept, Zenon DEF Types
<1> QED BY <1>2, <1>6, Zenon DEF SessionInv, Forms

\* NOTIFICATION, a message that does not decode, and the catch-all arm.
LEMMA OtherRecvStep ==
    ASSUME SessionInv, NEW p \in Peer, cfg' = cfg,
           RecvNotification(p) \/ RecvMalformed(p) \/ RecvIgnored(p)
    PROVE  SessionInv'
<1> DEFINE q == Other(p)
<1>1. /\ q \in Peer /\ q # p /\ Types /\ link[p] = "up" /\ chan[p] # <<>>
      /\ UNCHANGED <<neg, timers, link, conn, starts, silence>>
  BY TwoPeers, Zenon DEF SessionInv, RecvNotification, RecvMalformed, RecvIgnored, HasMsg, GoIdle
<1>2. CASE RecvNotification(p) \/ RecvMalformed(p)
  <2>1. /\ state' = [state EXCEPT ![p] = "Idle"]
        /\ ReadAndSend(p, <<>>) \/ ReadAndSend(p, <<Notification("Update")>>)
    BY <1>2 DEF RecvNotification, RecvMalformed, GoIdle
  <2>2. state'[p] = "Idle" /\ state'[q] = state[q] /\ state' \in [Peer -> {"Idle"} \cup Running]
    BY <1>1, <2>1 DEF Types
  <2>3. Knows(p)' /\ (Accepts(p) => Accepts(p)')
    BY <1>1, <2>2, Leaves, Zenon
  <2>4. /\ <<>> \in Seq(Notices) /\ <<Notification("Update")>> \in Seq(Notices)
        /\ Notices \in SUBSET (Signs \cup Notices)
    BY Answers
  <2>5. chan' \in [Peer -> Seq(Message)] /\ \A r \in Peer : Forms(r)'
    <3>1. CASE ReadAndSend(p, <<>>)
      BY <1>1, <2>2, <2>3, <2>4, <3>1, Reads, Zenon
    <3>2. CASE ReadAndSend(p, <<Notification("Update")>>)
      BY <1>1, <2>2, <2>3, <2>4, <3>2, Reads, Zenon
    <3> QED BY <2>1, <3>1, <3>2
  <2>6. Types'
    BY <1>1, <2>2, <2>5, TypesKept, Zenon DEF Types
  <2> QED BY <2>5, <2>6, Zenon DEF SessionInv, Forms
<1>3. CASE RecvIgnored(p)
  <2>1. ReadAndSend(p, <<>>) /\ state' = state
    BY <1>3 DEF RecvIgnored
  <2>2. state[p] # "OpenSent"
    <3>1. state[p] = "OpenSent" => Head(chan[p]).type = "OPEN"
      BY <1>1, HeadIs, MessageTypes, Zenon
    <3> QED BY <1>3, <3>1, Zenon DEF RecvIgnored, HasMsg
  <2>3. chan' \in [Peer -> Seq(Message)] /\ \A r \in Peer : Forms(r)'
    BY <1>1, <2>1, <2>2, Listens, Zenon
  <2>4. Types'
    BY <1>1, <2>1, <2>3, TypesKept, Zenon DEF Types
  <2> QED BY <2>3, <2>4, Zenon DEF SessionInv, Forms
<1> QED BY <1>2, <1>3

\* feed_bytes.
LEMMA ReceiveStep ==
    ASSUME SessionInv, NEW p \in Peer, Receive(p), cfg' = cfg
    PROVE  SessionInv'
<1>1. CASE RecvOpen(p)
  BY <1>1, RecvOpenStep
<1>2. CASE RecvKeepalive(p)
  BY <1>2, EstablishStep, RefreshStep, Zenon DEF RecvKeepalive, HasMsg
<1>3. CASE RecvUpdate(p)
  BY <1>3, RefreshStep DEF RecvUpdate, HasMsg
<1>4. CASE RecvNotification(p) \/ RecvMalformed(p) \/ RecvIgnored(p)
  BY <1>4, OtherRecvStep
<1> QED BY <1>1, <1>2, <1>3, <1>4 DEF Receive

---------------------------------------------------------------------------
(* The timers and the daemon. *)

\* The wire when p sends without reading.
LEMMA Sends ==
    ASSUME SessionInv, NEW p \in Peer, NEW q, q = Other(p), link[p] = "up",
           NEW M \in SUBSET (Signs \cup Notices), NEW ms \in Seq(M),
           chan' = [chan EXCEPT ![q] = Sent(q, ms)],
           UNCHANGED <<cfg, link, conn, neg>>, state'[q] = state[q],
           Accepts(p)' \/ M \subseteq Notices, state[p] = "OpenSent" <=> state'[p] = "OpenSent",
           Knows(p)', Accepts(p) => Accepts(p)'
    PROVE  \A r \in Peer : Forms(r)'
<1>1. /\ q \in Peer /\ q # p /\ chan \in [Peer -> Seq(Message)] /\ chan[q] \in Seq(Message)
  BY TwoPeers DEF SessionInv, Types
<1>2. M \in SUBSET Message
  BY MessageTypes, Zenon
<1>3. /\ Grown(chan[q], Sent(q, ms), M) /\ (conn # "open" => Sent(q, ms) = chan[q])
  BY <1>1, <1>2, SentGrown, Zenon
<1>4. chan'[p] = chan[p] /\ chan'[q] = Sent(q, ms)
  BY <1>1, Zenon
<1>5. Grown(chan[q], chan'[q], Signs \cup Notices)
  BY <1>3, <1>4, Zenon DEF Grown
<1>6. Accepts(p)' \/ Grown(chan[q], chan'[q], Notices)
  BY <1>3, <1>4, Zenon DEF Grown
<1>7. /\ conn # "open" => chan'[q] = chan[q]
      /\ neg'[q] = neg[q] /\ UNCHANGED <<cfg, link, conn>>
  BY <1>3, <1>4, Zenon
<1>8. \/ chan'[p] = chan[p] /\ (state[p] = "OpenSent" <=> state'[p] = "OpenSent")
      \/ chan[p] # <<>> /\ chan'[p] = Tail(chan[p]) /\ state'[p] # "OpenSent"
  BY <1>4, Zenon
<1> QED BY <1>5, <1>6, <1>7, <1>8, Speaks, Zenon

\* shutdown_session, and the ways in which the pump ends.
LEMMA CloseStep ==
    ASSUME SessionInv, NEW p \in Peer, cfg' = cfg,
           PumpExit(p) \/ ReadEof(p) \/ ReadError(p) \/ ShutdownSession(p)
    PROVE  SessionInv'
<1> DEFINE q == Other(p)
<1>1. /\ q \in Peer /\ q # p /\ Types
      /\ chan \in [Peer -> Seq(Message)] /\ chan[q] \in Seq(Message)
  BY TwoPeers DEF SessionInv, Types
<1>2. link[p] = "up" /\ (CloseSession(p, <<>>) \/ CloseSession(p, <<Notification("Cease")>>))
  BY DEF PumpExit, ReadEof, ReadError, ShutdownSession
<1>3. <<>> \in Seq(Notices) /\ <<Notification("Cease")>> \in Seq(Notices) /\ Notices \in SUBSET Message
  BY Answers, MessageTypes
<1>4. PICK ms \in Seq(Notices) : CloseSession(p, ms)
  BY <1>2, <1>3, Zenon
<1>5. /\ Grown(chan[q], Sent(q, ms), Notices) /\ Sent(q, ms) \in Seq(Message)
      /\ conn # "open" => Sent(q, ms) = chan[q]
  BY <1>1, <1>3, SentGrown, Zenon
<1>6. /\ state' = [state EXCEPT ![p] = "Idle"] /\ link' = [link EXCEPT ![p] = "none"]
      /\ chan' = [chan EXCEPT ![p] = <<>>, ![q] = Sent(q, ms)]
      /\ UNCHANGED <<neg, timers, starts, silence>> /\ conn' # "open"
  BY <1>4 DEF CloseSession
<1>7. chan'[p] = <<>> /\ chan'[q] = Sent(q, ms)
  BY <1>1, <1>6
<1>8. \A r \in Peer : Forms(r)'
  BY <1>2, <1>5, <1>6, <1>7, Closes, Zenon
<1>9. <<>> \in Seq(Message)
  OBVIOUS
<1>10. /\ state' \in [Peer -> {"Idle"} \cup Running] /\ link' \in [Peer -> {"none", "ready", "up"}]
       /\ chan' \in [Peer -> Seq(Message)]
  BY <1>1, <1>5, <1>6, <1>9, Zenon DEF Types
<1>11. Types'
  BY <1>1, <1>6, <1>10, TypesKept, Zenon DEF Types
<1> QED BY <1>8, <1>11, Zenon DEF SessionInv, Forms

\* start_session.
LEMMA StartStep ==
    ASSUME SessionInv, NEW p \in Peer, StartSession(p), cfg' = cfg
    PROVE  SessionInv'
<1> DEFINE q == Other(p)
<1>1. /\ q \in Peer /\ q # p /\ Types /\ starts' = starts
      /\ state' = [state EXCEPT ![p] = "OpenSent"] /\ neg' = [neg EXCEPT ![p] = 0]
      /\ link' = [link EXCEPT ![p] = "up"] /\ silence' = [silence EXCEPT ![p] = 0]
      /\ timers' = [timers EXCEPT ![p] = timers[p] \cup {Entry("CONNECT_RETRY", ConnectRetry, starts)}]
      /\ chan' = [chan EXCEPT ![q] = Sent(q, <<Open(p)>>)]
  BY TwoPeers DEF SessionInv, StartSession
<1>2. Entry("CONNECT_RETRY", ConnectRetry, starts) \in Entries
  BY <1>1, RetryAssumption DEF Types, Entry, Entries, TimerIds
<1>3. timers' \in [Peer -> SUBSET Entries]
  <2>1. timers[p] \cup {Entry("CONNECT_RETRY", ConnectRetry, starts)} \in SUBSET Entries
    BY <1>1, <1>2 DEF Types
  <2> QED BY <1>1, <2>1, Arm, Zenon
<1>4. Sent(q, <<Open(p)>>) \in Seq(Message)
  <2>1. Open(p) \in Message /\ chan[q] \in Seq(Message)
    BY <1>1, MessageTypes DEF Types
  <2> QED BY <2>1 DEF Sent
<1>5. /\ state' \in [Peer -> {"Idle"} \cup Running] /\ neg' \in [Peer -> Nat]
      /\ link' \in [Peer -> {"none", "ready", "up"}] /\ silence' \in [Peer -> Nat]
      /\ chan' \in [Peer -> Seq(Message)]
  BY <1>1, <1>4 DEF Types, Running
<1>6. Types'
  BY <1>1, <1>3, <1>5, TypesKept, Zenon DEF Types
<1> QED BY <1>6, StartForms, Zenon DEF SessionInv, Forms

\* A new connection, and a dead path.
LEMMA WireStep ==
    ASSUME SessionInv, Dial \/ Cut, cfg' = cfg
    PROVE  SessionInv'
<1>1. Types /\ <<>> \in Seq(Message)
  BY DEF SessionInv
<1>2. /\ UNCHANGED <<state, neg, timers, silence>> /\ chan' = [p \in Peer |-> <<>>]
      /\ link' = link \/ link' = [p \in Peer |-> "ready"]
      /\ starts' = starts \/ starts' = starts + 1
  BY DEF Dial, Cut
<1>3. /\ chan' \in [Peer -> Seq(Message)] /\ link' \in [Peer -> {"none", "ready", "up"}]
      /\ starts' \in Nat
  BY <1>1, <1>2 DEF Types
<1>4. Types'
  BY <1>1, <1>2, <1>3, TypesKept DEF Types
<1> QED BY <1>4, DialForms, CutForms, Zenon DEF SessionInv, Forms

\* Something that does not decode.
LEMMA MalformedStep ==
    ASSUME SessionInv, NEW p \in Peer, SendMalformed(p), cfg' = cfg
    PROVE  SessionInv'
<1> DEFINE q == Other(p)
<1>1. /\ q \in Peer /\ q # p /\ Types /\ Knows(p) /\ link[p] = "up" /\ conn = "open"
      /\ UNCHANGED <<state, neg, timers, link, conn, starts, silence>>
      /\ chan' = [chan EXCEPT ![q] = Sent(q, <<Malformed>>)]
  BY TwoPeers, Zenon DEF SessionInv, SendMalformed
<1>2. chan \in [Peer -> Seq(Message)] /\ chan[q] \in Seq(Message) /\ Malformed \in Notices /\ Malformed \in Message
  BY <1>1, Zenon DEF Types, Notices, Message
<1>3. chan[q] \o <<Malformed>> \in Seq(Message) /\ <<Malformed>> \in Seq(Notices)
  BY <1>2
<1>5. (Valid(p)' <=> Valid(p)) /\ Hold(p)' = Hold(p) /\ (Valid(q)' <=> Valid(q))
  BY CfgKept
<1>6. Knows(p)' /\ (Accepts(p) => Accepts(p)')
  BY <1>1, <1>5, Zenon DEF Knows, Accepts
<1>7. Notices \in SUBSET (Signs \cup Notices)
  BY Answers
<1>8. \A r \in Peer : Forms(r)'
  BY <1>1, <1>3, <1>6, <1>7, Sends, Zenon
<1>9. chan' \in [Peer -> Seq(Message)]
  BY <1>1, <1>2, <1>3 DEF Sent
<1>10. Types'
  BY <1>1, <1>9, TypesKept, Zenon DEF Types
<1> QED BY <1>8, <1>10, Zenon DEF SessionInv, Forms

\* As many KEEPALIVEs as there are entries due.
LEMMA Beating ==
    ASSUME Counted, NEW p \in Peer, NEW ts, ts \subseteq Due(p)
    PROVE  LET B == [i \in 1..Cardinality(ts) |-> Keepalive]
           IN  B \in Seq({Keepalive}) /\ B \in Seq(Signs)
<1>1. ts \in SUBSET timers[p]
  BY DEF Due
<1>2. Cardinality(ts) \in Nat
  BY <1>1 DEF Counted
<1>3. Keepalive \in Signs
  BY DEF Signs
<1> QED BY <1>2, <1>3

\* What the three outcomes of DefaultRouter::tick have in common: the entries ts are armed
\* again, and an Established router sends as many KEEPALIVEs, then ms.
Fires(p, ts, ms) ==
    /\ timers' = [timers EXCEPT ![p] = Elapsed(p) \cup
                    {[t EXCEPT !.left = KeepaliveRemaining(p, neg[p])] : t \in ts}]
    /\ chan' = [chan EXCEPT ![Other(p)] =
                  Sent(Other(p), [i \in 1..Cardinality(ts) |-> Keepalive] \o ms)]
    /\ state[p] # "Established" => ts = {} /\ ms = <<>> /\ state' = state
    /\ state[p] = "Established" =>
         \/ state' = state
         \/ state' = [state EXCEPT ![p] = "Idle"] /\ \E t \in Due(p) : t.id = "HOLD"

\* Only KEEPALIVE entries are armed again, and only a NOTIFICATION may follow.
LEMMA TickIs ==
    ASSUME NEW p \in Peer, Tick(p)
    PROVE  \E ts \in SUBSET {t \in Due(p) : t.id = "KEEPALIVE"},
              ms \in {<<>>, <<Notification("HoldTimerExpired")>>} : Fires(p, ts, ms)
<1> DEFINE Beats == {t \in Due(p) : t.id = "KEEPALIVE"}
           Last == <<Notification("HoldTimerExpired")>>
<1>1. CASE state[p] # "Established"
  <2>1. Fires(p, {}, <<>>)
    BY <1>1, Zenon DEF Tick, Fires
  <2>2. {} \in SUBSET Beats /\ <<>> \in {<<>>, Last}
    BY Zenon
  <2> QED BY <2>1, <2>2, Zenon
<1>2. CASE state[p] = "Established" /\ ~\E t \in Due(p) : t.id = "HOLD"
  <2>1. Fires(p, Beats, <<>>)
    BY <1>2, Zenon DEF Tick, Fires
  <2>2. Beats \in SUBSET Beats /\ <<>> \in {<<>>, Last}
    BY Zenon
  <2> QED BY <2>1, <2>2, Zenon
<1>3. CASE state[p] = "Established" /\ \E t \in Due(p) : t.id = "HOLD"
  <2>1. \E ts \in SUBSET Beats : Fires(p, ts, Last)
    BY <1>3, Zenon DEF Tick, Fires
  <2>2. Last \in {<<>>, Last}
    BY Zenon
  <2> QED BY <2>1, <2>2, Zenon
<1> QED BY <1>1, <1>2, <1>3, Zenon

\* DefaultRouter::tick.
LEMMA TickStep ==
    ASSUME SessionInv, Counted, NEW p \in Peer, Tick(p), cfg' = cfg
    PROVE  SessionInv'
<1> DEFINE q == Other(p)
<1>1. /\ q \in Peer /\ q # p /\ Types /\ Ends(p) /\ Knows(p)
      /\ UNCHANGED <<neg, link, conn, starts>>
      /\ silence' = [silence EXCEPT ![p] = Min2(silence[p] + 1, MaxHold)]
  BY TwoPeers, Zenon DEF SessionInv, Tick
<1>2. PICK ts \in SUBSET {t \in Due(p) : t.id = "KEEPALIVE"},
           ms \in {<<>>, <<Notification("HoldTimerExpired")>>} : Fires(p, ts, ms)
  BY TickIs, Zenon
<1> DEFINE B == [i \in 1..Cardinality(ts) |-> Keepalive]
<1>3. B \in Seq(Signs) /\ ms \in Seq(Notices) /\ chan' = [chan EXCEPT ![q] = Sent(q, B \o ms)]
  <2>1. B \in Seq(Signs)
    BY <1>1, Beating, Zenon
  <2>2. ms \in Seq(Notices)
    BY Answers, Zenon
  <2>3. chan' = [chan EXCEPT ![q] = Sent(q, B \o ms)]
    BY <1>2, Zenon DEF Fires
  <2> QED BY <2>1, <2>2, <2>3, Zenon
<1>4. state[p] # "Established" => B = <<>> /\ ms = <<>> /\ state' = state
  <2>1. Cardinality({}) = 0 /\ 1..0 = {}
    BY DEF Counted
  <2>2. [i \in 1..Cardinality({}) |-> Keepalive] = <<>>
    BY <2>1
  <2>3. state[p] # "Established" => ts = {} /\ ms = <<>> /\ state' = state
    BY <1>2, Zenon DEF Fires
  <2> QED BY <2>2, <2>3, Zenon
<1> HIDE DEF B
<1>5. /\ B \o ms \in Seq(Signs \cup Notices)
      /\ state[p] # "Established" => B \o ms = <<>> /\ <<>> \in Seq(Notices)
  <2>1. B \in Seq(Signs \cup Notices) /\ ms \in Seq(Signs \cup Notices)
    BY <1>3
  <2>2. <<>> \o <<>> = <<>>
    OBVIOUS
  <2> QED BY <1>4, <2>1, <2>2
<1>6. /\ state'[q] = state[q] /\ state' \in [Peer -> {"Idle"} \cup Running]
      /\ state'[p] = state[p] \/ (state[p] = "Established" /\ state'[p] = "Idle")
  <2>1. state[p] = "Established" => state' = state \/ state' = [state EXCEPT ![p] = "Idle"]
    BY <1>2, Zenon DEF Fires
  <2>2. state \in [Peer -> {"Idle"} \cup Running] /\ q \in Peer /\ q # p
    BY <1>1 DEF Types
  <2>3. CASE state' = state
    BY <2>2, <2>3, Zenon
  <2>4. CASE state' = [state EXCEPT ![p] = "Idle"] /\ state[p] = "Established"
    BY <2>2, <2>4
  <2> QED BY <1>4, <2>1, <2>3, <2>4
<1>7. (Valid(p)' <=> Valid(p)) /\ Hold(p)' = Hold(p) /\ (Valid(q)' <=> Valid(q))
  BY CfgKept
<1>8. Accepts(q)' <=> Accepts(q)
  BY <1>1, <1>6, <1>7, Zenon DEF Accepts
<1>9. Knows(p)'
  BY <1>1, <1>6, <1>7, <1>8, Zenon DEF Knows
<1>10. Accepts(p) => Accepts(p)'
  <2>1. link[p] = "up" \/ state[p] = "Idle"
    BY <1>1, Zenon DEF Ends
  <2> QED BY <1>1, <1>6, <1>7, <2>1, Zenon DEF Accepts
<1>11. state[p] = "Established" => Accepts(p) /\ link[p] = "up"
  BY <1>1, Zenon DEF Knows, Accepts, Ends
<1>12. \A r \in Peer : Forms(r)'
  <2>1. CASE state[p] = "Established"
    <3>1. Signs \cup Notices \in SUBSET (Signs \cup Notices) /\ UNCHANGED <<cfg, link, conn, neg>>
      BY <1>1
    <3>2. state[p] = "OpenSent" <=> state'[p] = "OpenSent"
      BY <1>6, <2>1
    <3> QED BY <1>3, <1>5, <1>6, <1>9, <1>10, <1>11, <2>1, <3>1, <3>2, Sends, Zenon
  <2>2. CASE state[p] # "Established" /\ link[p] = "up"
    <3>1. Notices \in SUBSET (Signs \cup Notices) /\ Notices \subseteq Notices /\ UNCHANGED <<cfg, link, conn, neg>>
      BY <1>1
    <3>2. state[p] = "OpenSent" <=> state'[p] = "OpenSent"
      BY <1>6, <2>2
    <3>3. B \o ms \in Seq(Notices)
      BY <1>5, <2>2
    <3> QED BY <1>3, <1>6, <1>9, <1>10, <2>2, <3>1, <3>2, <3>3, Sends, Zenon
  <2>3. CASE state[p] # "Established" /\ link[p] # "up"
    <3>1. chan' = [chan EXCEPT ![q] = Sent(q, <<>>)] /\ state' = state
      BY <1>3, <1>4, <1>5, <2>3, Zenon
    <3>2. chan[q] \in Seq(Message) /\ chan \in [Peer -> Seq(Message)]
      BY <1>1 DEF Types
    <3>3. Sent(q, <<>>) = chan[q]
      BY <3>2 DEF Sent
    <3>4. chan' = chan
      BY <1>1, <3>1, <3>2, <3>3
    <3> QED BY <1>1, <3>1, <3>4, StillForms, Zenon
  <2> QED BY <2>1, <2>2, <2>3, Zenon
<1>13. timers' \in [Peer -> SUBSET Entries]
  <2> DEFINE k == KeepaliveRemaining(p, neg[p])
             R == {[t EXCEPT !.left = k] : t \in ts}
             T == Elapsed(p) \cup R
  <2>1. ts \subseteq Due(p) /\ k \in Nat
    BY <1>1, TimerArithmetic, Zenon DEF Types
  <2>3. timers' = [timers EXCEPT ![p] = T] /\ \A r \in R : \E t \in ts : r = [t EXCEPT !.left = k]
    BY <1>2, Zenon DEF Fires
  <2> HIDE DEF k, R
  <2>2. T \in SUBSET Entries
    BY <1>1, <2>1, <2>3, Aged, Zenon
  <2> HIDE DEF T
  <2> QED BY <1>1, <2>2, <2>3, Arm, Zenon
<1>14. chan' \in [Peer -> Seq(Message)]
  <2>1. Signs \cup Notices \in SUBSET Message /\ chan[q] \in Seq(Message) /\ chan \in [Peer -> Seq(Message)]
    BY <1>1, MessageTypes DEF Types
  <2>2. Sent(q, B \o ms) \in Seq(Message)
    BY <1>1, <1>5, <2>1, SentGrown, Zenon
  <2> QED BY <1>1, <1>3, <2>1, <2>2
<1>15. silence' \in [Peer -> Nat]
  <2>1. MaxHold \in Nat
    BY <1>1, MaxHoldIs, Zenon
  <2> QED BY <1>1, <2>1 DEF Types, Min2
<1>16. Types'
  BY <1>1, <1>6, <1>13, <1>14, <1>15, TypesKept, Zenon DEF Types
<1> QED BY <1>12, <1>16, Zenon DEF SessionInv, Forms

---------------------------------------------------------------------------
(* The session. *)

\* The routers start disconnected.
LEMMA SessionInit == Init => SessionInv
<1> SUFFICES ASSUME Init PROVE SessionInv
  OBVIOUS
<1>1. cfg \in [Peer -> Configs]
  <2>1. PICK s \in Scenarios : cfg = s.cfg
    BY DEF Init
  <2>2. s \in [cfg: [Peer -> Configs], foreign: SUBSET Peer, dials: Nat, delay: Nat]
    BY ScenarioAssumption DEF Configs
  <2> QED BY <2>1, <2>2
<1>2. Types
  <2>1. <<>> \in Seq(Message) /\ {} \in SUBSET Entries
    OBVIOUS
  <2> QED BY <1>1, <2>1, Zenon DEF Init, Types
<1>3. ASSUME NEW p \in Peer PROVE Ends(p) /\ Knows(p) /\ Stream(p)
  <2>1. /\ Other(p) \in Peer /\ state[p] = "Idle" /\ link[p] = "none" /\ conn = "none"
        /\ chan[p] = <<>> /\ Len(<<>>) = 0
    BY TwoPeers DEF Init
  <2>2. Ends(p) /\ Knows(p)
    BY <2>1, Zenon DEF Ends, Knows
  <2>3. Stream(p)
    BY <2>1 DEF Stream, Fresh
  <2> QED BY <2>2, <2>3
<1> QED BY <1>2, <1>3 DEF SessionInv

\* Nothing changes what is made of the variables when the variables do not change.
LEMMA SessionStutter == SessionInv /\ UNCHANGED vars => SessionInv'
<1> SUFFICES ASSUME SessionInv, UNCHANGED vars PROVE SessionInv'
  OBVIOUS
<1>1. UNCHANGED <<cfg, state, neg, timers, link, conn, chan, starts, silence>>
  BY DEF vars
<1>2. \A r \in Peer : Forms(r)'
  BY <1>1, StillForms
<1>3. Types'
  BY <1>1, TypesKept, Zenon DEF SessionInv, Types
<1> QED BY <1>2, <1>3, Zenon DEF SessionInv, Forms

\* Every action keeps the invariant.
LEMMA SessionStep == SessionInv /\ Counted /\ [Next]_vars => SessionInv'
<1> SUFFICES ASSUME SessionInv, Counted, [Next]_vars PROVE SessionInv'
  OBVIOUS
<1>1. CASE UNCHANGED vars
  BY <1>1, SessionStutter
<1>2. CASE Next
  <2>1. cfg' = cfg /\ (Dial \/ Environment \/ \E p \in Peer : Router(p))
    BY <1>2 DEF Next, Fixed
  <2>2. CASE Dial \/ Cut
    BY <2>1, <2>2, WireStep
  <2>3. ASSUME NEW p \in Peer, ShutdownSession(p) \/ SendMalformed(p) PROVE SessionInv'
    BY <2>1, <2>3, CloseStep, MalformedStep
  <2>4. ASSUME NEW p \in Peer, Router(p) PROVE SessionInv'
    BY <2>1, <2>4, StartStep, ReceiveStep, TickStep, CloseStep DEF Router
  <2> QED BY <2>1, <2>2, <2>3, <2>4 DEF Environment
<1> QED BY <1>1, <1>2

\* What the invariant says of a session.
LEMMA SessionAgreement == SessionInv => NoHalfOpenSession
<1> SUFFICES ASSUME SessionInv, NEW p \in Peer, state[p] = "Established"
             PROVE  /\ ~OpenRejected(p, Open(Other(p)))
                    /\ ~OpenRejected(Other(p), Open(p))
                    /\ \/ state[Other(p)] \in {"OpenConfirm", "Established"} /\ neg[Other(p)] = neg[p]
                       \/ state[Other(p)] = "Idle" /\ link[Other(p)] # "ready"
  BY Zenon DEF NoHalfOpenSession
<1>1. Types /\ Other(p) \in Peer /\ Other(Other(p)) = p /\ Knows(p) /\ Knows(Other(p))
  BY TwoPeers DEF SessionInv
<1>2. Hold(p) = Hold(Other(p))
  BY <1>1, TimerArithmetic
<1> QED BY <1>1, <1>2, Zenon DEF Knows, Accepts, Valid

=============================================================================
