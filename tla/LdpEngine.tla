----------------------------- MODULE LdpEngine -----------------------------
(***************************************************************************)
(* Label switching routers that run LdpEngine under the LDP daemon: the     *)
(* session handshake on a TCP connection per link, label distribution with  *)
(* transit allocation (every learned FEC gets a local label, is readvertised*)
(* to every peer and swapped towards the first peer that announced it), the *)
(* label allocator, and the retention of a failed peer's bindings under     *)
(* graceful restart.                                                        *)
(*                                                                          *)
(* A pass of the daemon reads one message, or hears one Hello, or sees one  *)
(* timer expire.  The timers are the environment's: they may expire at any  *)
(* moment.  Label Release is not on the channels: its receiver only logs it.*)
(***************************************************************************)
EXTENDS Integers, Sequences, FiniteSets, SequencesExt, FiniteSetsExt, TLC

CONSTANTS
    Lsr,      \* LDP identifiers; the larger one of a link opens the connection
    Fec,      \* prefixes, as numbers: a prefix bound by configuration has itself as its label
    Labs,     \* the networks and configurations of a run
    MaxHop,   \* bound: the hop count that cannot be incremented (255 on the wire)
    HopLimit, \* hop_count_limit and path_vector_limit of the loop detection
    PathLimit

ASSUME LsrAssumption == Lsr \subseteq Nat \ {0} /\ Fec \subseteq Nat \ {0}
ASSUME HopAssumption == MaxHop \in Nat \ {0} /\ HopLimit \in Nat \ {0} /\ PathLimit \in Nat

VARIABLES
    lab,      \* the member of Labs this behaviour is about
    eng,      \* the engine of each LSR
    q,        \* q[l][p]: what p's end of the connections to l has sent, unread by l
    faults    \* faults and reconfigurations so far

vars == <<lab, eng, q, faults>>

None == 0
Kinds == {"cut", "silence", "hello", "restart", "length", "bind"}
Peers(l) == {p \in Lsr : {l, p} \in lab.link}
NoFec == [bind |-> <<>>, nh |-> None, early |-> {}]
NoGr == [mode |-> "none", fecs |-> {}]
NoSwap == [nh |-> None, label |-> None]

\* LdpEngine::new, with the bindings of the configuration in the LIB.  `early` has the
\* peers whose binding has a received_seq below allocated_seq.  Two fields are history:
\* `apart` has the bindings that only one of LIB and transit table took or kept, `hushed`
\* the LSR's own bindings whose mapping a transit message overrode at the peers.
NewEngine(binds) ==
    [adj   |-> {},
     sess  |-> [p \in Lsr |-> "None"],
     lib   |-> [p \in Lsr |-> [f \in Fec |-> None]],
     binds |-> binds,
     fec   |-> [f \in Fec |-> NoFec],
     alloc |-> [f \in Fec |-> None],
     next  |-> 1,
     gr    |-> [p \in Lsr |-> NoGr],
     swap  |-> [f \in Fec |-> NoSwap],
     apart |-> {},
     hushed |-> {},
     out   |-> [p \in Lsr |-> <<>>]]

Msg(type) == [type |-> type]
Mapping(f, label, hop, path) ==
    [type |-> "Mapping", fec |-> f, label |-> label, hop |-> hop, path |-> path]
Withdraw(f) == [type |-> "Withdraw", fec |-> f]

Send(E, p, m) == [E EXCEPT !.out[p] = Append(@, m)]
SendAll(E, m) ==
    [E EXCEPT !.out = [p \in Lsr |-> IF E.sess[p] = "Operational" THEN Append(@[p], m) ELSE @[p]]]

---------------------------------------------------------------------------
(* TransitAllocator. *)

Reserved(l) == lab.binds[l]
Used(E, l) == Reserved(l) \cup Range(E.alloc)

\* Mutant: past the top of the range the allocator starts over without a look at what is used.
FindFreeWraps(E, l) == IF E.next <= lab.top THEN E.next ELSE 1

\* find_free: from the cursor up, then the holes below it.
FindFree(E, l) ==
    LET above == {n \in E.next..lab.top : n \notin Used(E, l)}
        below == {n \in 1..lab.top : n < E.next /\ n \notin Used(E, l)}
    IN  IF above # {} THEN Min(above) ELSE IF below # {} THEN Min(below) ELSE None

Allocate(E, f, label) == [E EXCEPT !.alloc[f] = label, !.next = label + 1]

Release(E, f) ==
    [E EXCEPT !.alloc[f] = None, !.next = IF E.alloc[f] < @ THEN E.alloc[f] ELSE @]

---------------------------------------------------------------------------
(* Transit label distribution. *)

NhBinding(E, f) == E.fec[f].bind[E.fec[f].nh]
Propagates(b) == b.hop < MaxHop
TransitMapping(E, l, f) ==
    LET b == NhBinding(E, f)
    IN  Mapping(f, E.alloc[f], b.hop + 1, IF lab.loopDetection THEN Append(b.path, l) ELSE <<>>)

AdvertiseTransit(E, l, f) ==
    IF Propagates(NhBinding(E, f)) THEN SendAll(E, TransitMapping(E, l, f)) ELSE E

\* TransitSwapChanged, and install_swap of the daemon; no address, no event.  The peers are
\* on the link, and the kernel takes the route.
InstallSwap(E, f) ==
    IF E.fec[f].nh \in E.adj
    THEN [E EXCEPT !.swap[f] = [nh |-> E.fec[f].nh, label |-> NhBinding(E, f).label]]
    ELSE E

\* Mutant: the latest peer to announce a prefix becomes its next hop.
TransitOnLearnLatest(E, l, p, f, b) ==
    LET label == IF E.alloc[f] # None THEN E.alloc[f] ELSE FindFree(E, l)
        kept  == [Allocate(E, f, label) EXCEPT
                     !.fec[f] = [bind |-> (p :> b) @@ E.fec[f].bind, nh |-> p, early |-> {}]]
    IN  IF f \in E.binds \/ label = None THEN E ELSE InstallSwap(AdvertiseTransit(kept, l, f), f)

TransitOnLearn(E, l, p, f, b) ==
    LET old   == E.fec[f]
        same  == old.nh # None /\ old.bind[old.nh] = b
        nh    == IF old.nh = None THEN p ELSE old.nh
        label == IF E.alloc[f] # None THEN E.alloc[f] ELSE FindFree(E, l)
        early == IF E.alloc[f] # None THEN old.early \ {p} ELSE DOMAIN old.bind \ {p}
        kept  == [Allocate(E, f, label) EXCEPT
                     !.next   = IF E.alloc[f] # None THEN E.next ELSE @,
                     !.fec[f] = [bind |-> (p :> b) @@ old.bind, nh |-> nh, early |-> early]]
        told  == IF same THEN kept ELSE AdvertiseTransit(kept, l, f)
    IN  IF f \in E.binds THEN E
        ELSE IF label = None THEN [E EXCEPT !.fec[f] = NoFec]
        ELSE IF old.nh = None \/ (p = nh /\ ~same) THEN InstallSwap(told, f)
        ELSE told

\* Mutant: the upstream mappings are not withdrawn.
TearDownSilent(E, f, reflected) ==
    [Release(E, f) EXCEPT
        !.fec[f]  = NoFec,
        !.swap[f] = NoSwap,
        !.lib     = [p \in Lsr |-> IF p \in reflected THEN [@[p] EXCEPT ![f] = None] ELSE @[p]]]

\* No usable binding remains: the label, the upstream mapping and the reflected bindings go.
TearDown(E, f, reflected) ==
    SendAll([Release(E, f) EXCEPT
                !.fec[f]  = NoFec,
                !.swap[f] = NoSwap,
                !.apart   = @ \ (reflected \X {f}),
                !.hushed  = @ \cup ({f} \cap E.binds),
                !.lib     = [p \in Lsr |-> IF p \in reflected THEN [@[p] EXCEPT ![f] = None] ELSE @[p]]],
            Withdraw(f))

TransitOnUnlearn(E, l, p, f) ==
    LET old    == E.fec[f]
        rest   == [x \in DOMAIN old.bind \ {p} |-> old.bind[x]]
        usable == old.early \ {p}
        nh     == IF old.nh # p THEN old.nh ELSE IF usable = {} THEN None ELSE Min(usable)
        kept   == [E EXCEPT !.fec[f] = [bind |-> rest, nh |-> nh, early |-> usable],
                            !.hushed = IF old.nh = p THEN @ \cup ({f} \cap E.binds) ELSE @]
    IN  IF p \notin DOMAIN old.bind THEN E
        ELSE IF nh = None THEN TearDown(E, f, DOMAIN rest)
        ELSE IF old.nh = p THEN InstallSwap(AdvertiseTransit(kept, l, f), f)
        ELSE kept

\* Mutant: the transit state does not follow the LIB.
UnlearnLibOnly(E, l, p, fs) ==
    [E EXCEPT !.lib[p] = [f \in Fec |-> IF f \in fs THEN None ELSE @[f]]]

\* The LIB forgets p's bindings of fs, and the transit state follows.
Unlearn(E, l, p, fs) ==
    LET gone == {f \in fs : E.lib[p][f] # None}
        Forget(f, A) == TransitOnUnlearn(A, l, p, f)
    IN  FoldSet(Forget, [E EXCEPT !.lib[p] = [f \in Fec |-> IF f \in fs THEN None ELSE @[f]],
                                  !.apart  = @ \ ({p} \X gone)], gone)

---------------------------------------------------------------------------
(* Session events. *)

\* Mutant: a session that comes up is told the LSR's own bindings only.
SessionUpOwnOnly(E, l, p) ==
    LET fecs == IF E.gr[p].mode = "stale" THEN E.gr[p].fecs ELSE {}
        Push(f, A) == SendAll(A, Mapping(f, f, 1, <<>>))
    IN  FoldSet(Push, Unlearn([E EXCEPT !.gr[p] = NoGr], l, p, fecs), E.binds)

\* gr_on_session_up, the transit bindings, then the daemon's own bindings for everyone.
SessionUp(E, l, p) ==
    LET stale == E.gr[p].mode = "stale"
        recovered ==
            IF stale /\ lab.recovery
            THEN [E EXCEPT !.gr[p].mode = "recovering"]
            ELSE Unlearn([E EXCEPT !.gr[p] = NoGr], l, p, IF stale THEN E.gr[p].fecs ELSE {})
        Tell(f, A) == Send(A, p, TransitMapping(A, l, f))
        known == {f \in Fec : recovered.fec[f].nh # None /\ Propagates(NhBinding(recovered, f))}
        Push(f, A) == SendAll(A, Mapping(f, f, 1, <<>>))
    IN  [FoldSet(Push, FoldSet(Tell, recovered, known), E.binds) EXCEPT !.hushed = {}]

Negotiated(E, p) == E.sess[p] \in {"OpenRec", "Operational"}
GrShouldRetain(E, p, unexpected) == unexpected /\ lab.gr /\ Negotiated(E, p)

SessionDown(E, l, p, unexpected) ==
    LET down == [E EXCEPT !.sess[p] = "None"]
    IN  IF GrShouldRetain(E, p, unexpected)
        THEN [down EXCEPT !.gr[p] = [mode |-> "stale", fecs |-> {f \in Fec : E.lib[p][f] # None}]]
        ELSE Unlearn([down EXCEPT !.gr[p] = NoGr], l, p, Fec)

\* check_received_attributes.
Looped(l, m) ==
    /\ lab.loopDetection
    /\ m.hop > HopLimit \/ l \in Range(m.path) \/ Len(m.path) > PathLimit

MappingReceived(E, l, p, m) ==
    LET changed == E.lib[p][m.fec] # m.label
        b == [label |-> m.label, hop |-> m.hop, path |-> m.path]
        told == TransitOnLearn([E EXCEPT !.lib[p][m.fec] = m.label], l, p, m.fec, b)
        taken == p \in DOMAIN told.fec[m.fec].bind /\ told.fec[m.fec].bind[p] = b
        learned == [told EXCEPT !.apart = IF taken THEN @ \ {<<p, m.fec>>} ELSE @ \cup {<<p, m.fec>>}]
    IN  IF Looped(l, m) THEN Unlearn(E, l, p, {m.fec})
        ELSE [(IF changed THEN learned ELSE E) EXCEPT
                 !.gr[p].fecs = IF E.gr[p].mode = "recovering" THEN @ \ {m.fec} ELSE @]

---------------------------------------------------------------------------
(* Connections.  "Eof" ends one; what follows it is of the next. *)

Eof == Msg("Eof")
IsEof(m) == m.type = "Eof"
Dead(l, p) == \E i \in 1..Len(q[l][p]) : IsEof(q[l][p][i])

\* What l has queued for p reaches q[p][l] if the connection still stands.
Delivered(l, out, Q) ==
    [p \in Lsr |-> [Q[p] EXCEPT ![l] = IF Dead(l, p) THEN @ ELSE @ \o out[p]]]

\* The pass ends: l's engine is E, its messages are written.
Flush(l, E, Q) ==
    /\ eng' = [eng EXCEPT ![l] = [E EXCEPT !.out = [p \in Lsr |-> <<>>]]]
    /\ q' = Delivered(l, E.out, Q)

\* CloseConnection: the rest of that connection is never read, and p will see its end.
AfterEof(s) == LET i == SelectInSeq(s, IsEof) IN IF i = 0 THEN <<>> ELSE SubSeq(s, i + 1, Len(s))
Close(l, p, E) ==
    Flush(l, Send(E, p, Eof), [q EXCEPT ![l][p] = AfterEof(@)])

\* establish_sessions in the active role and connect_peer: the connection, the Initialization.
Establish(l, p) ==
    /\ p \in eng[l].adj /\ l > p
    /\ eng[l].sess[p] = "None"
    /\ Flush(l, [Send(eng[l], p, Msg("Init")) EXCEPT !.sess[p] = "OpenSent"], q)
    /\ UNCHANGED <<lab, faults>>

\* A link or targeted Hello: a new adjacency, or a refreshed one.
HelloHeard(l, p) ==
    /\ p \in Peers(l) \ eng[l].adj
    /\ eng' = [eng EXCEPT ![l].adj = @ \cup {p}]
    /\ UNCHANGED <<lab, q, faults>>

\* An accepted connection's first PDU: no adjacency, a second session, or a session.
AcceptInit(l, p, E, Q) ==
    IF p \notin E.adj
    THEN Flush(l, Send(Send(E, p, Msg("Fatal")), p, Eof), Q)
    ELSE Flush(l, [Send(Send(E, p, Msg("Init")), p, Msg("KeepAlive")) EXCEPT !.sess[p] = "OpenRec"], Q)

\* What feed_pdu takes in each state; anything else, a fatal Notification included, ends
\* the session with a Notification.
Expected(state, type) ==
    CASE state \in {"None", "OpenSent"} -> type = "Init"
      [] state = "OpenRec"              -> type = "KeepAlive"
      [] state = "Operational"          -> type \notin {"Init", "Fatal"}

\* feed_pdu, one message, or the end of the connection.
Receive(l, p) ==
    LET E == eng[l]
        m == Head(q[l][p])
        Q == [q EXCEPT ![l][p] = Tail(@)]
        Is(type) == m.type = type /\ Expected(E.sess[p], type)
        Operational == [E EXCEPT !.sess[p] = "Operational"]
    IN  /\ q[l][p] # <<>>
        /\ \/ /\ IsEof(m)
              /\ Flush(l, IF E.sess[p] = "None" THEN E ELSE SessionDown(E, l, p, TRUE), Q)
           \/ /\ ~IsEof(m) /\ ~Expected(E.sess[p], m.type)
              /\ Close(l, p, Send(SessionDown(E, l, p, FALSE), p, Msg("Fatal")))
           \/ /\ Is("Init") /\ E.sess[p] = "None"
              /\ AcceptInit(l, p, E, Q)
           \/ /\ Is("Init") /\ E.sess[p] = "OpenSent"
              /\ Flush(l, [Send(E, p, Msg("KeepAlive")) EXCEPT !.sess[p] = "OpenRec"], Q)
           \/ /\ Is("KeepAlive")
              /\ Flush(l, IF E.sess[p] = "OpenRec" THEN SessionUp(Operational, l, p) ELSE E, Q)
           \/ Is("Mapping")  /\ Flush(l, MappingReceived(E, l, p, m), Q)
           \/ Is("Withdraw") /\ Flush(l, Unlearn(E, l, p, {m.fec}), Q)
           \/ Is("Shutdown") /\ Close(l, p, SessionDown(E, l, p, FALSE))
        /\ UNCHANGED <<lab, faults>>

\* A new connection's Initialization is read before the end of the old connection:
\* the session exists, so the new connection is refused.
Refuse(l, p) ==
    /\ eng[l].sess[p] # "None" /\ Dead(l, p)
    /\ Last(q[l][p]).type = "Init"
    /\ q' = [q EXCEPT ![l][p] = Front(@), ![p][l] = Append(@, Eof)]
    /\ UNCHANGED <<lab, eng, faults>>

\* gr_tick: the reconnect or the recovery window of p has passed.
GrExpire(l, p) ==
    /\ eng[l].gr[p].mode # "none"
    /\ Flush(l, Unlearn([eng[l] EXCEPT !.gr[p] = NoGr], l, p, eng[l].gr[p].fecs), q)
    /\ UNCHANGED <<lab, faults>>

---------------------------------------------------------------------------
(* Faults and reconfigurations. *)

Fault(kind) == faults < lab.faults /\ kind \in lab.kinds /\ faults' = faults + 1 /\ UNCHANGED lab

\* The connection breaks; what was in flight is lost.
ConnectionLost(l, p) ==
    /\ Fault("cut")
    /\ l > p /\ eng[l].sess[p] # "None" /\ ~Dead(l, p)
    /\ q' = [q EXCEPT ![l][p] = <<Eof>>,
                      ![p][l] = Append(SubSeq(@, 1, SelectLastInSeq(@, IsEof)), Eof)]
    /\ UNCHANGED eng

\* tick: nothing was heard for the KeepAlive Time.
KeepAliveExpires(l, p) ==
    /\ Fault("silence")
    /\ eng[l].sess[p] = "Operational"
    /\ Close(l, p, Send(SessionDown(eng[l], l, p, TRUE), p, Msg("Fatal")))

\* handle_session_pdu: p's PDU is longer than was negotiated.  Its session and its bindings
\* go, but the transit table is not told.
BadPduLength(l, p) ==
    LET E == [eng[l] EXCEPT !.sess[p] = "None", !.gr[p] = NoGr, !.lib[p] = [f \in Fec |-> None],
                            !.apart = (@ \ ({p} \X Fec)) \cup
                                {<<p, f>> : f \in {g \in Fec : p \in DOMAIN eng[l].fec[g].bind}}]
    IN  /\ Fault("length")
        /\ eng[l].sess[p] # "None"
        /\ Close(l, p, Send(E, p, Msg("Fatal")))

\* discovery.tick: the last adjacency with p expires, and the session is shut down.
AdjacencyLost(l, p) ==
    LET E == [eng[l] EXCEPT !.adj = @ \ {p}]
    IN  /\ Fault("hello")
        /\ p \in eng[l].adj
        /\ IF E.sess[p] = "None" THEN Flush(l, E, q)
           ELSE Close(l, p, Send(SessionDown(E, l, p, FALSE), p, Msg("Shutdown")))

\* Does p's end of a connection with l stand?
Open(p, l) ==
    /\ eng[p].sess[l] # "None" \/ q[p][l] # <<>>
    /\ q[p][l] = <<>> \/ ~IsEof(Last(q[p][l]))

\* The daemon stops, with a Shutdown for every session or without, and starts anew.
Restart(l, farewell) ==
    /\ Fault("restart")
    /\ eng' = [eng EXCEPT ![l] = NewEngine(lab.binds[l])]
    /\ q' = [p \in Lsr |->
                IF p = l THEN [x \in Lsr |-> <<>>]
                ELSE IF ~Open(p, l) THEN q[p]
                ELSE [q[p] EXCEPT ![l] = @ \o
                        IF farewell /\ eng[l].sess[p] = "Operational" THEN <<Msg("Shutdown"), Eof>>
                        ELSE <<Eof>>]]

\* advertise_mapping and withdraw_mapping.
Bind(l, f) ==
    /\ Fault("bind")
    /\ f \in lab.binds[l] \ eng[l].binds
    /\ Flush(l, SendAll([eng[l] EXCEPT !.binds = @ \cup {f}, !.hushed = @ \ {f}], Mapping(f, f, 1, <<>>)), q)

Unbind(l, f) ==
    /\ Fault("bind")
    /\ f \in eng[l].binds
    /\ Flush(l, SendAll([eng[l] EXCEPT !.binds = @ \ {f}], Withdraw(f)), q)

---------------------------------------------------------------------------
Init ==
    /\ lab \in Labs
    /\ eng = [l \in Lsr |-> NewEngine(lab.binds[l])]
    /\ q = [l \in Lsr |-> [p \in Lsr |-> <<>>]]
    /\ faults = 0

Protocol(l, p) ==
    Receive(l, p) \/ Refuse(l, p) \/ Establish(l, p) \/ HelloHeard(l, p) \/ GrExpire(l, p)

Disturb ==
    \E l \in Lsr :
        \/ \E p \in Lsr :
            ConnectionLost(l, p) \/ KeepAliveExpires(l, p) \/ BadPduLength(l, p) \/ AdjacencyLost(l, p)
        \/ \E farewell \in BOOLEAN : Restart(l, farewell)
        \/ \E f \in Fec : Bind(l, f) \/ Unbind(l, f)

Next == (\E l, p \in Lsr : Protocol(l, p)) \/ Disturb

\* What every pass of the daemon sees to, so what holds again and again: a connection is
\* read until nothing is left, every neighbour's Hello is heard before its hold time is
\* over, a session is tried with every neighbour, and the graceful restart timers run.
Fairness ==
    \A l, p \in Lsr :
        /\ []<>(q[l][p] = <<>>)
        /\ []<>(p \in Peers(l) => p \in eng[l].adj)
        /\ []<>(p \in eng[l].adj /\ l > p => eng[l].sess[p] # "None")
        /\ []<>(eng[l].gr[p] = NoGr)

Spec == Init /\ [][Next]_vars /\ Fairness

---------------------------------------------------------------------------
Label == 0..Max(Fec \cup {l.top : l \in Labs})

\* Every variable has its type; a prefix's next hop is one of the peers that announced it,
\* and the allocator's cursor stays within its range.
TypeOK ==
    /\ lab \in Labs /\ faults \in 0..lab.faults
    /\ \A l \in Lsr :
        LET E == eng[l]
        IN  /\ E.adj \subseteq Peers(l) /\ E.binds \subseteq lab.binds[l]
            /\ E.sess \in [Lsr -> {"None", "OpenSent", "OpenRec", "Operational"}]
            /\ E.lib \in [Lsr -> [Fec -> Label]]
            /\ E.alloc \in [Fec -> 0..lab.top] /\ E.next \in 1..lab.top + 1
            /\ \A f \in Fec :
                /\ E.fec[f].nh \in DOMAIN E.fec[f].bind \cup {None}
                /\ E.fec[f].early \subseteq DOMAIN E.fec[f].bind
                /\ E.swap[f] \in [nh: Lsr \cup {None}, label: Label]
            /\ \A p \in Lsr :
                E.gr[p] \in [mode: {"none", "stale", "recovering"}, fecs: SUBSET Fec]

\* Two prefixes never share a transit label, and none takes a label reserved for a binding
\* of the configuration, however often labels are released and reused (TransitAllocator).
LabelsUnique ==
    \A l \in Lsr : \A f, g \in Fec :
        eng[l].alloc[f] # None =>
            /\ eng[l].alloc[f] \notin Reserved(l)
            /\ f # g => eng[l].alloc[f] # eng[l].alloc[g]

\* LIB, transit table, allocator and swap entries stay copies of each other, whichever of
\* withdrawal, loop, session loss and graceful restart changes them (transit_on_learn,
\* transit_on_unlearn): the LIB and the transit table have the same bindings, and a prefix
\* has a label and a swap to its next hop's label exactly while it has a next hop.  Three
\* paths of the code keep a binding in one of the two only: a mapping for a prefix the LSR
\* has bound itself or has no label left for, and a session that ends over a PDU's length.
TransitMatchesLib ==
    \A l \in Lsr : \A f \in Fec :
        LET E == eng[l]
            F == E.fec[f]
        IN  /\ \A p \in Lsr : <<p, f>> \notin E.apart =>
                    E.lib[p][f] = IF p \in DOMAIN F.bind THEN F.bind[p].label ELSE None
            /\ (E.alloc[f] # None) <=> (F.nh # None)
            /\ E.swap[f] = IF F.nh = None THEN NoSwap ELSE [nh |-> F.nh, label |-> F.bind[F.nh].label]

\* The label l last told p for f, by what p has read and what is on the way.
Told(p, l, f) ==
    LET About(m) == m.type \in {"Mapping", "Withdraw"} /\ m.fec = f
        i == SelectLastInSeq(q[p][l], About)
    IN  IF i = 0 THEN eng[p].lib[l][f]
        ELSE IF q[p][l][i].type = "Mapping" THEN q[p][l][i].label ELSE None

\* A binding a peer holds, or is about to learn, over a standing session is one its owner
\* still honours: labels are withdrawn before they are reused, whatever crosses on the way.
NoGhostBinding ==
    \A l, p \in Lsr : \A f \in Fec :
        /\ eng[l].sess[p] = "Operational" /\ eng[p].sess[l] = "Operational"
        /\ ~Dead(l, p) /\ ~Dead(p, l)
        /\ eng[p].gr[l].mode = "none"
        /\ Told(p, l, f) # None
        => Told(p, l, f) \in {eng[l].alloc[f]} \cup ({f} \cap eng[l].binds)

---------------------------------------------------------------------------
(* Forwarding: a labelled packet follows the swaps. *)

Grown(S, f) ==
    S \cup {l \in Lsr :
              LET s == eng[l].swap[f]
              IN  /\ s.nh \in S
                  /\ s.label = (IF f \in eng[s.nh].binds THEN f ELSE eng[s.nh].alloc[f])}

\* The LSRs whose packets for f arrive at an LSR that has it bound.
Delivering(f) == FoldSet(LAMBDA x, S : Grown(S, f), {l \in Lsr : f \in eng[l].binds}, Lsr)

\* The LSRs connected to one that has f bound.
Linked(S) == S \cup {l \in Lsr : \E p \in S : {l, p} \in lab.link}
Entitled(f) == FoldSet(LAMBDA x, S : Linked(S), {l \in Lsr : f \in eng[l].binds}, Lsr)

LspsUp == \A f \in Fec : Entitled(f) \subseteq Delivering(f)

\* The label switched paths of the LSRs whose only neighbour has the prefix bound, and was
\* not made to override its mapping of it.
StubLspsUp ==
    \A f \in Fec : \A l, e \in Lsr :
        Peers(l) = {e} /\ f \in eng[e].binds \ eng[e].hushed /\ Cardinality(lab.binds[e]) <= lab.top
            => l \in Delivering(f)

\* Following the swaps from anywhere, no packet comes back to an LSR it has passed, in
\* whatever order the mappings arrived.  Claimed where nothing fails: once a next hop is
\* lost, the mappings of before can close a cycle until the withdrawals have gone round.
LoopFree ==
    lab.faults = 0 => \A f \in Fec : \A S \in SUBSET Lsr \ {{}} : \E l \in S : eng[l].swap[f].nh \notin S

\* The exchange of mappings and withdrawals comes to an end with every session up.  Without
\* faults every LSR then has its label switched paths, in whatever order the sessions came
\* up and the mappings arrived.  After faults only the LSRs next to the egress are sure to
\* have, and of those not the ones whose egress withdrew its own binding: an LSR that bound
\* a prefix while it still had a reflection of it as a transit FEC withdraws the prefix from
\* everyone when that FEC is torn down, and says nothing more until a session comes up.
Settles ==
    <>[]( /\ \A l, p \in Lsr : q[l][p] = <<>>
          /\ \A l \in Lsr : \A p \in Peers(l) : eng[l].sess[p] = "Operational"
          /\ StubLspsUp
          /\ lab.faults = 0 => LspsUp)
============================================================================
