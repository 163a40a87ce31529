---------------------------- MODULE BgpTransports ----------------------------
(***************************************************************************)
(* Two lr daemons that are each other's bidirectional BGP peer: each dials  *)
(* the other (spawn_connector) and accepts its connections, an outbound and *)
(* an inbound session share a collision group, and the router keeps one of  *)
(* them (resolve_connection_collision).  A BFD flag gates the dial and ends *)
(* a running session.                                                       *)
(*                                                                          *)
(* The threads of a daemon share the router behind one lock.  A thread that *)
(* serves a connection alternates between two locked sections, read + feed  *)
(* and drain + look at the state; each is one action.  The hold timer and   *)
(* what an Established session exchanges are BgpSession's subject.          *)
(***************************************************************************)
EXTENDS Integers, Sequences, FiniteSets

CONSTANTS
    Daemon,      \* the two daemons
    Higher,      \* the one with the higher BGP Identifier
    WithBfd,     \* daemons that run BFD with the peer
    Streams,     \* bound: connections dialled by one daemon that exist at once
    MaxFaults    \* bound: connections cut and falls of a BFD flag

ASSUME TransportAssumption == Higher \in Daemon /\ Cardinality(Daemon) = 2

VARIABLES
    fsm,       \* fsm[d][r]: BGP state of the session for role r ("out": handle, "in": handle_in)
    lost,      \* lost[d]: roles in collision_lost
    out,       \* out[d][r]: messages drain_output would return
    thread,    \* thread[c][d]: the thread of d that serves connection c
    wire,      \* wire[c][d]: messages on their way to d over c
    fin,       \* fin[c]: daemons that shut c down
    cut,       \* connections that failed
    connector, \* connector[d]: what the connector thread does
    backoff,   \* backoff[d]: how long it waits before the next dial
    bfd,       \* bfd[d]: the peer's BFD flags, "never" up, "up" or "down"
    faults,    \* counts what MaxFaults bounds
    condemned  \* threads whose BFD flag fell after they saw it up (history)

vars == <<fsm, lost, out, thread, wire, fin, cut, connector, backoff, bfd, faults, condemned>>
router == <<fsm, lost, out>>
network == <<thread, wire, fin, cut>>

Role == {"out", "in"}
Sibling(r) == IF r = "out" THEN "in" ELSE "out"
Peer(d) == CHOOSE p \in Daemon : p # d

\* A connection is named by its dialler.
Conn == Daemon \X (1..Streams)
RoleOf(d, c) == IF c[1] = d THEN "out" ELSE "in"

Elements(seq) == {seq[i] : i \in 1..Len(seq)}

NoThread == [pc |-> "none", seen |-> FALSE]
Serves(d, c) == thread[c][d].pc \in {"read", "drain"}
Used(c) == \E d \in Daemon : thread[c][d].pc # "none"

---------------------------------------------------------------------------
(* The session state machine, as far as a handshake takes it. *)

Step(state, m) ==
    CASE m = "OPEN" /\ state = "OpenSent" -> "OpenConfirm"
      [] m = "KEEPALIVE" /\ state = "OpenConfirm" -> "Established"
      [] m = "CEASE7" -> "Idle"
      [] OTHER -> state

Fed(state, ms) ==
    LET f[n \in 0..Len(ms)] == IF n = 0 THEN state ELSE Step(f[n - 1], ms[n])
    IN  f[Len(ms)]

\* Mutant: the winner's actions are dropped too.
ReplyDropped(state, ms) == <<>>

\* The OPEN is answered by a KEEPALIVE.
Reply(state, ms) == IF state = "OpenSent" /\ Head(ms) = "OPEN" THEN <<"KEEPALIVE">> ELSE <<>>

\* Mutants: a sibling in OpenConfirm is not examined; the Identifiers decide against an
\* Established sibling too; each side keeps the connection it dialled.
LoserSkipsConfirm(d, r) ==
    CASE fsm[d][Sibling(r)] = "Established" -> r
      [] fsm[d][Sibling(r)] = "OpenSent" -> IF d = Higher THEN "in" ELSE "out"
      [] OTHER -> "none"
LoserById(d, r) ==
    IF fsm[d][Sibling(r)] = "Idle" THEN "none" ELSE IF d = Higher THEN "in" ELSE "out"
LoserInbound(d, r) ==
    CASE fsm[d][Sibling(r)] = "Established" -> r
      [] fsm[d][Sibling(r)] \in {"OpenSent", "OpenConfirm"} -> "in"
      [] OTHER -> "none"

\* resolve_connection_collision: the role that loses when the session of role r has
\* just accepted an OPEN; "none" when nothing collides.
Loser(d, r) ==
    CASE fsm[d][Sibling(r)] = "Established" -> r
      [] fsm[d][Sibling(r)] \in {"OpenSent", "OpenConfirm"} ->
            IF d = Higher THEN "in" ELSE "out"
      [] OTHER -> "none"

\* feed_input: the state machine, then the collision, then what the feed queued.  A
\* loser's own answer is dropped; it queues the NOTIFICATION instead.
FeedInput(d, r, ms) ==
    \E f \in {Fed(fsm[d][r], ms)} :
    \E l \in {IF fsm[d][r] = "OpenSent" /\ f \in {"OpenConfirm", "Established"}
              THEN Loser(d, r) ELSE "none"} :
        /\ fsm' = [fsm EXCEPT ![d] = [q \in Role |->
                     IF q = l THEN "Idle" ELSE IF q = r THEN f ELSE @[q]]]
        /\ out' = [out EXCEPT ![d] = [q \in Role |->
                     IF q = l THEN Append(@[q], "CEASE7")
                     ELSE IF q = r THEN @[q] \o Reply(fsm[d][r], ms) ELSE @[q]]]
        /\ lost' = [lost EXCEPT ![d] = @ \cup ({l} \cap Role)
                                         \cup (IF "CEASE7" \in Elements(ms) THEN {r} ELSE {})]

\* start_session: BgpPeer::reset, ManualStart, TransportOpen.
StartSession(d, r) ==
    /\ fsm' = [fsm EXCEPT ![d][r] = "OpenSent"]
    /\ out' = [out EXCEPT ![d][r] = Append(@, "OPEN")]
    /\ lost' = [lost EXCEPT ![d] = @ \ {r}]

---------------------------------------------------------------------------
(* The connector and the accept loop. *)

Handshaking(d, c) == Serves(d, c) /\ fsm[d][RoleOf(d, c)] \in {"OpenSent", "OpenConfirm"}

\* A wait after a lost collision (10 to 120 s) outlasts every handshake.
WaitedOut(d) ==
    backoff[d] = "long" => \A c \in Conn, e \in Daemon : ~ Handshaking(e, c) /\ thread[c][e].pc # "accept"

\* The gates of the connector loop: BFD, then the sibling session.
Gate(d) ==
    /\ connector[d] = "wait"
    /\ WaitedOut(d)
    /\ bfd[d] # "down"
    /\ fsm[d]["in"] # "Established"
    /\ connector' = [connector EXCEPT ![d] = "dialing"]
    /\ UNCHANGED <<router, network, backoff, bfd, faults, condemned>>

NewThread(d) == [pc |-> "read", seen |-> bfd[d] = "up"]

\* The connection is up: run_peer_session starts the outbound session; the listener
\* of the peer will accept.  (A connection the host looped back to its own listener is
\* dropped before that, with the delay of a failed one.)
Dial(d) ==
    /\ connector[d] = "dialing"
    /\ \E c \in Conn :
         /\ c[1] = d
         /\ ~ Used(c)
         /\ thread' = [thread EXCEPT ![c] = [e \in Daemon |->
                         IF e = d THEN NewThread(d) ELSE [NoThread EXCEPT !.pc = "accept"]]]
         /\ connector' = [connector EXCEPT ![d] = "session"]
         /\ StartSession(d, "out")
         /\ UNCHANGED <<wire, fin, cut, backoff, bfd, faults, condemned>>

\* The connect fails; the ladder of delays is short of a collision's.
DialFails(d) ==
    /\ connector[d] = "dialing"
    /\ bfd[d] = "down"
    /\ connector' = [connector EXCEPT ![d] = "wait"]
    /\ UNCHANGED <<router, network, backoff, bfd, faults, condemned>>

\* The accept loop hands the connection to a new thread, whatever runs on handle_in.
Accept(d, c) ==
    /\ thread[c][d].pc = "accept"
    /\ thread' = [thread EXCEPT ![c][d] = NewThread(d)]
    /\ StartSession(d, "in")
    /\ UNCHANGED <<wire, fin, cut, connector, backoff, bfd, faults, condemned>>

---------------------------------------------------------------------------
(* pump_session and the end of run_peer_session. *)

\* What d writes to c arrives unless the connection failed or the peer is gone.
Write(d, c, ms) ==
    IF c \in cut \/ Peer(d) \in fin[c] THEN wire[c][Peer(d)] ELSE wire[c][Peer(d)] \o ms

\* The thread leaves pump_session with an error: close_session, the last drain, the
\* shutdown of the socket.  Both ends gone, the name of the connection is free again.
\* A connector turns to its next wait.
Unwind(d, c, isLost) ==
    LET r == RoleOf(d, c)
        last == fin[c] \cup {d} = Daemon
    IN  /\ fsm' = [fsm EXCEPT ![d][r] = "Idle"]
        /\ out' = [out EXCEPT ![d][r] = <<>>]
        /\ lost' = IF isLost THEN [lost EXCEPT ![d] = @ \ {r}] ELSE lost
        /\ fin' = [fin EXCEPT ![c] = IF last THEN {} ELSE @ \cup {d}]
        /\ cut' = IF last THEN cut \ {c} ELSE cut
        /\ wire' = [wire EXCEPT ![c] = [e \in Daemon |->
                      IF last \/ e = d THEN <<>> ELSE Write(d, c, out[d][r])]]
        /\ thread' = [thread EXCEPT ![c] = [e \in Daemon |->
                        IF last THEN NoThread
                        ELSE IF e = d THEN [NoThread EXCEPT !.pc = "done"] ELSE @[e]]]
        /\ condemned' = condemned \ {<<d, c>>}
        /\ IF r = "out"
           THEN /\ connector' = [connector EXCEPT ![d] = "wait"]
                /\ backoff' = [backoff EXCEPT ![d] = IF isLost THEN "long" ELSE "short"]
           ELSE UNCHANGED <<connector, backoff>>

\* Mutant: the flag is remembered before it is compared.
BfdSeenDownLate(d, c) == FALSE

\* The top of the loop: BFD went from Up to Down between two looks at the flag.
BfdSeenDown(d, c) == thread[c][d].seen /\ bfd[d] # "up"

BfdFastFail(d, c) ==
    /\ thread[c][d].pc = "read"
    /\ BfdSeenDown(d, c)
    /\ Unwind(d, c, FALSE)
    /\ UNCHANGED <<bfd, faults>>

\* read returns some of the bytes; they may hold several messages.
Read(d, c) ==
    /\ thread[c][d].pc = "read"
    /\ ~ BfdSeenDown(d, c)
    /\ c \notin cut
    /\ \E n \in 1..Len(wire[c][d]) :
         /\ FeedInput(d, RoleOf(d, c), SubSeq(wire[c][d], 1, n))
         /\ wire' = [wire EXCEPT ![c][d] = SubSeq(@, n + 1, Len(@))]
    /\ thread' = [thread EXCEPT ![c][d] = [pc |-> "drain", seen |-> bfd[d] = "up"]]
    /\ UNCHANGED <<fin, cut, connector, backoff, bfd, faults, condemned>>

\* read returns end of file, or an error.
ReadEnd(d, c) ==
    /\ thread[c][d].pc = "read"
    /\ ~ BfdSeenDown(d, c)
    /\ c \in cut \/ (wire[c][d] = <<>> /\ Peer(d) \in fin[c])
    /\ Unwind(d, c, FALSE)
    /\ UNCHANGED <<bfd, faults>>

\* drain_output and the look at the state under one lock.
Drained(d, c, seen) ==
    IF fsm[d][RoleOf(d, c)] = "Idle"
    THEN Unwind(d, c, RoleOf(d, c) \in lost[d])
    ELSE /\ wire' = [wire EXCEPT ![c][Peer(d)] = Write(d, c, out[d][RoleOf(d, c)])]
         /\ out' = [out EXCEPT ![d][RoleOf(d, c)] = <<>>]
         /\ thread' = [thread EXCEPT ![c][d] = [pc |-> "read", seen |-> seen]]
         /\ UNCHANGED <<fsm, lost, fin, cut, connector, backoff, condemned>>

Drain(d, c) ==
    /\ thread[c][d].pc = "drain"
    /\ Drained(d, c, thread[c][d].seen)
    /\ UNCHANGED <<bfd, faults>>

\* read times out: there is something to drain, to notice, or a flag to remember.
ReadNothing(d, c) ==
    /\ thread[c][d].pc = "read"
    /\ ~ BfdSeenDown(d, c)
    /\ \/ out[d][RoleOf(d, c)] # <<>>
       \/ fsm[d][RoleOf(d, c)] = "Idle"
       \/ thread[c][d].seen # (bfd[d] = "up")
    /\ Drained(d, c, bfd[d] = "up")
    /\ UNCHANGED <<bfd, faults>>

---------------------------------------------------------------------------
(* The environment. *)

Fault == faults < MaxFaults /\ faults' = faults + 1

\* The connection fails: what was on its way is lost and both ends get an error.
Cut(c) ==
    /\ Fault
    /\ Used(c) /\ c \notin cut
    /\ cut' = cut \cup {c}
    /\ wire' = [wire EXCEPT ![c] = [d \in Daemon |-> <<>>]]
    /\ UNCHANGED <<router, thread, fin, connector, backoff, bfd, condemned>>

\* refresh_flags of the BFD supervisor.
BfdChange(d) ==
    /\ d \in WithBfd
    /\ IF bfd[d] = "up" THEN Fault ELSE UNCHANGED faults
    /\ bfd' = [bfd EXCEPT ![d] = IF @ = "up" THEN "down" ELSE "up"]
    /\ condemned' = IF bfd[d] = "up" THEN {<<d, c>> : c \in {x \in Conn : Serves(d, x) /\ thread[x][d].seen}}
                    ELSE {}
    /\ UNCHANGED <<router, network, connector, backoff>>

---------------------------------------------------------------------------

Init ==
    /\ fsm = [d \in Daemon |-> [r \in Role |-> "Idle"]]
    /\ lost = [d \in Daemon |-> {}]
    /\ out = [d \in Daemon |-> [r \in Role |-> <<>>]]
    /\ thread = [c \in Conn |-> [d \in Daemon |-> NoThread]]
    /\ wire = [c \in Conn |-> [d \in Daemon |-> <<>>]]
    /\ fin = [c \in Conn |-> {}]
    /\ cut = {}
    /\ connector = [d \in Daemon |-> "wait"]
    /\ backoff = [d \in Daemon |-> "short"]
    /\ bfd = [d \in Daemon |-> "never"]
    /\ faults = 0
    /\ condemned = {}

Serve(d, c) ==
    \/ Accept(d, c) \/ BfdFastFail(d, c) \/ Read(d, c) \/ ReadNothing(d, c)
    \/ ReadEnd(d, c) \/ Drain(d, c)
Connect(d) == Gate(d) \/ Dial(d) \/ DialFails(d)

Next ==
    \/ \E d \in Daemon : Connect(d) \/ BfdChange(d)
    \/ \E d \in Daemon, c \in Conn : Serve(d, c)
    \/ \E c \in Conn : Cut(c)

\* Every thread keeps running.
Fairness ==
    /\ \A d \in Daemon : WF_vars(Connect(d))
    /\ \A d \in Daemon, c \in Conn : WF_vars(Serve(d, c))

Spec == Init /\ [][Next]_vars /\ Fairness

---------------------------------------------------------------------------
(* Properties. *)

States == {"Idle", "OpenSent", "OpenConfirm", "Established"}
Message == {"OPEN", "KEEPALIVE", "CEASE7"}

\* Every variable has its type.
TypeOK ==
    /\ fsm \in [Daemon -> [Role -> States]]
    /\ lost \in [Daemon -> SUBSET Role]
    /\ \A d \in Daemon, r \in Role : Elements(out[d][r]) \subseteq Message /\ Len(out[d][r]) <= 3
    /\ \A c \in Conn, d \in Daemon :
         /\ thread[c][d].pc \in {"none", "accept", "read", "drain", "done"}
         /\ Elements(wire[c][d]) \subseteq Message /\ Len(wire[c][d]) <= 3
    /\ fin \in [Conn -> SUBSET Daemon] /\ cut \subseteq Conn
    /\ connector \in [Daemon -> {"wait", "dialing", "session"}]

\* A daemon never has both sessions of a collision group past OpenSent: whichever
\* OPEN comes second finds the sibling and closes one of the two.
OneTransport ==
    \A d \in Daemon : \E r \in Role : fsm[d][r] \in {"Idle", "OpenSent"}

\* When nothing is under way, both daemons have the same connection Established: the
\* resolvers of the two sides never settle on different ones.
Quiet ==
    \A c \in Conn, d \in Daemon :
        /\ thread[c][d].pc \in {"none", "read"} /\ wire[c][d] = <<>> /\ fin[c] = {} /\ c \notin cut
        /\ thread[c][d].pc = "read" => /\ out[d][RoleOf(d, c)] = <<>>
                                       /\ fsm[d][RoleOf(d, c)] # "Idle"
EstablishedOn(d, c) == Serves(d, c) /\ fsm[d][RoleOf(d, c)] = "Established"
SameTransport == Quiet => \A c \in Conn : Used(c) => \A d \in Daemon : EstablishedOn(d, c)

\* A connection that is Established at both ends stays so until it fails or BFD
\* reports the path down; no dial, accept or collision of the other one ends it.
BothEstablished(c) == \A d \in Daemon : EstablishedOn(d, c)
EstablishedStays ==
    [][\A c \in Conn : BothEstablished(c) /\ c \notin cut /\ (\A d \in Daemon : ~ BfdSeenDown(d, c))
                          => BothEstablished(c)']_vars

\* When BFD stays down, every session that saw it up ends and no new one is dialled: the
\* look at the top of pump_session's loop and the connector's hold-off.
BfdDownEndsSession ==
    \A d \in WithBfd :
        <>[](bfd[d] = "down") =>
        <>[](connector[d] # "dialing" /\ condemned = {})

\* As long as no daemon holds off for BFD, a session becomes Established again and again
\* or stays so; two daemons that dial each other never only shoot each other down.
SomeSessionComesUp ==
    <>[](\A d \in Daemon : bfd[d] # "down") => []<>(\E d \in Daemon, c \in Conn : EstablishedOn(d, c))

=============================================================================
