--------------------------- MODULE MCBgpSession ---------------------------
EXTENDS BgpSession, TLC

CONSTANTS r1, r2

Config(as, peer_as, id, hold) ==
    [version |-> 4, as |-> as, peer_as |-> peer_as, confed |-> FALSE,
     id |-> id, hold |-> hold, keepalive |-> 0]

MCPeer == {r1, r2}

\* Different hold times: the smaller one is negotiated.
UnequalHold == (r1 :> Config(1, 2, 1, 3)) @@ (r2 :> Config(2, 1, 2, 4))

\* r1 is configured with the wrong AS for r2; r2's configuration is right.
WrongAs == (r1 :> Config(1, 9, 1, 3)) @@ (r2 :> Config(2, 1, 2, 3))

\* A keepalive interval longer than the handshake takes when reads are late.
LongHold == (r1 :> Config(1, 2, 1, 12)) @@ (r2 :> Config(2, 1, 2, 12))

\* Two routers over two consecutive connections, read at once.
Restarts == {[cfg |-> c, foreign |-> {}, dials |-> 2, delay |-> 0] : c \in {UnequalHold, WrongAs}}

\* One connection to another RFC 4271 speaker, read late by up to a second.
Late == {[cfg |-> LongHold, foreign |-> {r2}, dials |-> 1, delay |-> 1]}

MCScenarios == Restarts \cup Late
===========================================================================
