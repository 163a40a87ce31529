--------------------------- MODULE MCOspfElection ---------------------------
EXTENDS OspfElection

Equal == [r \in Router |-> 1]
\* Router 3 first, router 2 never.
Ranked == [r \in Router |-> IF r = 2 THEN 0 ELSE r]

\* All routers start, in any order.
Fresh(v, prio, present, n) ==
    [version |-> v, prio |-> prio, present |-> present, settled |-> {}, dr |-> 0, bdr |-> 0,
     faults |-> n]
\* Some have held their election; the others join.
Formed(v, prio, settled, dr, bdr, n) ==
    [version |-> v, prio |-> prio, present |-> Router, settled |-> settled, dr |-> dr, bdr |-> bdr,
     faults |-> n]

Starts == {Fresh(3, Equal, Router, 0), Fresh(2, Ranked, Router, 0), Fresh(2, Equal, {1, 2}, 3)}
Joins == {Formed(2, Equal, {1, 2}, 1, 2, 0), Formed(2, Ranked, {1, 2}, 1, 0, 0)}
Failures == {Formed(v, Equal, Router, 1, 2, 1) : v \in {2, 3}}
AllLabs == Starts \cup Joins \cup Failures

\* OSPFv2, one router crashes and comes back.
Restart == {Formed(2, Equal, Router, 1, 2, 1)}
=============================================================================
