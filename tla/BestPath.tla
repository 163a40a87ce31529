------------------------------ MODULE BestPath ------------------------------
(***************************************************************************)
(* The BGP decision process (lr-bgp, best_path): BestPath::compare,         *)
(* compare_multipath and the scans of select and multipath, as operators.   *)
(*                                                                          *)
(* Every step of the two chains compares one number of each route; only     *)
(* the MED step looks at the pair before it does.  A route is what the      *)
(* steps read of it; None is an absent attribute.                           *)
(***************************************************************************)
EXTENDS Integers

None == -1
U32Max == 4294967295

Opt(T) == T \cup {None}

\* A candidate for one prefix, and the knobs of BestPathConfig that compare reads.
Route == [stale : BOOLEAN, gshut : BOOLEAN,        \* LLGR_STALE, GRACEFUL_SHUTDOWN
          internal : BOOLEAN,                      \* learned by iBGP
          localPref : Opt(Nat), len : Nat, lenConfed : Nat, first : Opt(Nat),
          origin : Opt(0..2), med : Opt(Nat), igp : Opt(Nat),
          self : BOOLEAN,                          \* the next hop is the peer's own address
          originator : Opt(Nat), clusters : Nat, age : Nat, peer : Nat]

Config == [alwaysMed : BOOLEAN, medInfinity : BOOLEAN, routerId : BOOLEAN, externals : BOOLEAN,
           confed : BOOLEAN, gshut : BOOLEAN, igp : BOOLEAN, nextHopSelf : BOOLEAN,
           multipath : Nat, relax : BOOLEAN]

Default == [alwaysMed |-> FALSE, medInfinity |-> FALSE, routerId |-> TRUE, externals |-> TRUE,
            confed |-> FALSE, gshut |-> TRUE, igp |-> TRUE, nextHopSelf |-> TRUE,
            multipath |-> 1, relax |-> FALSE]

---------------------------------------------------------------------------
(* The steps. *)

Or(x, default) == IF x = None THEN default ELSE x
Flag(b) == IF b THEN 1 ELSE 0

\* An eBGP route's LOCAL_PREF is not read.
LocalPref(r) == IF r.internal THEN Or(r.localPref, 100) ELSE 100

Med == 6
Last == 12

\* What step i compares; the lower number wins.  A step that is switched off compares 0.
Key(r, cfg) ==
    [i \in 1..Last |->
        CASE i = 1 -> Flag(r.stale)
          [] i = 2 -> Flag(cfg.gshut /\ r.gshut)
          [] i = 3 -> -LocalPref(r)
          [] i = 4 -> IF cfg.confed THEN r.lenConfed ELSE r.len
          [] i = 5 -> Or(r.origin, 2)
          [] i = Med -> Or(r.med, IF cfg.medInfinity THEN U32Max ELSE 0)
          [] i = 7 -> Flag(cfg.externals /\ r.internal)
          [] i = 8 -> IF cfg.igp THEN Or(r.igp, U32Max) ELSE 0
          [] i = 9 -> Flag(cfg.nextHopSelf /\ ~r.self)
          [] i = 10 -> IF cfg.routerId THEN Or(r.originator, 0) ELSE r.age
          [] i = 11 -> r.clusters
          [] i = Last -> r.peer]

\* same_neighbor: the first AS of the two paths; two paths without one count as equal.
SameNeighbor(a, b) == a.first = b.first

\* Does step i compare a and b at all?
Decides(i, a, b, cfg) == i # Med \/ cfg.alwaysMed \/ SameNeighbor(a, b)

\* Step i tells a from b.
Differs(i, a, b, cfg) == Decides(i, a, b, cfg) /\ Key(a, cfg)[i] # Key(b, cfg)[i]

\* compare returns Less: a wins the first step that tells them apart.
Preferred(a, b, cfg) ==
    \E i \in 1..Last : /\ Differs(i, a, b, cfg)
                       /\ Key(a, cfg)[i] < Key(b, cfg)[i]
                       /\ \A j \in 1..(i - 1) : ~Differs(j, a, b, cfg)

\* compare returns Equal.
Tied(a, b, cfg) == \A i \in 1..Last : ~Differs(i, a, b, cfg)

\* compare_multipath returns Equal: a chain of its own, without the peer and without the age.
EqualCost(a, b, cfg) ==
    \A i \in 1..(Last - 1) : (i = 10 => cfg.routerId) => ~Differs(i, a, b, cfg)

---------------------------------------------------------------------------
(* The scans. *)

\* select (min_by): the best of the routes read so far and r.
Scan(best, r, cfg) == IF Preferred(r, best, cfg) THEN r ELSE best

\* multipath: may r share the load with the best path?
Shares(r, best, cfg) == EqualCost(r, best, cfg) /\ (cfg.relax \/ SameNeighbor(r, best))
=============================================================================
