-------------------------- MODULE MCOspfAdjacency --------------------------
EXTENDS OspfAdjacency, TLC

\* Router 2 is the master.  Key 1 belongs to router 2, key 2 to router 1, so that
\* an LSA router 1 learns is inserted before the one it has described.
MCOwn == (1 :> {2}) @@ (2 :> {1})

\* Router 2 has an old instance of the other's LSA and two pages to describe,
\* router 1 lacks an LSA.
OldAtMaster == (1 :> <<0, 2>>) @@ (2 :> <<1, 1>>)

\* Router 2 alone has an LSA.
OnlyAtMaster == (1 :> <<0, 0>>) @@ (2 :> <<1, 0>>)

SameMtu == (1 :> 1500) @@ (2 :> 1500)
LargerAtMaster == (1 :> 1500) @@ (2 :> 9000)

MCStarts ==
    {[link |-> [version |-> 2, mtu |-> SameMtu], lsdb |-> OldAtMaster],
     [link |-> [version |-> 2, mtu |-> LargerAtMaster], lsdb |-> OnlyAtMaster],
     [link |-> [version |-> 3, mtu |-> SameMtu], lsdb |-> OnlyAtMaster]}
=============================================================================
