---------------------------- MODULE MCBfdSession ----------------------------
EXTENDS BfdSession, TLC

CONSTANTS a, b

MCEnd == {a, b}
MCMult == (a :> 2) @@ (b :> 3)
MCTx == (a :> 2) @@ (b :> 1)
MCRx == (a :> 1) @@ (b :> 2)
MCChanges == (a :> {<<1, 4>>}) @@ (b :> {<<4, 1>>})
MCPassiveEnds == {{}, {b}}
MCReuse == {b}
===========================================================================
