------------------------------ MODULE MCBabel --------------------------------
EXTENDS Babel

MCTriangle == {{1, 2}, {1, 3}, {2, 3}}
MCCheckLink == {<<1, 2>>, <<2, 3>>, <<3, 2>>}

\* One origin in a cycle, or two origins of the same prefix on a chain.
MCBoot == {[static |-> {1}, wire |-> MCTriangle],
           [static |-> {1, 2}, wire |-> {{1, 2}, {2, 3}}]}
=============================================================================
