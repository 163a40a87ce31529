---------------------------- MODULE MCRibExport ----------------------------
EXTENDS RibExport

CONSTANT k1

NoneRejected == [s \in Session |-> {}]
NoneDenied == [s \in Session |-> {}]

\* Session 1 drops received paths of the lowest rank.
OneRejects == [s \in Session |-> IF s = 1 THEN {1} ELSE {}]

\* The export policy of session 1 drops local routes.
LocalDenied == [s \in Session |-> IF s = 1 THEN {0} ELSE {}]

NoneRefused == [s \in Session |-> {}]

\* The better of the two paths of session 1 may not be sent to session 2, the
\* worse path of session 2 not to session 1.
SomeRefused == [s \in Session |-> IF s = 2 THEN {<<1, 2>>} ELSE {<<2, 1>>}]

===========================================================================
