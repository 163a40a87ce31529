----------------------------- MODULE RoaReplica -----------------------------
(***************************************************************************)
(* What the RPKI-RTR client promises the import filters: the ROA store is a *)
(* copy of a database version the cache published.  It moves from one       *)
(* version to the same or a later one in a single step, however many PDUs   *)
(* carried it, or is emptied; it never shows a mixture, and never goes back *)
(* to an earlier version of the same cache.                                 *)
(***************************************************************************)
EXTENDS Naturals, Sequences

CONSTANT Roa

VARIABLES
    history,   \* the versions the present cache has published
    replica,   \* the records the import filters see
    held,      \* the version of this cache they are, 0 if of none
    trusted    \* the store has no ROAs of a client that was given up, and no serial of
               \* another session was continued

vars == <<history, replica, held, trusted>>

Init ==
    /\ \E db \in SUBSET Roa : history = <<db>>
    /\ replica = {} /\ held = 0 /\ trusted = TRUE

Publish ==
    /\ \E db \in SUBSET Roa : history' = Append(history, db)
    /\ UNCHANGED <<replica, held, trusted>>

\* A cache that starts anew: the records are nobody's now.  Or another cache: they are
\* gone, and with them the doubts.
NewCache ==
    /\ \E db \in SUBSET Roa : history' = <<db>>
    /\ held' = 0
    /\ \/ UNCHANGED <<replica, trusted>>
       \/ replica' = {} /\ trusted' \in {trusted, TRUE}

\* A version arrives; an exact copy also ends a doubt.
Sync ==
    /\ \E k \in 1..Len(history) : k >= held /\ held' = k /\ replica' = history[k]
    /\ trusted' \in {trusted, TRUE}
    /\ UNCHANGED history

\* Expiry, shutdown; with the records the doubts about them are gone.
Clear ==
    /\ replica' = {} /\ held' = 0
    /\ trusted' \in {trusted, TRUE}
    /\ UNCHANGED history

\* Nothing is promised from here to the next Clear or exact Sync.
Doubt == ~trusted'

Next == Publish \/ NewCache \/ Sync \/ Clear \/ Doubt

Spec == Init /\ [][Next]_vars
=============================================================================
