----------------------------- MODULE RtrClient -----------------------------
(***************************************************************************)
(* The RPKI-RTR client (RtrClient of lr-bgp, RFC 8210) in the thread of    *)
(* the daemon that drives it (RpkiLoop): queries, the batch between Cache   *)
(* Response and End of Data, the refresh and expire timers, reconnects, and *)
(* the ROA store the import filters read.  The cache at the other end of    *)
(* the TCP connection is external: it publishes database versions, answers  *)
(* queries, and may restart with a new session ID.                          *)
(*                                                                          *)
(* The thread handles one PDU, one poll or one command at a time, so each   *)
(* is one action.  Time is the age of the last completed sync.              *)
(***************************************************************************)
EXTENDS Integers, Sequences, FiniteSets, Functions

CONSTANTS
    Roa,           \* ROA records
    Databases,     \* bound: the sets of them the cache publishes
    Versions,      \* protocol versions
    Refresh,       \* refresh_interval
    Expire,        \* expire_interval
    MaxSession,    \* bound: session IDs of the cache (its restarts)
    MaxSerial,     \* bound: database versions per session
    MaxFaults      \* bound: connections that end early, PDUs that do not decode and
                   \* ticks while an answer is outstanding

ASSUME IntervalAssumption == Refresh \in Nat \ {0} /\ Expire \in Nat \ {0}
ASSUME DatabaseAssumption == Databases \subseteq SUBSET Roa /\ Databases # {}
ASSUME VersionAssumption == Versions \subseteq Nat /\ \E v \in Versions : \A w \in Versions : w <= v
ASSUME BoundAssumption == MaxSession \in Nat /\ MaxSerial \in Nat /\ MaxFaults \in Nat

VARIABLES
    client,     \* RtrClient
    up,         \* is there a connection (RpkiLoop.stream)?
    backoff,    \* is the thread in sleep_backoff?
    inbox,      \* PDUs of the cache not yet decoded
    query,      \* queries the cache has not answered
    store,      \* rtr_entries of RoaStore
    stopped,    \* RpkiLoop.stopped
    cache,      \* session, database versions, protocol version of the cache
    owner,      \* session whose sync gave client.serial (history)
    mixed,      \* was a Serial Query sent with a serial of another session? (history)
    orphaned,   \* does the store have ROAs that a client left behind, which was given
                \* up over a PDU that did not decode? (history)
    faults      \* counts towards MaxFaults

vars == <<client, up, backoff, inbox, query, store, stopped, cache, owner, mixed,
          orphaned, faults>>

None == -1
MaxVersion == CHOOSE v \in Versions : \A w \in Versions : w <= v
Phases == {"AwaitingReset", "AwaitingSerial", "ReceivingPayload", "Synced"}

\* RtrClient::new.
NewClient == [version |-> MaxVersion, session |-> None, serial |-> None,
              phase |-> "AwaitingReset", records |-> {}, batch |-> {}, age |-> None]

ResetQuery(c) ==
    [type |-> "ResetQuery", version |-> c.version, session |-> None, serial |-> None]
SerialQuery(c) ==
    [type |-> "SerialQuery", version |-> c.version, session |-> c.session, serial |-> c.serial]

---------------------------------------------------------------------------
(* The cache (external). *)

Pdu(type, v, ses, ser, announce, roa) ==
    [type |-> type, version |-> v, session |-> ses, serial |-> ser,
     announce |-> announce, roas |-> roa]
Plain(type, v) == Pdu(type, v, None, None, FALSE, {})

Serial == Len(cache.hist) - 1
Database == cache.hist[Serial + 1]

\* The sequences that list the elements of S, without repetitions.
Orders(S) == UNION {Surjection(1..n, S) : n \in 0..Cardinality(S)}

PrefixPdus(v, announce, roas) ==
    {[i \in DOMAIN order |-> Pdu("Prefix", v, None, None, announce, {order[i]})] :
        order \in Orders(roas)}

\* Cache Response, the changes that lead from the database old to the
\* current one, End of Data.
Batches(v, old) ==
    {<<Pdu("CacheResponse", v, cache.session, None, FALSE, {})>> \o w \o p
        \o <<Pdu("EndOfData", v, cache.session, Serial, FALSE, {})>> :
        w \in PrefixPdus(v, FALSE, old \ Database), p \in PrefixPdus(v, TRUE, Database \ old)}

\* A Serial Query of this session gets the changes, or Cache Reset when the
\* history is gone.  One of another session gets Cache Reset, an Error Report,
\* or the full database of the new session.
Answers(q, v) ==
    IF q.type = "ResetQuery" THEN Batches(v, {})
    ELSE IF q.session = cache.session
    THEN {<<Plain("CacheReset", v)>>}
            \cup (IF q.serial \in 0..Serial THEN Batches(v, cache.hist[q.serial + 1]) ELSE {})
    ELSE {<<Plain("CacheReset", v)>>, <<Plain("ErrorReport", v)>>} \cup Batches(v, {})

Answer ==
    /\ up /\ query # <<>>
    /\ LET q == Head(query)
           high == q.version > cache.version
           v == IF high THEN cache.version ELSE q.version
       IN  \E a \in Answers(q, v) \cup (IF high THEN {<<Plain("ErrorReport", v)>>} ELSE {}) :
              inbox' = inbox \o a
    /\ query' = Tail(query)
    /\ UNCHANGED <<client, up, backoff, store, stopped, cache, owner, mixed, orphaned, faults>>

\* A new database version, with a Serial Notify when there is a connection.
Publish(db) ==
    /\ Serial < MaxSerial
    /\ db # Database
    /\ cache' = [cache EXCEPT !.hist = Append(@, db)]
    /\ inbox' = IF up THEN Append(inbox, Pdu("SerialNotify", cache.version, cache.session,
                                             Serial + 1, FALSE, {}))
                ELSE inbox
    /\ UNCHANGED <<client, up, backoff, query, store, stopped, owner, mixed, orphaned, faults>>

SendMalformed ==
    /\ up
    /\ faults < MaxFaults
    /\ faults' = faults + 1
    /\ inbox' = Append(inbox, Plain("Malformed", MaxVersion))
    /\ UNCHANGED <<client, up, backoff, query, store, stopped, cache, owner, mixed, orphaned>>

---------------------------------------------------------------------------
(* The connection. *)

Disconnected(wait) ==
    /\ up' = FALSE
    /\ backoff' = wait
    /\ inbox' = <<>>
    /\ query' = <<>>

\* The cache restarts: the connection ends, the history is gone.
CacheRestart(db, v) ==
    /\ cache.session < MaxSession
    /\ cache' = [session |-> cache.session + 1, hist |-> <<db>>, version |-> v]
    /\ Disconnected(TRUE)
    /\ UNCHANGED <<client, store, stopped, owner, mixed, orphaned, faults>>

\* The connection ends between any two PDUs.
EndConnection ==
    /\ up
    /\ faults < MaxFaults
    /\ faults' = faults + 1
    /\ UNCHANGED <<client, store, stopped, cache, owner, mixed, orphaned>>

\* read or write fails, or the cache closes; the thread sleeps the retry
\* interval.
ConnectionLost == EndConnection /\ Disconnected(TRUE)

\* handle_reconnect for the address the client already uses: at once.
Reconnect == EndConnection /\ Disconnected(FALSE)

\* connect and on_connect.
Connect ==
    /\ ~up /\ ~stopped /\ ~backoff
    /\ up' = TRUE
    /\ inbox' = <<>>
    /\ IF client.session # None /\ client.serial # None
       THEN /\ client' = [client EXCEPT !.phase = "AwaitingSerial"]
            /\ query' = <<SerialQuery(client)>>
            /\ mixed' = (mixed \/ owner # client.session)
       ELSE /\ client' = [client EXCEPT !.phase = "AwaitingReset"]
            /\ query' = <<ResetQuery(client)>>
            /\ UNCHANGED mixed
    /\ UNCHANGED <<backoff, store, stopped, cache, owner, orphaned, faults>>

---------------------------------------------------------------------------
(* on_pdu, with what apply_step does with its result. *)

\* The first PDU, of a version the session speaks.
HasPdu(type) ==
    /\ up /\ inbox # <<>>
    /\ Head(inbox).type = type
    /\ Head(inbox).version <= client.version

\* Mutant: the client sticks to its own version.
NeverDowngraded == client

\* Before the first completed sync a lower version is adopted.
Downgraded ==
    IF client.serial = None /\ Head(inbox).version < client.version
    THEN [client EXCEPT !.version = Head(inbox).version] ELSE client

Become(c, q) ==
    /\ client' = c
    /\ inbox' = Tail(inbox)
    /\ query' = query \o q
    /\ UNCHANGED <<up, backoff, stopped, cache, mixed, faults>>

Drop(c) ==
    /\ client' = c
    /\ Disconnected(TRUE)
    /\ UNCHANGED <<store, stopped, cache, owner, mixed, orphaned, faults>>

RecvHigherVersion ==
    /\ up /\ inbox # <<>>
    /\ Head(inbox).type # "Malformed"
    /\ Head(inbox).version > client.version
    /\ Drop(client)

\* Acted upon in Synced only; the other session's notify asks for a reset.
RecvSerialNotify ==
    /\ HasPdu("SerialNotify")
    /\ IF client.serial = None \/ client.phase # "Synced" THEN Become(client, <<>>)
       ELSE IF Head(inbox).session = client.session
       THEN Become([client EXCEPT !.phase = "AwaitingSerial"], <<SerialQuery(client)>>)
       ELSE Become([client EXCEPT !.phase = "AwaitingReset"], <<ResetQuery(client)>>)
    /\ UNCHANGED <<store, owner, orphaned>>

RecvCacheResponse ==
    LET c == Downgraded
        ses == Head(inbox).session
    IN  /\ HasPdu("CacheResponse")
        /\ \/ /\ c.phase = "AwaitingReset"
              /\ Become([c EXCEPT !.session = ses, !.batch = {}, !.phase = "ReceivingPayload"],
                        <<>>)
              /\ UNCHANGED <<store, owner, orphaned>>
           \/ /\ c.phase = "AwaitingSerial" /\ ses # c.session
              /\ Become([c EXCEPT !.session = ses, !.batch = {}, !.phase = "AwaitingReset"],
                        <<ResetQuery(c)>>)
              /\ UNCHANGED <<store, owner, orphaned>>
           \/ /\ c.phase = "AwaitingSerial" /\ ses = c.session
              /\ Become([c EXCEPT !.batch = c.records, !.phase = "ReceivingPayload"], <<>>)
              /\ UNCHANGED <<store, owner, orphaned>>
           \/ /\ c.phase \in {"ReceivingPayload", "Synced"}
              /\ Drop(c)

\* Mutant: every record of the payload is taken for an announcement.
AppliedAsAnnounced(batch, m) == batch \cup m.roas

Applied(batch, m) == IF m.announce THEN batch \cup m.roas ELSE batch \ m.roas

RecvPrefix ==
    /\ HasPdu("Prefix")
    /\ Become(IF client.phase = "ReceivingPayload"
              THEN [Downgraded EXCEPT !.batch = Applied(@, Head(inbox))] ELSE Downgraded, <<>>)
    /\ UNCHANGED <<store, owner, orphaned>>

\* diff_records.
DiffRecords(old, new) == [announce |-> new \ old, withdraw |-> old \ new]

\* apply_rtr_deltas.
WithDeltas(d) == (store \cup d.announce) \ d.withdraw

\* The intervals an End of Data carries are taken to be the configured ones.
RecvEndOfData ==
    LET c == Downgraded
        m == Head(inbox)
    IN  /\ HasPdu("EndOfData")
        /\ IF c.phase # "ReceivingPayload" \/ m.session # c.session THEN Drop(c)
           ELSE /\ Become([c EXCEPT !.records = c.batch, !.batch = {}, !.serial = m.serial,
                                    !.phase = "Synced", !.age = 0], <<>>)
                /\ store' = WithDeltas(DiffRecords(c.records, c.batch))
                /\ orphaned' = (orphaned /\ store' # c.batch)
                /\ owner' = c.session

RecvCacheReset ==
    LET c == Downgraded
    IN  /\ HasPdu("CacheReset")
        /\ Become([c EXCEPT !.phase = "AwaitingReset", !.batch = {}], <<ResetQuery(c)>>)
        /\ UNCHANGED <<store, owner, orphaned>>

RecvErrorReport ==
    /\ HasPdu("ErrorReport")
    /\ Drop(Downgraded)

\* drain_decode fails: reset_client and disconnect; the store is left alone.
RecvMalformed ==
    /\ up /\ inbox # <<>>
    /\ Head(inbox).type = "Malformed"
    /\ client' = NewClient
    /\ Disconnected(TRUE)
    /\ orphaned' = (store # {})
    /\ UNCHANGED <<store, stopped, cache, owner, mixed, faults>>

Receive == \/ RecvHigherVersion \/ RecvSerialNotify \/ RecvCacheResponse \/ RecvPrefix
           \/ RecvEndOfData \/ RecvCacheReset \/ RecvErrorReport \/ RecvMalformed

---------------------------------------------------------------------------
(* poll and the commands of the control channel. *)

Outstanding == up /\ (inbox # <<>> \/ query # <<>>)

Aged == [client EXCEPT !.age = IF @ = None THEN None ELSE @ + 1]

\* Mutant: expired data stays in the store.
ExpireClientOnly ==
    /\ client' = NewClient
    /\ Disconnected(TRUE)
    /\ UNCHANGED <<store, owner, mixed, orphaned>>

\* Mutant: the expired client keeps its session and serial.
ExpireKeepsSerial ==
    /\ client' = [NewClient EXCEPT !.session = client.session, !.serial = client.serial]
    /\ store' = {}
    /\ mixed' = FALSE /\ orphaned' = FALSE
    /\ Disconnected(TRUE)
    /\ UNCHANGED owner

\* apply_step with the expired flag.
ExpireData ==
    /\ client' = NewClient
    /\ store' = {}
    /\ mixed' = FALSE /\ orphaned' = FALSE
    /\ Disconnected(TRUE)
    /\ UNCHANGED owner

\* A refresh query that finds no connection is lost; on_connect asks again.
SendRefresh ==
    /\ client' = [Aged EXCEPT !.phase = "AwaitingSerial"]
    /\ backoff' = FALSE
    /\ query' = IF up THEN Append(query, SerialQuery(client)) ELSE query
    /\ UNCHANGED <<up, inbox, store, owner, mixed, orphaned>>

JustAge ==
    /\ client' = Aged
    /\ backoff' = FALSE
    /\ UNCHANGED <<up, inbox, query, store, owner, mixed, orphaned>>

Poll ==
    IF Aged.age >= Expire THEN ExpireData
    ELSE IF client.phase = "Synced" /\ Aged.age >= Refresh THEN SendRefresh
    ELSE JustAge

\* One second passes and the thread polls; it does so connected or not, and a
\* retry interval that was running is over.
Tick ==
    /\ ~stopped
    /\ IF Outstanding THEN faults < MaxFaults /\ faults' = faults + 1 ELSE UNCHANGED faults
    /\ Poll
    /\ UNCHANGED <<stopped, cache>>

\* handle_reconnect with another address: another cache, a client from scratch
\* (with the same intervals).
Repoint(db, v) ==
    /\ ~stopped
    /\ cache.session < MaxSession
    /\ cache' = [session |-> cache.session + 1, hist |-> <<db>>, version |-> v]
    /\ client' = NewClient
    /\ store' = {}
    /\ mixed' = FALSE /\ orphaned' = FALSE
    /\ Disconnected(FALSE)
    /\ UNCHANGED <<stopped, owner, faults>>

\* handle_shutdown: the thread ends.
Shutdown ==
    /\ ~stopped
    /\ stopped' = TRUE
    /\ client' = NewClient
    /\ store' = {}
    /\ mixed' = FALSE /\ orphaned' = FALSE
    /\ Disconnected(FALSE)
    /\ UNCHANGED <<cache, owner, faults>>

---------------------------------------------------------------------------

Init ==
    /\ client = NewClient
    /\ up = FALSE
    /\ backoff = FALSE
    /\ inbox = <<>>
    /\ query = <<>>
    /\ store = {}
    /\ stopped = FALSE
    /\ \E db \in Databases, v \in Versions :
          cache = [session |-> 1, hist |-> <<db>>, version |-> v]
    /\ owner = None
    /\ mixed = FALSE
    /\ orphaned = FALSE
    /\ faults = 0

Environment ==
    \/ \E db \in Databases : \/ Publish(db)
                             \/ \E v \in Versions : CacheRestart(db, v) \/ Repoint(db, v)
    \/ SendMalformed \/ ConnectionLost \/ Reconnect \/ Shutdown

Next == Connect \/ Answer \/ Receive \/ Tick \/ Environment

\* The thread keeps connecting, reading and polling, the cache answers; nothing
\* forces the environment to change, fail or recover.
Fairness ==
    WF_vars(Connect) /\ WF_vars(Answer) /\ WF_vars(Receive) /\ WF_vars(Tick)

Spec == Init /\ [][Next]_vars /\ Fairness
---------------------------------------------------------------------------
(* Properties *)

\* Every variable has its type.
TypeOK ==
    /\ client \in [version: Versions, session: 0..MaxSession \cup {None},
                   serial: 0..MaxSerial \cup {None}, phase: Phases,
                   records: SUBSET Roa, batch: SUBSET Roa, age: 0..Expire - 1 \cup {None}]
    /\ up \in BOOLEAN /\ backoff \in BOOLEAN
    /\ \A i \in DOMAIN inbox : inbox[i].version \in Versions
    /\ Len(query) <= 1
    /\ store \subseteq Roa
    /\ stopped \in BOOLEAN
    /\ cache.hist \in Seq(SUBSET Roa)
    /\ owner \in 0..MaxSession \cup {None}
    /\ mixed \in BOOLEAN /\ orphaned \in BOOLEAN

\* The records are the cache's database.
Current ==
    /\ client.phase = "Synced"
    /\ client.session = cache.session
    /\ client.serial = Serial

\* A completed sync is exact: whatever full and incremental syncs, notifies,
\* restarts of the cache and lost connections came before, a Synced client
\* holds the database version its session and serial name.  Syncs that
\* continue a serial of another session are left out: on_pdu adopts the session
\* of a Cache Response before its End of Data, and on_connect may pair it with
\* the old serial.
RecordsExact ==
    client.phase = "Synced" /\ client.session = cache.session /\ ~mixed
        => client.records = cache.hist[client.serial + 1]

\* Data past its expire interval is not used, connected or not: the client's
\* last sync is less than Expire ago, and without one the store is empty.  The
\* exception are the ROAs of a client given up over a malformed PDU: drain_decode
\* resets the client and leaves them, with no age of their own, until a sync
\* covers them or the store is emptied.
ExpiredDataGone ==
    /\ client.age # None => client.age < Expire
    /\ store # {} /\ ~orphaned => client.age # None

\* Whatever happened before, the thread gets back to a completed sync of the
\* cache's current database, unless it was shut down.
EventuallyCurrent == []<>(stopped \/ Current)

Replica == INSTANCE RoaReplica WITH
    history <- cache.hist,
    replica <- store,
    held    <- IF client.serial # None /\ owner = cache.session THEN client.serial + 1 ELSE 0,
    trusted <- ~mixed /\ ~orphaned

\* The thread with its PDUs, batches, queries and timers implements the replica: seen from
\* the import filters the store jumps from one published version to the same or a later
\* one, or is emptied (on_pdu, apply_rtr_deltas, clear_rtr).
ImplementsReplica == Replica!Spec
===========================================================================
