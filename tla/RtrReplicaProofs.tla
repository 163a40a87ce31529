-------------------------- MODULE RtrReplicaProofs --------------------------
(***************************************************************************)
(* The theorems about the RPKI-RTR client: with the PDUs of RtrClientProofs,  *)
(* time, the commands of the daemon and the cache keep RtrInv; completed    *)
(* syncs are exact, expired data is gone, and the client implements         *)
(* RoaReplica.                                                              *)
(***************************************************************************)
EXTENDS RtrClientProofs

---------------------------------------------------------------------------
(* Time, the commands and the cache. *)

\* A tick: expired data goes, a refresh asks for the changes since the serial, or the data
\* is a second older.
LEMMA TickStep == ASSUME RtrInv, Types', Tick PROVE RtrInv'
<1>1. /\ UNCHANGED cache /\ Poll /\ client \in Clients /\ Types
      /\ client.age \in -1..(Expire - 1) /\ query \in Seq(Queries)
  BY DEF Tick, RtrInv, Types, Age
<1> DEFINE a == Aged.age
<1>2. /\ a = (IF client.age = None THEN None ELSE client.age + 1) /\ a \in Int
      /\ Aged \in Clients /\ Aged.session = client.session /\ Aged.serial = client.serial
      /\ Aged.phase = client.phase /\ Aged.records = client.records /\ Aged.batch = client.batch
  BY <1>1 DEF Aged, Clients, None
<1>e. Expire \in Int /\ a \in Int /\ (a < Expire => ~(a >= Expire))
  BY <1>2, IntervalAssumption
<1>3. CASE a >= Expire
  <2>1. ExpireData
    BY <1>1, <1>3 DEF Poll
  <2>2. client' = NewClient /\ store' = {} /\ Disconnected(TRUE) /\ owner' = owner
    BY <2>1, Zenon DEF ExpireData
  <2>3. OwnerPast'
    BY <1>1, <2>2 DEF RtrInv, OwnerPast
  <2> QED BY <2>2, <2>3, NewClientKeeps, Zenon
<1>4. ASSUME a < Expire, client'.serial = client.serial, client'.records = client.records, client'.age = a,
             client'.phase # "Synced" \/ (client'.phase = client.phase /\ client'.session = client.session),
             UNCHANGED <<inbox, store, owner, mixed, orphaned>>
      PROVE  Held' /\ OwnerPast' /\ SyncedOwner' /\ Age'
  <2>1. a \in -1..(Expire - 1) /\ (client.age # None => a # None)
    BY <1>1, <1>2, <1>4, <1>e DEF None
  <2>2. Age'
    BY <1>1, <1>4, <2>1 DEF RtrInv, Age
  <2> QED BY <1>1, <1>4, <2>2 DEF RtrInv, Held, OwnerPast, SyncedOwner
<1> HIDE DEF a
<1>5. CASE a < Expire /\ client.phase = "Synced" /\ a >= Refresh
  <2>1. SendRefresh
    BY <1>1, <1>5, <1>e DEF Poll, a
  <2> DEFINE c == [Aged EXCEPT !.phase = "AwaitingSerial"]
  <2>2. /\ c.phase = "AwaitingSerial" /\ c.session = client.session /\ c.serial = client.serial
        /\ c.records = client.records /\ c.age = a
    BY <1>2 DEF Clients, a
  <2> HIDE DEF c
  <2>3. client' = c /\ UNCHANGED <<up, inbox, store, owner, mixed, orphaned>>
        /\ query' = IF up THEN Append(query, SerialQuery(client)) ELSE query
    BY <2>1 DEF SendRefresh, c
  <2>4. Held' /\ OwnerPast' /\ SyncedOwner' /\ Age'
    BY <1>4, <1>5, <2>2, <2>3
  <2>5. ASSUME up PROVE QueryForm'
    <3>1. SyncedForm
      BY <1>5, <2>5 DEF RtrInv, Forms, SyncedForm, PayloadForm, AnswerForm, RefusalForm, QueryForm, StaleForm, Awaiting
    <3>2. query = <<>> /\ Chatter(inbox, 1, Len(inbox)) /\ owner = client.session /\ client.serial # None
      BY <1>5, <3>1 DEF SyncedForm, RtrInv, SyncedOwner
    <3>3. SerialQuery(client) \in Queries
      BY <1>1, QueryTypes
    <3>4. Len(query') = 1 /\ query'[1] = SerialQuery(client)
      BY <2>3, <2>5, <3>2, <3>3, Appended, EmptySequence
    <3> QED BY <2>2, <2>3, <3>2, <3>4 DEF QueryForm, SerialQuery
  <2> QED BY <2>3, <2>4, <2>5 DEF RtrInv, Forms
<1>6. CASE a < Expire /\ ~(client.phase = "Synced" /\ a >= Refresh)
  <2>1. JustAge
    BY <1>1, <1>6, <1>e DEF Poll, a
  <2>2. client' = Aged /\ UNCHANGED <<up, inbox, query, store, owner, mixed, orphaned>>
    BY <2>1 DEF JustAge
  <2>3. Held' /\ OwnerPast' /\ SyncedOwner' /\ Age'
    BY <1>2, <1>4, <1>6, <2>2 DEF a
  <2>4. Low' = Low /\ AnswerBase(client', cache') = AnswerBase(client, cache)
    BY <1>1, <1>2, <2>2, Zenon DEF Low, AnswerBase
  <2>5. (AnswerForm => AnswerForm')
    <3> SUFFICES ASSUME AnswerForm PROVE AnswerForm'
      OBVIOUS
    <3>1. PICK k, i \in 1..Len(inbox) : AnswerAt(inbox, k, i, client, cache, Low, mixed)
      BY DEF AnswerForm
    <3>2. AnswerAt(inbox', k, i, client', cache', Low', mixed')
      BY <1>1, <2>2, <2>4, <3>1 DEF AnswerAt
    <3>3. Awaiting' /\ query' = <<>>
      BY <1>2, <2>2 DEF AnswerForm, Awaiting
    <3> QED BY <2>2, <3>2, <3>3 DEF AnswerForm
  <2>6. (SyncedForm => SyncedForm') /\ (RefusalForm => RefusalForm') /\ (QueryForm => QueryForm') /\ (StaleForm => StaleForm')
    BY <1>1, <1>2, <2>2 DEF SyncedForm, RefusalForm, QueryForm, StaleForm, Awaiting
  <2>7. PayloadForm => PayloadForm'
    BY <1>1, <1>2, <2>2, <2>4 DEF PayloadForm
  <2>8. Forms'
    BY <2>2, <2>5, <2>6, <2>7 DEF RtrInv, Forms
  <2> QED BY <2>3, <2>8 DEF RtrInv
<1> QED BY <1>3, <1>5, <1>6, <1>e

\* A step that ends the connection and lets the client alone.
LEMMA DisconnectKeeps ==
    ASSUME RtrInv, Types', NEW wait \in BOOLEAN, Disconnected(wait),
           UNCHANGED <<client, store, cache, owner, mixed, orphaned>>
    PROVE  RtrInv'
<1>1. Held' /\ OwnerPast' /\ SyncedOwner' /\ Age'
  BY DEF RtrInv, Held, OwnerPast, SyncedOwner, Age
<1> QED BY <1>1, Disconnects

\* A version that was there is there when more are published.
LEMMA Between ==
    ASSUME NEW s \in Int, NEW low \in Int, NEW n \in Nat, NEW l \in Nat, l >= n,
           s >= 0, s <= n - 1, s >= low
    PROVE  s \in low..(l - 1) /\ s + 1 \in 1..n
OBVIOUS

\* Notifies and undecodable PDUs that arrive, and database versions that are published, leave
\* the outstanding query or answer as it is.
LEMMA MoreChatter ==
    ASSUME RtrInv, NEW t \in Seq(Pdus), Chatter(t, 1, Len(t)), inbox' = inbox \o t,
           UNCHANGED <<client, up, query, owner, mixed>>,
           cache' \in Caches, cache'.session = cache.session,
           NEW n \in Nat, n = Len(cache.hist), Len(cache'.hist) \in Nat, Len(cache'.hist) >= n,
           \A k \in 1..n : cache'.hist[k] = cache.hist[k]
    PROVE  Forms'
<1>1. /\ Types /\ Forms /\ Held /\ inbox \in Seq(Pdus) /\ cache \in Caches
  BY DEF RtrInv, Types
<1>2. /\ Len(inbox') = Len(inbox) + Len(t) /\ Len(inbox) \in Nat /\ Len(t) \in Nat
      /\ \A j \in 1..Len(inbox) : inbox'[j] = inbox[j]
      /\ \A j \in 1..Len(t) : inbox'[Len(inbox) + j] = t[j]
  BY <1>1, ConcatAt
<1>3. Low' = Low /\ Low \in Int /\ AnswerBase(client', cache') = AnswerBase(client, cache)
  BY <1>1, LowSerial DEF Low, AnswerBase
<1>4. \A a \in Int : Chatter(inbox, a, Len(inbox)) /\ a >= 1 => Chatter(inbox', a, Len(inbox'))
  <2> SUFFICES ASSUME NEW a \in Int, a >= 1, Chatter(inbox, a, Len(inbox)), NEW j \in a..Len(inbox')
               PROVE  inbox'[j].type \in {"SerialNotify", "Malformed"}
    BY DEF Chatter
  <2>1. CASE j <= Len(inbox)
    BY <1>2, <2>1 DEF Chatter
  <2>2. CASE j > Len(inbox)
    <3>1. j - Len(inbox) \in 1..Len(t) /\ j = Len(inbox) + (j - Len(inbox))
      BY <1>2, <2>2
    <3>2. PICK m \in 1..Len(t) : j = Len(inbox) + m
      BY <3>1
    <3> QED BY <1>2, <3>2 DEF Chatter
  <2> QED BY <1>2, <2>1, <2>2
<1>5. ASSUME NEW i \in 1..Len(inbox)
      PROVE  /\ i \in 1..Len(inbox') /\ inbox'[i] = inbox[i]
             /\ Chatter(inbox, 1, i - 1) => Chatter(inbox', 1, i - 1)
             /\ \A a \in Int : Payload(inbox, a, i - 1) /\ a >= 1 => Payload(inbox', a, i - 1)
  <2>1. i \in 1..Len(inbox') /\ \A j \in 1..i : inbox'[j] = inbox[j]
    BY <1>2
  <2>2. i \in Int /\ i >= 1
    OBVIOUS
  <2> QED BY <2>1, <2>2 DEF Chatter, Payload
<1>6. ASSUME NEW i \in 1..Len(inbox), Complete(inbox, i, cache, Low)
      PROVE  /\ Complete(inbox', i, cache', Low')
             /\ \A b : Yields(inbox, i, cache, b) => Yields(inbox', i, cache', b)
  <2>1. /\ Complete(inbox', i, cache, Low) /\ inbox'[i] = inbox[i]
        /\ \A b : Leads(inbox', i, b) = Leads(inbox, i, b)
    BY <1>1, <1>3, <1>6, ConcatComplete
  <2>2. PICK s \in Int : s = inbox'[i].serial /\ s >= 0 /\ s <= n - 1 /\ s >= Low
    <3>1. inbox'[i].serial \in Low..(n - 1) /\ inbox'[i].serial >= 0
      BY <2>1 DEF Complete
    <3> QED BY <1>3, <3>1
  <2>3. s \in Low..(Len(cache'.hist) - 1) /\ s + 1 \in 1..n
    <3>1. PICK l \in Nat : l = Len(cache'.hist) /\ l >= n
      OBVIOUS
    <3>2. s \in Low..(l - 1) /\ s + 1 \in 1..n
      BY <1>3, <2>2, <3>1, Between, Zenon
    <3> QED BY <3>1, <3>2
  <2>4. Complete(inbox', i, cache', Low')
    BY <1>3, <2>1, <2>2, <2>3, Zenon DEF Complete
  <2>5. cache'.hist[s + 1] = cache.hist[s + 1]
    BY <2>3
  <2>6. \A b : Yields(inbox, i, cache, b) => Yields(inbox', i, cache', b)
    BY <2>1, <2>2, <2>5 DEF Yields
  <2> QED BY <2>4, <2>6
<1>7. SyncedForm => SyncedForm'
  BY <1>4 DEF SyncedForm
<1>8. PayloadForm => PayloadForm'
  <2> SUFFICES ASSUME PayloadForm PROVE PayloadForm'
    OBVIOUS
  <2>1. PICK i \in 1..Len(inbox) : /\ Complete(inbox, i, cache, Low)
                                   /\ Payload(inbox, 1, i - 1)
                                   /\ ~mixed => Yields(inbox, i, cache, client.batch)
    BY DEF PayloadForm
  <2>2. /\ i \in 1..Len(inbox') /\ Payload(inbox', 1, i - 1) /\ Complete(inbox', i, cache', Low')
        /\ ~mixed' => Yields(inbox', i, cache', client'.batch)
    BY <1>5, <1>6, <2>1
  <2> QED BY <2>2 DEF PayloadForm
<1>9. AnswerForm => AnswerForm'
  <2> SUFFICES ASSUME AnswerForm PROVE AnswerForm'
    OBVIOUS
  <2>1. PICK k, i \in 1..Len(inbox) : AnswerAt(inbox, k, i, client, cache, Low, mixed)
    BY DEF AnswerForm
  <2>2. /\ k \in 1..(i - 1) /\ Chatter(inbox, 1, k - 1) /\ Payload(inbox, k + 1, i - 1)
        /\ inbox[k].type = "CacheResponse" /\ inbox[k].session = cache.session
        /\ Complete(inbox, i, cache, Low)
        /\ ~mixed => \A base \in AnswerBase(client, cache) : Yields(inbox, i, cache, base)
    BY <2>1 DEF AnswerAt
  <2>3. /\ k \in 1..Len(inbox') /\ i \in 1..Len(inbox') /\ inbox'[k] = inbox[k]
        /\ Chatter(inbox', 1, k - 1) /\ Payload(inbox', k + 1, i - 1)
    BY <1>5, <2>2
  <2>4. /\ Complete(inbox', i, cache', Low')
        /\ \A b : Yields(inbox, i, cache, b) => Yields(inbox', i, cache', b)
    BY <1>6, <2>2
  <2>5. AnswerAt(inbox', k, i, client', cache', Low', mixed')
    BY <1>3, <2>2, <2>3, <2>4 DEF AnswerAt
  <2>6. Awaiting' /\ query' = <<>>
    BY DEF AnswerForm, Awaiting
  <2> QED BY <2>3, <2>5, <2>6 DEF AnswerForm
<1>10. RefusalForm => RefusalForm'
  <2> SUFFICES ASSUME RefusalForm PROVE RefusalForm'
    OBVIOUS
  <2>1. PICK k \in 1..Len(inbox) : /\ inbox[k].type \in {"CacheReset", "ErrorReport"}
                                   /\ Chatter(inbox, 1, k - 1)
                                   /\ Chatter(inbox, k + 1, Len(inbox))
    BY DEF RefusalForm
  <2>2. k + 1 \in Int /\ k + 1 >= 1
    OBVIOUS
  <2>3. /\ k \in 1..Len(inbox') /\ inbox'[k] = inbox[k] /\ Chatter(inbox', 1, k - 1)
        /\ Chatter(inbox', k + 1, Len(inbox'))
    BY <1>4, <1>5, <2>1, <2>2
  <2> QED BY <2>1, <2>3 DEF RefusalForm, Awaiting
<1>11. QueryForm => QueryForm'
  BY <1>4 DEF QueryForm
<1>12. StaleForm => StaleForm'
  <2> SUFFICES ASSUME StaleForm PROVE StaleForm'
    OBVIOUS
  <2>1. PICK i \in 1..Len(inbox) : inbox[i].type = "EndOfData" /\ Payload(inbox, 1, i - 1)
    BY DEF StaleForm
  <2>2. i \in 1..Len(inbox') /\ inbox'[i] = inbox[i] /\ Payload(inbox', 1, i - 1)
    BY <1>5, <2>1
  <2> QED BY <2>1, <2>2 DEF StaleForm
<1> QED BY <1>1, <1>7, <1>8, <1>9, <1>10, <1>11, <1>12 DEF Forms

\* The cache publishes a version; those it published before stay what they are.
LEMMA PublishStep == ASSUME RtrInv, Types', NEW db \in Databases, Publish(db) PROVE RtrInv'
<1>1. /\ Types /\ inbox \in Seq(Pdus) /\ cache \in Caches /\ Held
      /\ cache.hist \in Seq(Databases) /\ cache.session \in Int /\ cache.version \in Versions
  BY DEF RtrInv, Types, Caches
<1>2. /\ cache' = [cache EXCEPT !.hist = Append(@, db)]
      /\ UNCHANGED <<client, up, query, store, owner, mixed, orphaned>>
  BY DEF Publish
<1>3. PICK n \in Nat : n = Len(cache.hist)
  BY <1>1, Lengths
<1>4. /\ cache' \in Caches /\ cache'.session = cache.session
      /\ cache'.hist = Append(cache.hist, db)
  BY <1>1, <1>2, CacheTypes, Zenon DEF Caches
<1>5. Len(cache'.hist) = n + 1 /\ \A k \in 1..n : cache'.hist[k] = cache.hist[k]
  BY <1>1, <1>3, <1>4, Appended
<1> DEFINE m == Pdu("SerialNotify", cache.version, cache.session, Serial + 1, FALSE, {})
<1>6. m \in Pdus /\ m.type = "SerialNotify"
  BY <1>1, CurrentVersion DEF Pdu, Pdus, PduTypes
<1>7. inbox' = IF up THEN Append(inbox, m) ELSE inbox
  BY DEF Publish
<1> HIDE DEF m
<1>8. ASSUME up PROVE Forms'
  <2>1. inbox' = inbox \o <<m>> /\ <<m>> \in Seq(Pdus) /\ Len(<<m>>) = 1 /\ <<m>>[1] = m
    BY <1>1, <1>6, <1>7, <1>8, Appended
  <2>2. Chatter(<<m>>, 1, Len(<<m>>))
    BY <1>6, <2>1 DEF Chatter
  <2>3. Len(cache'.hist) \in Nat /\ Len(cache'.hist) >= n
    BY <1>5
  <2> DEFINE t == <<m>>
  <2> HIDE DEF t
  <2>4. t \in Seq(Pdus) /\ Chatter(t, 1, Len(t)) /\ inbox' = inbox \o t
    BY <2>1, <2>2 DEF t
  <2> QED BY <1>2, <1>3, <1>4, <1>5, <2>3, <2>4, MoreChatter, Zenon
<1>9. ASSUME ~up PROVE Forms'
  BY <1>2, <1>9 DEF Forms
<1>10. Held'
  <2> SUFFICES ASSUME client.serial # None, owner = cache.session
               PROVE  /\ client.serial \in 0..n
                      /\ ~mixed => client.records = cache'.hist[client.serial + 1]
    BY <1>2, <1>4, <1>5 DEF Held
  <2>1. PICK s \in Int : s = client.serial /\ s >= 0 /\ s <= n - 1 /\ (~mixed => client.records = cache.hist[s + 1])
    BY <1>1, <1>3 DEF Held
  <2>2. s + 1 \in 1..n
    BY <2>1
  <2> QED BY <1>5, <2>1, <2>2
<1>11. OwnerPast' /\ SyncedOwner' /\ Age'
  BY <1>2, <1>4 DEF RtrInv, OwnerPast, SyncedOwner, Age
<1> QED BY <1>8, <1>9, <1>10, <1>11 DEF RtrInv

\* A PDU that will not decode arrives.
LEMMA SendMalformedStep == ASSUME RtrInv, Types', SendMalformed PROVE RtrInv'
<1>1. /\ Types /\ inbox \in Seq(Pdus) /\ cache \in Caches /\ cache.hist \in Seq(Databases)
  BY DEF RtrInv, Types, Caches
<1>2. /\ UNCHANGED <<client, up, query, store, cache, owner, mixed, orphaned>>
      /\ inbox' = Append(inbox, Plain("Malformed", MaxVersion))
  BY DEF SendMalformed
<1> DEFINE m == Plain("Malformed", MaxVersion)
<1>3. m \in Pdus /\ m.type = "Malformed"
  <2>1. MaxVersion \in Versions
    BY VersionAssumption, Zenon DEF MaxVersion
  <2> QED BY <2>1, PlainType, Zenon DEF PduTypes, Plain, Pdu
<1> HIDE DEF m
<1>4. inbox' = inbox \o <<m>> /\ <<m>> \in Seq(Pdus) /\ Len(<<m>>) = 1 /\ <<m>>[1] = m
  BY <1>1, <1>2, <1>3, Appended DEF m
<1>5. Chatter(<<m>>, 1, Len(<<m>>))
  BY <1>3, <1>4 DEF Chatter
<1>6. PICK n \in Nat : n = Len(cache.hist)
  BY <1>1, Lengths
<1>7. /\ cache' \in Caches /\ cache'.session = cache.session /\ Len(cache'.hist) \in Nat
      /\ Len(cache'.hist) >= n /\ \A k \in 1..n : cache'.hist[k] = cache.hist[k]
  BY <1>1, <1>2, <1>6
<1>8. Forms'
  BY <1>2, <1>4, <1>5, <1>6, <1>7, MoreChatter, Zenon
<1>9. Held' /\ OwnerPast' /\ SyncedOwner' /\ Age'
  BY <1>2 DEF RtrInv, Held, OwnerPast, SyncedOwner, Age
<1> QED BY <1>8, <1>9 DEF RtrInv

\* The cache, the connection and the commands of the daemon.
LEMMA EnvironmentStep == ASSUME RtrInv, Types', Environment PROVE RtrInv'
<1>0. owner \in Int /\ cache \in Caches /\ cache.session \in Int /\ OwnerPast
  BY DEF RtrInv, Types, Caches
<1>1. ASSUME NEW db \in Databases, Publish(db) PROVE RtrInv'
  BY <1>1, PublishStep
<1>2. ASSUME NEW db \in Databases, NEW v \in Versions, CacheRestart(db, v) PROVE RtrInv'
  <2>1. /\ UNCHANGED <<client, store, owner, mixed, orphaned>> /\ Disconnected(TRUE)
        /\ cache'.session = cache.session + 1
    BY <1>2, Zenon DEF CacheRestart
  <2>2. owner' < cache'.session
    BY <1>0, <2>1 DEF OwnerPast
  <2>3. owner' # cache'.session /\ owner' <= cache'.session
    BY <1>0, <2>1, <2>2
  <2>4. Held' /\ OwnerPast' /\ SyncedOwner' /\ Age'
    BY <2>1, <2>3 DEF RtrInv, Held, OwnerPast, SyncedOwner, Age
  <2> QED BY <2>1, <2>4, Disconnects, Zenon
<1>3. ASSUME NEW db \in Databases, NEW v \in Versions, Repoint(db, v) PROVE RtrInv'
  <2>1. /\ owner' = owner /\ store' = {} /\ client' = NewClient /\ Disconnected(FALSE)
        /\ cache'.session = cache.session + 1
    BY <1>3, Zenon DEF Repoint
  <2>2. OwnerPast'
    BY <1>0, <2>1 DEF OwnerPast
  <2> QED BY <2>1, <2>2, NewClientKeeps, Zenon
<1>4. CASE ConnectionLost \/ Reconnect
  <2>1. UNCHANGED <<client, store, cache, owner, mixed, orphaned>> /\ (Disconnected(TRUE) \/ Disconnected(FALSE))
    BY <1>4, Zenon DEF ConnectionLost, Reconnect, EndConnection
  <2> QED BY <2>1, DisconnectKeeps, Zenon
<1>5. CASE Shutdown
  <2>1. /\ UNCHANGED <<cache, owner>> /\ store' = {} /\ client' = NewClient /\ Disconnected(FALSE)
    BY <1>5, Zenon DEF Shutdown
  <2>2. OwnerPast'
    BY <1>0, <2>1 DEF OwnerPast
  <2> QED BY <2>1, <2>2, NewClientKeeps, Zenon
<1> QED BY <1>1, <1>2, <1>3, <1>4, <1>5, SendMalformedStep DEF Environment

---------------------------------------------------------------------------
(* The theorems. *)

\* The invariant holds at the start: nothing is known and nothing is sent.
LEMMA RtrInvInit == Init => RtrInv
<1> SUFFICES ASSUME Init PROVE RtrInv
  OBVIOUS
<1>1. Types
  BY TypesInit
<1>2. /\ client = NewClient /\ ~up /\ inbox = <<>> /\ store = {} /\ owner = -1 /\ cache.session = 1
      /\ Len(<<>>) = 0
  BY DEF Init, None
<1>3. /\ client.serial = None /\ client.phase = "AwaitingReset" /\ client.records = {}
      /\ client.age = None
  BY <1>2 DEF NewClient
<1>4. Forms /\ Held /\ SyncedOwner
  BY <1>2, <1>3 DEF Forms, Held, SyncedOwner
<1>5. -1 \in -1..(Expire - 1)
  BY IntervalAssumption
<1>6. Age /\ OwnerPast
  BY <1>2, <1>3, <1>5 DEF Age, OwnerPast, None
<1> QED BY <1>1, <1>4, <1>6 DEF RtrInv

\* Every step keeps it.
LEMMA RtrInvStep == RtrInv /\ [Next]_vars => RtrInv'
<1> SUFFICES ASSUME RtrInv, [Next]_vars PROVE RtrInv'
  OBVIOUS
<1>1. Types'
  BY TypesStep DEF RtrInv
<1>2. CASE UNCHANGED vars
  <2>1. UNCHANGED <<client, up, inbox, query, store, cache, owner, mixed, orphaned>>
    BY <1>2 DEF vars
  <2>2. Held' /\ OwnerPast' /\ SyncedOwner' /\ Age'
    BY <2>1 DEF RtrInv, Held, OwnerPast, SyncedOwner, Age
  <2>3. Low' = Low
    BY <2>1 DEF Low
  <2>4. Forms'
    BY <2>1, <2>3, Zenon DEF RtrInv, Forms, SyncedForm, PayloadForm, AnswerForm, RefusalForm, QueryForm,
                      StaleForm, Awaiting
  <2> QED BY <1>1, <2>2, <2>4 DEF RtrInv
<1> QED BY <1>1, <1>2, ConnectStep, AnswerStep, ReceiveStep, TickStep, EnvironmentStep DEF Next

\* What the connection holds is always nothing, one query, one answer or the rest of one that
\* leads to the version its End of Data names; the records are the version the serial names,
\* and the store is the records unless it has ROAs a client given up left behind.
THEOREM RtrInvariant == Spec => []RtrInv
BY RtrInvInit, RtrInvStep, PTL DEF Spec

\* A completed sync is exact: a Synced client holds the version its session and serial name,
\* whatever syncs, notifies, restarts and lost connections came before (RecordsExact).
THEOREM RtrRecordsExact == Spec => []RecordsExact
<1>1. RtrInv => RecordsExact
  BY DEF RtrInv, Held, SyncedOwner, RecordsExact
<1> QED BY <1>1, RtrInvariant, PTL

\* The client's data is younger than the expire interval, and without such data the store is
\* empty, but for the ROAs that a client given up over a malformed PDU leaves (ExpiredDataGone).
THEOREM RtrExpiredDataGone == Spec => []ExpiredDataGone
<1>1. RtrInv => ExpiredDataGone
  <2> SUFFICES ASSUME RtrInv PROVE ExpiredDataGone
    OBVIOUS
  <2>1. client.age < Expire
    BY IntervalAssumption DEF RtrInv, Age
  <2>2. store # {} /\ ~orphaned => client.age # None
    BY DEF RtrInv, Age
  <2> QED BY <2>1, <2>2 DEF ExpiredDataGone
<1> QED BY <1>1, RtrInvariant, PTL

---------------------------------------------------------------------------
(* The refinement.  The version the store holds, and whether it can be relied on: *)

HeldVersion == IF client.serial # None /\ owner = cache.session THEN client.serial + 1 ELSE 0
Trusted == ~mixed /\ ~orphaned

\* RoaReplica sees nothing of a step that keeps the store and the version it holds.
LEMMA StutterMaps ==
    UNCHANGED <<cache.hist, store, HeldVersion, Trusted>> => [Replica!Next]_Replica!vars
BY DEF Replica!vars, HeldVersion, Trusted

\* A step after which the store is not relied on maps to Doubt.
LEMMA DoubtMaps == ~Trusted' => [Replica!Next]_Replica!vars
BY DEF Replica!Next, Replica!Doubt, Trusted

\* A new version maps to Publish.
LEMMA PublishMaps ==
    ASSUME NEW db \in SUBSET Roa, cache.hist' = Append(cache.hist, db),
           UNCHANGED <<store, HeldVersion, Trusted>>
    PROVE  [Replica!Next]_Replica!vars
BY Zenon DEF Replica!Next, Replica!Publish, HeldVersion, Trusted

\* A cache that starts anew, with the records or without, maps to NewCache.
LEMMA NewCacheMaps ==
    ASSUME NEW db \in SUBSET Roa, cache.hist' = <<db>>, HeldVersion' = 0,
           UNCHANGED <<store, Trusted>> \/ (store' = {} /\ Trusted' \in {Trusted, TRUE})
    PROVE  [Replica!Next]_Replica!vars
BY Zenon DEF Replica!Next, Replica!NewCache, HeldVersion, Trusted

\* The store becomes a version not before the one it was, which may end a doubt: Sync.
LEMMA SyncMaps ==
    ASSUME NEW k \in 1..Len(cache.hist), k >= HeldVersion, HeldVersion' = k, store' = cache.hist[k],
           Trusted' \in {Trusted, TRUE}, UNCHANGED cache.hist
    PROVE  [Replica!Next]_Replica!vars
BY Zenon DEF Replica!Next, Replica!Sync, HeldVersion, Trusted

\* The store is emptied: Clear.
LEMMA ClearMaps ==
    ASSUME store' = {}, HeldVersion' = 0, Trusted' \in {Trusted, TRUE}, UNCHANGED cache.hist
    PROVE  [Replica!Next]_Replica!vars
BY Zenon DEF Replica!Next, Replica!Clear, HeldVersion, Trusted

\* A step that leaves serial, store and cache alone is a stutter.
LEMMA KeepsReplica ==
    ASSUME client'.serial = client.serial, UNCHANGED <<store, cache, owner, mixed, orphaned>>
    PROVE  [Replica!Next]_Replica!vars
<1>1. HeldVersion' = HeldVersion /\ Trusted' = Trusted /\ UNCHANGED <<cache.hist, store>>
  BY DEF HeldVersion, Trusted
<1> QED BY <1>1, StutterMaps

\* A client from scratch with an empty store holds no version, and the doubts are gone.
LEMMA FromScratch ==
    ASSUME client' = NewClient, mixed' = FALSE, orphaned' = FALSE
    PROVE  HeldVersion' = 0 /\ Trusted' \in {Trusted, TRUE}
<1>1. NewClient.serial = None
  BY DEF NewClient
<1>2. HeldVersion' = 0 /\ Trusted' = TRUE
  BY <1>1 DEF HeldVersion, Trusted
<1> QED BY <1>2, Zenon

\* Reading a PDU: only a completed sync shows, and it shows as a whole.
LEMMA ReceiveMaps == ASSUME RtrInv, RtrInv', Receive PROVE [Replica!Next]_Replica!vars
<1>0. inbox # <<>> /\ up /\ Types /\ Forms /\ Held /\ client \in Clients
  BY DEF RtrInv, Types, Receive, RecvHigherVersion, RecvSerialNotify, RecvCacheResponse, RecvPrefix,
         RecvEndOfData, RecvCacheReset, RecvErrorReport, RecvMalformed, HasPdu
<1> DEFINE d == Downgraded
<1>1. d.serial = client.serial /\ d \in Clients
  BY <1>0, DowngradedType
<1>2. ASSUME NEW c, Drop(c), c.serial = client.serial PROVE [Replica!Next]_Replica!vars
  BY <1>2, KeepsReplica DEF Drop
<1>3. ASSUME NEW c, NEW w, Become(c, w), c.serial = client.serial, UNCHANGED <<store, owner, orphaned>>
      PROVE  [Replica!Next]_Replica!vars
  BY <1>3, KeepsReplica DEF Become
<1>4. CASE RecvHigherVersion
  BY <1>2, <1>4 DEF RecvHigherVersion
<1>5. CASE RecvSerialNotify
  <2>1. \A p \in Phases : [client EXCEPT !.phase = p].serial = client.serial
    BY <1>0 DEF Clients
  <2> QED BY <1>3, <1>5, <2>1, Zenon DEF RecvSerialNotify, Phases
<1>6. CASE RecvCacheResponse
  <2> DEFINE ses == Head(inbox).session
  <2>1. \/ Drop(d)
        \/ /\ UNCHANGED <<store, owner, orphaned>>
           /\ \/ Become([d EXCEPT !.session = ses, !.batch = {}, !.phase = "ReceivingPayload"], <<>>)
              \/ Become([d EXCEPT !.session = ses, !.batch = {}, !.phase = "AwaitingReset"], <<ResetQuery(d)>>)
              \/ Become([d EXCEPT !.batch = d.records, !.phase = "ReceivingPayload"], <<>>)
    BY <1>6 DEF RecvCacheResponse
  <2> HIDE DEF d, ses
  <2>2. \A p : [d EXCEPT !.session = ses, !.batch = {}, !.phase = p].serial = client.serial
    BY <1>1 DEF Clients
  <2>3. [d EXCEPT !.batch = d.records, !.phase = "ReceivingPayload"].serial = client.serial
    BY <1>1 DEF Clients
  <2> QED BY <1>1, <1>2, <1>3, <2>1, <2>2, <2>3, Zenon
<1>7. CASE RecvPrefix
  <2> DEFINE c == IF client.phase = "ReceivingPayload"
                  THEN [d EXCEPT !.batch = Applied(@, Head(inbox))] ELSE d
  <2>1. Become(c, <<>>) /\ UNCHANGED <<store, owner, orphaned>>
    BY <1>7 DEF RecvPrefix
  <2> HIDE DEF d
  <2>2. c.serial = client.serial
    BY <1>1 DEF Clients
  <2> HIDE DEF c
  <2> QED BY <1>3, <2>1, <2>2
<1>8. CASE RecvEndOfData
  <2> DEFINE m == Head(inbox)
             c == [d EXCEPT !.records = d.batch, !.batch = {}, !.serial = m.serial,
                            !.phase = "Synced", !.age = 0]
  <2>1. \/ Drop(d)
        \/ d.phase = "ReceivingPayload" /\ Become(c, <<>>) /\ owner' = d.session
    BY <1>8 DEF RecvEndOfData
  <2>2. c.serial = m.serial /\ c.phase = "Synced"
    <3> HIDE DEF d
    <3> QED BY <1>1 DEF Clients
  <2>3. CASE d.phase = "ReceivingPayload" /\ Become(c, <<>>) /\ owner' = d.session
    <3>1. d.phase = client.phase /\ d.session = client.session /\ inbox[1] = m
      BY <1>0, DowngradedType, TailForms
    <3>2. client.session = cache.session /\ Complete(inbox, 1, cache, Low)
      <4>1. m.type = "EndOfData"
        BY <1>8 DEF RecvEndOfData, HasPdu
      <4>2. client.phase = "ReceivingPayload" /\ inbox[1].type = "EndOfData"
        BY <2>3, <3>1, <4>1
      <4> QED BY <1>0, <4>2, Heads DEF EndNow
    <3>3. PICK s \in Int : s = m.serial /\ s >= Low /\ s <= Len(cache.hist) - 1 /\ s >= 0
      <4>1. m.serial \in Low..(Len(cache.hist) - 1) /\ m.serial >= 0
        BY <3>1, <3>2 DEF Complete
      <4>2. Low \in Int /\ Len(cache.hist) - 1 \in Int
        BY <1>0, LowSerial, CurrentVersion
      <4> QED BY <4>1, <4>2
    <3> HIDE DEF d, c, m
    <3>4. /\ client'.serial = s /\ client'.phase = "Synced" /\ owner' = cache'.session
          /\ UNCHANGED <<cache, mixed>>
      BY <2>2, <2>3, <3>1, <3>2, <3>3 DEF Become
    <3>5. HeldVersion' = s + 1 /\ s + 1 >= HeldVersion /\ s + 1 \in 1..Len(cache.hist)
      <4>1. HeldVersion = Low + 1 /\ Low \in Int
        BY <1>0, LowSerial DEF HeldVersion, Low, None
      <4>2. HeldVersion' = s + 1
        BY <3>3, <3>4 DEF HeldVersion, None
      <4>3. Len(cache.hist) \in Int
        BY <1>0, CurrentVersion
      <4> QED BY <3>3, <4>1, <4>2, <4>3
    <3>6. CASE Trusted'
      <4>1. client'.records = cache.hist[s + 1] /\ store' = client'.records
        BY <3>3, <3>4, <3>6 DEF RtrInv, Held, Age, Trusted, None
      <4>2. Trusted' \in {Trusted, TRUE} /\ UNCHANGED cache.hist
        BY <3>4, <3>6 DEF Trusted
      <4> QED BY <3>5, <4>1, <4>2, SyncMaps
    <3>7. CASE ~Trusted'
      BY <3>7, DoubtMaps
    <3> QED BY <3>6, <3>7
  <2> QED BY <1>1, <1>2, <2>1, <2>3
<1>9. CASE RecvCacheReset
  <2> DEFINE c == [d EXCEPT !.phase = "AwaitingReset", !.batch = {}]
  <2>1. Become(c, <<ResetQuery(d)>>) /\ UNCHANGED <<store, owner, orphaned>>
    BY <1>9 DEF RecvCacheReset
  <2>2. c.serial = client.serial
    <3> HIDE DEF d
    <3> QED BY <1>1 DEF Clients
  <2> HIDE DEF c, d
  <2> QED BY <1>3, <2>1, <2>2
<1>10. CASE RecvErrorReport
  BY <1>1, <1>2, <1>10 DEF RecvErrorReport
<1>11. CASE RecvMalformed
  <2>1. client' = NewClient /\ UNCHANGED <<store, cache>> /\ orphaned' = (store # {})
    BY <1>11, Zenon DEF RecvMalformed
  <2>2. CASE Trusted'
    <3>1. store' = {} /\ Trusted' \in {Trusted, TRUE} /\ UNCHANGED cache.hist
      BY <2>1, <2>2 DEF Trusted
    <3>2. HeldVersion' = 0
      BY <2>1 DEF HeldVersion, NewClient
    <3> QED BY <3>1, <3>2, ClearMaps
  <2> QED BY <2>2, DoubtMaps
<1> QED BY <1>4, <1>5, <1>6, <1>7, <1>8, <1>9, <1>10, <1>11 DEF Receive

\* Every step of the client is one of RoaReplica, or none.
LEMMA StepMaps == ASSUME RtrInv, RtrInv', [Next]_vars PROVE [Replica!Next]_Replica!vars
<1>0. client \in Clients /\ owner \in Int /\ cache.session \in Int /\ owner <= cache.session
  BY DEF RtrInv, Types, Caches, OwnerPast
<1>1. CASE Connect
  <2>1. \A p \in Phases : [client EXCEPT !.phase = p].serial = client.serial
    BY <1>0 DEF Clients
  <2>2. client'.serial = client.serial /\ UNCHANGED <<store, cache, owner, orphaned>>
    BY <1>1, <2>1, Zenon DEF Connect, Phases
  <2>3. mixed' = mixed \/ mixed'
    <3>1. mixed' = mixed \/ mixed' = (mixed \/ owner # client.session)
      BY <1>1 DEF Connect
    <3>2. mixed \in BOOLEAN
      BY DEF RtrInv, Types
    <3> QED BY <3>1, <3>2, Zenon
  <2> QED BY <2>2, <2>3, KeepsReplica, DoubtMaps DEF Trusted
<1>2. CASE Answer
  BY <1>2, KeepsReplica DEF Answer
<1>3. CASE Receive
  BY <1>3, ReceiveMaps
<1>4. CASE Tick
  <2>1. CASE ExpireData
    BY <1>4, <2>1, FromScratch, ClearMaps, Zenon DEF Tick, ExpireData
  <2>2. CASE SendRefresh \/ JustAge
    <3>1. Aged.serial = client.serial /\ [Aged EXCEPT !.phase = "AwaitingSerial"].serial = client.serial
      BY <1>0 DEF Aged, Clients
    <3>2. client'.serial = client.serial /\ UNCHANGED <<store, cache, owner, mixed, orphaned>>
      BY <1>4, <2>2, <3>1, Zenon DEF Tick, SendRefresh, JustAge
    <3> QED BY <3>2, KeepsReplica
  <2> QED BY <1>4, <2>1, <2>2 DEF Tick, Poll
<1>5. ASSUME NEW db \in Databases, Publish(db) PROVE [Replica!Next]_Replica!vars
  <2>1. cache.hist' = Append(cache.hist, db) /\ cache'.session = cache.session
    BY <1>5 DEF Publish, RtrInv, Types, Caches
  <2>2. UNCHANGED <<client, owner, mixed, orphaned, store>>
    BY <1>5 DEF Publish
  <2>3. UNCHANGED <<store, HeldVersion, Trusted>>
    BY <2>1, <2>2 DEF HeldVersion, Trusted
  <2> QED BY <2>1, <2>3, PublishMaps, DatabaseAssumption
<1>6. ASSUME NEW db \in Databases, NEW v \in Versions, CacheRestart(db, v) PROVE [Replica!Next]_Replica!vars
  <2>1. /\ cache.hist' = <<db>> /\ cache'.session = cache.session + 1
        /\ UNCHANGED <<client, owner, mixed, orphaned, store>>
    BY <1>6 DEF CacheRestart
  <2>2. HeldVersion' = 0
    BY <1>0, <2>1 DEF HeldVersion
  <2>3. UNCHANGED <<store, Trusted>>
    BY <2>1 DEF Trusted
  <2> QED BY <2>1, <2>2, <2>3, NewCacheMaps, DatabaseAssumption
<1>7. ASSUME NEW db \in Databases, NEW v \in Versions, Repoint(db, v) PROVE [Replica!Next]_Replica!vars
  <2>1. /\ cache.hist' = <<db>> /\ store' = {} /\ client' = NewClient /\ mixed' = FALSE
        /\ orphaned' = FALSE
    BY <1>7 DEF Repoint
  <2>2. HeldVersion' = 0 /\ Trusted' \in {Trusted, TRUE}
    BY <2>1, FromScratch, Zenon
  <2> QED BY <2>1, <2>2, NewCacheMaps, DatabaseAssumption, Zenon
<1>8. CASE SendMalformed
  BY <1>8, KeepsReplica DEF SendMalformed
<1>9. CASE ConnectionLost \/ Reconnect
  BY <1>9, KeepsReplica, Zenon DEF ConnectionLost, Reconnect, EndConnection
<1>10. CASE Shutdown
  BY <1>10, FromScratch, ClearMaps, Zenon DEF Shutdown
<1>11. CASE UNCHANGED vars
  BY <1>11, KeepsReplica DEF vars
<1> QED BY <1>1, <1>2, <1>3, <1>4, <1>5, <1>6, <1>7, <1>8, <1>9, <1>10, <1>11 DEF Next, Environment

\* The client implements the replica (ImplementsReplica): the store the import filters read
\* jumps from one published version to the same or a later one, or is emptied.
THEOREM RtrImplementsReplica == Spec => ImplementsReplica
<1>1. Init => Replica!Init
  <2> SUFFICES ASSUME Init PROVE Replica!Init
    OBVIOUS
  <2>1. PICK db \in Databases : cache.hist = <<db>>
    BY DEF Init
  <2>2. client.serial = None /\ store = {} /\ mixed = FALSE /\ orphaned = FALSE
    BY DEF Init, NewClient
  <2>3. HeldVersion = 0 /\ Trusted = TRUE
    BY <2>2 DEF HeldVersion, Trusted
  <2>4. db \in SUBSET Roa
    BY DatabaseAssumption
  <2> QED BY <2>1, <2>2, <2>3, <2>4, Zenon DEF Replica!Init, HeldVersion, Trusted
<1>2. RtrInv /\ RtrInv' /\ [Next]_vars => [Replica!Next]_Replica!vars
  BY StepMaps
<1> QED BY <1>1, <1>2, RtrInvariant, PTL DEF Spec, ImplementsReplica, Replica!Spec
=============================================================================
