-------------------------- MODULE RtrClientProofs --------------------------
(***************************************************************************)
(* Proofs about the RPKI-RTR client, for every set of records, databases    *)
(* and protocol versions, every interval and any number of restarts, lost   *)
(* connections and undecodable PDUs: completed syncs are exact, expired     *)
(* data is gone, and the client implements RoaReplica.                      *)
(*                                                                          *)
(* The argument is about what the connection still holds.  What has not been*)
(* read is, apart from notifies and undecodable PDUs, nothing, one query,   *)
(* one answer or the rest of one; the rest of an answer leads from the batch*)
(* the client has to the database version its End of Data names.            *)
(***************************************************************************)
EXTENDS RtrClient, TLAPS

PduTypes == {"CacheResponse", "Prefix", "EndOfData", "SerialNotify", "CacheReset",
             "ErrorReport", "Malformed"}
Pdus == [type: PduTypes, version: Versions, session: Int, serial: Int, announce: BOOLEAN,
         roas: SUBSET Roa]
Queries == [type: {"ResetQuery", "SerialQuery"}, version: Versions, session: Int, serial: Int]
Clients == [version: Versions, session: Int, serial: Int, phase: Phases,
            records: SUBSET Roa, batch: SUBSET Roa, age: Int]
Caches == [session: Int, hist: Seq(Databases), version: Versions]

Types ==
    /\ client \in Clients
    /\ inbox \in Seq(Pdus)
    /\ query \in Seq(Queries)
    /\ store \in SUBSET Roa
    /\ cache \in Caches /\ Len(cache.hist) >= 1
    /\ owner \in Int
    /\ mixed \in BOOLEAN /\ orphaned \in BOOLEAN /\ up \in BOOLEAN

---------------------------------------------------------------------------
(* What is left of an answer in the sequence s. *)

Chatter(s, a, b) == \A j \in a..b : s[j].type \in {"SerialNotify", "Malformed"}
Payload(s, a, b) == \A j \in a..b : s[j].type = "Prefix"

Changed(s, i, announce) ==
    {x \in Roa : \E j \in 1..(i - 1) : /\ s[j].type = "Prefix" /\ s[j].announce = announce
                                       /\ x \in s[j].roas}

\* The batch at s[i] when it is base now.
Leads(s, i, base) == (base \ Changed(s, i, FALSE)) \cup Changed(s, i, TRUE)

\* s[i] is the End of Data of an answer of the cache c, for a version not before low.
Complete(s, i, c, low) ==
    /\ i \in 1..Len(s)
    /\ s[i].type = "EndOfData" /\ s[i].session = c.session
    /\ s[i].serial \in low..(Len(c.hist) - 1) /\ s[i].serial >= 0
    /\ Changed(s, i, FALSE) \cap Changed(s, i, TRUE) = {}
    /\ Chatter(s, i + 1, Len(s))

Yields(s, i, c, base) == Leads(s, i, base) = c.hist[s[i].serial + 1]

---------------------------------------------------------------------------
(* The inductive invariant. *)

\* The serial of the version the client holds of the present cache.
Low == IF client.serial # None /\ owner = cache.session THEN client.serial ELSE None

SyncedForm ==
    client.phase = "Synced" /\ query = <<>> /\ Chatter(inbox, 1, Len(inbox))

PayloadForm ==
    /\ client.phase = "ReceivingPayload" /\ query = <<>> /\ client.session = cache.session
    /\ \E i \in 1..Len(inbox) : /\ Complete(inbox, i, cache, Low)
                                /\ Payload(inbox, 1, i - 1)
                                /\ ~mixed => Yields(inbox, i, cache, client.batch)

\* What RecvCacheResponse will make of it.
AnswerBase(c, ca) ==
    IF c.phase = "AwaitingReset" THEN {{}} ELSE IF c.session = ca.session THEN {c.records} ELSE {}

AnswerAt(s, k, i, c, ca, low, doubt) ==
    /\ k \in 1..(i - 1)
    /\ Chatter(s, 1, k - 1)
    /\ s[k].type = "CacheResponse" /\ s[k].session = ca.session
    /\ Payload(s, k + 1, i - 1)
    /\ Complete(s, i, ca, low)
    /\ ~doubt => \A base \in AnswerBase(c, ca) : Yields(s, i, ca, base)

Awaiting == client.phase \in {"AwaitingReset", "AwaitingSerial"}

AnswerForm ==
    /\ Awaiting /\ query = <<>>
    /\ \E k, i \in 1..Len(inbox) : AnswerAt(inbox, k, i, client, cache, Low, mixed)

RefusalForm ==
    /\ Awaiting /\ query = <<>>
    /\ \E k \in 1..Len(inbox) : /\ inbox[k].type \in {"CacheReset", "ErrorReport"}
                                /\ Chatter(inbox, 1, k - 1)
                                /\ Chatter(inbox, k + 1, Len(inbox))

QueryForm ==
    /\ Chatter(inbox, 1, Len(inbox))
    /\ Len(query) = 1
    /\ \/ client.phase = "AwaitingReset" /\ query[1].type = "ResetQuery"
       \/ /\ client.phase = "AwaitingSerial" /\ query[1].type = "SerialQuery"
          /\ query[1].session = client.session /\ query[1].serial = client.serial
          /\ client.serial # None
          /\ ~mixed => owner = client.session

\* The rest of an answer the client has turned down; its End of Data ends the connection.
StaleForm ==
    /\ client.phase = "AwaitingReset"
    /\ \E i \in 1..Len(inbox) : inbox[i].type = "EndOfData" /\ Payload(inbox, 1, i - 1)

Forms == up => SyncedForm \/ PayloadForm \/ AnswerForm \/ RefusalForm \/ QueryForm \/ StaleForm

\* The client's records are the version its serial names, if it is of the present cache.
Held ==
    client.serial # None /\ owner = cache.session
        => /\ client.serial \in 0..(Len(cache.hist) - 1)
           /\ ~mixed => client.records = cache.hist[client.serial + 1]

SyncedOwner == client.phase = "Synced" => client.serial # None /\ owner = client.session

Age ==
    /\ client.age \in -1..(Expire - 1)
    /\ client.records # {} => client.age # None
    /\ ~orphaned => store = client.records

OwnerPast == owner <= cache.session

RtrInv == Types /\ Forms /\ Held /\ OwnerPast /\ SyncedOwner /\ Age

---------------------------------------------------------------------------
(* Sequences. *)

\* The empty sequence is the one of length 0.
LEMMA EmptySequence ==
    ASSUME NEW S
    PROVE  <<>> \in Seq(S) /\ \A s \in Seq(S) : Len(s) = 0 <=> s = <<>>
OBVIOUS

\* Lengths and elements have their types.
LEMMA Lengths ==
    ASSUME NEW S, NEW s \in Seq(S)
    PROVE  Len(s) \in Nat /\ \A j \in 1..Len(s) : s[j] \in S
OBVIOUS

\* Head is the first element, Tail has the others.
LEMMA HeadAndTail ==
    ASSUME NEW S, NEW s \in Seq(S), s # <<>>
    PROVE  /\ Head(s) = s[1] /\ s[1] \in S /\ Len(s) \in Nat \ {0}
           /\ Tail(s) \in Seq(S) /\ Len(Tail(s)) = Len(s) - 1
           /\ \A j \in 1..(Len(s) - 1) : Tail(s)[j] = s[j + 1]
OBVIOUS

\* What is concatenated comes after what was there.
LEMMA Concatenation ==
    ASSUME NEW S, NEW s \in Seq(S), NEW t \in Seq(S)
    PROVE  /\ s \o t \in Seq(S) /\ Len(s \o t) = Len(s) + Len(t)
           /\ Len(s) \in Nat /\ Len(t) \in Nat
           /\ \A j \in 1..Len(s) : (s \o t)[j] = s[j]
           /\ \A j \in 1..Len(t) : (s \o t)[Len(s) + j] = t[j]
OBVIOUS

\* Nothing changes when nothing is added.
LEMMA ConcatNothing ==
    ASSUME NEW S, NEW s \in Seq(S)
    PROVE  s \o <<>> = s /\ <<>> \o s = s
OBVIOUS

\* Append adds one element at the end.
LEMMA Appended ==
    ASSUME NEW S, NEW s \in Seq(S), NEW e \in S
    PROVE  /\ Append(s, e) \in Seq(S) /\ Append(s, e) = s \o <<e>>
           /\ Len(Append(s, e)) = Len(s) + 1 /\ Len(s) \in Nat
           /\ \A j \in 1..Len(s) : Append(s, e)[j] = s[j]
           /\ Append(s, e)[Len(s) + 1] = e
OBVIOUS

---------------------------------------------------------------------------
(* Sequences of PDUs. *)

\* After the first PDU is read the others are one place nearer.
LEMMA TailAt ==
    ASSUME NEW s \in Seq(Pdus), s # <<>>
    PROVE  /\ Tail(s) \in Seq(Pdus) /\ Len(Tail(s)) = Len(s) - 1 /\ Len(s) \in Nat \ {0}
           /\ Head(s) = s[1] /\ s[1] \in Pdus
           /\ \A j \in 1..(Len(s) - 1) : Tail(s)[j] = s[j + 1]
BY HeadAndTail, Lengths

\* What is appended comes after what was there.
LEMMA ConcatAt ==
    ASSUME NEW s \in Seq(Pdus), NEW t \in Seq(Pdus)
    PROVE  /\ s \o t \in Seq(Pdus) /\ Len(s \o t) = Len(s) + Len(t)
           /\ Len(s) \in Nat /\ Len(t) \in Nat
           /\ \A j \in 1..Len(s) : (s \o t)[j] = s[j]
           /\ \A j \in 1..Len(t) : (s \o t)[Len(s) + j] = t[j]
BY Concatenation, Lengths

\* Reading a PDU of an answer keeps what the rest of it leads to.
LEMMA TailComplete ==
    ASSUME NEW s \in Seq(Pdus), s # <<>>, NEW i \in Int, i > 1, NEW c \in Caches, NEW low \in Int,
           Complete(s, i, c, low)
    PROVE  /\ Complete(Tail(s), i - 1, c, low)
           /\ Tail(s)[i - 1] = s[i]
           /\ \A b \in SUBSET Roa :
                Leads(Tail(s), i - 1, IF s[1].type = "Prefix" THEN Applied(b, s[1]) ELSE b)
                    = Leads(s, i, b)
<1> DEFINE t == Tail(s)
<1>1. /\ Len(t) = Len(s) - 1 /\ Len(s) \in Nat /\ s[1] \in Pdus
      /\ \A j \in 1..(Len(s) - 1) : t[j] = s[j + 1]
  BY TailAt
<1>2. i \in 2..Len(s)
  BY DEF Complete
<1> HIDE DEF t
<1>3. t[i - 1] = s[i]
  BY <1>1, <1>2
<1>4. ASSUME NEW a \in BOOLEAN
      PROVE  Changed(s, i, a) = Changed(t, i - 1, a) \cup
                {x \in Roa : s[1].type = "Prefix" /\ s[1].announce = a /\ x \in s[1].roas}
  <2>1. ASSUME NEW x \in Changed(s, i, a)
        PROVE  \/ x \in Changed(t, i - 1, a)
               \/ s[1].type = "Prefix" /\ s[1].announce = a /\ x \in s[1].roas
    <3>1. PICK j \in 1..(i - 1) : s[j].type = "Prefix" /\ s[j].announce = a /\ x \in s[j].roas
      BY DEF Changed
    <3>2. CASE j > 1
      <4>1. j - 1 \in 1..((i - 1) - 1) /\ t[j - 1] = s[j]
        BY <1>1, <1>2, <3>2
      <4>2. x \in Roa
        BY DEF Changed
      <4> QED BY <3>1, <4>1, <4>2 DEF Changed
    <3> QED BY <3>1, <3>2
  <2>2. ASSUME NEW x \in Changed(t, i - 1, a) PROVE x \in Changed(s, i, a)
    <3>1. PICK j \in 1..((i - 1) - 1) : t[j].type = "Prefix" /\ t[j].announce = a /\ x \in t[j].roas
      BY DEF Changed
    <3>2. j + 1 \in 1..(i - 1) /\ t[j] = s[j + 1]
      BY <1>1, <1>2
    <3>3. x \in Roa
      BY DEF Changed
    <3> QED BY <3>1, <3>2, <3>3 DEF Changed
  <2>3. ASSUME NEW x \in Roa, s[1].type = "Prefix", s[1].announce = a, x \in s[1].roas
        PROVE  x \in Changed(s, i, a)
    BY <1>2, <2>3 DEF Changed
  <2>4. Changed(s, i, a) \subseteq Roa
    BY DEF Changed
  <2> QED BY <2>1, <2>2, <2>3, <2>4
<1>5. Changed(s, i, FALSE) \cap Changed(s, i, TRUE) = {}
  BY Zenon DEF Complete
<1>6. Complete(t, i - 1, c, low)
  <2>1. Chatter(t, i, Len(t))
    BY <1>1, <1>2 DEF Complete, Chatter
  <2>2. Changed(t, i - 1, FALSE) \cap Changed(t, i - 1, TRUE) = {}
    BY <1>4, <1>5, Zenon
  <2>3. (i - 1) + 1 = i /\ i - 1 \in 1..Len(t)
    BY <1>1, <1>2
  <2> QED BY <1>3, <2>1, <2>2, <2>3, Zenon DEF Complete
<1>7. ASSUME NEW b \in SUBSET Roa
      PROVE  Leads(t, i - 1, IF s[1].type = "Prefix" THEN Applied(b, s[1]) ELSE b) = Leads(s, i, b)
  <2>1. s[1].announce \in BOOLEAN /\ s[1].roas \subseteq Roa
    BY <1>1 DEF Pdus
  <2>2. CASE s[1].type = "Prefix" /\ s[1].announce
    <3>1. Changed(s, i, FALSE) = Changed(t, i - 1, FALSE)
      BY <1>4, <2>2, Zenon
    <3>2. Changed(s, i, TRUE) = Changed(t, i - 1, TRUE) \cup s[1].roas
      BY <1>4, <2>1, <2>2, Zenon
    <3> QED BY <1>5, <2>2, <3>1, <3>2, Zenon DEF Leads, Applied
  <2>3. CASE s[1].type = "Prefix" /\ ~s[1].announce
    <3>1. Changed(s, i, TRUE) = Changed(t, i - 1, TRUE)
      BY <1>4, <2>1, <2>3, Zenon
    <3>2. Changed(s, i, FALSE) = Changed(t, i - 1, FALSE) \cup s[1].roas
      BY <1>4, <2>1, <2>3, Zenon
    <3> QED BY <2>3, <3>1, <3>2, Zenon DEF Leads, Applied
  <2>4. CASE s[1].type # "Prefix"
    <3>1. Changed(s, i, TRUE) = Changed(t, i - 1, TRUE) /\ Changed(s, i, FALSE) = Changed(t, i - 1, FALSE)
      BY <1>4, <2>4, Zenon
    <3> QED BY <2>4, <3>1, Zenon DEF Leads
  <2> QED BY <2>1, <2>2, <2>3, <2>4
<1> QED BY <1>3, <1>6, <1>7, Zenon DEF t

\* What comes after an answer does not change what it leads to.
LEMMA ConcatComplete ==
    ASSUME NEW s \in Seq(Pdus), NEW t \in Seq(Pdus), NEW i \in Int, NEW c \in Caches,
           NEW low \in Int, Complete(s, i, c, low), Chatter(t, 1, Len(t))
    PROVE  /\ Complete(s \o t, i, c, low)
           /\ (s \o t)[i] = s[i]
           /\ \A b : Leads(s \o t, i, b) = Leads(s, i, b)
<1> DEFINE u == s \o t
<1>1. /\ Len(u) = Len(s) + Len(t) /\ Len(s) \in Nat /\ Len(t) \in Nat
      /\ \A j \in 1..Len(s) : u[j] = s[j]
      /\ \A j \in 1..Len(t) : u[Len(s) + j] = t[j]
  BY ConcatAt
<1> HIDE DEF u
<1>2. i \in 1..Len(s)
  BY DEF Complete
<1>3. u[i] = s[i]
  BY <1>1, <1>2
<1>4. Changed(u, i, TRUE) = Changed(s, i, TRUE) /\ Changed(u, i, FALSE) = Changed(s, i, FALSE)
  <2>1. \A j \in 1..(i - 1) : u[j] = s[j]
    BY <1>1, <1>2
  <2> QED BY <2>1 DEF Changed
<1>5. Chatter(u, i + 1, Len(u))
  <2> SUFFICES ASSUME NEW j \in (i + 1)..Len(u) PROVE u[j].type \in {"SerialNotify", "Malformed"}
    BY DEF Chatter
  <2>1. CASE j <= Len(s)
    BY <1>1, <1>2, <2>1 DEF Complete, Chatter
  <2>2. CASE j > Len(s)
    <3>1. j - Len(s) \in 1..Len(t) /\ Len(s) + (j - Len(s)) = j
      BY <1>1, <1>2, <2>2
    <3> QED BY <1>1, <3>1, Zenon DEF Chatter
  <2> QED BY <1>1, <1>2, <2>1, <2>2
<1>6. Complete(u, i, c, low)
  <2>1. i \in 1..Len(u)
    BY <1>1, <1>2
  <2> QED BY <1>3, <1>4, <1>5, <2>1, Zenon DEF Complete
<1>7. \A b : Leads(u, i, b) = Leads(s, i, b)
  BY <1>4, Zenon DEF Leads
<1> QED BY <1>3, <1>6, <1>7 DEF u

---------------------------------------------------------------------------
(* The answers of the cache. *)

\* The PDUs of a set of records announce, or withdraw, each of them.
IsPrefixes(P, a, S) ==
    /\ P \in Seq(Pdus)
    /\ \A j \in 1..Len(P) : P[j].type = "Prefix" /\ P[j].announce = a /\ P[j].roas \subseteq S
    /\ \A x \in S : \E j \in 1..Len(P) : x \in P[j].roas

\* What the cache sends for a set of records are the PDUs of that set.
LEMMA PrefixPdusAt ==
    ASSUME NEW S \in SUBSET Roa, NEW v \in Versions, NEW a \in BOOLEAN, NEW P \in PrefixPdus(v, a, S)
    PROVE  IsPrefixes(P, a, S)
<1>1. PICK f \in Orders(S) : P = [j \in DOMAIN f |-> Pdu("Prefix", v, None, None, a, {f[j]})]
  BY DEF PrefixPdus
<1>2. PICK n \in Nat : f \in Surjection(1..n, S)
  BY DEF Orders
<1>3. DOMAIN f = 1..n /\ (\A j \in 1..n : f[j] \in S) /\ \A x \in S : \E j \in 1..n : f[j] = x
  BY <1>2 DEF Surjection
<1>4. \A j \in 1..n : P[j] = Pdu("Prefix", v, None, None, a, {f[j]})
  BY <1>1, <1>3
<1>5. \A j \in 1..n : /\ P[j] \in Pdus
                      /\ P[j].type = "Prefix" /\ P[j].announce = a /\ P[j].roas = {f[j]}
  <2> TAKE j \in 1..n
  <2>1. {f[j]} \in SUBSET Roa /\ P[j] = Pdu("Prefix", v, None, None, a, {f[j]})
    BY <1>3, <1>4
  <2> DEFINE R == {f[j]}
  <2> HIDE DEF R
  <2>2. P[j] = Pdu("Prefix", v, None, None, a, R) /\ R \in SUBSET Roa
    BY <2>1 DEF R
  <2>3. P[j] \in Pdus /\ P[j].type = "Prefix" /\ P[j].announce = a /\ P[j].roas = R
    BY <2>2 DEF Pdu, Pdus, PduTypes, None
  <2> QED BY <2>3 DEF R
<1>6. P \in Seq(Pdus) /\ Len(P) = n
  <2>1. DOMAIN P = 1..n /\ P = [j \in 1..n |-> P[j]]
    BY <1>1, <1>3
  <2> QED BY <1>5, <2>1
<1> QED BY <1>3, <1>5, <1>6 DEF IsPrefixes

\* Every database version is a set of records.
LEMMA VersionsTyped ==
    ASSUME Types, NEW k \in 1..Len(cache.hist)
    PROVE  cache.hist[k] \in SUBSET Roa
BY DatabaseAssumption, Lengths DEF Types, Caches

\* The number and the contents of the current version.
LEMMA CurrentVersion ==
    ASSUME Types
    PROVE  /\ Serial \in Nat /\ Len(cache.hist) = Serial + 1
           /\ Database \in SUBSET Roa
<1>1. Len(cache.hist) \in Nat /\ Len(cache.hist) >= 1
  BY Lengths DEF Types, Caches
<1>2. Serial \in Nat /\ Len(cache.hist) = Serial + 1 /\ Serial + 1 \in 1..Len(cache.hist)
  BY <1>1 DEF Serial
<1> QED BY <1>2, VersionsTyped DEF Database

\* An answer with payload: Cache Response, the n changes from old to db, End of Data.
IsBatch(B, n, c, ser, old, db) ==
    /\ B \in Seq(Pdus) /\ Len(B) = n + 2
    /\ B[1].type = "CacheResponse" /\ B[1].session = c.session
    /\ B[n + 2].type = "EndOfData" /\ B[n + 2].session = c.session /\ B[n + 2].serial = ser
    /\ \A j \in 2..(n + 1) : /\ B[j].type = "Prefix" /\ B[j].announce \in BOOLEAN
                             /\ B[j].roas \subseteq IF B[j].announce THEN db \ old ELSE old \ db
    /\ \A x \in db \ old : \E j \in 2..(n + 1) : B[j].announce = TRUE /\ x \in B[j].roas
    /\ \A x \in old \ db : \E j \in 2..(n + 1) : B[j].announce = FALSE /\ x \in B[j].roas

\* What the cache answers with is a batch from the old database to the current one.
LEMMA BatchAt ==
    ASSUME Types, NEW v \in Versions, NEW old \in SUBSET Roa, NEW B \in Batches(v, old)
    PROVE  \E n \in Nat : IsBatch(B, n, cache, Serial, old, Database)
<1> DEFINE A == <<Pdu("CacheResponse", v, cache.session, None, FALSE, {})>>
           gone == old \ Database
           new == Database \ old
           Z == <<Pdu("EndOfData", v, cache.session, Serial, FALSE, {})>>
<1>1. Serial \in Nat /\ Database \in SUBSET Roa /\ cache.session \in Int
  BY CurrentVersion DEF Types, Caches
<1>2. gone \in SUBSET Roa /\ new \in SUBSET Roa
  BY <1>1
<1>5. /\ A \in Seq(Pdus) /\ Len(A) = 1 /\ A[1].type = "CacheResponse" /\ A[1].session = cache.session
  BY <1>1 DEF Pdu, Pdus, PduTypes, None
<1>6. /\ Z \in Seq(Pdus) /\ Len(Z) = 1 /\ Z[1].type = "EndOfData" /\ Z[1].session = cache.session
      /\ Z[1].serial = Serial
  BY <1>1 DEF Pdu, Pdus, PduTypes, None
<1>7. PICK W \in PrefixPdus(v, FALSE, gone), P \in PrefixPdus(v, TRUE, new) : B = A \o W \o P \o Z
  <2> DEFINE Ws == PrefixPdus(v, FALSE, gone)
             Ps == PrefixPdus(v, TRUE, new)
  <2>1. Batches(v, old) = {A \o W \o P \o Z : W \in Ws, P \in Ps}
    BY DEF Batches
  <2> HIDE DEF A, Z, Ws, Ps
  <2>2. \E W \in Ws, P \in Ps : B = A \o W \o P \o Z
    BY <2>1
  <2> QED BY <2>2, Zenon DEF Ws, Ps
<1> HIDE DEF gone, new
<1>3. IsPrefixes(W, FALSE, gone)
  BY <1>2, <1>7, PrefixPdusAt, Zenon
<1>4. IsPrefixes(P, TRUE, new)
  BY <1>2, <1>7, PrefixPdusAt, Zenon
<1> DEFINE AW == A \o W
           AWP == AW \o P
<1>b. B = AWP \o Z
  BY <1>7
<1> HIDE DEF A, Z
<1>w. PICK w \in Nat : w = Len(W)
  BY <1>3, Lengths DEF IsPrefixes
<1>p. PICK p \in Nat : p = Len(P)
  BY <1>4, Lengths DEF IsPrefixes
<1>8. /\ AW \in Seq(Pdus) /\ Len(AW) = 1 + w
      /\ AW[1] = A[1] /\ \A j \in 1..w : AW[1 + j] = W[j]
  <2>1. /\ AW \in Seq(Pdus) /\ Len(AW) = Len(A) + Len(W)
        /\ \A j \in 1..Len(A) : AW[j] = A[j]
        /\ \A j \in 1..Len(W) : AW[Len(A) + j] = W[j]
    BY <1>3, <1>5, ConcatAt, Zenon DEF IsPrefixes
  <2> HIDE DEF AW
  <2> QED BY <1>5, <1>w, <2>1
<1> HIDE DEF AW
<1>9. /\ AWP \in Seq(Pdus) /\ Len(AWP) = 1 + w + p
      /\ AWP[1] = A[1] /\ \A j \in 1..w : AWP[1 + j] = W[j]
      /\ \A j \in 1..p : AWP[1 + w + j] = P[j]
  <2>1. /\ AWP \in Seq(Pdus) /\ Len(AWP) = Len(AW) + Len(P)
        /\ \A j \in 1..Len(AW) : AWP[j] = AW[j]
        /\ \A j \in 1..Len(P) : AWP[Len(AW) + j] = P[j]
    <3>1. AW \in Seq(Pdus) /\ P \in Seq(Pdus)
      BY <1>4, <1>8, Zenon DEF IsPrefixes
    <3> QED BY <3>1, ConcatAt, Zenon
  <2> HIDE DEF AWP
  <2>2. Len(AWP) = 1 + w + p /\ AWP[1] = AW[1]
    BY <1>8, <1>p, <2>1
  <2>3. \A j \in 1..p : AWP[1 + w + j] = P[j]
    BY <1>8, <1>p, <2>1
  <2>4. ASSUME NEW j \in 1..w PROVE AWP[1 + j] = W[j]
    <3>1. 1 + j \in 1..(1 + w) /\ 1..Len(AW) = 1..(1 + w)
      BY <1>8
    <3> QED BY <1>8, <2>1, <3>1, Zenon
  <2> QED BY <1>8, <2>1, <2>2, <2>3, <2>4, Zenon
<1> HIDE DEF AWP
<1>10. /\ B \in Seq(Pdus) /\ Len(B) = (w + p) + 2
       /\ B[1] = A[1] /\ B[(w + p) + 2] = Z[1]
       /\ \A j \in 1..w : B[1 + j] = W[j]
       /\ \A j \in 1..p : B[1 + w + j] = P[j]
  <2>1. /\ B \in Seq(Pdus) /\ Len(B) = Len(AWP) + Len(Z)
        /\ \A j \in 1..Len(AWP) : B[j] = AWP[j]
        /\ \A j \in 1..Len(Z) : B[Len(AWP) + j] = Z[j]
    <3>1. AWP \in Seq(Pdus) /\ Z \in Seq(Pdus)
      BY <1>6, <1>9
    <3> QED BY <1>b, <3>1, ConcatAt, Zenon
  <2>2. B[Len(AWP) + 1] = Z[1] /\ Len(AWP) + 1 = (w + p) + 2
    BY <1>6, <1>9, <2>1
  <2>3. \A j \in 1..(1 + w + p) : B[j] = AWP[j]
    BY <1>9, <2>1
  <2> QED BY <1>6, <1>9, <2>1, <2>2, <2>3
<1>11. ASSUME NEW j \in 2..((w + p) + 1)
       PROVE  \/ j - 1 \in 1..w /\ B[j] = W[j - 1]
              \/ j - 1 - w \in 1..p /\ B[j] = P[j - 1 - w]
  <2>1. CASE j - 1 <= w
    <3>1. j - 1 \in 1..w /\ 1 + (j - 1) = j
      BY <2>1
    <3> QED BY <1>10, <3>1
  <2>2. CASE j - 1 > w
    <3>1. j - 1 - w \in 1..p /\ 1 + w + (j - 1 - w) = j
      BY <2>2
    <3> QED BY <1>10, <3>1
  <2> QED BY <2>1, <2>2
<1>12. \A j \in 2..((w + p) + 1) : /\ B[j].type = "Prefix" /\ B[j].announce \in BOOLEAN
                                   /\ B[j].roas \subseteq IF B[j].announce THEN new ELSE gone
  <2> TAKE j \in 2..((w + p) + 1)
  <2>1. CASE j - 1 \in 1..w /\ B[j] = W[j - 1]
    BY <1>3, <1>w, <2>1, Zenon DEF IsPrefixes
  <2>2. CASE j - 1 - w \in 1..p /\ B[j] = P[j - 1 - w]
    BY <1>4, <1>p, <2>2, Zenon DEF IsPrefixes
  <2> QED BY <1>11, <2>1, <2>2
<1>13. ASSUME NEW x \in new
       PROVE  \E j \in 2..((w + p) + 1) : B[j].announce = TRUE /\ x \in B[j].roas
  <2>1. PICK j \in 1..p : x \in P[j].roas
    BY <1>4, <1>p DEF IsPrefixes
  <2>2. 1 + w + j \in 2..((w + p) + 1) /\ B[1 + w + j] = P[j]
    BY <1>10
  <2> QED BY <1>4, <1>p, <2>1, <2>2 DEF IsPrefixes
<1>14. ASSUME NEW x \in gone
       PROVE  \E j \in 2..((w + p) + 1) : B[j].announce = FALSE /\ x \in B[j].roas
  <2>1. PICK j \in 1..w : x \in W[j].roas
    BY <1>3, <1>w DEF IsPrefixes
  <2>2. 1 + j \in 2..((w + p) + 1) /\ B[1 + j] = W[j]
    BY <1>10
  <2> QED BY <1>3, <1>w, <2>1, <2>2 DEF IsPrefixes
<1>15. IsBatch(B, w + p, cache, Serial, old, Database)
  BY <1>5, <1>6, <1>10, <1>12, <1>13, <1>14, Zenon DEF IsBatch, gone, new
<1> QED BY <1>15

\* An answer that arrives on a connection with nothing but chatter leads from old to the
\* current database.
LEMMA AnswerArrives ==
    ASSUME Types, NEW s \in Seq(Pdus), Chatter(s, 1, Len(s)), NEW v \in Versions,
           NEW old \in SUBSET Roa, NEW B \in Batches(v, old), NEW low \in Int, low <= Serial
    PROVE  \E k, i \in 1..Len(s \o B) :
            /\ k \in 1..(i - 1)
            /\ Chatter(s \o B, 1, k - 1)
            /\ (s \o B)[k].type = "CacheResponse"
            /\ (s \o B)[k].session = cache.session
            /\ Payload(s \o B, k + 1, i - 1)
            /\ Complete(s \o B, i, cache, low)
            /\ Yields(s \o B, i, cache, old)
<1> DEFINE u == s \o B
<1>1. PICK n \in Nat : IsBatch(B, n, cache, Serial, old, Database)
  BY BatchAt
<1>2. /\ Serial \in Nat /\ Len(cache.hist) = Serial + 1 /\ Database \in SUBSET Roa
      /\ Database = cache.hist[Serial + 1]
  BY CurrentVersion DEF Database
<1>3. PICK l \in Nat : l = Len(s)
  BY Lengths
<1>4. /\ u \in Seq(Pdus) /\ Len(u) = l + n + 2
      /\ \A j \in 1..l : u[j] = s[j]
      /\ \A j \in 1..(n + 2) : u[l + j] = B[j]
  <2>1. B \in Seq(Pdus) /\ Len(B) = n + 2
    BY <1>1 DEF IsBatch
  <2>2. Len(u) = Len(s) + Len(B) /\ u \in Seq(Pdus)
        /\ (\A j \in 1..Len(s) : u[j] = s[j]) /\ \A j \in 1..Len(B) : u[Len(s) + j] = B[j]
    BY <2>1, ConcatAt, Zenon
  <2> HIDE DEF u
  <2> QED BY <1>3, <2>1, <2>2
<1> HIDE DEF u
<1> DEFINE k == l + 1
           i == l + n + 2
<1>5. Chatter(u, 1, k - 1)
  BY <1>3, <1>4 DEF Chatter
<1>6. u[k] = B[1] /\ u[i] = B[n + 2]
  <2>1. 1 \in 1..(n + 2) /\ n + 2 \in 1..(n + 2) /\ l + (n + 2) = i
    OBVIOUS
  <2> QED BY <1>4, <2>1
<1>7. ASSUME NEW j \in (k + 1)..(i - 1) PROVE j - l \in 2..(n + 1) /\ u[j] = B[j - l]
  <2>1. PICK m \in 2..(n + 1) : m = j - l /\ j = l + m
    OBVIOUS
  <2>2. u[l + m] = B[m]
    BY <1>4
  <2> QED BY <2>1, <2>2, Zenon
<1>8. Payload(u, k + 1, i - 1)
  BY <1>1, <1>7 DEF Payload, IsBatch
<1>9. Changed(u, i, TRUE) = Database \ old /\ Changed(u, i, FALSE) = old \ Database
  <2>1. ASSUME NEW j \in 1..(i - 1), u[j].type = "Prefix"
        PROVE  j - l \in 2..(n + 1) /\ u[j] = B[j - l]
    <3>1. j # k
      BY <1>1, <1>6, <2>1 DEF IsBatch
    <3>2. ~(j \in 1..(k - 1))
      BY <1>5, <2>1 DEF Chatter
    <3>3. j \in (k + 1)..(i - 1)
      BY <3>1, <3>2
    <3> QED BY <1>7, <3>3
  <2>2. ASSUME NEW j \in 2..(n + 1) PROVE l + j \in 1..(i - 1) /\ u[l + j] = B[j] /\ B[j].type = "Prefix"
    <3>1. l + j \in 1..(i - 1) /\ j \in 1..(n + 2)
      OBVIOUS
    <3>2. B[j].type = "Prefix"
      BY <1>1 DEF IsBatch
    <3> QED BY <1>4, <3>1, <3>2
  <2>3. ASSUME NEW x \in Changed(u, i, TRUE) PROVE x \in Database \ old
    <3>1. PICK j \in 1..(i - 1) : u[j].type = "Prefix" /\ u[j].announce = TRUE /\ x \in u[j].roas
      BY DEF Changed
    <3> HIDE DEF i, k
    <3>2. PICK m \in 2..(n + 1) : m = j - l /\ u[j] = B[m]
      BY <2>1, <3>1
    <3>3. B[m].roas \subseteq Database \ old
      BY <1>1, <3>1, <3>2 DEF IsBatch
    <3> QED BY <3>1, <3>2, <3>3, Zenon
  <2>4. ASSUME NEW x \in Changed(u, i, FALSE) PROVE x \in old \ Database
    <3>1. PICK j \in 1..(i - 1) : u[j].type = "Prefix" /\ u[j].announce = FALSE /\ x \in u[j].roas
      BY DEF Changed
    <3> HIDE DEF i, k
    <3>2. PICK m \in 2..(n + 1) : m = j - l /\ u[j] = B[m]
      BY <2>1, <3>1
    <3>3. B[m].roas \subseteq old \ Database
      BY <1>1, <3>1, <3>2 DEF IsBatch
    <3> QED BY <3>1, <3>2, <3>3, Zenon
  <2>5. ASSUME NEW x \in Database \ old PROVE x \in Changed(u, i, TRUE)
    <3>1. PICK j \in 2..(n + 1) : B[j].announce = TRUE /\ x \in B[j].roas
      BY <1>1 DEF IsBatch
    <3>2. x \in Roa
      BY <1>2
    <3> HIDE DEF i, k
    <3> QED BY <2>2, <3>1, <3>2 DEF Changed
  <2>6. ASSUME NEW x \in old \ Database PROVE x \in Changed(u, i, FALSE)
    <3>1. PICK j \in 2..(n + 1) : B[j].announce = FALSE /\ x \in B[j].roas
      BY <1>1 DEF IsBatch
    <3> HIDE DEF i, k
    <3> QED BY <2>2, <3>1 DEF Changed
  <2> QED BY <2>3, <2>4, <2>5, <2>6, Zenon
<1>10. u[k].type = "CacheResponse" /\ u[k].session = cache.session
       /\ u[i].type = "EndOfData" /\ u[i].session = cache.session /\ u[i].serial = Serial
  BY <1>1, <1>6 DEF IsBatch
<1>11. Complete(u, i, cache, low)
  <2>1. Chatter(u, i + 1, Len(u)) /\ i \in 1..Len(u)
    BY <1>4 DEF Chatter
  <2>2. Serial \in low..(Len(cache.hist) - 1) /\ Serial >= 0
    BY <1>2
  <2> HIDE DEF i, k
  <2> QED BY <1>9, <1>10, <2>1, <2>2, Zenon DEF Complete
<1>12. Yields(u, i, cache, old)
  <2> HIDE DEF i, k
  <2>1. Leads(u, i, old) = Database
    BY <1>9, Zenon DEF Leads
  <2> QED BY <1>2, <1>10, <2>1 DEF Yields
<1>13. k \in 1..(i - 1) /\ k \in 1..Len(u) /\ i \in 1..Len(u)
  BY <1>4
<1> HIDE DEF i, k
<1> QED BY <1>5, <1>8, <1>10, <1>11, <1>12, <1>13 DEF u

---------------------------------------------------------------------------
(* Types. *)

\* A new client is a client.
LEMMA NewClientType == NewClient \in Clients
<1>1. MaxVersion \in Versions
  BY VersionAssumption, Zenon DEF MaxVersion
<1> QED BY <1>1 DEF NewClient, Clients, Phases, None

\* Both queries of a client are queries.
LEMMA QueryTypes ==
    ASSUME NEW c \in Clients
    PROVE  ResetQuery(c) \in Queries /\ SerialQuery(c) \in Queries
BY DEF ResetQuery, SerialQuery, Queries, Clients, None

\* Taking over the version of a PDU changes nothing else of a client.
LEMMA DowngradedType ==
    ASSUME Types, inbox # <<>>
    PROVE  /\ Downgraded \in Clients /\ Head(inbox) \in Pdus /\ Tail(inbox) \in Seq(Pdus)
           /\ Downgraded.session = client.session /\ Downgraded.serial = client.serial
           /\ Downgraded.phase = client.phase /\ Downgraded.records = client.records
           /\ Downgraded.batch = client.batch /\ Downgraded.age = client.age
<1>1. Head(inbox) \in Pdus /\ Tail(inbox) \in Seq(Pdus) /\ client \in Clients
  BY TailAt DEF Types
<1> QED BY <1>1, Zenon DEF Downgraded, Clients, Pdus

\* A PDU without a payload is a PDU.
LEMMA PlainType ==
    ASSUME NEW v \in Versions, NEW t \in PduTypes
    PROVE  Plain(t, v) \in Pdus
BY DEF Plain, Pdu, Pdus, None

\* What may be answered is one refusal, or a batch.
LEMMA AnswersAre ==
    ASSUME Types, NEW r \in Queries, NEW v \in Versions, NEW a \in Answers(r, v)
    PROVE  \/ \E t \in {"CacheReset", "ErrorReport"} : a = <<Plain(t, v)>>
           \/ /\ a \in Batches(v, {})
              /\ r.type = "ResetQuery" \/ r.session # cache.session
           \/ /\ r.type = "SerialQuery" /\ r.session = cache.session /\ r.serial \in 0..Serial
              /\ a \in Batches(v, cache.hist[r.serial + 1])
BY DEF Answers, Queries

\* An answer is a sequence of PDUs.
LEMMA AnswersType ==
    ASSUME Types, NEW r \in Queries, NEW v \in Versions, NEW a \in Answers(r, v)
    PROVE  a \in Seq(Pdus)
<1>1. \A t \in {"CacheReset", "ErrorReport"} : <<Plain(t, v)>> \in Seq(Pdus)
  BY PlainType DEF PduTypes
<1>2. \A old \in SUBSET Roa : Batches(v, old) \subseteq Seq(Pdus)
  BY BatchAt, Zenon DEF IsBatch
<1>3. Batches(v, {}) \subseteq Seq(Pdus)
  BY <1>2
<1>4. CASE r.serial \in 0..Serial /\ a \in Batches(v, cache.hist[r.serial + 1])
  <2>1. r.serial + 1 \in 1..Len(cache.hist)
    BY <1>4, CurrentVersion
  <2> QED BY <1>2, <1>4, <2>1, VersionsTyped
<1> QED BY <1>1, <1>3, <1>4, AnswersAre, Zenon

\* A cache that starts anew, or publishes, is a cache.
LEMMA CacheTypes ==
    ASSUME NEW db \in Databases, NEW v \in Versions, Types
    PROVE  /\ [session |-> cache.session + 1, hist |-> <<db>>, version |-> v] \in Caches
           /\ Len(<<db>>) = 1
           /\ [cache EXCEPT !.hist = Append(@, db)] \in Caches
           /\ Len(Append(cache.hist, db)) = Len(cache.hist) + 1
<1>1. cache.session \in Int /\ cache.hist \in Seq(Databases) /\ cache \in Caches
  BY DEF Types, Caches
<1>2. Append(cache.hist, db) \in Seq(Databases) /\ Len(Append(cache.hist, db)) = Len(cache.hist) + 1
  BY <1>1, Appended
<1>3. <<db>> \in Seq(Databases) /\ Len(<<db>>) = 1
  OBVIOUS
<1>4. [cache EXCEPT !.hist = Append(@, db)] \in Caches
  BY <1>1, <1>2 DEF Caches
<1>5. [session |-> cache.session + 1, hist |-> <<db>>, version |-> v] \in Caches
  BY <1>1, <1>3 DEF Caches
<1> QED BY <1>2, <1>3, <1>4, <1>5

\* The types hold at first,
LEMMA TypesInit == Init => Types
<1> SUFFICES ASSUME Init PROVE Types
  OBVIOUS
<1>1. PICK db \in Databases, v \in Versions : cache = [session |-> 1, hist |-> <<db>>, version |-> v]
  BY DEF Init
<1>2. cache \in Caches /\ Len(cache.hist) >= 1
  BY <1>1 DEF Caches
<1>3. inbox \in Seq(Pdus) /\ query \in Seq(Queries) /\ client \in Clients
  BY NewClientType, EmptySequence DEF Init
<1>4. mixed \in BOOLEAN /\ orphaned \in BOOLEAN /\ up \in BOOLEAN
  BY Zenon DEF Init
<1>5. store \in SUBSET Roa /\ owner \in Int
  BY DEF Init, None
<1> QED BY <1>2, <1>3, <1>4, <1>5 DEF Types

\* and every step of the client, the daemon loop and the cache keeps them.
LEMMA TypesStep == Types /\ [Next]_vars => Types'
<1> SUFFICES ASSUME Types, [Next]_vars PROVE Types'
  OBVIOUS
<1>0. /\ client \in Clients /\ inbox \in Seq(Pdus) /\ query \in Seq(Queries)
      /\ cache \in Caches /\ owner \in Int /\ cache.session \in Int
  BY DEF Types, Caches
<1>e. <<>> \in Seq(Pdus) /\ <<>> \in Seq(Queries)
  BY EmptySequence
<1>n. NewClient \in Clients
  BY NewClientType
<1>d. ASSUME NEW wait \in BOOLEAN, Disconnected(wait)
      PROVE  inbox' \in Seq(Pdus) /\ query' \in Seq(Queries) /\ up' \in BOOLEAN
  BY <1>d, <1>e, Zenon DEF Disconnected
<1>1. CASE Connect
  <2>1. [client EXCEPT !.phase = "AwaitingSerial"] \in Clients /\ [client EXCEPT !.phase = "AwaitingReset"] \in Clients
    BY <1>0 DEF Clients, Phases
  <2>2. <<SerialQuery(client)>> \in Seq(Queries) /\ <<ResetQuery(client)>> \in Seq(Queries)
    BY <1>0, QueryTypes
  <2> QED BY <1>1, <1>e, <2>1, <2>2, Zenon DEF Connect, Types
<1>2. CASE Answer
  <2>1. query # <<>> /\ Head(query) \in Queries /\ Tail(query) \in Seq(Queries)
    BY <1>2, <1>0, HeadAndTail DEF Answer
  <2> DEFINE r == Head(query)
             v == IF r.version > cache.version THEN cache.version ELSE r.version
  <2>2. v \in Versions
    BY <1>0, <2>1 DEF Queries, Caches
  <2>3. PICK a \in Answers(r, v) \cup {<<Plain("ErrorReport", v)>>} : inbox' = inbox \o a
    BY <1>2 DEF Answer
  <2> HIDE DEF v, r
  <2>4. a \in Seq(Pdus)
    BY <2>1, <2>2, <2>3, AnswersType, PlainType DEF PduTypes, r
  <2>5. inbox' \in Seq(Pdus)
    BY <1>0, <2>3, <2>4, ConcatAt
  <2> QED BY <1>2, <2>1, <2>5 DEF Answer, Types
<1>3. CASE Receive
  <2>0. inbox # <<>> /\ up
    BY <1>3 DEF Receive, RecvHigherVersion, RecvSerialNotify, RecvCacheResponse, RecvPrefix,
                RecvEndOfData, RecvCacheReset, RecvErrorReport, RecvMalformed, HasPdu
  <2>1. Downgraded \in Clients /\ Head(inbox) \in Pdus /\ Tail(inbox) \in Seq(Pdus)
    BY <2>0, DowngradedType
  <2>2. ASSUME NEW c \in Clients, Drop(c) PROVE Types'
    BY <1>d, <2>2, Zenon DEF Drop, Types
  <2>3. ASSUME NEW c \in Clients, NEW w \in Seq(Queries), Become(c, w), store' \in SUBSET Roa, owner' \in Int,
               orphaned' \in BOOLEAN
        PROVE  Types'
    <3>1. query \o w \in Seq(Queries)
      BY <1>0, Concatenation
    <3> QED BY <2>1, <2>3, <3>1 DEF Become, Types
  <2>4. ASSUME NEW c \in Clients, NEW w \in Seq(Queries), Become(c, w), UNCHANGED <<store, owner, orphaned>>
        PROVE  Types'
    BY <1>0, <2>3, <2>4 DEF Types
  <2>q. ASSUME NEW c \in Clients
        PROVE  <<ResetQuery(c)>> \in Seq(Queries) /\ <<SerialQuery(c)>> \in Seq(Queries)
    BY QueryTypes
  <2>5. CASE RecvHigherVersion
    BY <1>0, <2>2, <2>5 DEF RecvHigherVersion
  <2>6. CASE RecvSerialNotify
    <3>1. [client EXCEPT !.phase = "AwaitingSerial"] \in Clients /\ [client EXCEPT !.phase = "AwaitingReset"] \in Clients
      BY <1>0 DEF Clients, Phases
    <3> QED BY <1>0, <1>e, <2>4, <2>6, <2>q, <3>1, Zenon DEF RecvSerialNotify
  <2>7. CASE RecvCacheResponse
    <3> DEFINE c == Downgraded
               ses == Head(inbox).session
    <3>1. c \in Clients /\ ses \in Int
      BY <2>1 DEF Pdus
    <3>2. RecvCacheResponse =>
            \/ Become([c EXCEPT !.session = ses, !.batch = {}, !.phase = "ReceivingPayload"], <<>>) /\ UNCHANGED <<store, owner, orphaned>>
            \/ Become([c EXCEPT !.session = ses, !.batch = {}, !.phase = "AwaitingReset"], <<ResetQuery(c)>>) /\ UNCHANGED <<store, owner, orphaned>>
            \/ Become([c EXCEPT !.batch = c.records, !.phase = "ReceivingPayload"], <<>>) /\ UNCHANGED <<store, owner, orphaned>>
            \/ Drop(c)
      BY DEF RecvCacheResponse
    <3> HIDE DEF c, ses
    <3>3. /\ [c EXCEPT !.session = ses, !.batch = {}, !.phase = "ReceivingPayload"] \in Clients
          /\ [c EXCEPT !.session = ses, !.batch = {}, !.phase = "AwaitingReset"] \in Clients
          /\ [c EXCEPT !.batch = c.records, !.phase = "ReceivingPayload"] \in Clients
      BY <3>1, Zenon DEF Clients, Phases
    <3> QED BY <1>e, <2>2, <2>4, <2>7, <2>q, <3>1, <3>2, <3>3, Zenon
  <2>8. CASE RecvPrefix
    <3>1. Applied(Downgraded.batch, Head(inbox)) \in SUBSET Roa
      BY <2>1 DEF Applied, Clients, Pdus
    <3>2. [Downgraded EXCEPT !.batch = Applied(@, Head(inbox))] \in Clients
      BY <2>1, <3>1 DEF Clients
    <3> QED BY <1>e, <2>1, <2>4, <2>8, <3>2, Zenon DEF RecvPrefix
  <2>9. CASE RecvEndOfData
    <3> DEFINE c == Downgraded
               m == Head(inbox)
    <3>1. c \in Clients /\ m \in Pdus
      BY <2>1
    <3>2. RecvEndOfData =>
            \/ Drop(c)
            \/ /\ Become([c EXCEPT !.records = c.batch, !.batch = {}, !.serial = m.serial,
                                   !.phase = "Synced", !.age = 0], <<>>)
               /\ store' = WithDeltas(DiffRecords(c.records, c.batch))
               /\ orphaned' \in BOOLEAN
               /\ owner' = c.session
      BY DEF RecvEndOfData
    <3> HIDE DEF c, m
    <3>3. [c EXCEPT !.records = c.batch, !.batch = {}, !.serial = m.serial, !.phase = "Synced", !.age = 0] \in Clients
      <4>1. PICK b \in SUBSET Roa, n \in Int : b = c.batch /\ n = m.serial
        BY <3>1 DEF Clients, Pdus
      <4> DEFINE d == [c EXCEPT !.records = b, !.batch = {}]
                 e == [d EXCEPT !.serial = n, !.phase = "Synced"]
      <4>2. d \in Clients
        BY <3>1, Zenon DEF Clients
      <4>3. [c EXCEPT !.records = b, !.batch = {}, !.serial = n, !.phase = "Synced", !.age = 0]
                = [e EXCEPT !.age = 0]
        OBVIOUS
      <4> HIDE DEF d
      <4>4. e \in Clients
        BY <4>2, Zenon DEF Clients, Phases
      <4> HIDE DEF e
      <4>5. [e EXCEPT !.age = 0] \in Clients
        BY <4>4 DEF Clients
      <4> QED BY <4>1, <4>3, <4>5
    <3>4. WithDeltas(DiffRecords(c.records, c.batch)) \in SUBSET Roa
      BY <3>1 DEF WithDeltas, DiffRecords, Clients, Types
    <3> QED BY <1>e, <2>2, <2>3, <2>9, <3>1, <3>2, <3>3, <3>4, Zenon DEF Clients
  <2>10. CASE RecvCacheReset
    <3>1. [Downgraded EXCEPT !.phase = "AwaitingReset", !.batch = {}] \in Clients
      BY <2>1, Zenon DEF Clients, Phases
    <3> QED BY <2>1, <2>4, <2>10, <2>q, <3>1, Zenon DEF RecvCacheReset
  <2>11. CASE RecvErrorReport
    BY <2>1, <2>2, <2>11 DEF RecvErrorReport
  <2>12. CASE RecvMalformed
    <3>1. (store # {}) \in BOOLEAN
      BY Zenon
    <3> QED BY <1>d, <1>n, <2>12, <3>1, Zenon DEF RecvMalformed, Types
  <2> QED BY <1>3, <2>5, <2>6, <2>7, <2>8, <2>9, <2>10, <2>11, <2>12 DEF Receive
<1>4. CASE Tick
  <2>a. Aged \in Clients
    <3>1. client.age \in Int /\ (IF client.age = None THEN None ELSE client.age + 1) \in Int
      BY <1>0 DEF Clients, None
    <3>2. ASSUME NEW n \in Int PROVE [client EXCEPT !.age = n] \in Clients
      BY <1>0, Zenon DEF Clients
    <3>3. Aged = [client EXCEPT !.age = IF client.age = None THEN None ELSE client.age + 1]
      BY <1>0 DEF Aged, Clients
    <3> QED BY <3>1, <3>2, <3>3, Zenon
  <2>1. Aged \in Clients /\ [Aged EXCEPT !.phase = "AwaitingSerial"] \in Clients
    BY <2>a DEF Clients, Phases
  <2>2. Append(query, SerialQuery(client)) \in Seq(Queries)
    BY <1>0, QueryTypes, Appended
  <2>3. CASE ExpireData
    BY <1>4, <1>d, <1>n, <2>3, Zenon DEF ExpireData, Tick, Types
  <2>4. CASE SendRefresh
    BY <1>4, <2>1, <2>2, <2>4 DEF SendRefresh, Tick, Types
  <2>5. CASE JustAge
    BY <1>4, <2>1, <2>5 DEF JustAge, Tick, Types
  <2> QED BY <1>4, <2>3, <2>4, <2>5 DEF Tick, Poll
<1>5. ASSUME NEW db \in Databases, Publish(db) PROVE Types'
  <2>1. cache' \in Caches /\ Len(cache'.hist) >= 1 /\ cache'.session = cache.session
    <3>1. cache' = [cache EXCEPT !.hist = Append(@, db)]
      BY <1>5 DEF Publish
    <3>2. cache'.hist = Append(cache.hist, db) /\ cache'.session = cache.session
      BY <1>0, <3>1 DEF Caches
    <3>3. Len(Append(cache.hist, db)) = Len(cache.hist) + 1 /\ cache' \in Caches
      BY <1>0, <3>1, CacheTypes, Zenon DEF Caches
    <3> QED BY <3>2, <3>3, CurrentVersion
  <2>2. Pdu("SerialNotify", cache.version, cache.session, Serial + 1, FALSE, {}) \in Pdus
    BY <1>0, CurrentVersion DEF Pdu, Pdus, PduTypes, Caches
  <2>3. inbox' \in Seq(Pdus)
    BY <1>0, <1>5, <2>2, Appended, Zenon DEF Publish
  <2> QED BY <1>5, <2>1, <2>3, Zenon DEF Publish, Types
<1>6. ASSUME NEW db \in Databases, NEW v \in Versions, CacheRestart(db, v) PROVE Types'
  <2>1. cache' \in Caches /\ Len(cache'.hist) >= 1 /\ cache'.session = cache.session + 1
    <3>1. cache' = [session |-> cache.session + 1, hist |-> <<db>>, version |-> v]
      BY <1>6 DEF CacheRestart
    <3>2. cache' \in Caches /\ Len(<<db>>) = 1
      BY <3>1, CacheTypes, Zenon
    <3> QED BY <3>1, <3>2
  <2> QED BY <1>0, <1>6, <1>d, <2>1, Zenon DEF CacheRestart, Types
<1>7. ASSUME NEW db \in Databases, NEW v \in Versions, Repoint(db, v) PROVE Types'
  <2>1. cache' \in Caches /\ Len(cache'.hist) >= 1 /\ cache'.session = cache.session + 1
    <3>1. cache' = [session |-> cache.session + 1, hist |-> <<db>>, version |-> v]
      BY <1>7 DEF Repoint
    <3>2. cache' \in Caches /\ Len(<<db>>) = 1
      BY <3>1, CacheTypes, Zenon
    <3> QED BY <3>1, <3>2
  <2> QED BY <1>0, <1>7, <1>d, <1>n, <2>1, Zenon DEF Repoint, Types
<1>8. CASE SendMalformed
  <2>1. MaxVersion \in Versions
    BY VersionAssumption, Zenon DEF MaxVersion
  <2>2. inbox' \in Seq(Pdus)
    BY <1>0, <1>8, <2>1, PlainType, Appended DEF SendMalformed, PduTypes
  <2> QED BY <1>8, <2>2 DEF SendMalformed, Types
<1>9. CASE ConnectionLost \/ Reconnect
  BY <1>9, <1>d, Zenon DEF ConnectionLost, Reconnect, EndConnection, Types
<1>10. CASE Shutdown
  BY <1>10, <1>d, <1>n, Zenon DEF Shutdown, Types
<1>11. CASE UNCHANGED vars
  BY <1>11 DEF vars, Types
<1> QED BY <1>1, <1>2, <1>3, <1>4, <1>5, <1>6, <1>7, <1>8, <1>9, <1>10, <1>11 DEF Next, Environment

---------------------------------------------------------------------------
(* Every step keeps the forms. *)

\* What may follow a Serial Notify or a damaged PDU, a Cache Response, a prefix and an End of
\* Data that are the first unread PDU.
AnswerBehind ==
    /\ Awaiting /\ query = <<>>
    /\ \E k, i \in 1..Len(inbox) : k > 1 /\ AnswerAt(inbox, k, i, client, cache, Low, mixed)

RefusalBehind ==
    /\ Awaiting /\ query = <<>>
    /\ \E k \in 2..Len(inbox) : /\ inbox[k].type \in {"CacheReset", "ErrorReport"}
                                /\ Chatter(inbox, 1, k - 1)
                                /\ Chatter(inbox, k + 1, Len(inbox))

AnswerNow ==
    /\ Awaiting /\ query = <<>>
    /\ \E i \in 2..Len(inbox) : AnswerAt(inbox, 1, i, client, cache, Low, mixed)

PayloadNow ==
    /\ client.phase = "ReceivingPayload" /\ query = <<>> /\ client.session = cache.session
    /\ \E i \in 2..Len(inbox) : /\ Complete(inbox, i, cache, Low)
                                /\ Payload(inbox, 1, i - 1)
                                /\ ~mixed => Yields(inbox, i, cache, client.batch)

StaleNow ==
    /\ client.phase = "AwaitingReset"
    /\ \E i \in 2..Len(inbox) : inbox[i].type = "EndOfData" /\ Payload(inbox, 1, i - 1)

EndNow ==
    /\ client.phase = "ReceivingPayload" /\ query = <<>> /\ client.session = cache.session
    /\ Complete(inbox, 1, cache, Low)
    /\ ~mixed => Yields(inbox, 1, cache, client.batch)

RefusalNow ==
    Awaiting /\ query = <<>> /\ Chatter(inbox, 2, Len(inbox))

\* The first unread PDU tells what the connection holds.
LEMMA Heads ==
    ASSUME Types, up, Forms, inbox # <<>>
    PROVE  /\ inbox[1].type \in {"SerialNotify", "Malformed"} =>
                SyncedForm \/ QueryForm \/ AnswerBehind \/ RefusalBehind
           /\ inbox[1].type = "CacheResponse" => AnswerNow
           /\ inbox[1].type = "Prefix" => PayloadNow \/ StaleNow
           /\ inbox[1].type = "EndOfData" => EndNow \/ client.phase = "AwaitingReset"
           /\ inbox[1].type = "CacheReset" => RefusalNow
<1>1. Len(inbox) \in Nat \ {0}
  BY TailAt DEF Types
<1>2. CASE SyncedForm \/ QueryForm
  <2>1. inbox[1].type \in {"SerialNotify", "Malformed"}
    BY <1>1, <1>2 DEF SyncedForm, QueryForm, Chatter
  <2> QED BY <1>2, <2>1
<1>3. CASE PayloadForm
  <2>1. PICK i \in 1..Len(inbox) : /\ Complete(inbox, i, cache, Low)
                                   /\ Payload(inbox, 1, i - 1)
                                   /\ ~mixed => Yields(inbox, i, cache, client.batch)
    BY <1>3 DEF PayloadForm
  <2>2. CASE i = 1
    <3>1. inbox[1].type = "EndOfData"
      BY <2>1, <2>2 DEF Complete
    <3>2. EndNow
      BY <1>3, <2>1, <2>2 DEF PayloadForm, EndNow
    <3> QED BY <3>1, <3>2
  <2>3. CASE i > 1
    <3>1. inbox[1].type = "Prefix"
      BY <1>1, <2>1, <2>3 DEF Payload
    <3>2. i \in 2..Len(inbox)
      BY <1>1, <2>3
    <3>3. PayloadNow
      BY <1>3, <2>1, <3>2, Zenon DEF PayloadForm, PayloadNow
    <3> QED BY <3>1, <3>3
  <2> QED BY <1>1, <2>2, <2>3
<1>4. CASE AnswerForm
  <2>1. PICK k, i \in 1..Len(inbox) : AnswerAt(inbox, k, i, client, cache, Low, mixed)
    BY <1>4 DEF AnswerForm
  <2>2. CASE k = 1
    <3>1. inbox[1].type = "CacheResponse" /\ i \in 2..Len(inbox)
      BY <1>1, <2>1, <2>2 DEF AnswerAt
    <3>2. AnswerNow
      BY <1>4, <2>1, <2>2, <3>1, Zenon DEF AnswerForm, AnswerNow
    <3> QED BY <3>1, <3>2
  <2>3. CASE k > 1
    <3>1. inbox[1].type \in {"SerialNotify", "Malformed"}
      BY <1>1, <2>1, <2>3 DEF AnswerAt, Chatter
    <3>2. AnswerBehind
      BY <1>4, <2>1, <2>3, Zenon DEF AnswerForm, AnswerBehind
    <3> QED BY <3>1, <3>2
  <2>4. k \in Int /\ k >= 1
    BY <1>1
  <2> QED BY <2>2, <2>3, <2>4
<1>5. CASE RefusalForm
  <2>1. PICK k \in 1..Len(inbox) : /\ inbox[k].type \in {"CacheReset", "ErrorReport"}
                                   /\ Chatter(inbox, 1, k - 1)
                                   /\ Chatter(inbox, k + 1, Len(inbox))
    BY <1>5 DEF RefusalForm
  <2>2. CASE k = 1
    <3>1. RefusalNow
      BY <1>5, <2>1, <2>2 DEF RefusalForm, RefusalNow
    <3> QED BY <2>1, <2>2, <3>1
  <2>3. CASE k > 1
    <3>1. inbox[1].type \in {"SerialNotify", "Malformed"}
      BY <1>1, <2>1, <2>3 DEF Chatter
    <3>2. k \in 2..Len(inbox)
      BY <1>1, <2>3
    <3>3. RefusalBehind
      BY <1>5, <2>1, <3>2, Zenon DEF RefusalForm, RefusalBehind
    <3> QED BY <3>1, <3>3
  <2> QED BY <1>1, <2>2, <2>3
<1>6. CASE StaleForm
  <2>1. PICK i \in 1..Len(inbox) : inbox[i].type = "EndOfData" /\ Payload(inbox, 1, i - 1)
    BY <1>6 DEF StaleForm
  <2>2. CASE i = 1
    BY <1>6, <2>1, <2>2, Zenon DEF StaleForm
  <2>3. CASE i > 1
    <3>1. inbox[1].type = "Prefix" /\ i \in 2..Len(inbox)
      BY <1>1, <2>1, <2>3 DEF Payload
    <3>2. StaleNow
      BY <1>6, <2>1, <3>1, Zenon DEF StaleForm, StaleNow
    <3> QED BY <3>1, <3>2
  <2> QED BY <1>1, <2>2, <2>3
<1> QED BY <1>2, <1>3, <1>4, <1>5, <1>6, Zenon DEF Forms

\* A step that ends the connection leaves nothing to read.
LEMMA Disconnects ==
    ASSUME Types', NEW wait \in BOOLEAN, Disconnected(wait), Held', OwnerPast', SyncedOwner', Age'
    PROVE  RtrInv'
<1>1. ~up' /\ inbox' = <<>>
  BY DEF Disconnected
<1>2. Forms'
  BY <1>1 DEF Forms
<1> QED BY <1>2 DEF RtrInv

\* The client a disconnect leaves as it is, but for the version.
LEMMA DropKeeps ==
    ASSUME RtrInv, Types', NEW c \in Clients, Drop(c),
           c.session = client.session, c.serial = client.serial, c.phase = client.phase,
           c.records = client.records, c.age = client.age
    PROVE  RtrInv'
<1>1. client' = c /\ UNCHANGED <<store, cache, owner, mixed, orphaned>> /\ Disconnected(TRUE)
  BY Zenon DEF Drop
<1>2. Held' /\ OwnerPast' /\ SyncedOwner' /\ Age'
  BY <1>1 DEF RtrInv, Held, OwnerPast, SyncedOwner, Age
<1> QED BY <1>1, <1>2, Disconnects, Zenon

\* Connecting keeps the invariant: an empty inbox and the one query on_connect sends.
LEMMA ConnectStep == ASSUME RtrInv, Types', Connect PROVE RtrInv'
<1>1. /\ inbox' = <<>> /\ UNCHANGED <<store, cache, owner, orphaned>> /\ Len(<<>>) = 0
      /\ client \in Clients /\ mixed \in BOOLEAN
  BY DEF Connect, RtrInv, Types
<1>2. Chatter(<<>>, 1, 0)
  BY DEF Chatter
<1>3. CASE client.session # None /\ client.serial # None
  <2>1. /\ client' = [client EXCEPT !.phase = "AwaitingSerial"] /\ query' = <<SerialQuery(client)>>
        /\ mixed' = (mixed \/ owner # client.session)
    BY <1>3 DEF Connect
  <2>2. /\ client'.phase = "AwaitingSerial" /\ client'.session = client.session
        /\ client'.serial = client.serial /\ client'.records = client.records /\ client'.age = client.age
    BY <1>1, <2>1 DEF Clients
  <2>3. Len(query') = 1 /\ query'[1] = SerialQuery(client)
    BY <2>1
  <2>4. QueryForm'
    BY <1>1, <1>2, <1>3, <2>1, <2>2, <2>3, Zenon DEF QueryForm, SerialQuery
  <2>5. Held' /\ OwnerPast' /\ SyncedOwner' /\ Age'
    BY <1>1, <2>1, <2>2 DEF RtrInv, Held, OwnerPast, SyncedOwner, Age
  <2> QED BY <1>1, <2>4, <2>5 DEF RtrInv, Forms
<1>4. CASE ~(client.session # None /\ client.serial # None)
  <2>1. /\ client' = [client EXCEPT !.phase = "AwaitingReset"] /\ query' = <<ResetQuery(client)>>
        /\ mixed' = mixed
    BY <1>4 DEF Connect
  <2>2. /\ client'.phase = "AwaitingReset" /\ client'.session = client.session
        /\ client'.serial = client.serial /\ client'.records = client.records /\ client'.age = client.age
    BY <1>1, <2>1 DEF Clients
  <2>3. Len(query') = 1 /\ query'[1] = ResetQuery(client)
    BY <2>1
  <2>4. QueryForm'
    BY <1>1, <1>2, <2>2, <2>3 DEF QueryForm, ResetQuery
  <2>5. Held' /\ OwnerPast' /\ SyncedOwner' /\ Age'
    BY <1>1, <2>1, <2>2 DEF RtrInv, Held, OwnerPast, SyncedOwner, Age
  <2> QED BY <1>1, <2>4, <2>5 DEF RtrInv, Forms
<1> QED BY <1>3, <1>4

\* The serial a continued sync starts from is one the cache has reached.
LEMMA LowSerial ==
    ASSUME Types, Held
    PROVE  Low \in Int /\ Low <= Serial
BY CurrentVersion DEF Low, Held, None

\* A place behind the first l of l + n is one of the n.
LEMMA Offset ==
    ASSUME NEW l \in Nat, NEW n \in Nat, NEW j \in 1..(l + n), j > l
    PROVE  \E m \in 1..n : j = l + m
<1>1. j - l \in 1..n /\ j = l + (j - l)
  OBVIOUS
<1> QED BY <1>1

\* An answer of the cache keeps the invariant: the batch starts where its query said.
LEMMA AnswerStep == ASSUME RtrInv, Types', Answer PROVE RtrInv'
<1>0. /\ Types /\ Forms /\ Held /\ up /\ query # <<>> /\ query \in Seq(Queries)
      /\ inbox \in Seq(Pdus) /\ cache \in Caches
  BY DEF RtrInv, Types, Answer
<1>1. /\ query' = Tail(query)
      /\ UNCHANGED <<client, up, store, cache, owner, mixed, orphaned>>
  BY DEF Answer
<1> DEFINE r == Head(query)
           v == IF r.version > cache.version THEN cache.version ELSE r.version
<1>2. r \in Queries /\ r = query[1]
  BY <1>0, HeadAndTail, Lengths
<1>3. v \in Versions
  BY <1>0, <1>2 DEF Queries, Caches
<1>4. PICK a \in Answers(r, v) \cup {<<Plain("ErrorReport", v)>>} : inbox' = inbox \o a
  BY DEF Answer
<1> HIDE DEF r, v
<1>5. a \in Seq(Pdus)
  <2>1. Answers(r, v) \subseteq Seq(Pdus)
    BY <1>0, <1>2, <1>3, AnswersType
  <2>2. Plain("ErrorReport", v) \in Pdus
    BY <1>3, PlainType DEF PduTypes
  <2>3. <<Plain("ErrorReport", v)>> \in Seq(Pdus)
    BY <2>2
  <2> QED BY <1>4, <2>1, <2>3, Zenon
<1>6. Low' = Low /\ Low \in Int /\ Low <= Serial
  BY <1>0, <1>1, LowSerial DEF Low
<1>7. /\ Len(inbox') = Len(inbox) + Len(a) /\ Len(inbox) \in Nat /\ Len(a) \in Nat
      /\ \A j \in 1..Len(inbox) : inbox'[j] = inbox[j]
      /\ \A j \in 1..Len(a) : inbox'[Len(inbox) + j] = a[j]
  BY <1>0, <1>4, <1>5, ConcatAt
<1>8. \/ \E t \in {"CacheReset", "ErrorReport"} : a = <<Plain(t, v)>>
      \/ /\ a \in Batches(v, {})
         /\ r.type = "ResetQuery" \/ r.session # cache.session
      \/ /\ r.type = "SerialQuery" /\ r.session = cache.session /\ r.serial \in 0..Serial
         /\ a \in Batches(v, cache.hist[r.serial + 1])
  BY <1>0, <1>2, <1>3, <1>4, AnswersAre
<1>9. Forms'
  <2>1. CASE StaleForm
    <3>1. PICK i \in 1..Len(inbox) : inbox[i].type = "EndOfData" /\ Payload(inbox, 1, i - 1)
      BY <2>1 DEF StaleForm
    <3>2. i \in 1..Len(inbox') /\ inbox'[i].type = "EndOfData" /\ Payload(inbox', 1, i - 1)
      <4>1. i \in 1..Len(inbox') /\ inbox'[i] = inbox[i]
        BY <1>7
      <4>2. \A j \in 1..(i - 1) : inbox'[j] = inbox[j]
        BY <1>7
      <4> QED BY <3>1, <4>1, <4>2 DEF Payload
    <3> QED BY <1>1, <2>1, <3>2 DEF StaleForm, Forms
  <2>2. CASE QueryForm
    <3>1. query' = <<>>
      <4>1. Len(query') = 0 /\ query' \in Seq(Queries)
        BY <1>0, <1>1, <2>2, HeadAndTail DEF QueryForm
      <4> QED BY <4>1, EmptySequence
    <3>2. Awaiting' /\ Chatter(inbox, 1, Len(inbox))
      BY <1>1, <2>2 DEF QueryForm, Awaiting
    <3>3. CASE \E t \in {"CacheReset", "ErrorReport"} : a = <<Plain(t, v)>>
      <4>1. Len(a) = 1 /\ a[1].type \in {"CacheReset", "ErrorReport"}
        BY <3>3 DEF Plain, Pdu
      <4> DEFINE k == Len(inbox) + 1
      <4>2. /\ k \in 1..Len(inbox') /\ inbox'[k] = a[1]
            /\ Chatter(inbox', 1, k - 1) /\ Chatter(inbox', k + 1, Len(inbox'))
        BY <1>7, <3>2, <4>1 DEF Chatter
      <4> HIDE DEF k
      <4>3. RefusalForm'
        BY <3>1, <3>2, <4>1, <4>2 DEF RefusalForm
      <4> QED BY <4>3 DEF Forms
    <3>4. ASSUME NEW old \in SUBSET Roa, a \in Batches(v, old),
                 ~mixed => \A base \in AnswerBase(client, cache) : base = old
          PROVE  Forms'
      <4>1. PICK k, i \in 1..Len(inbox') :
                /\ k \in 1..(i - 1)
                /\ Chatter(inbox', 1, k - 1)
                /\ inbox'[k].type = "CacheResponse"
                /\ inbox'[k].session = cache.session
                /\ Payload(inbox', k + 1, i - 1)
                /\ Complete(inbox', i, cache, Low)
                /\ Yields(inbox', i, cache, old)
        BY <1>0, <1>3, <1>4, <1>6, <3>2, <3>4, AnswerArrives, Zenon
      <4>2. AnswerAt(inbox', k, i, client, cache, Low, mixed)
        BY <3>4, <4>1 DEF AnswerAt
      <4>3. AnswerForm'
        BY <1>1, <1>6, <3>1, <3>2, <4>2 DEF AnswerForm
      <4> QED BY <4>3 DEF Forms
    <3>5. CASE a \in Batches(v, {}) /\ (r.type = "ResetQuery" \/ r.session # cache.session)
      <4>1. \A base \in AnswerBase(client, cache) : base = {}
        BY <1>2, <2>2, <3>5 DEF QueryForm, AnswerBase
      <4> QED BY <3>4, <3>5, <4>1, Zenon
    <3>6. CASE /\ r.type = "SerialQuery" /\ r.session = cache.session /\ r.serial \in 0..Serial
               /\ a \in Batches(v, cache.hist[r.serial + 1])
      <4>1. r.serial + 1 \in 1..Len(cache.hist)
        BY <1>0, <3>6, CurrentVersion
      <4>2. /\ client.phase = "AwaitingSerial" /\ client.serial = r.serial /\ client.serial # None
            /\ client.session = cache.session /\ (~mixed => owner = client.session)
        BY <1>2, <2>2, <3>6 DEF QueryForm
      <4>3. ~mixed => \A base \in AnswerBase(client, cache) : base = cache.hist[r.serial + 1]
        BY <1>0, <4>2 DEF AnswerBase, Held
      <4> QED BY <1>0, <3>4, <3>6, <4>1, <4>3, VersionsTyped
    <3> QED BY <1>8, <3>3, <3>5, <3>6
  <2> QED BY <1>0, <2>1, <2>2, Zenon DEF Forms, SyncedForm, PayloadForm, AnswerForm, RefusalForm
<1>10. Held' /\ OwnerPast' /\ SyncedOwner' /\ Age'
  BY <1>1 DEF RtrInv, Held, OwnerPast, SyncedOwner, Age
<1> QED BY <1>9, <1>10 DEF RtrInv

\* What a received PDU leaves behind it.
LEMMA TailForms ==
    ASSUME RtrInv, inbox # <<>>
    PROVE  /\ Types /\ inbox \in Seq(Pdus) /\ Head(inbox) = inbox[1] /\ inbox[1] \in Pdus
           /\ Len(inbox) \in Nat \ {0} /\ Len(Tail(inbox)) = Len(inbox) - 1
           /\ \A j \in 1..(Len(inbox) - 1) : Tail(inbox)[j] = inbox[j + 1]
           /\ \A a, b \in Int : Chatter(inbox, a, b) /\ a >= 2 /\ b <= Len(inbox) => Chatter(Tail(inbox), a - 1, b - 1)
           /\ \A a, b \in Int : Payload(inbox, a, b) /\ a >= 2 /\ b <= Len(inbox) => Payload(Tail(inbox), a - 1, b - 1)
<1>1. inbox \in Seq(Pdus) /\ Types
  BY DEF RtrInv, Types
<1>2. /\ Head(inbox) = inbox[1] /\ inbox[1] \in Pdus
      /\ Len(inbox) \in Nat \ {0} /\ Len(Tail(inbox)) = Len(inbox) - 1
      /\ \A j \in 1..(Len(inbox) - 1) : Tail(inbox)[j] = inbox[j + 1]
  BY <1>1, TailAt
<1>4. ASSUME NEW a \in Int, NEW b \in Int, a >= 2, b <= Len(inbox), NEW j \in (a - 1)..(b - 1)
      PROVE  j + 1 \in a..b /\ Tail(inbox)[j] = inbox[j + 1]
  BY <1>2, <1>4
<1>5. \A a, b \in Int : Chatter(inbox, a, b) /\ a >= 2 /\ b <= Len(inbox) => Chatter(Tail(inbox), a - 1, b - 1)
  BY <1>4 DEF Chatter
<1>6. \A a, b \in Int : Payload(inbox, a, b) /\ a >= 2 /\ b <= Len(inbox) => Payload(Tail(inbox), a - 1, b - 1)
  BY <1>4 DEF Payload
<1> QED BY <1>1, <1>2, <1>5, <1>6

\* A PDU that moves the client on within its sync, or is ignored.
LEMMA BecomeKeeps ==
    ASSUME RtrInv, inbox # <<>>, NEW c \in Clients, NEW w, Become(c, w), UNCHANGED <<store, owner, orphaned>>,
           c.serial = client.serial, c.records = client.records, c.age = client.age,
           c.phase # "Synced" \/ (c.phase = client.phase /\ c.session = client.session)
    PROVE  /\ client' = c /\ inbox' = Tail(inbox) /\ query' = query \o w
           /\ UNCHANGED <<up, cache, owner, mixed, orphaned>> /\ Low' = Low
           /\ Held' /\ OwnerPast' /\ SyncedOwner' /\ Age'
<1>1. /\ client' = c /\ inbox' = Tail(inbox) /\ query' = query \o w
      /\ UNCHANGED <<up, store, cache, owner, mixed, orphaned>>
  BY DEF Become
<1>2. Low' = Low
  BY <1>1 DEF Low
<1>3. Held' /\ OwnerPast' /\ SyncedOwner' /\ Age'
  BY <1>1 DEF RtrInv, Held, OwnerPast, SyncedOwner, Age
<1> QED BY <1>1, <1>2, <1>3

\* The new query of a client that has read what was outstanding.
LEMMA QueryAfter ==
    ASSUME Types, query = <<>>, NEW r \in Queries
    PROVE  Len(query \o <<r>>) = 1 /\ (query \o <<r>>)[1] = r
BY Concatenation

\* A query goes out when none is under way: it is then the only one.
LEMMA ResetQuerySent ==
    ASSUME Types, query = <<>>, NEW c \in Clients, query' = query \o <<ResetQuery(c)>>,
           client'.phase = "AwaitingReset", Chatter(inbox', 1, Len(inbox'))
    PROVE  QueryForm'
<1>1. ResetQuery(c) \in Queries
  BY QueryTypes
<1>2. Len(query') = 1 /\ query'[1] = ResetQuery(c)
  BY <1>1, QueryAfter, Zenon
<1>3. ResetQuery(c).type = "ResetQuery"
  BY DEF ResetQuery
<1> QED BY <1>2, <1>3, Zenon DEF QueryForm

\* After a Serial Query the query matches the client that sent it.
LEMMA SerialQuerySent ==
    ASSUME Types, query = <<>>, NEW c \in Clients, query' = query \o <<SerialQuery(c)>>,
           client'.phase = "AwaitingSerial", client'.session = c.session, client'.serial = c.serial,
           c.serial # None, owner' = c.session, Chatter(inbox', 1, Len(inbox'))
    PROVE  QueryForm'
<1>1. SerialQuery(c) \in Queries
  BY QueryTypes
<1>2. Len(query') = 1 /\ query'[1] = SerialQuery(c)
  BY <1>1, QueryAfter, Zenon
<1>3. SerialQuery(c).type = "SerialQuery" /\ SerialQuery(c).session = c.session /\ SerialQuery(c).serial = c.serial
  BY DEF SerialQuery
<1> QED BY <1>2, <1>3, Zenon DEF QueryForm

\* A Serial Notify makes a synchronised client ask, and is passed over by any other.
LEMMA SerialNotifyStep == ASSUME RtrInv, Types', RecvSerialNotify PROVE RtrInv'
<1>1. /\ inbox # <<>> /\ up /\ Head(inbox).type = "SerialNotify" /\ Types /\ Forms /\ client \in Clients
      /\ UNCHANGED <<store, owner, orphaned>> /\ cache \in Caches /\ query \in Seq(Queries)
  BY DEF RecvSerialNotify, HasPdu, RtrInv, Types
<1>2. /\ inbox \in Seq(Pdus) /\ inbox[1].type = "SerialNotify"
      /\ Len(inbox) \in Nat \ {0} /\ Len(Tail(inbox)) = Len(inbox) - 1
      /\ \A j \in 1..(Len(inbox) - 1) : Tail(inbox)[j] = inbox[j + 1]
      /\ \A a, b \in Int : Chatter(inbox, a, b) /\ a >= 2 /\ b <= Len(inbox) => Chatter(Tail(inbox), a - 1, b - 1)
      /\ \A a, b \in Int : Payload(inbox, a, b) /\ a >= 2 /\ b <= Len(inbox) => Payload(Tail(inbox), a - 1, b - 1)
  BY <1>1, TailForms, Zenon
<1>3. Chatter(inbox, 1, Len(inbox)) => Chatter(Tail(inbox), 1, Len(Tail(inbox)))
  BY <1>2 DEF Chatter
<1>4. CASE client.serial = None \/ client.phase # "Synced"
  <2>1. Become(client, <<>>)
    BY <1>4 DEF RecvSerialNotify
  <2>2. /\ client' = client /\ inbox' = Tail(inbox) /\ query' = query \o <<>>
        /\ UNCHANGED <<up, cache, owner, mixed, orphaned>> /\ Low' = Low
        /\ Held' /\ OwnerPast' /\ SyncedOwner' /\ Age'
    BY <1>1, <2>1, BecomeKeeps, Zenon
  <2>3. query' = query
    BY <1>1, <2>2, ConcatNothing
  <2>4. CASE QueryForm
    BY <1>3, <2>2, <2>3, <2>4, Zenon DEF QueryForm, Forms, RtrInv
  <2>5. CASE /\ Awaiting /\ query = <<>>
             /\ \E k, i \in 1..Len(inbox) : k > 1 /\ AnswerAt(inbox, k, i, client, cache, Low, mixed)
    <3>1. PICK k, i \in 1..Len(inbox) : k > 1 /\ AnswerAt(inbox, k, i, client, cache, Low, mixed)
      BY <2>5
    <3>2. i > 1 /\ Complete(inbox, i, cache, Low) /\ Low \in Int /\ i \in Int /\ k \in Int
      BY <1>1, <3>1, LowSerial DEF AnswerAt, RtrInv
    <3>3. /\ Complete(Tail(inbox), i - 1, cache, Low) /\ Tail(inbox)[i - 1] = inbox[i]
          /\ \A b \in SUBSET Roa : Leads(Tail(inbox), i - 1, b) = Leads(inbox, i, b)
      BY <1>1, <1>2, <3>2, TailComplete
    <3>4. Chatter(Tail(inbox), 1, (k - 1) - 1)
      <4>1. Chatter(inbox, 1, k - 1)
        BY <3>1, Zenon DEF AnswerAt
      <4>2. ASSUME NEW j \in 1..((k - 1) - 1)
            PROVE  j \in 1..(Len(inbox) - 1) /\ j + 1 \in 1..(k - 1)
        BY <1>2, <3>1
      <4>3. \A j \in 1..((k - 1) - 1) : Tail(inbox)[j] = inbox[j + 1]
        BY <1>2, <4>2, Zenon
      <4> QED BY <4>1, <4>2, <4>3 DEF Chatter
    <3>5. Payload(Tail(inbox), (k - 1) + 1, (i - 1) - 1)
      <4>1. (k - 1) + 1 = (k + 1) - 1 /\ k + 1 \in Int /\ k + 1 >= 2 /\ i - 1 <= Len(inbox) /\ i - 1 \in Int
        BY <1>2, <3>1, <3>2
      <4>2. Payload(inbox, k + 1, i - 1)
        BY <3>1 DEF AnswerAt
      <4> QED BY <1>2, <4>1, <4>2
    <3>6. Tail(inbox)[k - 1] = inbox[k] /\ k - 1 \in 1..((i - 1) - 1)
          /\ k - 1 \in 1..Len(Tail(inbox)) /\ i - 1 \in 1..Len(Tail(inbox))
      <4>1. k - 1 \in 1..(Len(inbox) - 1) /\ (k - 1) + 1 = k /\ k \in 1..(i - 1)
        BY <1>2, <3>1, <3>2 DEF AnswerAt
      <4> QED BY <1>2, <3>2, <4>1
    <3>7. \A base \in AnswerBase(client, cache) : base \in SUBSET Roa
      BY <1>1 DEF AnswerBase, Clients
    <3>8. AnswerAt(Tail(inbox), k - 1, i - 1, client, cache, Low, mixed)
      <4>1. ~mixed => \A base \in AnswerBase(client, cache) : Yields(Tail(inbox), i - 1, cache, base)
        BY <3>1, <3>3, <3>7, Zenon DEF AnswerAt, Yields
      <4> QED BY <3>1, <3>3, <3>4, <3>5, <3>6, <4>1, Zenon DEF AnswerAt
    <3>9. AnswerForm'
      BY <2>2, <2>3, <2>5, <3>6, <3>8, Zenon DEF AnswerForm, Awaiting
    <3> QED BY <2>2, <3>9 DEF Forms, RtrInv
  <2>6. CASE /\ Awaiting /\ query = <<>>
             /\ \E k \in 2..Len(inbox) : /\ inbox[k].type \in {"CacheReset", "ErrorReport"}
                                         /\ Chatter(inbox, 1, k - 1)
                                         /\ Chatter(inbox, k + 1, Len(inbox))
    <3>1. PICK k \in 2..Len(inbox) : /\ inbox[k].type \in {"CacheReset", "ErrorReport"}
                                     /\ Chatter(inbox, 1, k - 1)
                                     /\ Chatter(inbox, k + 1, Len(inbox))
      BY <2>6
    <3>2. k - 1 \in 1..(Len(inbox) - 1) /\ (k - 1) + 1 = k
      <4>1. Len(inbox) \in Nat
        BY <1>2
      <4> QED BY <4>1
    <3>3. Tail(inbox)[k - 1] = inbox[k] /\ k - 1 \in 1..Len(Tail(inbox))
      BY <1>2, <3>2
    <3>4. Chatter(Tail(inbox), 1, (k - 1) - 1) /\ Chatter(Tail(inbox), (k - 1) + 1, Len(Tail(inbox)))
      BY <1>2, <3>1 DEF Chatter
    <3>5. RefusalForm'
      BY <2>2, <2>3, <2>6, <3>1, <3>3, <3>4, Zenon DEF RefusalForm, Awaiting
    <3> QED BY <2>2, <3>5 DEF Forms, RtrInv
  <2>7. ~SyncedForm
    BY <1>4 DEF SyncedForm, RtrInv, SyncedOwner
  <2> QED BY <1>1, <1>2, <2>4, <2>5, <2>6, <2>7, Heads, Zenon DEF AnswerBehind, RefusalBehind
<1>5. CASE ~(client.serial = None \/ client.phase # "Synced")
  <2>1. SyncedForm
    BY <1>1, <1>5 DEF Forms, SyncedForm, PayloadForm, AnswerForm, RefusalForm, QueryForm, StaleForm, Awaiting
  <2>2. query = <<>> /\ Chatter(Tail(inbox), 1, Len(Tail(inbox))) /\ owner = client.session
    BY <1>3, <1>5, <2>1 DEF SyncedForm, RtrInv, SyncedOwner
  <2>3. CASE Head(inbox).session = client.session
    <3> DEFINE c == [client EXCEPT !.phase = "AwaitingSerial"]
    <3>1. Become(c, <<SerialQuery(client)>>)
      BY <1>5, <2>3 DEF RecvSerialNotify
    <3>2. /\ c \in Clients /\ c.phase = "AwaitingSerial" /\ c.session = client.session
          /\ c.serial = client.serial /\ c.records = client.records /\ c.age = client.age
      BY <1>1 DEF Clients, Phases
    <3> HIDE DEF c
    <3>3. /\ client' = c /\ inbox' = Tail(inbox) /\ query' = query \o <<SerialQuery(client)>>
          /\ UNCHANGED <<up, cache, owner, mixed, orphaned>> /\ Low' = Low
          /\ Held' /\ OwnerPast' /\ SyncedOwner' /\ Age'
      BY <1>1, <3>1, <3>2, BecomeKeeps, Zenon
    <3>4. client'.session = client.session /\ client'.serial = client.serial /\ owner' = client.session
      BY <2>2, <3>2, <3>3, Zenon
    <3>5. QueryForm'
      BY <1>1, <1>5, <2>2, <3>2, <3>3, <3>4, SerialQuerySent, Zenon
    <3> QED BY <3>3, <3>5 DEF Forms, RtrInv
  <2>4. CASE Head(inbox).session # client.session
    <3> DEFINE c == [client EXCEPT !.phase = "AwaitingReset"]
    <3>1. Become(c, <<ResetQuery(client)>>)
      BY <1>5, <2>4 DEF RecvSerialNotify
    <3>2. /\ c \in Clients /\ c.phase = "AwaitingReset" /\ c.session = client.session
          /\ c.serial = client.serial /\ c.records = client.records /\ c.age = client.age
      BY <1>1 DEF Clients, Phases
    <3> HIDE DEF c
    <3>3. /\ client' = c /\ inbox' = Tail(inbox) /\ query' = query \o <<ResetQuery(client)>>
          /\ UNCHANGED <<up, cache, owner, mixed, orphaned>> /\ Low' = Low
          /\ Held' /\ OwnerPast' /\ SyncedOwner' /\ Age'
      BY <1>1, <3>1, <3>2, BecomeKeeps, Zenon
    <3>4. QueryForm'
      BY <1>1, <2>2, <3>2, <3>3, ResetQuerySent, Zenon
    <3> QED BY <3>3, <3>4 DEF Forms, RtrInv
  <2> QED BY <2>3, <2>4
<1> QED BY <1>4, <1>5

\* A Cache Response starts the payload, or is turned down with a Reset Query while the rest
\* of its answer is still to come.
LEMMA CacheResponseStep == ASSUME RtrInv, Types', RecvCacheResponse PROVE RtrInv'
<1>1. /\ inbox # <<>> /\ up /\ Head(inbox).type = "CacheResponse" /\ Types /\ Forms /\ Held
      /\ client \in Clients /\ cache \in Caches /\ query \in Seq(Queries)
  BY DEF RecvCacheResponse, HasPdu, RtrInv, Types
<1>2. /\ inbox \in Seq(Pdus) /\ inbox[1] = Head(inbox) /\ inbox[1].type = "CacheResponse"
      /\ Len(inbox) \in Nat \ {0} /\ Len(Tail(inbox)) = Len(inbox) - 1
      /\ \A a, b \in Int : Payload(inbox, a, b) /\ a >= 2 /\ b <= Len(inbox) => Payload(Tail(inbox), a - 1, b - 1)
  BY <1>1, TailForms, Zenon
<1>3. Awaiting /\ query = <<>> /\ \E i \in 2..Len(inbox) : AnswerAt(inbox, 1, i, client, cache, Low, mixed)
  BY <1>1, <1>2, Heads, Zenon DEF AnswerNow
<1>4. PICK i \in 2..Len(inbox) : AnswerAt(inbox, 1, i, client, cache, Low, mixed)
  BY <1>3
<1>5. /\ Complete(inbox, i, cache, Low) /\ Payload(inbox, 2, i - 1) /\ inbox[1].session = cache.session
      /\ ~mixed => \A base \in AnswerBase(client, cache) : Yields(inbox, i, cache, base)
  <2>1. 1 + 1 = 2
    OBVIOUS
  <2> QED BY <1>4, <2>1, Zenon DEF AnswerAt
<1>6. i \in Int /\ i > 1 /\ i - 1 \in 1..Len(Tail(inbox)) /\ Low \in Int
  BY <1>1, <1>2, LowSerial
<1>7. /\ Complete(Tail(inbox), i - 1, cache, Low) /\ Tail(inbox)[i - 1] = inbox[i]
      /\ \A b \in SUBSET Roa : Leads(Tail(inbox), i - 1, b) = Leads(inbox, i, b)
  BY <1>1, <1>2, <1>5, <1>6, TailComplete
<1>8. Payload(Tail(inbox), 1, (i - 1) - 1)
  <2>1. Payload(Tail(inbox), 2 - 1, (i - 1) - 1)
    BY <1>2, <1>5, <1>6
  <2> QED BY <2>1
<1>9. \A b \in SUBSET Roa : Yields(inbox, i, cache, b) => Yields(Tail(inbox), i - 1, cache, b)
  BY <1>7 DEF Yields
<1> DEFINE d == Downgraded
           ses == Head(inbox).session
<1>10. /\ d \in Clients /\ d.session = client.session /\ d.serial = client.serial
       /\ d.phase = client.phase /\ d.records = client.records /\ d.age = client.age
       /\ client.records \in SUBSET Roa
  BY <1>1, DowngradedType DEF Clients
<1>11. ses = cache.session /\ ses \in Int
  BY <1>1, <1>2, <1>5 DEF Caches
<1>12. /\ \/ /\ d.phase = "AwaitingReset"
             /\ Become([d EXCEPT !.session = ses, !.batch = {}, !.phase = "ReceivingPayload"], <<>>)
          \/ /\ d.phase = "AwaitingSerial" /\ ses # d.session
             /\ Become([d EXCEPT !.session = ses, !.batch = {}, !.phase = "AwaitingReset"], <<ResetQuery(d)>>)
          \/ /\ d.phase = "AwaitingSerial" /\ ses = d.session
             /\ Become([d EXCEPT !.batch = d.records, !.phase = "ReceivingPayload"], <<>>)
       /\ UNCHANGED <<store, owner, orphaned>>
  BY <1>3, <1>10 DEF RecvCacheResponse, Awaiting
<1> HIDE DEF d, ses
<1>13. CASE /\ d.phase = "AwaitingReset"
            /\ Become([d EXCEPT !.session = ses, !.batch = {}, !.phase = "ReceivingPayload"], <<>>)
  <2> DEFINE c == [d EXCEPT !.session = ses, !.batch = {}, !.phase = "ReceivingPayload"]
  <2>1. /\ c \in Clients /\ c.phase = "ReceivingPayload" /\ c.session = cache.session /\ c.batch = {}
        /\ c.serial = client.serial /\ c.records = client.records /\ c.age = client.age
    BY <1>10, <1>11, Zenon DEF Clients, Phases
  <2> HIDE DEF c
  <2>2. /\ client' = c /\ inbox' = Tail(inbox) /\ query' = query \o <<>>
        /\ UNCHANGED <<up, cache, owner, mixed, orphaned>> /\ Low' = Low
        /\ Held' /\ OwnerPast' /\ SyncedOwner' /\ Age'
    BY <1>1, <1>12, <1>13, <2>1, BecomeKeeps, Zenon DEF c
  <2>3. query' = <<>>
    BY <1>1, <1>3, <2>2, ConcatNothing
  <2>4. ~mixed => Yields(Tail(inbox), i - 1, cache, {})
    BY <1>5, <1>9, <1>10, <1>13 DEF AnswerBase
  <2>5. PayloadForm'
    BY <1>6, <1>7, <1>8, <2>1, <2>2, <2>3, <2>4, Zenon DEF PayloadForm
  <2> QED BY <2>2, <2>5 DEF Forms, RtrInv
<1>14. CASE /\ d.phase = "AwaitingSerial" /\ ses # d.session
            /\ Become([d EXCEPT !.session = ses, !.batch = {}, !.phase = "AwaitingReset"], <<ResetQuery(d)>>)
  <2> DEFINE c == [d EXCEPT !.session = ses, !.batch = {}, !.phase = "AwaitingReset"]
  <2>1. /\ c \in Clients /\ c.phase = "AwaitingReset"
        /\ c.serial = client.serial /\ c.records = client.records /\ c.age = client.age
    BY <1>10, <1>11, Zenon DEF Clients, Phases
  <2> HIDE DEF c
  <2>2. /\ client' = c /\ inbox' = Tail(inbox)
        /\ Held' /\ OwnerPast' /\ SyncedOwner' /\ Age'
    BY <1>1, <1>12, <1>14, <2>1, BecomeKeeps, Zenon DEF c
  <2>3. Tail(inbox)[i - 1].type = "EndOfData"
    BY <1>7 DEF Complete
  <2>4. StaleForm'
    BY <1>6, <1>8, <2>1, <2>2, <2>3 DEF StaleForm
  <2> QED BY <2>2, <2>4 DEF Forms, RtrInv
<1>15. CASE /\ d.phase = "AwaitingSerial" /\ ses = d.session
            /\ Become([d EXCEPT !.batch = d.records, !.phase = "ReceivingPayload"], <<>>)
  <2> DEFINE c == [d EXCEPT !.batch = d.records, !.phase = "ReceivingPayload"]
  <2>1. /\ c \in Clients /\ c.phase = "ReceivingPayload" /\ c.session = cache.session
        /\ c.batch = client.records
        /\ c.serial = client.serial /\ c.records = client.records /\ c.age = client.age
    BY <1>10, <1>11, <1>15, Zenon DEF Clients, Phases
  <2> HIDE DEF c
  <2>2. /\ client' = c /\ inbox' = Tail(inbox) /\ query' = query \o <<>>
        /\ UNCHANGED <<up, cache, owner, mixed, orphaned>> /\ Low' = Low
        /\ Held' /\ OwnerPast' /\ SyncedOwner' /\ Age'
    BY <1>1, <1>12, <1>15, <2>1, BecomeKeeps, Zenon DEF c
  <2>3. query' = <<>>
    BY <1>1, <1>3, <2>2, ConcatNothing
  <2>4. client.records \in AnswerBase(client, cache)
    <3>1. client.phase = "AwaitingSerial" /\ client.session = cache.session
      BY <1>10, <1>11, <1>15, Zenon
    <3> QED BY <3>1 DEF AnswerBase
  <2>5. ~mixed => Yields(Tail(inbox), i - 1, cache, client.records)
    BY <1>5, <1>9, <1>10, <2>4, Zenon
  <2>6. PayloadForm'
    BY <1>6, <1>7, <1>8, <2>1, <2>2, <2>3, <2>5, Zenon DEF PayloadForm
  <2> QED BY <2>2, <2>6 DEF Forms, RtrInv
<1> QED BY <1>12, <1>13, <1>14, <1>15

\* A record of the payload goes into the batch, and the rest leads on from there; one of an
\* answer that was turned down is ignored.
LEMMA PrefixStep == ASSUME RtrInv, Types', RecvPrefix PROVE RtrInv'
<1>1. /\ inbox # <<>> /\ up /\ Head(inbox).type = "Prefix" /\ Types /\ Forms /\ Held
      /\ client \in Clients /\ cache \in Caches /\ query \in Seq(Queries) /\ UNCHANGED <<store, owner, orphaned>>
  BY DEF RecvPrefix, HasPdu, RtrInv, Types
<1>2. /\ inbox \in Seq(Pdus) /\ inbox[1] = Head(inbox) /\ inbox[1].type = "Prefix" /\ inbox[1] \in Pdus
      /\ Len(inbox) \in Nat \ {0} /\ Len(Tail(inbox)) = Len(inbox) - 1
      /\ \A j \in 1..(Len(inbox) - 1) : Tail(inbox)[j] = inbox[j + 1]
  BY <1>1, TailForms
<1>3. ASSUME NEW i \in 2..Len(inbox), Payload(inbox, 1, i - 1)
      PROVE  /\ i \in Int /\ i > 1 /\ i - 1 \in 1..Len(Tail(inbox))
             /\ Payload(Tail(inbox), 1, (i - 1) - 1) /\ Tail(inbox)[i - 1] = inbox[i]
  <2>1. i \in Int /\ i > 1 /\ i - 1 \in 1..Len(Tail(inbox)) /\ i - 1 \in 1..(Len(inbox) - 1) /\ (i - 1) + 1 = i
    BY <1>2
  <2>2. ASSUME NEW j \in 1..((i - 1) - 1)
        PROVE  Tail(inbox)[j].type = "Prefix"
    <3>1. j + 1 \in 1..(i - 1) /\ j \in 1..(Len(inbox) - 1)
      BY <1>2, <2>1
    <3> QED BY <1>2, <1>3, <3>1 DEF Payload
  <2> QED BY <1>2, <2>1, <2>2 DEF Payload
<1> DEFINE d == Downgraded
<1>4. /\ d \in Clients /\ d.session = client.session /\ d.serial = client.serial
      /\ d.phase = client.phase /\ d.records = client.records /\ d.age = client.age
      /\ d.batch = client.batch /\ client.batch \in SUBSET Roa
  BY <1>1, DowngradedType DEF Clients
<1>5. Become(IF client.phase = "ReceivingPayload"
             THEN [d EXCEPT !.batch = Applied(@, Head(inbox))] ELSE d, <<>>)
  BY DEF RecvPrefix
<1> HIDE DEF d
<1>6. Applied(client.batch, inbox[1]) \in SUBSET Roa
  BY <1>2, <1>4, Zenon DEF Applied, Pdus
<1>7. CASE /\ client.phase = "ReceivingPayload" /\ query = <<>> /\ client.session = cache.session
           /\ \E i \in 2..Len(inbox) : /\ Complete(inbox, i, cache, Low)
                                       /\ Payload(inbox, 1, i - 1)
                                       /\ ~mixed => Yields(inbox, i, cache, client.batch)
  <2>1. PICK i \in 2..Len(inbox) : /\ Complete(inbox, i, cache, Low)
                                   /\ Payload(inbox, 1, i - 1)
                                   /\ ~mixed => Yields(inbox, i, cache, client.batch)
    BY <1>7
  <2>2. /\ i \in Int /\ i > 1 /\ i - 1 \in 1..Len(Tail(inbox)) /\ Low \in Int
        /\ Payload(Tail(inbox), 1, (i - 1) - 1)
    BY <1>1, <1>3, <2>1, LowSerial
  <2>3. /\ Complete(Tail(inbox), i - 1, cache, Low) /\ Tail(inbox)[i - 1] = inbox[i]
        /\ Leads(Tail(inbox), i - 1, Applied(client.batch, inbox[1])) = Leads(inbox, i, client.batch)
    <3>1. /\ Complete(Tail(inbox), i - 1, cache, Low) /\ Tail(inbox)[i - 1] = inbox[i]
          /\ \A b \in SUBSET Roa : Leads(Tail(inbox), i - 1, IF inbox[1].type = "Prefix" THEN Applied(b, inbox[1]) ELSE b)
                                    = Leads(inbox, i, b)
      BY <1>1, <1>2, <2>1, <2>2, TailComplete, Zenon
    <3> QED BY <1>2, <1>4, <3>1, Zenon
  <2> DEFINE c == [d EXCEPT !.batch = Applied(@, Head(inbox))]
  <2>4. /\ c \in Clients /\ c.phase = "ReceivingPayload" /\ c.session = cache.session
        /\ c.batch = Applied(client.batch, inbox[1])
        /\ c.serial = client.serial /\ c.records = client.records /\ c.age = client.age
    BY <1>2, <1>4, <1>6, <1>7 DEF Clients
  <2> HIDE DEF c
  <2>5. Become(c, <<>>)
    BY <1>5, <1>7 DEF c
  <2>6. /\ client' = c /\ inbox' = Tail(inbox) /\ query' = query \o <<>>
        /\ UNCHANGED <<up, cache, owner, mixed, orphaned>> /\ Low' = Low
        /\ Held' /\ OwnerPast' /\ SyncedOwner' /\ Age'
    <3>1. UNCHANGED <<store, owner, orphaned>>
      BY DEF RecvPrefix
    <3>2. c.phase # "Synced"
      BY <2>4
    <3> QED BY <1>1, <2>4, <2>5, <3>1, <3>2, BecomeKeeps, Zenon
  <2>7. query' = <<>>
    BY <1>1, <1>7, <2>6, ConcatNothing, Zenon
  <2>8. ~mixed => Yields(Tail(inbox), i - 1, cache, c.batch)
    <3>1. c.batch = Applied(client.batch, inbox[1]) /\ (~mixed => Yields(inbox, i, cache, client.batch))
      BY <2>1, <2>4, Zenon
    <3> QED BY <2>3, <3>1, Zenon DEF Yields
  <2>9. PayloadForm'
    BY <2>2, <2>3, <2>4, <2>6, <2>7, <2>8, Zenon DEF PayloadForm
  <2> QED BY <2>6, <2>9 DEF Forms, RtrInv
<1>8. CASE /\ client.phase = "AwaitingReset"
           /\ \E i \in 2..Len(inbox) : inbox[i].type = "EndOfData" /\ Payload(inbox, 1, i - 1)
  <2>1. PICK i \in 2..Len(inbox) : inbox[i].type = "EndOfData" /\ Payload(inbox, 1, i - 1)
    BY <1>8
  <2>2. /\ i - 1 \in 1..Len(Tail(inbox)) /\ Payload(Tail(inbox), 1, (i - 1) - 1)
        /\ Tail(inbox)[i - 1].type = "EndOfData"
    BY <1>3, <2>1
  <2>3. Become(d, <<>>)
    BY <1>5, <1>8
  <2>4. /\ client' = d /\ inbox' = Tail(inbox)
        /\ Held' /\ OwnerPast' /\ SyncedOwner' /\ Age'
    BY <1>1, <1>4, <2>3, BecomeKeeps, Zenon
  <2>5. StaleForm'
    BY <1>4, <1>8, <2>2, <2>4, Zenon DEF StaleForm
  <2> QED BY <2>4, <2>5 DEF Forms, RtrInv
<1> QED BY <1>1, <1>2, <1>7, <1>8, Heads, Zenon DEF PayloadNow, StaleNow

\* End of Data: the batch is the version it names, and becomes the records and the store.
LEMMA EndOfDataStep == ASSUME RtrInv, Types', RecvEndOfData PROVE RtrInv'
<1>1. /\ inbox # <<>> /\ up /\ Head(inbox).type = "EndOfData" /\ Types /\ Forms /\ Held /\ Age
      /\ client \in Clients /\ cache \in Caches /\ query \in Seq(Queries) /\ store \in SUBSET Roa
  BY DEF RecvEndOfData, HasPdu, RtrInv, Types
<1>2. /\ inbox \in Seq(Pdus) /\ inbox[1] = Head(inbox) /\ inbox[1].type = "EndOfData" /\ inbox[1] \in Pdus
      /\ Len(inbox) \in Nat \ {0} /\ Len(Tail(inbox)) = Len(inbox) - 1
      /\ \A j \in 1..(Len(inbox) - 1) : Tail(inbox)[j] = inbox[j + 1]
  BY <1>1, TailForms
<1> DEFINE d == Downgraded
           m == Head(inbox)
           c == [d EXCEPT !.records = d.batch, !.batch = {}, !.serial = m.serial,
                          !.phase = "Synced", !.age = 0]
<1>3. /\ d \in Clients /\ d.session = client.session /\ d.serial = client.serial
      /\ d.phase = client.phase /\ d.records = client.records /\ d.age = client.age
      /\ d.batch = client.batch /\ client.batch \in SUBSET Roa
  BY <1>1, DowngradedType DEF Clients
<1>4. IF d.phase # "ReceivingPayload" \/ m.session # d.session THEN Drop(d)
      ELSE /\ Become(c, <<>>)
           /\ store' = WithDeltas(DiffRecords(d.records, d.batch))
           /\ orphaned' = (orphaned /\ store' # d.batch)
           /\ owner' = d.session
  BY DEF RecvEndOfData
<1>5. /\ c.records = d.batch /\ c.serial = m.serial /\ c.phase = "Synced" /\ c.age = 0
      /\ c.session = d.session
  BY <1>3 DEF Clients
<1> HIDE DEF d, m, c
<1>6. CASE d.phase # "ReceivingPayload" \/ m.session # d.session
  BY <1>3, <1>4, <1>6, DropKeeps
<1>7. CASE ~(d.phase # "ReceivingPayload" \/ m.session # d.session)
  <2>1. /\ query = <<>> /\ client.session = cache.session /\ Complete(inbox, 1, cache, Low)
        /\ ~mixed => Yields(inbox, 1, cache, client.batch)
    <3>1. client.phase # "AwaitingReset"
      BY <1>3, <1>7
    <3> QED BY <1>1, <1>2, <3>1, Heads, Zenon DEF EndNow
  <2>2. /\ client' = c /\ inbox' = Tail(inbox) /\ query' = query \o <<>>
        /\ UNCHANGED <<up, cache, mixed>>
        /\ store' = WithDeltas(DiffRecords(client.records, client.batch))
        /\ orphaned' = (orphaned /\ store' # client.batch)
        /\ owner' = cache.session
    <3>1. /\ Become(c, <<>>) /\ store' = WithDeltas(DiffRecords(d.records, d.batch)) /\ owner' = d.session
          /\ orphaned' = (orphaned /\ store' # d.batch)
      BY <1>4, <1>7, Zenon
    <3>2. d.records = client.records /\ d.batch = client.batch /\ d.session = cache.session
      BY <1>3, <2>1, Zenon
    <3>3. /\ store' = WithDeltas(DiffRecords(client.records, client.batch)) /\ owner' = cache.session
          /\ orphaned' = (orphaned /\ store' # client.batch)
      BY <3>1, <3>2, Zenon
    <3> QED BY <3>1, <3>3, Zenon DEF Become
  <2>3. query' = <<>>
    BY <1>1, <2>1, <2>2, ConcatNothing, Zenon
  <2>4. Chatter(Tail(inbox), 1, Len(Tail(inbox)))
    <3>1. Chatter(inbox, 2, Len(inbox))
      BY <2>1 DEF Complete
    <3>2. ASSUME NEW j \in 1..Len(Tail(inbox))
          PROVE  j + 1 \in 2..Len(inbox) /\ Tail(inbox)[j] = inbox[j + 1]
      BY <1>2
    <3> QED BY <3>1, <3>2 DEF Chatter
  <2>5. SyncedForm'
    BY <1>5, <2>2, <2>3, <2>4 DEF SyncedForm
  <2>6. m.serial \in 0..(Len(cache.hist) - 1) /\ m.serial # None
    <3>1. m.serial \in Low..(Len(cache.hist) - 1) /\ m.serial >= 0
      BY <1>2, <2>1, Zenon DEF Complete, m
    <3> QED BY <3>1 DEF None
  <2>7. ~mixed => client.batch = cache.hist[m.serial + 1]
    <3>1. Leads(inbox, 1, client.batch) = client.batch
      BY DEF Leads, Changed
    <3> QED BY <1>2, <2>1, <3>1, Zenon DEF Yields, m
  <2>8. Held' /\ OwnerPast' /\ SyncedOwner'
    <3>1. cache.session \in Int
      BY <1>1 DEF Caches
    <3>2. Held'
      BY <1>3, <1>5, <2>2, <2>6, <2>7 DEF Held
    <3>3. owner' = cache.session /\ cache' = cache /\ client'.serial # None /\ client'.session = cache.session
      BY <1>3, <1>5, <2>1, <2>2, <2>6, Zenon
    <3>4. OwnerPast'
      BY <3>1, <3>3 DEF OwnerPast
    <3>5. SyncedOwner'
      BY <3>3, Zenon DEF SyncedOwner
    <3> QED BY <3>2, <3>4, <3>5
  <2>9. Age'
    <3>1. ~orphaned => store' = client.batch
      BY <1>1, <2>2, Zenon DEF Age, WithDeltas, DiffRecords
    <3>o. ~orphaned' => store' = client.batch
      BY <2>2, <3>1, Zenon
    <3>2. 0 \in -1..(Expire - 1)
      BY IntervalAssumption
    <3>3. client'.age = 0 /\ client'.records = client.batch
      BY <1>3, <1>5, <2>2, Zenon
    <3> QED BY <3>2, <3>3, <3>o DEF Age, None
  <2> QED BY <2>5, <2>8, <2>9, Zenon DEF RtrInv, Forms
<1> QED BY <1>6, <1>7

\* Cache Reset: the client starts over.
LEMMA CacheResetStep == ASSUME RtrInv, Types', RecvCacheReset PROVE RtrInv'
<1>1. /\ inbox # <<>> /\ up /\ Head(inbox).type = "CacheReset" /\ Types /\ Forms
      /\ UNCHANGED <<store, owner, orphaned>>
  BY DEF RecvCacheReset, HasPdu, RtrInv
<1>2. /\ inbox[1].type = "CacheReset" /\ Len(inbox) \in Nat \ {0} /\ Len(Tail(inbox)) = Len(inbox) - 1
      /\ \A a, b \in Int : Chatter(inbox, a, b) /\ a >= 2 /\ b <= Len(inbox) => Chatter(Tail(inbox), a - 1, b - 1)
  BY <1>1, TailForms
<1>3. Awaiting /\ query = <<>> /\ Chatter(inbox, 2, Len(inbox))
  BY <1>1, <1>2, Heads, Zenon DEF RefusalNow
<1>4. Chatter(Tail(inbox), 1, Len(Tail(inbox)))
  <2>1. Chatter(Tail(inbox), 2 - 1, Len(inbox) - 1)
    BY <1>2, <1>3
  <2> QED BY <1>2, <2>1
<1> DEFINE d == Downgraded
           c == [d EXCEPT !.phase = "AwaitingReset", !.batch = {}]
<1>5. /\ d \in Clients /\ d.session = client.session /\ d.serial = client.serial
      /\ d.records = client.records /\ d.age = client.age
  BY <1>1, DowngradedType
<1>6. Become(c, <<ResetQuery(d)>>)
  BY DEF RecvCacheReset
<1>7. /\ c \in Clients /\ c.phase = "AwaitingReset" /\ c.serial = client.serial
      /\ c.records = client.records /\ c.age = client.age
  <2> HIDE DEF d
  <2> QED BY <1>5, Zenon DEF Clients, Phases
<1> HIDE DEF c, d
<1>8. /\ client' = c /\ inbox' = Tail(inbox) /\ query' = query \o <<ResetQuery(d)>>
      /\ Held' /\ OwnerPast' /\ SyncedOwner' /\ Age'
  BY <1>1, <1>6, <1>7, BecomeKeeps, Zenon
<1>9. QueryForm'
  BY <1>1, <1>3, <1>4, <1>5, <1>7, <1>8, ResetQuerySent, Zenon
<1> QED BY <1>8, <1>9 DEF Forms, RtrInv

\* A client from scratch knows no serial and no records.
LEMMA NewClientKeeps ==
    ASSUME RtrInv, Types', client' = NewClient, OwnerPast',
           NEW wait \in BOOLEAN, Disconnected(wait), orphaned' \/ store' = {}
    PROVE  RtrInv'
<1>1. NewClient.serial = None /\ NewClient.phase = "AwaitingReset" /\ NewClient.records = {} /\ NewClient.age = None
  BY DEF NewClient
<1>2. -1 \in -1..(Expire - 1)
  BY IntervalAssumption
<1>3. Held' /\ SyncedOwner' /\ Age'
  BY <1>1, <1>2 DEF Held, SyncedOwner, Age, None
<1> QED BY <1>3, Disconnects

\* Whatever PDU is read, the invariant holds on.
LEMMA ReceiveStep == ASSUME RtrInv, Types', Receive PROVE RtrInv'
<1>1. client \in Clients /\ Types
  BY DEF RtrInv, Types
<1>2. CASE RecvHigherVersion
  BY <1>1, <1>2, DropKeeps DEF RecvHigherVersion
<1>3. CASE RecvErrorReport
  <2>1. inbox # <<>> /\ Drop(Downgraded)
    BY <1>3 DEF RecvErrorReport, HasPdu
  <2> QED BY <1>1, <2>1, DropKeeps, DowngradedType
<1>4. CASE RecvMalformed
  <2>1. /\ client' = NewClient /\ Disconnected(TRUE)
        /\ orphaned' = (store # {}) /\ UNCHANGED <<store, cache, owner>>
    BY <1>4, Zenon DEF RecvMalformed
  <2>2. orphaned' \/ store' = {}
    BY <2>1, Zenon
  <2>3. OwnerPast'
    BY <2>1 DEF RtrInv, OwnerPast
  <2> QED BY <2>1, <2>2, <2>3, NewClientKeeps, Zenon
<1> QED BY <1>2, <1>3, <1>4, SerialNotifyStep, CacheResponseStep, PrefixStep, EndOfDataStep,
           CacheResetStep DEF Receive
=============================================================================
