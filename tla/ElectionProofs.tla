--------------------------- MODULE ElectionProofs ---------------------------
(***************************************************************************)
(* Proofs about the two choices the daemon makes by comparison.             *)
(*                                                                          *)
(* The BGP decision process: compare always decides between routes of       *)
(* different peers; it is an order once MED is compared between any two     *)
(* routes, and none under the default configuration; the scan of select     *)
(* finds the best route in any order exactly in the first case.             *)
(*                                                                          *)
(* The OSPF designated router: elect, for every set of electors, priorities *)
(* and claims, names electors, and never one router for both roles of the   *)
(* router that runs the election.  On the segment, for any number of        *)
(* routers, any priorities and any number of faults: types, no router in    *)
(* both roles, and adjacencies that follow the election.                    *)
(***************************************************************************)
EXTENDS BestPath, OspfElection, TLAPS, WellFoundedInduction

Less == {p \in Nat \X Nat : p[1] < p[2]}

\* A set of natural numbers has a least element.
LEMMA LeastNatural ==
    ASSUME NEW S \in SUBSET Nat, S # {}
    PROVE  \E m \in S : \A n \in S : m <= n
<1>1. IsWellFoundedOn(Less, Nat)
  BY NatLessThanWellFounded DEF Less, OpToRel
<1>2. PICK m \in S : \A n \in S : <<n, m>> \notin Less
  BY <1>1, WFMin, Zenon
<1>3. \A n \in S : ~(n < m)
  BY <1>2, Zenon DEF Less
<1> QED BY <1>3

---------------------------------------------------------------------------
(* The decision process: steps. *)

\* Every step compares integers.
LEMMA KeyType ==
    ASSUME NEW r \in Route, NEW cfg \in Config
    PROVE  Key(r, cfg) \in [1..Last -> Int]
<1>1. \A x \in Opt(Nat), d \in Int : Or(x, d) \in Int
  BY DEF Opt, Or, None
<1>2. \A b : Flag(b) \in Int
  BY DEF Flag
<1>3. U32Max \in Int /\ -LocalPref(r) \in Int /\ Or(r.origin, 2) \in Int
  BY <1>1 DEF U32Max, LocalPref, Route, Opt, Or, None
<1>4. /\ r.len \in Int /\ r.lenConfed \in Int /\ r.age \in Int /\ r.clusters \in Int /\ r.peer \in Int
      /\ r.med \in Opt(Nat) /\ r.igp \in Opt(Nat) /\ r.originator \in Opt(Nat)
  BY DEF Route
<1>5. /\ \A d \in Int : Or(r.med, d) \in Int /\ Or(r.igp, d) \in Int /\ Or(r.originator, d) \in Int
  BY <1>1, <1>4
<1> QED BY <1>2, <1>3, <1>4, <1>5 DEF Key, Med, Last

\* A step that tells two routes apart is preceded by a first one.
LEMMA FirstStep ==
    ASSUME NEW a, NEW b, NEW cfg, NEW k \in 1..Last, Differs(k, a, b, cfg)
    PROVE  \E i \in 1..Last : Differs(i, a, b, cfg) /\ \A j \in 1..(i - 1) : ~Differs(j, a, b, cfg)
<1> DEFINE S == {i \in 1..Last : Differs(i, a, b, cfg)}
<1>1. S \in SUBSET Nat /\ S # {}
  BY DEF Last
<1>2. IsWellFoundedOn(Less, Nat)
  BY NatLessThanWellFounded DEF Less, OpToRel
<1>3. PICK i \in S : \A j \in S : <<j, i>> \notin Less
  BY <1>1, <1>2, WFMin, Zenon
<1>4. ASSUME NEW j \in 1..(i - 1) PROVE ~Differs(j, a, b, cfg)
  <2>1. j \in 1..Last /\ j < i /\ i \in Nat /\ j \in Nat
    BY <1>3 DEF Last
  <2>2. <<j, i>> \in Less
    BY <2>1 DEF Less
  <2> QED BY <1>3, <2>1, <2>2
<1> QED BY <1>3, <1>4

\* What decides between a and b decides between b and a.
LEMMA DiffersBothWays ==
    ASSUME NEW a, NEW b, NEW cfg, NEW i
    PROVE  Differs(i, a, b, cfg) <=> Differs(i, b, a, cfg)
BY DEF Differs, Decides, SameNeighbor

---------------------------------------------------------------------------
(* compare. *)

\* compare is a decision under every configuration: of two routes one is preferred, never
\* both, or they tie; and only routes of one peer tie ("ties at the last step are broken").
THEOREM CompareDecides ==
    ASSUME NEW a \in Route, NEW b \in Route, NEW cfg \in Config
    PROVE  /\ ~(Preferred(a, b, cfg) /\ Preferred(b, a, cfg))
           /\ Preferred(a, b, cfg) \/ Preferred(b, a, cfg) \/ Tied(a, b, cfg)
           /\ Tied(a, b, cfg) => a.peer = b.peer
<1>0. Key(a, cfg) \in [1..Last -> Int] /\ Key(b, cfg) \in [1..Last -> Int]
  BY KeyType
<1>1. ASSUME Preferred(a, b, cfg), Preferred(b, a, cfg) PROVE FALSE
  <2>1. PICK i \in 1..Last : /\ Differs(i, a, b, cfg) /\ Key(a, cfg)[i] < Key(b, cfg)[i]
                             /\ \A j \in 1..(i - 1) : ~Differs(j, a, b, cfg)
    BY <1>1 DEF Preferred
  <2>2. PICK k \in 1..Last : /\ Differs(k, b, a, cfg) /\ Key(b, cfg)[k] < Key(a, cfg)[k]
                             /\ \A j \in 1..(k - 1) : ~Differs(j, b, a, cfg)
    BY <1>1 DEF Preferred
  <2>3. Differs(k, a, b, cfg) /\ Differs(i, b, a, cfg)
    BY <2>1, <2>2, DiffersBothWays
  <2>4. i = k
    <3>1. i \in Int /\ k \in Int /\ ~(k \in 1..(i - 1)) /\ ~(i \in 1..(k - 1))
      BY <2>1, <2>2, <2>3 DEF Last
    <3> QED BY <3>1 DEF Last
  <2> QED BY <1>0, <2>1, <2>2, <2>4
<1>2. ASSUME ~Tied(a, b, cfg) PROVE Preferred(a, b, cfg) \/ Preferred(b, a, cfg)
  <2>1. PICK k \in 1..Last : Differs(k, a, b, cfg)
    BY <1>2 DEF Tied
  <2>2. PICK i \in 1..Last : Differs(i, a, b, cfg) /\ \A j \in 1..(i - 1) : ~Differs(j, a, b, cfg)
    BY <2>1, FirstStep
  <2>3. \/ Key(a, cfg)[i] < Key(b, cfg)[i]
        \/ Key(b, cfg)[i] < Key(a, cfg)[i]
    <3>1. Key(a, cfg)[i] \in Int /\ Key(b, cfg)[i] \in Int /\ Key(a, cfg)[i] # Key(b, cfg)[i]
      BY <1>0, <2>2 DEF Differs
    <3> QED BY <3>1
  <2> QED BY <2>2, <2>3, DiffersBothWays DEF Preferred
<1>3. ASSUME Tied(a, b, cfg) PROVE a.peer = b.peer
  <2>1. Last \in 1..Last /\ Last # Med
    BY DEF Last, Med
  <2>2. Key(a, cfg)[Last] = Key(b, cfg)[Last]
    BY <1>3, <2>1 DEF Tied, Differs, Decides
  <2>3. Key(a, cfg)[Last] = a.peer /\ Key(b, cfg)[Last] = b.peer
    BY <2>1 DEF Key, Last, Med
  <2> QED BY <2>2, <2>3, Zenon
<1> QED BY <1>1, <1>2, <1>3

\* With always_compare_med, or among routes of one neighboring AS, compare is transitive;
\* with CompareDecides, the total order that a sort and a minimum need.
THEOREM CompareTransitive ==
    ASSUME NEW a \in Route, NEW b \in Route, NEW c \in Route, NEW cfg \in Config,
           cfg.alwaysMed \/ (SameNeighbor(a, b) /\ SameNeighbor(b, c)),
           Preferred(a, b, cfg), Preferred(b, c, cfg)
    PROVE  Preferred(a, c, cfg)
<1> DEFINE A == Key(a, cfg)
           B == Key(b, cfg)
           C == Key(c, cfg)
<1>0. A \in [1..Last -> Int] /\ B \in [1..Last -> Int] /\ C \in [1..Last -> Int]
  BY KeyType
<1>1. \A i : /\ Differs(i, a, b, cfg) <=> A[i] # B[i]
             /\ Differs(i, b, c, cfg) <=> B[i] # C[i]
             /\ Differs(i, a, c, cfg) <=> A[i] # C[i]
  BY DEF Differs, Decides, SameNeighbor
<1>2. PICK i \in 1..Last : A[i] < B[i] /\ \A j \in 1..(i - 1) : A[j] = B[j]
  BY <1>1 DEF Preferred
<1>3. PICK k \in 1..Last : B[k] < C[k] /\ \A j \in 1..(k - 1) : B[j] = C[j]
  BY <1>1 DEF Preferred
<1>4. \E m \in 1..Last : A[m] < C[m] /\ \A j \in 1..(m - 1) : A[j] = C[j]
  <2> HIDE DEF A, B, C
  <2>0. i \in Int /\ k \in Int
    BY DEF Last
  <2>1. CASE i <= k
    <3>1. \A j \in 1..(i - 1) : j \in 1..(k - 1)
      BY <2>0, <2>1
    <3>2. i < k => i \in 1..(k - 1)
      BY <2>0 DEF Last
    <3>3. A[i] < C[i]
      BY <1>0, <1>2, <1>3, <2>0, <2>1, <3>2
    <3> QED BY <1>2, <1>3, <3>1, <3>3
  <2>2. CASE k < i
    <3>1. \A j \in 1..(k - 1) : j \in 1..(i - 1)
      BY <2>0, <2>2
    <3>2. k \in 1..(i - 1)
      BY <2>0, <2>2 DEF Last
    <3>3. A[k] < C[k]
      BY <1>2, <1>3, <3>2
    <3> QED BY <1>2, <1>3, <3>1, <3>3
  <2> QED BY <2>0, <2>1, <2>2
<1>5. PICK m \in 1..Last : A[m] < C[m] /\ \A j \in 1..(m - 1) : A[j] = C[j]
  BY <1>4
<1>6. A[m] # C[m]
  BY <1>0, <1>5
<1> QED BY <1>1, <1>5, <1>6 DEF Preferred

\* A route that the steps up to the IGP metric see only by AS, MED and metric.
Plain(first, med, igp, peer) ==
    [stale |-> FALSE, gshut |-> FALSE, internal |-> FALSE, localPref |-> None, len |-> 1,
     lenConfed |-> 1, first |-> first, origin |-> 0, med |-> med, igp |-> igp,
     self |-> FALSE, originator |-> None, clusters |-> 0, age |-> 0, peer |-> peer]

\* What the first eight steps compare of it.
Looks(r, first, med, igp) ==
    /\ r \in Route
    /\ r.first = first
    /\ \A i \in 1..8 : Key(r, Default)[i] =
                         IF i = 3 THEN -100 ELSE IF i = 4 THEN 1 ELSE
                         IF i = 6 THEN med ELSE IF i = 8 THEN igp ELSE 0

\* A Plain route looks the way its four arguments say.
LEMMA PlainLooks ==
    ASSUME NEW f \in Nat, NEW m \in Nat, NEW g \in Nat, NEW p \in Nat
    PROVE  Looks(Plain(f, m, g, p), f, m, g)
<1> DEFINE r == Plain(f, m, g, p)
<1>1. r \in Route /\ r.first = f
  BY DEF Plain, Route, Opt, None
<1>2. LocalPref(r) = 100 /\ Or(r.origin, 2) = 0 /\ Or(r.med, 0) = m /\ Or(r.igp, U32Max) = g
  BY DEF Plain, LocalPref, Or, None
<1>3. \A i \in 1..8 : Key(r, Default)[i] =
                        IF i = 3 THEN -100 ELSE IF i = 4 THEN 1 ELSE
                        IF i = 6 THEN m ELSE IF i = 8 THEN g ELSE 0
  BY <1>2 DEF Plain, Key, Last, Med, Flag, Default
<1> QED BY <1>1, <1>3 DEF Looks

\* The IGP metric decides between two of them from different ASes.
LEMMA MetricDecides ==
    ASSUME NEW a, NEW b, NEW f, NEW e, NEW m \in Nat, NEW n \in Nat, NEW g \in Nat, NEW h \in Nat,
           Looks(a, f, m, g), Looks(b, e, n, h), f # e, g < h
    PROVE  Preferred(a, b, Default)
<1>1. Differs(8, a, b, Default) /\ Key(a, Default)[8] < Key(b, Default)[8]
  BY DEF Looks, Differs, Decides, Med
<1>2. \A j \in 1..7 : ~Differs(j, a, b, Default)
  BY DEF Looks, Differs, Decides, Med, SameNeighbor, Default
<1> QED BY <1>1, <1>2 DEF Preferred, Last

\* MED decides between two of them from one AS.
LEMMA MedDecides ==
    ASSUME NEW a, NEW b, NEW f, NEW m \in Nat, NEW n \in Nat, NEW g \in Nat, NEW h \in Nat,
           Looks(a, f, m, g), Looks(b, f, n, h), m < n
    PROVE  Preferred(a, b, Default)
<1>1. Differs(6, a, b, Default) /\ Key(a, Default)[6] < Key(b, Default)[6]
  BY DEF Looks, Differs, Decides, Med, SameNeighbor
<1>2. \A j \in 1..5 : ~Differs(j, a, b, Default)
  BY DEF Looks, Differs
<1> QED BY <1>1, <1>2 DEF Preferred, Last

\* Under the default configuration compare is not transitive: MED separates the two routes
\* of one AS, the IGP metric both of them from the route of another AS, in a circle.
\* BestPath::rank hands this relation to a sort.
THEOREM DefaultHasCycle ==
    \E a, b, c \in Route : /\ Preferred(a, b, Default)
                           /\ Preferred(b, c, Default)
                           /\ Preferred(c, a, Default)
<1> DEFINE a == Plain(1, 20, 1, 1)
           b == Plain(2, 0, 2, 2)
           c == Plain(1, 10, 3, 3)
<1>1. Looks(a, 1, 20, 1) /\ Looks(b, 2, 0, 2) /\ Looks(c, 1, 10, 3)
  BY PlainLooks
<1> HIDE DEF a, b, c
<1>2. Preferred(a, b, Default) /\ Preferred(b, c, Default)
  BY <1>1, MetricDecides
<1>3. Preferred(c, a, Default)
  BY <1>1, MedDecides
<1> QED BY <1>1, <1>2, <1>3 DEF Looks

---------------------------------------------------------------------------
(* select and multipath. *)

\* No route of S beats r.
Best(r, S, cfg) == \A q \in S : ~Preferred(q, r, cfg)

\* The scan of select holds a best route of those it has read, whatever their order, when
\* MED is compared between any two of them: every step of min_by keeps this.
THEOREM ScanKeepsBest ==
    ASSUME NEW S \in SUBSET Route, NEW best \in S, NEW r \in Route, NEW cfg \in Config,
           cfg.alwaysMed \/ \A p, q \in S \cup {r} : SameNeighbor(p, q),
           Best(best, S, cfg)
    PROVE  Scan(best, r, cfg) \in S \cup {r} /\ Best(Scan(best, r, cfg), S \cup {r}, cfg)
<1>1. CASE Preferred(r, best, cfg)
  <2>1. ~Preferred(r, r, cfg)
    BY CompareDecides
  <2>2. ASSUME NEW q \in S, Preferred(q, r, cfg) PROVE FALSE
    <3>1. cfg.alwaysMed \/ (SameNeighbor(q, r) /\ SameNeighbor(r, best))
      OBVIOUS
    <3>2. Preferred(q, best, cfg)
      BY <1>1, <2>2, <3>1, CompareTransitive
    <3> QED BY <3>2 DEF Best
  <2> QED BY <1>1, <2>1, <2>2 DEF Scan, Best
<1>2. CASE ~Preferred(r, best, cfg)
  BY <1>2 DEF Scan, Best
<1> QED BY <1>1, <1>2

\* Under every configuration, routes that nothing beats come from one peer: where select
\* finds such a route, no order of the candidates makes it choose another peer's.
THEOREM BestIsOnePeer ==
    ASSUME NEW S \in SUBSET Route, NEW p \in S, NEW q \in S, NEW cfg \in Config,
           Best(p, S, cfg), Best(q, S, cfg)
    PROVE  p.peer = q.peer
BY CompareDecides DEF Best

\* Without multipath_relax, routes that share the load with the best path are of equal cost
\* among themselves as well: no member of the set beats another before the peer is compared.
THEOREM SharersAreEqual ==
    ASSUME NEW best \in Route, NEW p \in Route, NEW q \in Route, NEW cfg \in Config, ~cfg.relax,
           Shares(p, best, cfg), Shares(q, best, cfg)
    PROVE  EqualCost(p, q, cfg)
<1>1. ASSUME NEW i \in 1..(Last - 1), i = 10 => cfg.routerId PROVE ~Differs(i, p, q, cfg)
  <2>1. ~Differs(i, p, best, cfg) /\ ~Differs(i, q, best, cfg)
    BY <1>1 DEF Shares, EqualCost
  <2> QED BY <2>1 DEF Differs, Decides, Shares, SameNeighbor
<1> QED BY <1>1 DEF EqualCost

---------------------------------------------------------------------------
(* The election. *)

Id == Router \cup {0}
Result == [dr : Id, bdr : Id]
Priorities == [Router -> 0..255]

\* Among candidates, pick finds the one it describes.
LEMMA PickChooses ==
    ASSUME NEW C \in SUBSET Router, C # {}, NEW prio \in Priorities
    PROVE  Pick(C, prio) \in C
<1> DEFINE P == {255 - prio[e] : e \in C}
<1>0. \A e \in C : prio[e] \in 0..255 /\ e \in 1..MaxId /\ MaxId \in Nat
  BY RouterAssumption DEF Priorities
<1>1. P \in SUBSET Nat /\ P # {}
  BY <1>0
<1>2. PICK p \in P : \A n \in P : p <= n
  BY <1>1, LeastNatural, Zenon
<1>3. PICK a \in C : p = 255 - prio[a]
  BY <1>2
<1>4. \A f \in C : prio[f] <= prio[a]
  <2> TAKE f \in C
  <2>1. 255 - prio[f] \in P
    OBVIOUS
  <2>2. p <= 255 - prio[f]
    BY <1>2, <2>1
  <2>3. prio[f] \in Int /\ prio[a] \in Int
    BY <1>0
  <2> QED BY <1>3, <2>2, <2>3
<1> DEFINE Q == {e \in C : prio[e] = prio[a]}
<1> DEFINE N == {MaxId - e : e \in Q}
<1>5. N \in SUBSET Nat /\ N # {}
  BY <1>0
<1>6. PICK m \in N : \A n \in N : m <= n
  BY <1>5, LeastNatural, Zenon
<1>7. PICK b \in Q : m = MaxId - b
  BY <1>6
<1>8. \A f \in Q : f <= b
  <2> TAKE f \in Q
  <2>1. MaxId - f \in N
    OBVIOUS
  <2>2. m <= MaxId - f
    BY <1>6, <2>1
  <2> HIDE DEF N
  <2> QED BY <1>0, <1>7, <2>2
<1>9. ASSUME NEW f \in C
      PROVE  prio[f] < prio[b] \/ (prio[f] = prio[b] /\ f <= b)
  <2>1. b \in C /\ prio[b] = prio[a]
    OBVIOUS
  <2>2. prio[f] = prio[b] => f <= b
    BY <1>8
  <2> HIDE DEF P, Q, N
  <2>3. prio[f] \in Int /\ prio[b] \in Int
    BY <1>0, <2>1
  <2>4. prio[f] <= prio[b]
    BY <1>4, <2>1
  <2> QED BY <2>2, <2>3, <2>4
<1>10. \E e \in C : \A f \in C : prio[f] < prio[e] \/ (prio[f] = prio[e] /\ f <= e)
  BY <1>7, <1>9
<1> QED BY <1>10 DEF Pick

\* The routers a round looks at.
Electable(D, prio) == {e \in D : prio[e] > 0}
ClaimDr(D, c, prio) == {e \in Electable(D, prio) : c[e].dr = e}
Rest(D, c, prio) == Electable(D, prio) \ ClaimDr(D, c, prio)
ClaimBdr(D, c, prio) == {e \in Rest(D, c, prio) : c[e].bdr = e}

\* A round elects the Designated Router among those that claim the role, the Backup among
\* the others.
LEMMA RoundFacts ==
    ASSUME NEW D \in SUBSET Router, NEW c \in [D -> Result], NEW prio \in Priorities
    PROVE  /\ Round(c, prio) \in Result
           /\ IF ClaimDr(D, c, prio) # {} THEN Round(c, prio).dr \in ClaimDr(D, c, prio)
              ELSE Round(c, prio).dr = Round(c, prio).bdr
           /\ IF ClaimBdr(D, c, prio) # {} THEN Round(c, prio).bdr \in ClaimBdr(D, c, prio)
              ELSE Round(c, prio).bdr = Pick(Rest(D, c, prio), prio)
           /\ IF Rest(D, c, prio) # {} THEN Round(c, prio).bdr \in Rest(D, c, prio)
              ELSE Round(c, prio).bdr = 0
<1> DEFINE dr == ClaimDr(D, c, prio)
           bdr == ClaimBdr(D, c, prio)
           rest == Rest(D, c, prio)
           backup == Pick(IF bdr # {} THEN bdr ELSE rest, prio)
<1>1. Round(c, prio) = [dr |-> IF dr # {} THEN Pick(dr, prio) ELSE backup, bdr |-> backup]
  BY DEF Round, Electable, ClaimDr, Rest, ClaimBdr
<1>2. dr \in SUBSET Router /\ rest \in SUBSET Router /\ bdr \in SUBSET rest
  BY DEF Electable, ClaimDr, Rest, ClaimBdr
<1> HIDE DEF dr, bdr, rest
<1>3. dr # {} => Pick(dr, prio) \in dr
  BY <1>2, PickChooses
<1>4. bdr # {} => backup \in bdr
  BY <1>2, PickChooses
<1>5. bdr = {} => backup = Pick(rest, prio)
  OBVIOUS
<1>6. rest # {} => Pick(rest, prio) \in rest
  BY <1>2, PickChooses
<1>7. Pick({}, prio) = 0
  BY DEF Pick
<1>8. IF rest # {} THEN backup \in rest ELSE backup = 0
  BY <1>2, <1>4, <1>5, <1>6, <1>7
<1> HIDE DEF backup
<1>9. backup \in Id /\ (dr # {} => Pick(dr, prio) \in Id)
  BY <1>2, <1>3, <1>8 DEF Id
<1> QED BY <1>1, <1>3, <1>4, <1>5, <1>8, <1>9 DEF Result, dr, bdr, rest

\* elect returns routers, and never the router itself for both roles.
LEMMA ElectFacts ==
    ASSUME NEW D \in SUBSET Router, NEW c \in [D -> Result], NEW prio \in Priorities, NEW self \in D
    PROVE  /\ Elect(c, prio, self) \in Result
           /\ ~(Elect(c, prio, self).dr = self /\ Elect(c, prio, self).bdr = self)
<1> DEFINE first == Round(c, prio)
           c2 == [c EXCEPT ![self] = first]
           second == Round(c2, prio)
           again == /\ prio[self] > 0
                    /\ \/ Newly(self, c[self].dr, first.dr)
                       \/ Newly(self, c[self].bdr, first.bdr)
           twice == [dr |-> IF second.dr = 0 THEN second.bdr ELSE second.dr, bdr |-> second.bdr]
<1>1. Elect(c, prio, self) = IF ~again THEN first ELSE twice
  BY DEF Elect
<1> DEFINE Facts(x, w) ==
               /\ w \in Result
               /\ IF ClaimDr(D, x, prio) # {} THEN w.dr \in ClaimDr(D, x, prio) ELSE w.dr = w.bdr
               /\ IF ClaimBdr(D, x, prio) # {} THEN w.bdr \in ClaimBdr(D, x, prio)
                  ELSE w.bdr = Pick(Rest(D, x, prio), prio)
               /\ IF Rest(D, x, prio) # {} THEN w.bdr \in Rest(D, x, prio) ELSE w.bdr = 0
<1>2. Facts(c, first)
  BY RoundFacts
<1>3. c2 \in [D -> Result] /\ c2[self] = first /\ \A e \in D \ {self} : c2[e] = c[e]
  <2>1. first \in Result
    BY <1>2
  <2> HIDE DEF first
  <2> QED BY <2>1
<1>4. Facts(c2, second)
  <2>1. c2 \in [D -> Result]
    BY <1>3
  <2> HIDE DEF c2
  <2> QED BY <2>1, RoundFacts
<1>5. twice \in Result
  BY <1>4 DEF Result
<1>6. self # 0
  BY RouterAssumption
<1> HIDE DEF first, second, c2
<1>7. ASSUME first.dr = self, first.bdr = self
      PROVE  again
  <2>1. self \in Electable(D, prio) /\ c[self].dr # self
    BY <1>2, <1>6, <1>7 DEF Rest, ClaimDr
  <2> QED BY <1>7, <2>1 DEF Electable, Newly
<1>8. ASSUME again, second.bdr = self, second.dr \in {0, self}
      PROVE  FALSE
  <2>1. self \in Electable(D, prio) /\ self \in Rest(D, c2, prio)
    BY <1>4, <1>6, <1>8 DEF Rest
  <2>2. first.dr # self
    BY <1>3, <2>1 DEF Rest, ClaimDr
  <2>3. ClaimDr(D, c2, prio) = {}
    <3>1. \A e \in ClaimDr(D, c2, prio) : e # 0
      BY RouterAssumption DEF ClaimDr, Electable
    <3>2. self \notin ClaimDr(D, c2, prio)
      BY <2>1 DEF Rest
    <3> QED BY <1>4, <1>8, <3>1, <3>2
  <2>4. ClaimDr(D, c, prio) = {}
    <3>1. ClaimDr(D, c, prio) \subseteq {self}
      BY <1>3, <2>3 DEF ClaimDr, Electable
    <3> QED BY <1>2, <2>2, <3>1
  <2>5. first.bdr # self /\ first.dr = first.bdr
    BY <1>2, <2>2, <2>4
  <2>6. Rest(D, c2, prio) = Rest(D, c, prio)
    BY <2>3, <2>4 DEF Rest
  <2>7. CASE ClaimBdr(D, c, prio) = {}
    <3>1. ClaimBdr(D, c2, prio) = {}
      BY <1>3, <2>5, <2>6, <2>7 DEF ClaimBdr, Rest, Electable
    <3>2. second.bdr = first.bdr
      BY <1>2, <1>4, <2>6, <2>7, <3>1
    <3> QED BY <1>8, <2>5, <3>2
  <2>8. CASE ClaimBdr(D, c, prio) # {}
    <3>1. first.bdr \in ClaimBdr(D, c, prio)
      BY <1>2, <2>8
    <3>2. first.bdr \in ClaimBdr(D, c2, prio) /\ self \notin ClaimBdr(D, c2, prio)
      BY <1>3, <2>5, <2>6, <3>1 DEF ClaimBdr, Rest, Electable
    <3> QED BY <1>4, <1>8, <3>2
  <2> QED BY <2>7, <2>8
<1> HIDE DEF again
<1> QED BY <1>1, <1>2, <1>5, <1>7, <1>8

---------------------------------------------------------------------------
(* Tables: functions on some of the elements of a set. *)

Table(S, T) == UNION {[D -> T] : D \in SUBSET S}

\* What it means to be a table.
LEMMA TableIs ==
    ASSUME NEW S, NEW T, NEW f
    PROVE  f \in Table(S, T) <=> \E D \in SUBSET S : f \in [D -> T]
BY DEF Table

\* The empty table.
LEMMA EmptyTable ==
    ASSUME NEW S, NEW T
    PROVE  <<>> \in Table(S, T) /\ DOMAIN <<>> = {}
<1>1. <<>> \in [{} -> T] /\ DOMAIN <<>> = {}
  OBVIOUS
<1> QED BY <1>1, TableIs, Zenon

---------------------------------------------------------------------------
(* Sessions. *)

SessionType == [state : {"Down", "Init", "TwoWay", "Adjacent"}, ip : Id]

\* What is right about the session of s under the election's result.
SessionOK(s, r, x, dr, bdr) ==
    /\ x \in SessionType
    /\ x.ip \in {0, s}
    /\ x.state = "Adjacent" => Viable(r, x.ip, dr, bdr)
    /\ x.state = "TwoWay" => ~Viable(r, x.ip, dr, bdr)

\* AdjOk decides a session in 2-Way.
LEMMA AdjOkOK ==
    ASSUME NEW s, NEW r, NEW dr, NEW bdr, NEW x \in SessionType, x.ip \in {0, s}, x.state = "TwoWay"
    PROVE  SessionOK(s, r, AdjOk(r, x, dr, bdr), dr, bdr)
BY DEF SessionOK, SessionType, AdjOk

\* Hellos and Database Descriptions leave a session right.
LEMMA PacketOK ==
    ASSUME NEW s, NEW r, NEW dr, NEW bdr, NEW x, SessionOK(s, r, x, dr, bdr), NEW lists
    PROVE  /\ SessionOK(s, r, OnHello(r, x, dr, bdr, lists), dr, bdr)
           /\ SessionOK(s, r, OnDbDesc(r, x, dr, bdr), dr, bdr)
<1> DEFINE y == [x EXCEPT !.state = "TwoWay"]
<1>1. y \in SessionType /\ y.ip \in {0, s} /\ y.state = "TwoWay"
  BY DEF SessionOK, SessionType
<1>2. SessionOK(s, r, AdjOk(r, y, dr, bdr), dr, bdr)
  BY <1>1, AdjOkOK, Zenon
<1>3. x.state = "Down" => SessionOK(s, r, [x EXCEPT !.state = "Init"], dr, bdr)
  BY DEF SessionOK, SessionType
<1> HIDE DEF SessionOK
<1>4. SessionOK(s, r, OnHello(r, x, dr, bdr, lists), dr, bdr)
  BY <1>2, <1>3 DEF OnHello
<1>5. SessionOK(s, r, OnDbDesc(r, x, dr, bdr), dr, bdr)
  BY <1>2 DEF OnDbDesc
<1> QED BY <1>4, <1>5

\* A new result makes every session right again.
LEMMA SetDrStateOK ==
    ASSUME NEW s, NEW r, NEW dr, NEW bdr, NEW x \in SessionType, x.ip \in {0, s}
    PROVE  SessionOK(s, r, SetDrState(r, x, dr, bdr), dr, bdr)
BY DEF SessionOK, SessionType, SetDrState, AdjOk

---------------------------------------------------------------------------
(* The interface. *)

Others(r) == Router \ {r}
Claim == [two : BOOLEAN, dr : Id, bdr : Id]
HelloType == [dr : Id, bdr : Id, seen : SUBSET Id]
States == {"Down", "Waiting", "DrOther", "Backup", "Dr"}
NodeType(r) ==
    [state : States, dr : Id, bdr : Id, dirty : BOOLEAN,
     heard : Table(Others(r), Claim), nbr : Table(Others(r), SessionType)]

\* What is right about the interface of r.
NodeOK(r, n) ==
    /\ n \in NodeType(r)
    /\ DOMAIN n.heard \subseteq DOMAIN n.nbr
    /\ ~(n.dr = r /\ n.bdr = r)
    /\ \A s \in DOMAIN n.nbr : SessionOK(s, r, n.nbr[s], n.dr, n.bdr)

\* pump_inbound.
LEMMA InboundOK ==
    ASSUME NEW r \in Router, NEW n, NodeOK(r, n),
           NEW hs \in Table(Others(r), HelloType), NEW dds \in SUBSET Others(r)
    PROVE  NodeOK(r, Inbound(n, r, hs, dds))
<1> DEFINE t == TrackHello(n, r, hs)
           claims == [s \in DOMAIN hs |-> [two |-> r \in hs[s].seen, dr |-> hs[s].dr, bdr |-> hs[s].bdr]]
           fed == [s \in DOMAIN hs \cup dds |->
                     IF s \in dds THEN OnDbDesc(r, Session(t, s), t.dr, t.bdr)
                     ELSE OnHello(r, Session(t, s), t.dr, t.bdr, r \in hs[s].seen)]
           heard == Over(claims, n.heard)
           sessions == Over(fed, n.nbr)
           m == Inbound(n, r, hs, dds)
<1>1. PICK D \in SUBSET Others(r) : hs \in [D -> HelloType]
  BY TableIs
<1>2. PICK H \in SUBSET Others(r) : n.heard \in [H -> Claim]
  BY TableIs DEF NodeOK, NodeType
<1>3. PICK N \in SUBSET Others(r) : n.nbr \in [N -> SessionType]
  BY TableIs DEF NodeOK, NodeType
<1>4. heard \in [D \cup H -> Claim]
  <2>1. claims \in [D -> Claim]
    BY <1>1 DEF HelloType, Claim
  <2> HIDE DEF claims
  <2>2. heard = [x \in D \cup H |-> IF x \in D THEN claims[x] ELSE n.heard[x]]
    BY <1>2, <2>1 DEF Over
  <2> HIDE DEF heard
  <2> QED BY <1>2, <2>1, <2>2
<1>5. heard \in Table(Others(r), Claim)
  <2>1. D \cup H \in SUBSET Others(r)
    OBVIOUS
  <2> QED BY <1>4, <2>1, TableIs
<1>6. /\ t \in NodeType(r) /\ t.dr = n.dr /\ t.bdr = n.bdr /\ t.nbr = n.nbr
      /\ t.heard = heard
  <2>1. t = [n EXCEPT !.heard = heard,
                      !.dirty = @ \/ \E s \in DOMAIN hs : NeighborChange(n, r, s, hs[s])]
    BY DEF TrackHello, NodeOK, NodeType
  <2> HIDE DEF heard, t
  <2> QED BY <1>5, <2>1, Zenon DEF NodeOK, NodeType
<1> HIDE DEF t, heard
<1>7. ASSUME NEW s \in D \cup dds
      PROVE  SessionOK(s, r, Session(t, s), n.dr, n.bdr)
  <2>1. CASE s \in N
    BY <1>3, <1>6, <2>1 DEF NodeOK, Session
  <2>2. CASE s \notin N
    BY <1>1, <1>3, <1>6, <2>2 DEF SessionOK, SessionType, Session, Id, Others
  <2> QED BY <2>1, <2>2
<1>8. ASSUME NEW s \in D \cup dds
      PROVE  SessionOK(s, r, fed[s], n.dr, n.bdr)
  <2>1. SessionOK(s, r, OnDbDesc(r, Session(t, s), n.dr, n.bdr), n.dr, n.bdr)
    BY <1>7, PacketOK
  <2>2. SessionOK(s, r, OnHello(r, Session(t, s), n.dr, n.bdr, r \in hs[s].seen), n.dr, n.bdr)
    BY <1>7, PacketOK
  <2>3. fed[s] = IF s \in dds THEN OnDbDesc(r, Session(t, s), n.dr, n.bdr)
                 ELSE OnHello(r, Session(t, s), n.dr, n.bdr, r \in hs[s].seen)
    BY <1>1, <1>6
  <2> QED BY <2>1, <2>2, <2>3
<1>9. fed \in [D \cup dds -> SessionType]
  <2>1. \A s \in D \cup dds : fed[s] \in SessionType
    BY <1>8 DEF SessionOK
  <2> QED BY <1>1, <2>1, Zenon
<1> HIDE DEF fed
<1>10. D \cup dds \in SUBSET Others(r) /\ D \cup dds \cup N \in SUBSET Others(r)
  OBVIOUS
<1>11. /\ sessions \in [D \cup dds \cup N -> SessionType]
       /\ \A s \in D \cup dds \cup N : sessions[s] = IF s \in D \cup dds THEN fed[s] ELSE n.nbr[s]
  <2>1. sessions = [x \in D \cup dds \cup N |-> IF x \in D \cup dds THEN fed[x] ELSE n.nbr[x]]
    BY <1>3, <1>9 DEF Over
  <2> HIDE DEF sessions
  <2> QED BY <1>3, <1>9, <2>1
<1>12. sessions \in Table(Others(r), SessionType)
  BY <1>10, <1>11, TableIs
<1>13. m = [t EXCEPT !.nbr = sessions]
  BY <1>6 DEF Inbound, t, fed
<1> HIDE DEF sessions, m
<1>14. /\ m \in NodeType(r) /\ m.dr = n.dr /\ m.bdr = n.bdr
       /\ m.heard = heard /\ m.nbr = sessions
  BY <1>6, <1>12, <1>13 DEF NodeType
<1>15. \A s \in D \cup dds \cup N : SessionOK(s, r, sessions[s], n.dr, n.bdr)
  BY <1>3, <1>8, <1>11 DEF NodeOK
<1>16. DOMAIN heard \subseteq DOMAIN sessions
  BY <1>2, <1>3, <1>4, <1>11 DEF NodeOK
<1>17. NodeOK(r, m)
  BY <1>11, <1>14, <1>15, <1>16 DEF NodeOK
<1> QED BY <1>17 DEF m

\* A role follows the result.
LEMMA RoleType ==
    ASSUME NEW r, NEW w
    PROVE  (IF r = w.dr THEN "Dr" ELSE IF r = w.bdr THEN "Backup" ELSE "DrOther") \in States
BY DEF States

\* run_election.
LEMMA RunElectionOK ==
    ASSUME NEW r \in Router, NEW n, NodeOK(r, n), NEW late, lab \in Labs
    PROVE  NodeOK(r, RunElection(n, r, late))
<1> DEFINE electors == {s \in DOMAIN n.heard \ late : n.heard[s].two} \cup {r}
           claim(e) == IF e = r THEN [dr |-> n.dr, bdr |-> n.bdr]
                       ELSE [dr |-> n.heard[e].dr, bdr |-> n.heard[e].bdr]
           c == [e \in electors |-> claim(e)]
           won == Elect(c, lab.prio, r)
           m == RunElection(n, r, late)
<1>1. PICK D \in SUBSET Others(r) : n.heard \in [D -> Claim]
  BY TableIs DEF NodeOK, NodeType
<1>2. PICK E \in SUBSET Others(r) : n.nbr \in [E -> SessionType]
  BY TableIs DEF NodeOK, NodeType
<1>3. n.dr \in Id /\ n.bdr \in Id
  BY DEF NodeOK, NodeType
<1>4. electors \in SUBSET Router /\ r \in electors
  BY <1>1 DEF Others
<1>5. c \in [electors -> Result] /\ c[r] = [dr |-> n.dr, bdr |-> n.bdr]
  <2>1. \A e \in electors : claim(e) \in Result
    BY <1>1, <1>3 DEF Claim, Result
  <2> HIDE DEF electors
  <2> QED BY <1>4, <2>1
<1>6. lab.prio \in Priorities
  BY LabAssumption DEF Priorities
<1> HIDE DEF c, electors
<1>7. won \in Result /\ ~(won.dr = r /\ won.bdr = r)
  BY <1>4, <1>5, <1>6, ElectFacts
<1>8. m = [n EXCEPT !.dr = won.dr, !.bdr = won.bdr, !.dirty = FALSE,
                    !.state = IF r = won.dr THEN "Dr" ELSE IF r = won.bdr THEN "Backup" ELSE "DrOther",
                    !.nbr = [s \in DOMAIN @ |-> SetDrState(r, @[s], won.dr, won.bdr)]]
  BY DEF RunElection, c, electors
<1> HIDE DEF won, m
<1> DEFINE sessions == [s \in E |-> SetDrState(r, n.nbr[s], won.dr, won.bdr)]
<1>9. \A s \in E : SessionOK(s, r, sessions[s], won.dr, won.bdr)
  <2> TAKE s \in E
  <2>1. n.nbr[s] \in SessionType /\ n.nbr[s].ip \in {0, s}
    BY <1>2 DEF NodeOK, SessionOK
  <2>2. sessions[s] = SetDrState(r, n.nbr[s], won.dr, won.bdr)
    OBVIOUS
  <2> QED BY <2>1, <2>2, SetDrStateOK
<1>10. sessions \in Table(Others(r), SessionType)
  <2>1. sessions \in [E -> SessionType]
    BY <1>9 DEF SessionOK
  <2> QED BY <1>2, <2>1, TableIs
<1>11. DOMAIN sessions = E
  OBVIOUS
<1>12. m = [n EXCEPT !.dr = won.dr, !.bdr = won.bdr, !.dirty = FALSE,
                    !.state = IF r = won.dr THEN "Dr" ELSE IF r = won.bdr THEN "Backup" ELSE "DrOther",
                    !.nbr = sessions]
  BY <1>2, <1>8, Zenon DEF NodeOK, NodeType
<1> HIDE DEF sessions
<1>13. /\ m \in NodeType(r) /\ m.dr = won.dr /\ m.bdr = won.bdr
       /\ m.nbr = sessions /\ m.heard = n.heard
  BY <1>7, <1>10, <1>12, RoleType, Zenon DEF NodeOK, NodeType, Result
<1>14. NodeOK(r, m)
  BY <1>2, <1>7, <1>9, <1>11, <1>13 DEF NodeOK
<1> QED BY <1>14 DEF m

\* pump_dead_timer.
LEMMA DeadTimerOK ==
    ASSUME NEW r \in Router, NEW n, NodeOK(r, n), NEW late
    PROVE  NodeOK(r, DeadTimer(n, late))
<1> DEFINE heard == Restrict(n.heard, DOMAIN n.heard \ late)
           sessions == Restrict(n.nbr, DOMAIN n.nbr \ late)
           m == DeadTimer(n, late)
<1>1. PICK H \in SUBSET Others(r) : n.heard \in [H -> Claim]
  BY TableIs DEF NodeOK, NodeType
<1>2. PICK N \in SUBSET Others(r) : n.nbr \in [N -> SessionType]
  BY TableIs DEF NodeOK, NodeType
<1>3. heard \in [H \ late -> Claim]
  BY <1>1 DEF Restrict
<1>4. sessions \in [N \ late -> SessionType] /\ \A s \in N \ late : sessions[s] = n.nbr[s]
  BY <1>2 DEF Restrict
<1>5. H \ late \in SUBSET Others(r) /\ N \ late \in SUBSET Others(r)
  OBVIOUS
<1>6. heard \in Table(Others(r), Claim)
  BY <1>3, <1>5, TableIs, Zenon
<1>7. sessions \in Table(Others(r), SessionType)
  BY <1>4, <1>5, TableIs
<1>8. m = [n EXCEPT !.heard = heard, !.nbr = sessions,
                    !.dirty = @ \/ late \cap DOMAIN n.nbr # {}]
  BY DEF DeadTimer, NodeOK, NodeType
<1> HIDE DEF heard, sessions, m
<1>9. /\ m \in NodeType(r) /\ m.dr = n.dr /\ m.bdr = n.bdr /\ m.heard = heard /\ m.nbr = sessions
  BY <1>6, <1>7, <1>8, Zenon DEF NodeOK, NodeType
<1>10. DOMAIN heard \subseteq DOMAIN sessions
  BY <1>1, <1>2, <1>3, <1>4 DEF NodeOK
<1>11. \A s \in N \ late : SessionOK(s, r, sessions[s], n.dr, n.bdr)
  BY <1>2, <1>4 DEF NodeOK
<1>12. NodeOK(r, m)
  BY <1>4, <1>9, <1>10, <1>11 DEF NodeOK
<1> QED BY <1>12 DEF m

\* pump_hellos: the Hello of a right interface.
LEMMA HelloOK ==
    ASSUME NEW r \in Router, NEW n, NodeOK(r, n)
    PROVE  Hello(n) \in HelloType
<1>1. PICK H \in SUBSET Others(r) : n.heard \in [H -> Claim]
  BY TableIs DEF NodeOK, NodeType
<1> QED BY <1>1 DEF Hello, HelloType, NodeOK, NodeType, Others, Id

---------------------------------------------------------------------------
(* The invariant. *)

\* Every interface is right, and no Hello is on its way to its sender.
SegmentOK ==
    /\ lab \in Labs
    /\ faults \in 0..lab.faults
    /\ DOMAIN node = Router
    /\ \A r \in Router : NodeOK(r, node[r])
    /\ wire \in [Router -> [Router -> HelloType]]
    /\ \A r \in Router : wire[r][r] = NoHello

\* A pass keeps it.
LEMMA PassOK ==
    ASSUME SegmentOK, NEW r \in Router, NEW dds \in SUBSET Others(r), NEW waited, NEW late, NEW sends,
           Pass(r, dds, waited, late, sends), faults' \in 0..lab.faults
    PROVE  SegmentOK'
<1> DEFINE hs == [s \in Pending(r) |-> wire[s][r]]
           n1 == Inbound(node[r], r, hs, dds)
           n2 == Election(n1, r, waited, late)
           n == DeadTimer(n2, late)
<1>1. hs \in Table(Others(r), HelloType)
  <2>1. Pending(r) \in SUBSET Others(r)
    BY DEF Pending, Others, SegmentOK
  <2>2. hs \in [Pending(r) -> HelloType]
    BY DEF Pending, SegmentOK
  <2> QED BY <2>1, <2>2, TableIs
<1>2. NodeOK(r, n1)
  <2> HIDE DEF hs
  <2> QED BY <1>1, InboundOK DEF SegmentOK
<1>3. NodeOK(r, n2)
  <2> HIDE DEF n1
  <2>1. NodeOK(r, RunElection(n1, r, late))
    BY <1>2, RunElectionOK DEF SegmentOK
  <2> QED BY <1>2, <2>1 DEF Election
<1>4. NodeOK(r, n)
  <2> HIDE DEF n2
  <2> QED BY <1>3, DeadTimerOK
<1>5. /\ node' = [node EXCEPT ![r] = n]
      /\ wire' = [s \in Router |->
                    IF s = r /\ sends
                    THEN [p \in Router |-> IF p # r /\ On(p) THEN Hello(n) ELSE NoHello]
                    ELSE [wire[s] EXCEPT ![r] = NoHello]]
      /\ lab' = lab
  BY DEF Pass
<1> HIDE DEF n
<1>6. Hello(n) \in HelloType
  BY <1>4, HelloOK
<1>7. NoHello \in HelloType
  BY DEF NoHello, HelloType, Id
<1>8. wire' \in [Router -> [Router -> HelloType]]
  BY <1>5, <1>6, <1>7 DEF SegmentOK
<1>9. \A s \in Router : wire'[s][s] = NoHello
  BY <1>5 DEF SegmentOK
<1>10. DOMAIN node' = Router /\ \A s \in Router : NodeOK(s, node'[s])
  BY <1>4, <1>5 DEF SegmentOK
<1> QED BY <1>5, <1>8, <1>9, <1>10 DEF SegmentOK

\* An interface that does not run, or has just started.
LEMMA OffOK ==
    ASSUME NEW r \in Router
    PROVE  NodeOK(r, Off) /\ NodeOK(r, Started(r))
<1>1. DOMAIN <<>> = {}
  OBVIOUS
<1>2. Off \in NodeType(r) /\ Started(r) \in NodeType(r)
  BY EmptyTable, Zenon DEF Off, Started, NodeType, States, Id
<1>3. Started(r).dr = 0 /\ Started(r).nbr = <<>> /\ Started(r).heard = <<>>
  BY DEF Started, Off
<1> QED BY <1>1, <1>2, <1>3, RouterAssumption DEF NodeOK, Off

\* An interface of a segment that has held its election.
LEMMA SettledOK ==
    ASSUME NEW r \in Router, lab \in Labs
    PROVE  NodeOK(r, Settled(r))
<1> DEFINE others == lab.settled \ {r}
           claim == [two |-> TRUE, dr |-> lab.dr, bdr |-> lab.bdr]
           heard == [s \in others |-> claim]
           nbr == [s \in others |-> [state |-> IF Viable(r, s, lab.dr, lab.bdr) THEN "Adjacent" ELSE "TwoWay",
                                     ip |-> s]]
           m == Settled(r)
<1>1. others \in SUBSET Others(r) /\ lab.dr \in Id /\ lab.bdr \in Id /\ others \in SUBSET Router
  BY LabAssumption DEF Others, Id
<1>2. heard \in [others -> Claim]
  BY <1>1 DEF Claim
<1>3. nbr \in [others -> SessionType]
  BY <1>1 DEF SessionType, Id
<1>4. heard \in Table(Others(r), Claim) /\ nbr \in Table(Others(r), SessionType)
  BY <1>1, <1>2, <1>3, TableIs, Zenon
<1>5. \A s \in others : SessionOK(s, r, nbr[s], lab.dr, lab.bdr)
  BY <1>1, <1>3 DEF SessionOK
<1>6. m = [Off EXCEPT !.state = IF r = lab.dr THEN "Dr" ELSE IF r = lab.bdr THEN "Backup" ELSE "DrOther",
                      !.dr = lab.dr, !.bdr = lab.bdr, !.heard = heard, !.nbr = nbr]
  BY DEF Settled
<1>7. DOMAIN heard = others /\ DOMAIN nbr = others
  OBVIOUS
<1>10. ~(lab.dr = r /\ lab.bdr = r)
  BY LabAssumption, RouterAssumption
<1> HIDE DEF heard, nbr, others, m
<1>8. m \in NodeType(r) /\ m.dr = lab.dr /\ m.bdr = lab.bdr /\ m.heard = heard /\ m.nbr = nbr
  BY <1>1, <1>4, <1>6, Zenon DEF Off, NodeType, States
<1>9. NodeOK(r, m)
  BY <1>5, <1>7, <1>8, <1>10 DEF NodeOK
<1> QED BY <1>9 DEF m

\* A segment on which no interface is up yet is well formed.
LEMMA InitOK == Init => SegmentOK
<1> SUFFICES ASSUME Init PROVE SegmentOK
  OBVIOUS
<1>1. \A r \in Router : NodeOK(r, Settled(r)) /\ NodeOK(r, Off)
  BY SettledOK, OffOK DEF Init
<1>2. NoHello \in HelloType
  BY DEF NoHello, HelloType, Id
<1>3. 0 \in 0..lab.faults
  BY LabAssumption DEF Init
<1> QED BY <1>1, <1>2, <1>3 DEF Init, SegmentOK

\* A fault stays within the bound of the segment.
LEMMA FaultOK ==
    ASSUME SegmentOK
    PROVE  Fault \/ UNCHANGED faults => faults' \in 0..lab.faults
BY LabAssumption DEF SegmentOK, Fault

\* The steps that are not a pass.
LEMMA OutsideOK ==
    ASSUME SegmentOK, NEW r \in Router, NEW s \in Router, Start(r) \/ Crash(r) \/ Lose(s, r)
    PROVE  SegmentOK'
<1>1. NodeOK(r, Off) /\ NodeOK(r, Started(r))
  BY OffOK
<1>2. NoHello \in HelloType
  BY DEF NoHello, HelloType, Id
<1>3. CASE Start(r)
  BY <1>1, <1>3 DEF Start, SegmentOK
<1>4. CASE Crash(r)
  <2>1. faults' \in 0..lab.faults
    BY <1>4, FaultOK DEF Crash
  <2>2. wire' \in [Router -> [Router -> HelloType]] /\ \A p \in Router : wire'[p][p] = NoHello
    BY <1>2, <1>4 DEF Crash, SegmentOK
  <2>3. DOMAIN node' = Router /\ \A p \in Router : NodeOK(p, node'[p])
    BY <1>1, <1>4 DEF Crash, SegmentOK
  <2> QED BY <1>4, <2>1, <2>2, <2>3 DEF Crash, SegmentOK
<1>5. CASE Lose(s, r)
  <2>1. faults' \in 0..lab.faults
    BY <1>5, FaultOK DEF Lose
  <2>2. wire' \in [Router -> [Router -> HelloType]] /\ \A p \in Router : wire'[p][p] = NoHello
    BY <1>2, <1>5 DEF Lose, SegmentOK
  <2> QED BY <1>5, <2>1, <2>2 DEF Lose, SegmentOK
<1> QED BY <1>3, <1>4, <1>5

\* Reading, electing, starting, stopping and losing keep the segment well formed.
LEMMA NextOK == SegmentOK /\ [Next]_vars => SegmentOK'
<1> SUFFICES ASSUME SegmentOK, [Next]_vars PROVE SegmentOK'
  OBVIOUS
<1> USE FaultOK, PassOK
<1>1. ASSUME NEW r \in Router, Read(r) PROVE SegmentOK'
  BY <1>1, Zenon DEF Read
<1>2. ASSUME NEW r \in Router, ReadDbDesc(r) PROVE SegmentOK'
  <2>1. PICK s \in Others(r) : Pass(r, {s}, FALSE, {}, FALSE) /\ UNCHANGED faults
    BY <1>2, Zenon DEF ReadDbDesc, Others
  <2> QED BY <2>1, Zenon
<1>3. ASSUME NEW r \in Router, Elects(r) PROVE SegmentOK'
  BY <1>3, Zenon DEF Elects
<1>4. ASSUME NEW r \in Router, WaitTimer(r) PROVE SegmentOK'
  BY <1>4, Zenon DEF WaitTimer
<1>5. ASSUME NEW r \in Router, SendHello(r) PROVE SegmentOK'
  BY <1>5, Zenon DEF SendHello
<1>6. ASSUME NEW r \in Router, NEW s \in Router, Dead(r, s) PROVE SegmentOK'
  BY <1>6, Zenon DEF Dead
<1>7. ASSUME NEW r \in Router, NEW s \in Router, Start(r) \/ Crash(r) \/ Lose(s, r) PROVE SegmentOK'
  BY <1>7, OutsideOK
<1>8. CASE UNCHANGED vars
  BY <1>8 DEF vars, SegmentOK
<1> QED BY <1>1, <1>2, <1>3, <1>4, <1>5, <1>6, <1>7, <1>8 DEF Next

---------------------------------------------------------------------------
(* The theorems. *)

\* pump: every interface of the segment is right in every reachable state.
THEOREM SegmentIsOK == Spec => []SegmentOK
BY InitOK, NextOK, PTL DEF Spec

\* Types; every neighbor in the table has the session that pump_dead_timer looks for.
THEOREM Types == Spec => []TypeOK
<1>1. SegmentOK => TypeOK
  <2> SUFFICES ASSUME SegmentOK PROVE TypeOK
    OBVIOUS
  <2>1. ASSUME NEW r \in Router
        PROVE  DOMAIN node[r].nbr \subseteq Router \ {r}
    <3>1. PICK N \in SUBSET Others(r) : node[r].nbr \in [N -> SessionType]
      BY TableIs, Zenon DEF SegmentOK, NodeOK, NodeType
    <3> QED BY <3>1 DEF Others
  <2> QED BY <2>1 DEF TypeOK, SegmentOK, NodeOK, NodeType, States, Id, SessionOK, SessionType
<1> QED BY <1>1, SegmentIsOK, PTL

\* elect never leaves a router Designated Router and Backup at once, whatever its
\* neighbors claim, in whatever order Hellos, timers and crashes come.
THEOREM NeverInBothRoles == Spec => []NeverBoth
<1>1. SegmentOK => NeverBoth
  BY DEF SegmentOK, NodeOK, NeverBoth
<1> QED BY <1>1, SegmentIsOK, PTL

\* handle_packet and set_ospf_dr_state together keep a session adjacent exactly while the
\* latest election of its interface allows it.
THEOREM AdjacencyFollows == Spec => []AdjacencyFollowsElection
<1>1. SegmentOK => AdjacencyFollowsElection
  BY DEF SegmentOK, NodeOK, SessionOK, AdjacencyFollowsElection
<1> QED BY <1>1, SegmentIsOK, PTL

=============================================================================
