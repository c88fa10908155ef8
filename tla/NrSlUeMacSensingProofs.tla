------------------------- MODULE NrSlUeMacSensingProofs -------------------------
(***************************************************************************)
(* Sensing and resource selection, for any pool, windows, intervals and    *)
(* SCIs.  The first part is about the lists: the loop that ages them skips *)
(* every second outdated entry, but forgets nothing that is fresh.  The    *)
(* second part is about the selection that the scheduler asks for.         *)
(***************************************************************************)
EXTENDS NrSlUeMacSensing, ListProofs

-----------------------------------------------------------------------------
(* The loop that ages a list.                                              *)

\* r has the elements of s at the ranks, in order; g tells where they were.
Picked(r, s, ranks, g) ==
  /\ Len(r) \in Nat /\ DOMAIN r = 1 .. Len(r)
  /\ g \in [1 .. Len(r) -> 1 .. Len(s)]
  /\ \A k \in 1 .. Len(r) : g[k] \in ranks /\ r[k] = s[g[k]]
  /\ \A k, l \in 1 .. Len(r) : k < l => g[k] < g[l]
  /\ \A i \in 1 .. Len(s) : i \in ranks => \E k \in 1 .. Len(r) : g[k] = i

\* SubSeqAt picks the elements at the ranks.
LEMMA SubSeqAtFacts ==
  ASSUME NEW S, NEW s \in Seq(S), NEW ranks
  PROVE  /\ SubSeqAt(s, ranks) \in Seq(S)
         /\ \E g : Picked(SubSeqAt(s, ranks), s, ranks, g)
<1> DEFINE n == Len(s)
           id == [i \in DOMAIN s |-> i]
           order == Filter(id, ranks)
           r == SubSeqAt(s, ranks)
<1>1. n \in Nat /\ DOMAIN s = 1 .. n
  OBVIOUS
<1>2. id \in Seq(1 .. n) /\ Len(id) = n /\ \A i \in 1 .. n : id[i] = i
  BY <1>1
<1> HIDE DEF id
<1>3. PICK h : /\ Positions(id, ranks, order, h)
               /\ \A i \in 1 .. Len(id) : id[i] \in ranks =>
                    \E k \in 1 .. Len(order) : h[k] = i
  BY <1>2, FilterFacts
<1> HIDE DEF n
<1>4. /\ Len(order) \in Nat /\ DOMAIN order = 1 .. Len(order)
      /\ \A k \in 1 .. Len(order) : order[k] = h[k] /\ h[k] \in 1 .. n /\ h[k] \in ranks
      /\ \A k, l \in 1 .. Len(order) : k < l => h[k] < h[l]
  BY <1>2, <1>3 DEF Positions
<1>5. r = [i \in 1 .. Len(order) |-> s[order[i]]]
  BY <1>4 DEF SubSeqAt, id
<1> HIDE DEF order, r
<1>6. \A i \in 1 .. Len(order) : s[order[i]] \in S
  BY <1>1, <1>4
<1>7. r \in Seq(S) /\ Len(r) = Len(order) /\ DOMAIN r = 1 .. Len(order)
  BY <1>4, <1>5, <1>6
<1> DEFINE g == [k \in 1 .. Len(order) |-> h[k]]
<1>8. \A i \in 1 .. n : i \in ranks => \E k \in 1 .. Len(order) : g[k] = i
  BY <1>2, <1>3
<1>9. Picked(r, s, ranks, g)
  BY <1>4, <1>5, <1>7, <1>8 DEF Picked, n
<1> QED BY <1>7, <1>9 DEF r

\* Half of a number, rounded down.
LEMMA Halves ==
  ASSUME NEW n \in Nat
  PROVE  /\ n \div 2 \in Nat /\ 2 * (n \div 2) <= n
         /\ (n % 2) \in 0 .. 1 /\ n = 2 * (n \div 2) + (n % 2)
         /\ n > 0 => n \div 2 < n
<1>1. n \div 2 \in Nat
  OBVIOUS
<1>2. 2 * (n \div 2) <= n
  OBVIOUS
<1>3. (n % 2) \in 0 .. 1
  OBVIOUS
<1>4. n = 2 * (n \div 2) + (n % 2)
  OBVIOUS
<1>5. n > 0 => n \div 2 < n
  OBVIOUS
<1> QED BY <1>1, <1>2, <1>3, <1>4, <1>5

\* The recursion of SurvivingRanks.
Survive(f, n) == IF n % 2 = 0 THEN {2 * j : j \in 1 .. n \div 2}
                              ELSE {2 * j : j \in f[n \div 2]}
SurviveUpTo(f, n) == \A m \in 0 .. n : f[m] = Survive(f, m)

\* It has a solution for the lists up to any length, and only one.
LEMMA SurviveExists ==
  ASSUME NEW n \in Nat
  PROVE  \E f \in [0 .. n -> SUBSET Nat] : SurviveUpTo(f, n)
<1> DEFINE G == {k \in 0 .. n : \E f \in [0 .. k -> SUBSET Nat] : SurviveUpTo(f, k)}
<1>1. \A m \in Nat : (m % 2) \in 0 .. 1 /\ (m % 2 # 0 => m > 0 /\ m \div 2 \in 0 .. m - 1)
  <2> SUFFICES ASSUME NEW m \in Nat
               PROVE  (m % 2) \in 0 .. 1 /\ (m % 2 # 0 => m > 0 /\ m \div 2 \in 0 .. m - 1)
    OBVIOUS
  <2>1. (m % 2) \in 0 .. 1 /\ m \div 2 \in Nat /\ (m > 0 => m \div 2 < m)
    BY Halves
  <2>2. m = 0 => m % 2 = 0
    OBVIOUS
  <2> QED BY <2>1, <2>2
<1>2. ASSUME NEW k \in Nat, NEW f \in [0 .. k -> SUBSET Nat], NEW m \in 0 .. k + 1
      PROVE  Survive(f, m) \in SUBSET Nat
  <2>1. CASE m % 2 = 0
    <3>1. m \div 2 \in Nat
      BY Halves
    <3> QED BY <2>1, <3>1 DEF Survive
  <2>2. CASE m % 2 # 0
    <3>1. m \div 2 \in 0 .. k
      BY <1>1, <2>2
    <3>2. f[m \div 2] \in SUBSET Nat
      BY <3>1
    <3> QED BY <2>2, <3>2 DEF Survive
  <2> QED BY <2>1, <2>2
<1>3. 0 \in G
  <2> DEFINE f == [m \in 0 .. 0 |-> Survive(<<>>, 0)]
  <2>1. 0 % 2 = 0 /\ 0 \div 2 = 0
    OBVIOUS
  <2>2. Survive(<<>>, 0) = {} /\ Survive(f, 0) = {}
    BY <2>1 DEF Survive
  <2>3. f \in [0 .. 0 -> SUBSET Nat] /\ SurviveUpTo(f, 0)
    BY <2>2 DEF SurviveUpTo
  <2> QED BY <2>3
<1>4. ASSUME NEW k \in 0 .. n - 1, k \in G
      PROVE  k + 1 \in G
  <2>1. k \in Nat /\ k + 1 \in 0 .. n
    OBVIOUS
  <2>2. PICK f \in [0 .. k -> SUBSET Nat] : SurviveUpTo(f, k)
    BY <1>4
  <2> DEFINE h == [m \in 0 .. k + 1 |-> IF m = k + 1 THEN Survive(f, k + 1) ELSE f[m]]
  <2>3. h \in [0 .. k + 1 -> SUBSET Nat]
    <3>1. Survive(f, k + 1) \in SUBSET Nat
      BY <1>2, <2>1
    <3>2. \A m \in 0 .. k + 1 : m # k + 1 => m \in 0 .. k
      BY <2>1
    <3> QED BY <3>1, <3>2
  <2>4. ASSUME NEW m \in 0 .. k + 1
        PROVE  Survive(h, m) = Survive(f, m)
    <3>1. CASE m % 2 = 0
      BY <3>1 DEF Survive
    <3>2. CASE m % 2 # 0
      <4>1. m \div 2 \in 0 .. k
        BY <1>1, <2>1, <3>2
      <4>2. h[m \div 2] = f[m \div 2]
        BY <2>1, <4>1
      <4> QED BY <3>2, <4>2 DEF Survive
    <3> QED BY <3>1, <3>2
  <2>5. SurviveUpTo(h, k + 1)
    <3> SUFFICES ASSUME NEW m \in 0 .. k + 1 PROVE h[m] = Survive(h, m)
      BY DEF SurviveUpTo
    <3>1. CASE m = k + 1
      BY <2>4, <3>1
    <3>2. CASE m # k + 1
      <4>1. m \in 0 .. k
        BY <2>1, <3>2
      <4>2. h[m] = f[m]
        BY <3>2
      <4> QED BY <2>2, <2>4, <4>1, <4>2 DEF SurviveUpTo
    <3> QED BY <3>1, <3>2
  <2> HIDE DEF h
  <2> QED BY <2>1, <2>3, <2>5
<1>5. \A k \in 0 .. n : k \in G
  <2> HIDE DEF G
  <2> QED BY <1>3, <1>4, InductionUpTo
<1>6. n \in G
  BY <1>5
<1> QED BY <1>6

\* Two solutions agree, since each rank is determined by smaller ones.
LEMMA SurviveUnique ==
  ASSUME NEW n \in Nat, NEW f, SurviveUpTo(f, n), NEW h, SurviveUpTo(h, n)
  PROVE  \A m \in 0 .. n : f[m] = h[m]
<1> DEFINE G == {k \in 0 .. n : \A m \in 0 .. k : f[m] = h[m]}
<1>1. 0 \in G
  <2>1. 0 % 2 = 0 /\ 0 \in 0 .. n
    OBVIOUS
  <2>2. Survive(f, 0) = Survive(h, 0)
    BY <2>1 DEF Survive
  <2>3. f[0] = h[0]
    BY <2>1, <2>2 DEF SurviveUpTo
  <2> QED BY <2>3
<1>2. ASSUME NEW k \in 0 .. n - 1, k \in G
      PROVE  k + 1 \in G
  <2>1. k \in Nat /\ k + 1 \in 0 .. n
    OBVIOUS
  <2>2. f[k + 1] = h[k + 1]
    <3>1. CASE (k + 1) % 2 = 0
      BY <2>1, <3>1 DEF SurviveUpTo, Survive
    <3>2. CASE (k + 1) % 2 # 0
      <4>1. (k + 1) \div 2 \in Nat /\ (k + 1) \div 2 < k + 1
        BY <2>1, Halves
      <4>2. (k + 1) \div 2 \in 0 .. k
        BY <2>1, <4>1
      <4>3. f[(k + 1) \div 2] = h[(k + 1) \div 2]
        BY <1>2, <4>2
      <4> QED BY <2>1, <3>2, <4>3 DEF SurviveUpTo, Survive
    <3> QED BY <3>1, <3>2
  <2>3. \A m \in 0 .. k + 1 : m = k + 1 \/ m \in 0 .. k
    BY <2>1
  <2> QED BY <1>2, <2>1, <2>2, <2>3
<1>3. \A k \in 0 .. n : k \in G
  <2> HIDE DEF G
  <2> QED BY <1>1, <1>2, InductionUpTo
<1>4. n \in G
  BY <1>3
<1> QED BY <1>4

\* What remains of n outdated entries is what the passes over the list leave.
LEMMA SurvivingRanksDef ==
  \A n \in Nat : SurvivingRanks[n] = Survive(SurvivingRanks, n)
<1> DEFINE Upto(n) == CHOOSE f \in [0 .. n -> SUBSET Nat] : SurviveUpTo(f, n)
           F == [n \in Nat |-> Upto(n)[n]]
           Fix(f) == f = [n \in Nat |-> IF n % 2 = 0 THEN {2 * j : j \in 1 .. n \div 2}
                                        ELSE {2 * j : j \in f[n \div 2]}]
<1>1. \A n \in Nat : Upto(n) \in [0 .. n -> SUBSET Nat] /\ SurviveUpTo(Upto(n), n)
  BY SurviveExists
<1>2. ASSUME NEW n \in Nat, NEW m \in 0 .. n
      PROVE  Upto(n)[m] = F[m]
  <2>0. m \in Nat /\ 0 .. m \subseteq 0 .. n
    OBVIOUS
  <2>0a. SurviveUpTo(Upto(n), n) /\ SurviveUpTo(Upto(m), m)
    BY <1>1, <2>0
  <2>1. SurviveUpTo(Upto(n), m) /\ SurviveUpTo(Upto(m), m) /\ m \in 0 .. m
    <3> HIDE DEF Upto
    <3> QED BY <2>0, <2>0a DEF SurviveUpTo
  <2> HIDE DEF Upto
  <2>2. Upto(n)[m] = Upto(m)[m]
    BY <2>0, <2>1, SurviveUnique
  <2> QED BY <2>1, <2>2
<1>3. ASSUME NEW n \in Nat
      PROVE  F[n] = Survive(F, n)
  <2>1. n \in 0 .. n
    OBVIOUS
  <2>2. F[n] = Survive(Upto(n), n)
    BY <1>1, <2>1 DEF SurviveUpTo
  <2>3. n \div 2 \in 0 .. n
    BY Halves
  <2>4. Upto(n)[n \div 2] = F[n \div 2]
    BY <1>2, <2>3
  <2> HIDE DEF F, Upto
  <2> QED BY <2>2, <2>4 DEF Survive
<1>4. F = [n \in Nat |-> F[n]]
  OBVIOUS
<1>5. Fix(F)
  <2> HIDE DEF F
  <2> QED BY <1>3, <1>4 DEF Survive
<1>6. SurvivingRanks = CHOOSE f : Fix(f)
  BY DEF SurvivingRanks
<1>7. Fix(SurvivingRanks)
  <2> HIDE DEF Fix
  <2> QED BY <1>5, <1>6, Zenon
<1> HIDE DEF F, Upto
<1> QED BY <1>7 DEF Survive

\* Whatever the number of outdated entries, only even ranks survive.
LEMMA SurvivorsAreEven ==
  ASSUME NEW n \in Nat
  PROVE  \A x \in SurvivingRanks[n] : \E j \in Nat : j > 0 /\ x = 2 * j
<1> DEFINE Ok(m) == \A x \in SurvivingRanks[m] : \E j \in Nat : j > 0 /\ x = 2 * j
           G == {k \in 0 .. n : \A m \in 0 .. k : Ok(m)}
<1>0. ASSUME NEW m \in Nat
      PROVE  SurvivingRanks[m] = Survive(SurvivingRanks, m)
  BY SurvivingRanksDef
<1>1. ASSUME NEW m \in Nat, m % 2 = 0
      PROVE  Ok(m)
  <2>1. m \div 2 \in Nat
    BY Halves
  <2>2. SurvivingRanks[m] = {2 * j : j \in 1 .. m \div 2}
    BY <1>0, <1>1 DEF Survive
  <2> QED BY <2>1, <2>2
<1>2. ASSUME NEW m \in Nat, m % 2 # 0, Ok(m \div 2)
      PROVE  Ok(m)
  <2>1. SurvivingRanks[m] = {2 * j : j \in SurvivingRanks[m \div 2]}
    BY <1>0, <1>2 DEF Survive
  <2>2. ASSUME NEW x \in SurvivingRanks[m]
        PROVE  \E j \in Nat : j > 0 /\ x = 2 * j
    <3>1. PICK y \in SurvivingRanks[m \div 2] : x = 2 * y
      BY <2>1
    <3>2. PICK j \in Nat : j > 0 /\ y = 2 * j
      BY <1>2
    <3>3. y \in Nat /\ y > 0
      BY <3>2
    <3> QED BY <3>1, <3>3
  <2> QED BY <2>2
<1> HIDE DEF Ok
<1>3. 0 \in G
  <2>1. 0 % 2 = 0
    OBVIOUS
  <2>2. Ok(0)
    BY <1>1, <2>1
  <2> QED BY <2>2
<1>4. ASSUME NEW k \in 0 .. n - 1, k \in G
      PROVE  k + 1 \in G
  <2>1. k \in Nat /\ k + 1 \in 0 .. n /\ k + 1 \in Nat
    OBVIOUS
  <2>2. Ok(k + 1)
    <3>1. CASE (k + 1) % 2 = 0
      BY <1>1, <2>1, <3>1
    <3>2. CASE (k + 1) % 2 # 0
      <4>1. (k + 1) \div 2 \in Nat /\ (k + 1) \div 2 < k + 1
        BY <2>1, Halves
      <4>2. (k + 1) \div 2 \in 0 .. k
        BY <2>1, <4>1
      <4>3. Ok((k + 1) \div 2)
        BY <1>4, <4>2
      <4> QED BY <1>2, <2>1, <3>2, <4>3
    <3> QED BY <3>1, <3>2
  <2>3. \A m \in 0 .. k + 1 : m = k + 1 \/ m \in 0 .. k
    BY <2>1
  <2> QED BY <1>4, <2>1, <2>2, <2>3
<1>5. \A k \in 0 .. n : k \in G
  <2> HIDE DEF G
  <2> QED BY <1>3, <1>4, InductionUpTo
<1>6. Ok(n)
  BY <1>5
<1> QED BY <1>6 DEF Ok

\* A set of positions with every smaller one is an initial segment.
LEMMA InitialSegment ==
  ASSUME NEW n \in Nat, NEW P \in SUBSET (1 .. n),
         \A i \in P : \A j \in 1 .. i : j \in P
  PROVE  Cardinality(P) \in 0 .. n /\ P = 1 .. Cardinality(P)
<1> DEFINE Out == {i \in 1 .. n + 1 : i \notin P}
<1>1. Out \in SUBSET Nat /\ n + 1 \in Out
  OBVIOUS
<1>2. PICK m \in Out : \A i \in Out : m <= i
  BY <1>1, LeastOf
<1>3. m \in 1 .. n + 1 /\ m - 1 \in 0 .. n /\ m - 1 \in Nat
  OBVIOUS
<1>4. ASSUME NEW i \in 1 .. m - 1
      PROVE  i \in P
  <2>1. i \in 1 .. n + 1 /\ ~(m <= i)
    BY <1>3
  <2> QED BY <1>2, <2>1
<1>5. ASSUME NEW i \in P
      PROVE  i \in 1 .. m - 1
  <2>1. i \in 1 .. n
    OBVIOUS
  <2>2. ~(m <= i)
    <3> SUFFICES ASSUME m <= i PROVE FALSE
      BY <1>3, <2>1
    <3>1. m \in 1 .. i
      BY <1>3, <2>1
    <3> QED BY <3>1
  <2> QED BY <1>3, <2>1, <2>2
<1>6. P = 1 .. m - 1
  BY <1>4, <1>5
<1>7. Cardinality(1 .. m - 1) = m - 1
  <2>1. Cardinality(1 .. m - 1) = IF 1 > m - 1 THEN 0 ELSE (m - 1) - 1 + 1
    BY <1>3, FS_Interval
  <2> QED BY <1>3, <2>1
<1> QED BY <1>3, <1>6, <1>7

\* What ageing keeps: all that is in the window, and of the outdated entries
\* in front of it only those of even rank.
LEMMA KeptFacts ==
  ASSUME NEW slots \in Seq(Nat), NEW at \in Nat
  PROVE  /\ \A i \in 1 .. Len(slots) :
              ~IsOutdated(slots[i], at) => i \in KeptRanks(slots, at)
         /\ \A i \in 1 .. Len(slots) :
              i \in KeptRanks(slots, at) /\ (\A j \in 1 .. i : IsOutdated(slots[j], at))
                => \E j \in Nat : j > 0 /\ i = 2 * j
<1> DEFINE n == Len(slots)
           P == {i \in 1 .. n : \A j \in 1 .. i : IsOutdated(slots[j], at)}
           k == Cardinality(P)
<1>1. n \in Nat
  OBVIOUS
<1>2. \A i \in P : \A j \in 1 .. i : j \in P
  <2> SUFFICES ASSUME NEW i \in P, NEW j \in 1 .. i PROVE j \in P
    OBVIOUS
  <2>1. j \in 1 .. n /\ 1 .. j \subseteq 1 .. i
    BY <1>1
  <2> QED BY <2>1
<1>3. k \in 0 .. n /\ P = 1 .. k
  <2>1. P \in SUBSET (1 .. n)
    OBVIOUS
  <2> HIDE DEF P
  <2> QED BY <1>1, <1>2, <2>1, InitialSegment
<1>4. KeptRanks(slots, at) =
        IF k = n THEN SurvivingRanks[n] ELSE {2 * j : j \in 1 .. k \div 2} \union (k + 1) .. n
  BY DEF KeptRanks
<1>5. \A i \in 1 .. n : (\A j \in 1 .. i : IsOutdated(slots[j], at)) <=> i \in 1 .. k
  BY <1>3
<1> HIDE DEF k, P, n
<1>6. ASSUME NEW i \in 1 .. n, ~IsOutdated(slots[i], at)
      PROVE  i \in KeptRanks(slots, at)
  <2>1. i \in 1 .. i
    BY <1>1
  <2>2. i \notin 1 .. k
    BY <1>5, <1>6, <2>1
  <2>3. k # n /\ i \in (k + 1) .. n
    BY <1>1, <1>3, <2>2
  <2> QED BY <1>4, <2>3
<1>7. ASSUME NEW i \in 1 .. n, i \in KeptRanks(slots, at), i \in 1 .. k
      PROVE  \E j \in Nat : j > 0 /\ i = 2 * j
  <2>1. CASE k = n
    <3>1. i \in SurvivingRanks[n]
      BY <1>4, <1>7, <2>1
    <3> QED BY <1>1, <3>1, SurvivorsAreEven
  <2>2. CASE k # n
    <3>1. i \in {2 * j : j \in 1 .. k \div 2}
      BY <1>3, <1>4, <1>7, <2>2
    <3>2. k \in Nat /\ k \div 2 \in Nat
      BY <1>1, <1>3, Halves
    <3>3. PICK j \in 1 .. k \div 2 : i = 2 * j
      BY <3>1
    <3>4. j \in Nat /\ j > 0
      BY <3>2
    <3> QED BY <3>3, <3>4
  <2> QED BY <2>1, <2>2
<1> QED BY <1>5, <1>6, <1>7 DEF n

-----------------------------------------------------------------------------
(* The sensed SCIs and the UE's own transmissions.                         *)

Entry == [slot : Nat, rsvp : Nat, start : Nat, len : Nat \ {0}, rsrp : Int,
          retx : SUBSET (Nat \X Nat)]

\* An entry is an SCI as it was heard.
Heard(s) == \E sci \in Scis : \A field \in DOMAIN sci : s[field] = sci[field]

TypeInv ==
  /\ now \in 0 .. MaxSlot
  /\ sensingData \in Seq(Entry)
  /\ \A i \in 1 .. Len(sensingData) :
       sensingData[i].slot <= now /\ Heard(sensingData[i])
  /\ transmitHistory \in Seq(Nat)
  /\ \A i \in 1 .. Len(transmitHistory) : transmitHistory[i] <= now

\* The elements of a list are what it has at its positions.
LEMMA RangeIs ==
  ASSUME NEW S, NEW s \in Seq(S)
  PROVE  /\ ToSet(s) = {s[i] : i \in 1 .. Len(s)}
         /\ Len(s) \in Nat /\ DOMAIN s = 1 .. Len(s)
BY DEF ToSet

\* The typed form of the lists implies type correctness.
LEMMA TypeInvImplies == ASSUME TypeInv PROVE TypeOK
<1>1. \A s \in ToSet(sensingData) : s.slot \in 0 .. now /\ Heard(s)
  <2>1. ASSUME NEW i \in 1 .. Len(sensingData)
        PROVE  sensingData[i].slot \in 0 .. now /\ Heard(sensingData[i])
    <3>1. sensingData[i] \in Entry
      BY DEF TypeInv
    <3>2. sensingData[i].slot \in Nat
      BY <3>1 DEF Entry
    <3> QED BY <3>2 DEF TypeInv
  <2> QED BY <2>1, RangeIs DEF TypeInv
<1>2. ToSet(transmitHistory) \subseteq 0 .. now
  <2>1. ASSUME NEW i \in 1 .. Len(transmitHistory)
        PROVE  transmitHistory[i] \in 0 .. now
    <3>1. transmitHistory[i] \in Nat
      BY DEF TypeInv
    <3> QED BY <3>1 DEF TypeInv
  <2> QED BY <2>1, RangeIs DEF TypeInv
<1> QED BY <1>1, <1>2 DEF TypeOK, TypeInv, Heard

\* An SCI that comes in is an entry for the current slot.
LEMMA NewEntry ==
  ASSUME NEW slot \in Nat, NEW sci \in Scis
  PROVE  Sensed(sci, slot) \in Entry /\ Heard(Sensed(sci, slot))
<1>1. sci \in SciType
  BY SensingAssumption
<1>2. DOMAIN sci = {"rsvp", "start", "len", "rsrp", "retx"}
  BY <1>1 DEF SciType
<1>3. Sensed(sci, slot) \in Entry
  BY <1>1 DEF Entry, SciType, Sensed
<1>4. \A field \in DOMAIN sci : Sensed(sci, slot)[field] = sci[field]
  BY <1>2 DEF Sensed
<1> QED BY <1>3, <1>4 DEF Heard

\* Entries come in order of time, and of those that ageing has skipped none
\* is further from the front than the entries it erased allow.
Ordered ==
  \A i, j \in 1 .. Len(sensingData) :
    i < j => sensingData[i].slot <= sensingData[j].slot

AgesInv ==
  /\ Len(sensingData) <= MaxScis
  /\ MaxScis < 8 =>
       \A i \in 1 .. Len(sensingData) :
         /\ sensingData[i].slot + T0 < now => i <= 3
         /\ sensingData[i].slot + T0 + 1 < now => i <= 1
         /\ sensingData[i].slot + T0 + 2 >= now

SensingInv == TypeInv /\ Ordered /\ AgesInv

\* The slots of the sensed SCIs, as a list of numbers.
LEMMA SlotsFacts ==
  ASSUME TypeInv
  PROVE  /\ SlotsOf(sensingData) \in Seq(Nat)
         /\ Len(SlotsOf(sensingData)) = Len(sensingData)
         /\ \A i \in 1 .. Len(sensingData) :
              /\ SlotsOf(sensingData)[i] = sensingData[i].slot
              /\ sensingData[i].slot \in Nat /\ sensingData[i] \in Entry
<1> DEFINE n == Len(sensingData)
<1>1. n \in Nat /\ \A i \in 1 .. n : sensingData[i] \in Entry
  BY DEF TypeInv
<1>2. \A i \in 1 .. n : sensingData[i].slot \in Nat
  BY <1>1 DEF Entry
<1>3. SlotsOf(sensingData) = [i \in 1 .. n |-> sensingData[i].slot]
  BY DEF SlotsOf
<1> HIDE DEF n
<1>4. SlotsOf(sensingData) \in Seq(Nat) /\ Len(SlotsOf(sensingData)) = n
  BY <1>1, <1>2, <1>3
<1> QED BY <1>1, <1>2, <1>3, <1>4 DEF n

\* The k-th of the picked positions is at least k, so no more are picked
\* than there are.
LEMMA PickedInOrder ==
  ASSUME NEW a \in Nat, NEW b \in Nat, NEW g \in [1 .. a -> 1 .. b],
         \A k, l \in 1 .. a : k < l => g[k] < g[l]
  PROVE  a <= b
<1> DEFINE G == {k \in 0 .. a : k > 0 => g[k] >= k}
<1>1. 0 \in G
  OBVIOUS
<1>2. ASSUME NEW k \in 0 .. a - 1, k \in G
      PROVE  k + 1 \in G
  <2>1. k \in Nat /\ k + 1 \in 1 .. a /\ g[k + 1] \in 1 .. b
    OBVIOUS
  <2>2. CASE k = 0
    BY <2>1, <2>2
  <2>3. CASE k # 0
    <3>1. k \in 1 .. a /\ g[k] \in 1 .. b
      BY <2>1, <2>3
    <3>2. g[k] >= k /\ g[k] < g[k + 1]
      BY <1>2, <2>1, <2>3, <3>1
    <3> QED BY <2>1, <3>1, <3>2
  <2> QED BY <2>2, <2>3
<1>3. \A k \in 0 .. a : k \in G
  <2> HIDE DEF G
  <2> QED BY <1>1, <1>2, InductionUpTo
<1>4. CASE a = 0
  BY <1>4
<1>5. CASE a # 0
  <2>1. a \in 1 .. a /\ a \in G
    BY <1>3, <1>5
  <2> QED BY <1>5, <2>1
<1> QED BY <1>4, <1>5

\* A slot indication drops entries, and none that is in the window.
LEMMA IndicationFacts ==
  ASSUME TypeInv, SlotIndication
  PROVE  /\ now' = now + 1 /\ now' \in 0 .. MaxSlot
         /\ sensingData' \in Seq(Entry)
         /\ \E g : Picked(sensingData', sensingData,
                          KeptRanks(SlotsOf(sensingData), now'), g)
         /\ transmitHistory' \in Seq(Nat)
         /\ \E g : Picked(transmitHistory', transmitHistory,
                          KeptRanks(transmitHistory, now'), g)
<1>1. now' = now + 1 /\ now' \in 0 .. MaxSlot
  BY SensingAssumption DEF SlotIndication, TypeInv
<1>2. sensingData' = SubSeqAt(sensingData, KeptRanks(SlotsOf(sensingData), now'))
  BY DEF SlotIndication, RemoveOldSensingData
<1>3. transmitHistory' = SubSeqAt(transmitHistory, KeptRanks(transmitHistory, now'))
  BY DEF SlotIndication, RemoveOldTransmitHistory
<1>4. sensingData \in Seq(Entry) /\ transmitHistory \in Seq(Nat)
  BY DEF TypeInv
<1>5. /\ sensingData' \in Seq(Entry)
      /\ \E g : Picked(sensingData', sensingData,
                       KeptRanks(SlotsOf(sensingData), now'), g)
  BY <1>2, <1>4, SubSeqAtFacts
<1>6. /\ transmitHistory' \in Seq(Nat)
      /\ \E g : Picked(transmitHistory', transmitHistory,
                       KeptRanks(transmitHistory, now'), g)
  BY <1>3, <1>4, SubSeqAtFacts
<1> QED BY <1>1, <1>5, <1>6

\* What is in the list after a slot indication was in it before.
LEMMA IndicationKeepsTypes ==
  ASSUME TypeInv, SlotIndication
  PROVE  TypeInv'
<1>1. PICK g : Picked(sensingData', sensingData,
                      KeptRanks(SlotsOf(sensingData), now'), g)
  BY IndicationFacts
<1>2. PICK h : Picked(transmitHistory', transmitHistory,
                      KeptRanks(transmitHistory, now'), h)
  BY IndicationFacts
<1>3. now' = now + 1 /\ now \in Nat
  BY SensingAssumption, IndicationFacts DEF TypeInv
<1>4. ASSUME NEW i \in 1 .. Len(sensingData')
      PROVE  sensingData'[i].slot <= now' /\ Heard(sensingData'[i])
  <2>1. g[i] \in 1 .. Len(sensingData) /\ sensingData'[i] = sensingData[g[i]]
    BY <1>1 DEF Picked
  <2>2. sensingData[g[i]].slot \in Nat
    BY <2>1, SlotsFacts
  <2> QED BY <1>3, <2>1, <2>2 DEF TypeInv
<1>5. ASSUME NEW i \in 1 .. Len(transmitHistory')
      PROVE  transmitHistory'[i] <= now'
  <2>1. h[i] \in 1 .. Len(transmitHistory) /\ transmitHistory'[i] = transmitHistory[h[i]]
    BY <1>2 DEF Picked
  <2>2. transmitHistory[h[i]] \in Nat /\ transmitHistory[h[i]] <= now
    BY <2>1 DEF TypeInv
  <2> QED BY <1>3, <2>1, <2>2
<1> QED BY <1>4, <1>5, IndicationFacts DEF TypeInv, Heard

\* Of n entries at most seven, three are erased of any four that are outdated.
LEMMA IndicationKeepsAges ==
  ASSUME SensingInv, SlotIndication
  PROVE  Ordered' /\ AgesInv'
<1> DEFINE s == sensingData
           r == sensingData'
           n == Len(s)
           m == Len(r)
           K == KeptRanks(SlotsOf(s), now')
<1>1. PICK g : Picked(r, s, K, g)
  BY IndicationFacts DEF SensingInv
<1>2. /\ now' = now + 1 /\ now \in Nat /\ n \in Nat /\ m \in Nat /\ T0 \in Nat
      /\ n <= MaxScis /\ MaxScis \in Nat
  BY SensingAssumption, IndicationFacts DEF SensingInv, TypeInv, AgesInv
<1>3. \A i \in 1 .. n : s[i].slot \in Nat /\ SlotsOf(s)[i] = s[i].slot
  BY SlotsFacts DEF SensingInv
<1>4. \A i, j \in 1 .. n : i < j => s[i].slot <= s[j].slot
  BY DEF SensingInv, Ordered
<1>5. /\ g \in [1 .. m -> 1 .. n]
      /\ \A k \in 1 .. m : g[k] \in K /\ r[k] = s[g[k]]
      /\ \A k, l \in 1 .. m : k < l => g[k] < g[l]
  BY <1>1 DEF Picked
<1>6. m <= n
  <2> HIDE DEF m, n
  <2> QED BY <1>2, <1>5, PickedInOrder
<1>7. \A i \in 1 .. n : i \in K /\ (\A j \in 1 .. i : IsOutdated(SlotsOf(s)[j], now'))
        => \E j \in Nat : j > 0 /\ i = 2 * j
  <2>1. SlotsOf(s) \in Seq(Nat) /\ Len(SlotsOf(s)) = n /\ now' \in Nat
    BY <1>2, SlotsFacts DEF SensingInv
  <2> HIDE DEF s, n
  <2> QED BY <2>1, KeptFacts
<1> HIDE DEF s, r, n, m, K
<1>8. Ordered'
  <2> SUFFICES ASSUME NEW k \in 1 .. m, NEW l \in 1 .. m, k < l
               PROVE  r[k].slot <= r[l].slot
    BY DEF Ordered, r, m
  <2>1. g[k] \in 1 .. n /\ g[l] \in 1 .. n /\ g[k] < g[l]
    BY <1>5
  <2> QED BY <1>4, <1>5, <2>1
\* Until an entry is outdated, every picked position before it is even.
<1>9. ASSUME NEW k \in 1 .. m, r[k].slot + T0 < now'
      PROVE  \E j \in Nat : j > 0 /\ g[k] = 2 * j
  <2>1. g[k] \in 1 .. n /\ g[k] \in K /\ r[k] = s[g[k]]
    BY <1>5
  <2>2. ASSUME NEW j \in 1 .. g[k]
        PROVE  IsOutdated(SlotsOf(s)[j], now')
    <3>1. j \in 1 .. n /\ s[j].slot \in Nat /\ s[g[k]].slot \in Nat
      BY <1>2, <1>3, <2>1
    <3>2. s[j].slot <= s[g[k]].slot
      BY <1>4, <2>1, <3>1
    <3>3. s[j].slot < now' - T0
      BY <1>2, <1>9, <2>1, <3>1, <3>2
    <3> QED BY <1>3, <3>1, <3>3 DEF IsOutdated
  <2> QED BY <1>7, <2>1, <2>2
<1>10. ASSUME NEW k \in 1 .. m, r[k].slot + T0 < now', NEW l \in 1 .. k
       PROVE  l \in 1 .. m /\ \E j \in Nat : j > 0 /\ g[l] = 2 * j
  <2>1. l \in 1 .. m
    BY <1>2
  <2>2. r[l].slot <= r[k].slot
    <3>1. CASE l = k
      <4>1. g[k] \in 1 .. n /\ r[k] = s[g[k]]
        BY <1>5
      <4>2. r[k].slot \in Nat
        BY <1>3, <4>1
      <4> QED BY <3>1, <4>2
    <3>2. CASE l # k
      <4>1. l < k
        BY <1>2, <3>2
      <4> QED BY <1>8, <2>1, <4>1 DEF Ordered, r, m
    <3> QED BY <3>1, <3>2
  <2>3. g[l] \in 1 .. n /\ r[l] = s[g[l]] /\ g[k] \in 1 .. n /\ r[k] = s[g[k]]
    BY <1>5, <2>1
  <2>4. r[l].slot \in Nat /\ r[k].slot \in Nat
    BY <1>3, <2>3
  <2>5. r[l].slot + T0 < now'
    BY <1>2, <1>10, <2>2, <2>4
  <2> QED BY <1>9, <2>1, <2>5
<1>11. ASSUME MaxScis < 8, NEW k \in 1 .. m
       PROVE  /\ r[k].slot + T0 < now' => k <= 3
              /\ r[k].slot + T0 + 1 < now' => k <= 1
              /\ r[k].slot + T0 + 2 >= now'
  <2>1. g[k] \in 1 .. n /\ r[k] = s[g[k]] /\ r[k].slot \in Nat
    BY <1>3, <1>5
  <2>2. /\ s[g[k]].slot + T0 < now => g[k] <= 3
        /\ s[g[k]].slot + T0 + 1 < now => g[k] <= 1
    BY <1>11, <2>1 DEF SensingInv, AgesInv, s, n
  <2>3. ASSUME r[k].slot + T0 < now', NEW l \in 1 .. k
        PROVE  /\ l \in 1 .. m /\ g[l] \in 1 .. n
               /\ \E j \in Nat : j > 0 /\ g[l] = 2 * j
    <3>1. l \in 1 .. m /\ \E j \in Nat : j > 0 /\ g[l] = 2 * j
      BY <1>10, <2>3
    <3> QED BY <1>5, <3>1
  <2>4. ASSUME r[k].slot + T0 < now' PROVE k <= 3
    <3> SUFFICES ASSUME k > 3 PROVE FALSE
      BY <1>2
    <3>1. 1 \in 1 .. k /\ 2 \in 1 .. k /\ 3 \in 1 .. k /\ 4 \in 1 .. k
      BY <1>2
    <3>2. g[1] < g[2] /\ g[2] < g[3] /\ g[3] < g[4]
      BY <1>5, <2>3, <2>4, <3>1
    <3>3. g[4] \in 1 .. n
      BY <2>3, <2>4, <3>1
    <3>4. PICK a \in Nat : a > 0 /\ g[1] = 2 * a
      BY <2>3, <2>4, <3>1
    <3>5. PICK b \in Nat : g[2] = 2 * b
      BY <2>3, <2>4, <3>1
    <3>6. PICK c \in Nat : g[3] = 2 * c
      BY <2>3, <2>4, <3>1
    <3>7. PICK d \in Nat : g[4] = 2 * d
      BY <2>3, <2>4, <3>1
    <3>8. d >= 4
      BY <3>2, <3>4, <3>5, <3>6, <3>7
    <3> QED BY <1>2, <1>11, <3>3, <3>7, <3>8
  <2>5. ASSUME r[k].slot + T0 + 1 < now' PROVE k <= 1
    <3> SUFFICES ASSUME k > 1 PROVE FALSE
      BY <1>2
    <3>1. r[k].slot + T0 < now' /\ g[k] <= 3
      BY <1>2, <2>1, <2>2, <2>5
    <3>2. 1 \in 1 .. k /\ k \in 1 .. k
      BY <1>2
    <3>3. g[1] < g[k]
      BY <1>5, <2>3, <3>1, <3>2
    <3>4. PICK a \in Nat : a > 0 /\ g[1] = 2 * a
      BY <2>3, <3>1, <3>2
    <3>5. PICK b \in Nat : g[k] = 2 * b
      BY <2>3, <3>1, <3>2
    <3> QED BY <3>1, <3>3, <3>4, <3>5
  <2>6. r[k].slot + T0 + 2 >= now'
    <3> SUFFICES ASSUME ~(r[k].slot + T0 + 2 >= now') PROVE FALSE
      OBVIOUS
    <3>1. r[k].slot + T0 < now' /\ g[k] <= 1
      BY <1>2, <2>1, <2>2
    <3>2. k \in 1 .. k
      BY <1>2
    <3>3. PICK a \in Nat : a > 0 /\ g[k] = 2 * a
      BY <2>3, <3>1, <3>2
    <3> QED BY <3>1, <3>3
  <2> QED BY <2>4, <2>5, <2>6
<1>12. AgesInv'
  <2>1. m <= MaxScis
    BY <1>2, <1>6
  <2> QED BY <1>11, <2>1 DEF AgesInv, r, m
<1> QED BY <1>8, <1>12

\* An SCI that comes in is the youngest entry, and moves no other.
LEMMA ReceiveKeepsInv ==
  ASSUME SensingInv, DoReceiveSensingData
  PROVE  SensingInv' /\ \A i \in 1 .. Len(sensingData) :
                          /\ i \in 1 .. Len(sensingData')
                          /\ sensingData'[i] = sensingData[i]
<1> DEFINE n == Len(sensingData)
<1>1. PICK sci \in Scis : sensingData' = Append(sensingData, Sensed(sci, now))
  BY DEF DoReceiveSensingData
<1> DEFINE e == Sensed(sci, now)
<1>2. /\ now' = now /\ transmitHistory' = transmitHistory /\ n < MaxScis
      /\ now \in Nat /\ n \in Nat /\ T0 \in Nat /\ MaxScis \in Nat
  BY SensingAssumption DEF DoReceiveSensingData, SensingInv, TypeInv
<1>3. e \in Entry /\ Heard(e) /\ e.slot = now
  BY <1>2, NewEntry DEF Sensed
<1> HIDE DEF e
<1>4. sensingData \in Seq(Entry)
  BY DEF SensingInv, TypeInv
<1>5. /\ sensingData' \in Seq(Entry) /\ Len(sensingData') = n + 1
      /\ \A i \in 1 .. n : sensingData'[i] = sensingData[i]
      /\ sensingData'[n + 1] = e
  BY <1>1, <1>3, <1>4 DEF e
<1>6. \A i \in 1 .. n + 1 : i \in 1 .. n \/ i = n + 1
  BY <1>2
<1>7. \A i \in 1 .. n : /\ sensingData[i].slot <= now /\ Heard(sensingData[i])
                        /\ sensingData[i].slot \in Nat
  BY SlotsFacts DEF SensingInv, TypeInv
<1>8. \A i \in 1 .. n + 1 : sensingData'[i].slot <= now /\ Heard(sensingData'[i])
  BY <1>2, <1>3, <1>5, <1>6, <1>7
<1>9. TypeInv'
  BY <1>2, <1>5, <1>8 DEF SensingInv, TypeInv, Heard
<1>10. Ordered'
  <2> SUFFICES ASSUME NEW i \in 1 .. n + 1, NEW j \in 1 .. n + 1, i < j
               PROVE  sensingData'[i].slot <= sensingData'[j].slot
    BY <1>5 DEF Ordered
  <2>1. i \in 1 .. n
    BY <1>2
  <2>2. CASE j = n + 1
    BY <1>3, <1>5, <1>7, <2>1, <2>2
  <2>3. CASE j # n + 1
    <3>1. j \in 1 .. n
      BY <1>6, <2>3
    <3> QED BY <1>5, <2>1, <3>1 DEF SensingInv, Ordered
  <2> QED BY <2>2, <2>3
<1>11. AgesInv'
  <2>1. n + 1 <= MaxScis
    BY <1>2
  <2>2. ASSUME MaxScis < 8, NEW i \in 1 .. n + 1
        PROVE  /\ sensingData'[i].slot + T0 < now => i <= 3
               /\ sensingData'[i].slot + T0 + 1 < now => i <= 1
               /\ sensingData'[i].slot + T0 + 2 >= now
    <3>1. CASE i = n + 1
      BY <1>2, <1>3, <1>5, <3>1
    <3>2. CASE i # n + 1
      <4>1. i \in 1 .. n
        BY <1>6, <3>2
      <4> QED BY <1>5, <2>2, <4>1 DEF SensingInv, AgesInv
    <3> QED BY <3>1, <3>2
  <2> QED BY <1>2, <1>5, <2>1, <2>2 DEF AgesInv
<1>12. \A i \in 1 .. n : i \in 1 .. n + 1
  BY <1>2
<1> QED BY <1>5, <1>9, <1>10, <1>11, <1>12 DEF SensingInv

\* A transmission is added behind the ones before it.
LEMMA TransmitKeepsInv ==
  ASSUME SensingInv, Transmit
  PROVE  SensingInv' /\ \A i \in 1 .. Len(transmitHistory) :
                          /\ i \in 1 .. Len(transmitHistory')
                          /\ transmitHistory'[i] = transmitHistory[i]
<1> DEFINE n == Len(transmitHistory)
<1>1. /\ transmitHistory' = Append(transmitHistory, now) /\ now' = now
      /\ sensingData' = sensingData
  BY DEF Transmit
<1>2. transmitHistory \in Seq(Nat) /\ now \in Nat /\ n \in Nat
  BY SensingAssumption DEF SensingInv, TypeInv
<1>3. /\ transmitHistory' \in Seq(Nat) /\ Len(transmitHistory') = n + 1
      /\ \A i \in 1 .. n : transmitHistory'[i] = transmitHistory[i]
      /\ transmitHistory'[n + 1] = now
  BY <1>1, <1>2
<1>4. \A i \in 1 .. n + 1 : i \in 1 .. n \/ i = n + 1
  BY <1>2
<1>5. \A i \in 1 .. n + 1 : transmitHistory'[i] <= now
  <2>1. \A i \in 1 .. n : transmitHistory[i] <= now
    BY DEF SensingInv, TypeInv
  <2>2. now <= now
    BY <1>2
  <2> QED BY <1>3, <1>4, <2>1, <2>2
<1>6. TypeInv'
  BY <1>1, <1>3, <1>5 DEF SensingInv, TypeInv, Heard
<1>7. Ordered' /\ AgesInv'
  BY <1>1 DEF SensingInv, Ordered, AgesInv
<1>8. \A i \in 1 .. n : i \in 1 .. n + 1
  BY <1>2
<1> QED BY <1>3, <1>6, <1>7, <1>8 DEF SensingInv

\* Both lists are empty when the MAC is created.
THEOREM InitSensing == Init => SensingInv
<1> SUFFICES ASSUME Init PROVE SensingInv
  OBVIOUS
<1>1. now = 0 /\ sensingData = <<>> /\ transmitHistory = <<>>
  BY DEF Init
<1>2. /\ sensingData \in Seq(Entry) /\ Len(sensingData) = 0
      /\ transmitHistory \in Seq(Nat) /\ Len(transmitHistory) = 0
  BY <1>1
<1>3. 0 \in 0 .. MaxSlot /\ 0 <= MaxScis
  BY SensingAssumption
<1> QED BY <1>1, <1>2, <1>3 DEF SensingInv, TypeInv, Ordered, AgesInv

\* Ageing, an SCI and a transmission each keep the inductive invariant.
THEOREM StepSensing == SensingInv /\ [Next]_vars => SensingInv'
<1> SUFFICES ASSUME SensingInv, [Next]_vars PROVE SensingInv'
  OBVIOUS
<1>1. CASE SlotIndication
  BY <1>1, IndicationKeepsTypes, IndicationKeepsAges DEF SensingInv
<1>2. CASE DoReceiveSensingData
  BY <1>2, ReceiveKeepsInv
<1>3. CASE Transmit
  BY <1>3, TransmitKeepsInv
<1>4. CASE UNCHANGED vars
  BY <1>4 DEF vars, SensingInv, TypeInv, Heard, Ordered, AgesInv
<1> QED BY <1>1, <1>2, <1>3, <1>4 DEF Next

\* The lists are ordered, typed, and their outdated entries near the front.
THEOREM SensingInvariant == Spec => []SensingInv
<1> QED BY InitSensing, StepSensing, PTL DEF Spec

\* An SCI is kept as it was heard, with a slot that is not in the future.
THEOREM SensingTypeOK == Spec => []TypeOK
<1>1. SensingInv => TypeOK
  BY TypeInvImplies DEF SensingInv
<1> QED BY <1>1, SensingInvariant, PTL

\* The loop that ages the SCIs skips every second outdated one; with at most
\* seven of them, none stays for more than two slots after the window.
THEOREM SensingOutdatedEntriesLeaveSoon == Spec => []OutdatedEntriesLeaveSoon
<1>1. SensingInv => OutdatedEntriesLeaveSoon
  <2> SUFFICES ASSUME SensingInv, MaxScis < 8, NEW s \in ToSet(sensingData)
               PROVE  s.slot + T0 + 2 >= now
    BY DEF OutdatedEntriesLeaveSoon
  <2>1. sensingData \in Seq(Entry)
    BY DEF SensingInv, TypeInv
  <2>2. PICK i \in 1 .. Len(sensingData) : s = sensingData[i]
    BY <2>1, RangeIs
  <2> QED BY <2>2 DEF SensingInv, AgesInv
<1> QED BY <1>1, SensingInvariant, PTL

\* The loop loses nothing that is still in the window.
THEOREM SensingFreshEntriesKept == Spec => FreshEntriesKept
<1> DEFINE Kept == now' >= T0 =>
                     /\ \A s \in ToSet(sensingData) :
                          s.slot + T0 >= now' => s \in ToSet(sensingData')
                     /\ \A t \in ToSet(transmitHistory) :
                          t + T0 >= now' => t \in ToSet(transmitHistory')
<1>1. SensingInv /\ [Next]_vars => [Kept]_vars
  <2> SUFFICES ASSUME SensingInv, Next, now' >= T0 PROVE Kept
    BY DEF Kept
  <2>1. SensingInv'
    BY StepSensing
  <2>2. /\ ToSet(sensingData) = {sensingData[i] : i \in 1 .. Len(sensingData)}
        /\ ToSet(transmitHistory) = {transmitHistory[i] : i \in 1 .. Len(transmitHistory)}
    BY RangeIs DEF SensingInv, TypeInv
  <2>3. /\ ToSet(sensingData') = {sensingData'[i] : i \in 1 .. Len(sensingData')}
        /\ ToSet(transmitHistory') = {transmitHistory'[i] : i \in 1 .. Len(transmitHistory')}
    BY <2>1, RangeIs DEF SensingInv, TypeInv
  <2>4. CASE SlotIndication
    <3>1. /\ now' = now + 1 /\ now \in Nat /\ now' \in Nat /\ T0 \in Nat
      BY <2>4, SensingAssumption, IndicationFacts DEF SensingInv, TypeInv
    <3>2. PICK g : Picked(sensingData', sensingData,
                          KeptRanks(SlotsOf(sensingData), now'), g)
      BY <2>4, IndicationFacts DEF SensingInv
    <3>3. PICK h : Picked(transmitHistory', transmitHistory,
                          KeptRanks(transmitHistory, now'), h)
      BY <2>4, IndicationFacts DEF SensingInv
    <3>4. ASSUME NEW i \in 1 .. Len(sensingData), sensingData[i].slot + T0 >= now'
          PROVE  sensingData[i] \in ToSet(sensingData')
      <4>1. /\ SlotsOf(sensingData)[i] = sensingData[i].slot /\ sensingData[i].slot \in Nat
            /\ SlotsOf(sensingData) \in Seq(Nat)
            /\ Len(SlotsOf(sensingData)) = Len(sensingData)
        BY SlotsFacts DEF SensingInv
      <4>2. ~IsOutdated(SlotsOf(sensingData)[i], now')
        BY <3>1, <3>4, <4>1 DEF IsOutdated
      <4>3. i \in KeptRanks(SlotsOf(sensingData), now')
        BY <3>1, <4>1, <4>2, KeptFacts
      <4>4. PICK k \in 1 .. Len(sensingData') : g[k] = i
        BY <3>2, <4>3 DEF Picked
      <4>5. sensingData'[k] = sensingData[i]
        BY <3>2, <4>4 DEF Picked
      <4> QED BY <2>3, <4>4, <4>5
    <3>5. ASSUME NEW i \in 1 .. Len(transmitHistory), transmitHistory[i] + T0 >= now'
          PROVE  transmitHistory[i] \in ToSet(transmitHistory')
      <4>1. transmitHistory \in Seq(Nat) /\ transmitHistory[i] \in Nat
        BY DEF SensingInv, TypeInv
      <4>2. ~IsOutdated(transmitHistory[i], now')
        BY <3>1, <3>5, <4>1 DEF IsOutdated
      <4>3. i \in KeptRanks(transmitHistory, now')
        BY <3>1, <4>1, <4>2, KeptFacts
      <4>4. PICK k \in 1 .. Len(transmitHistory') : h[k] = i
        BY <3>3, <4>3 DEF Picked
      <4>5. transmitHistory'[k] = transmitHistory[i]
        BY <3>3, <4>4 DEF Picked
      <4> QED BY <2>3, <4>4, <4>5
    <3> QED BY <2>2, <3>4, <3>5
  <2>5. CASE DoReceiveSensingData
    <3>1. ToSet(sensingData) \subseteq ToSet(sensingData')
      BY <2>2, <2>3, <2>5, ReceiveKeepsInv
    <3>2. transmitHistory' = transmitHistory
      BY <2>5 DEF DoReceiveSensingData
    <3> QED BY <3>1, <3>2
  <2>6. CASE Transmit
    <3>1. ToSet(transmitHistory) \subseteq ToSet(transmitHistory')
      BY <2>2, <2>3, <2>6, TransmitKeepsInv
    <3>2. sensingData' = sensingData
      BY <2>6 DEF Transmit
    <3> QED BY <3>1, <3>2
  <2> QED BY <2>4, <2>5, <2>6 DEF Next
<1>2. Spec => [][Kept]_vars
  BY <1>1, SensingInvariant, PTL DEF Spec
<1> QED BY <1>2 DEF FreshEntriesKept

-----------------------------------------------------------------------------
(* Erasing candidates (step 6).                                            *)

\* RemoveAt takes one element out and moves the later ones forward.
Removed(r, s, pos) ==
  /\ Len(r) = Len(s) - 1
  /\ \A k \in 1 .. Len(s) - 1 : r[k] = IF k < pos THEN s[k] ELSE s[k + 1]

LEMMA RemoveAtFacts ==
  ASSUME NEW S, NEW s \in Seq(S), NEW pos \in 1 .. Len(s)
  PROVE  RemoveAt(s, pos) \in Seq(S) /\ Removed(RemoveAt(s, pos), s, pos)
<1> DEFINE n == Len(s)
           a == SubSeq(s, 1, pos - 1)
           b == SubSeq(s, pos + 1, n)
<1>1. n \in Nat /\ pos \in 1 .. n
  OBVIOUS
<1>2. a \in Seq(S) /\ Len(a) = pos - 1 /\ \A k \in 1 .. pos - 1 : a[k] = s[k]
  <2>1. a = [k \in 1 .. (pos - 1) - 1 + 1 |-> s[1 + k - 1]]
    BY <1>1
  <2>2. pos - 1 \in Nat /\ (pos - 1) - 1 + 1 = pos - 1 /\ \A k \in 1 .. pos - 1 : 1 + k - 1 = k /\ s[k] \in S
    BY <1>1
  <2>3. a = [k \in 1 .. pos - 1 |-> s[k]]
    BY <2>1, <2>2
  <2> HIDE DEF a
  <2> QED BY <2>2, <2>3
<1>3. b \in Seq(S) /\ Len(b) = n - pos /\ \A k \in 1 .. n - pos : b[k] = s[pos + k]
  <2>1. b = [k \in 1 .. n - (pos + 1) + 1 |-> s[(pos + 1) + k - 1]]
    BY <1>1
  <2>2. n - pos \in Nat /\ n - (pos + 1) + 1 = n - pos
        /\ \A k \in 1 .. n - pos : (pos + 1) + k - 1 = pos + k /\ s[pos + k] \in S
    BY <1>1
  <2>3. b = [k \in 1 .. n - pos |-> s[pos + k]]
    BY <2>1, <2>2
  <2> HIDE DEF b
  <2> QED BY <2>2, <2>3
<1>4. RemoveAt(s, pos) = a \o b
  BY DEF RemoveAt
<1> HIDE DEF a, b, n
<1>5. /\ a \o b \in Seq(S) /\ Len(a \o b) = Len(a) + Len(b)
      /\ \A k \in 1 .. Len(a) + Len(b) :
           (a \o b)[k] = IF k <= Len(a) THEN a[k] ELSE b[k - Len(a)]
  <2>1. a \in Seq(S) /\ b \in Seq(S)
    BY <1>2, <1>3
  <2>2. a \o b \in Seq(S)
    BY <2>1
  <2>3. Len(a \o b) = Len(a) + Len(b)
    BY <2>1
  <2>4. ASSUME NEW k \in 1 .. Len(a) + Len(b)
        PROVE  (a \o b)[k] = IF k <= Len(a) THEN a[k] ELSE b[k - Len(a)]
    BY <2>1
  <2> QED BY <2>2, <2>3, <2>4
<1>6. Len(a) + Len(b) = n - 1
  BY <1>1, <1>2, <1>3
<1>7. ASSUME NEW k \in 1 .. n - 1
      PROVE  (a \o b)[k] = IF k < pos THEN s[k] ELSE s[k + 1]
  <2>1. CASE k < pos
    <3>1. k <= Len(a) /\ k \in 1 .. pos - 1
      BY <1>1, <1>2, <2>1
    <3> QED BY <1>2, <1>5, <1>6, <2>1, <3>1
  <2>2. CASE ~(k < pos)
    <3>1. ~(k <= Len(a)) /\ k - Len(a) = k - pos + 1 /\ k - pos + 1 \in 1 .. n - pos
      BY <1>1, <1>2, <2>2
    <3>2. b[k - pos + 1] = s[pos + (k - pos + 1)] /\ pos + (k - pos + 1) = k + 1
      BY <1>1, <1>3, <3>1
    <3> QED BY <1>5, <1>6, <2>2, <3>1, <3>2
  <2> QED BY <2>1, <2>2
<1> QED BY <1>4, <1>5, <1>6, <1>7 DEF Removed, n

\* What is left of a list after erasing at a position: nothing is changed
\* before it, and unless something is erased nothing at all.
Shrunk(r, s, pos) ==
  /\ Len(r) \in Nat /\ Len(r) <= Len(s) /\ pos <= Len(r) + 1
  /\ \A k \in 1 .. Len(r) : \E l \in 1 .. Len(s) : r[k] = s[l]
  /\ \A k \in 1 .. pos - 1 : r[k] = s[k]
  /\ Len(r) = Len(s) => r = s

\* A list from which nothing was erased has shrunk to itself.
LEMMA ShrunkSame ==
  ASSUME NEW S, NEW s \in Seq(S), NEW pos \in 1 .. Len(s) + 1
  PROVE  Shrunk(s, s, pos)
<1>1. Len(s) \in Nat
  OBVIOUS
<1> QED BY <1>1 DEF Shrunk

\* Erasing at the position once more keeps what is in front of it.
LEMMA ShrunkMore ==
  ASSUME NEW S, NEW s \in Seq(S), NEW r \in Seq(S), NEW pos \in 1 .. Len(s),
         Shrunk(r, s, pos), pos <= Len(r)
  PROVE  /\ RemoveAt(r, pos) \in Seq(S) /\ Shrunk(RemoveAt(r, pos), s, pos)
         /\ Len(RemoveAt(r, pos)) < Len(r)
<1> DEFINE q == RemoveAt(r, pos)
<1>1. /\ Len(r) \in Nat /\ Len(s) \in Nat /\ Len(r) <= Len(s) /\ pos \in 1 .. Len(r)
      /\ \A k \in 1 .. Len(r) : \E l \in 1 .. Len(s) : r[k] = s[l]
      /\ \A k \in 1 .. pos - 1 : r[k] = s[k]
  BY DEF Shrunk
<1>2. q \in Seq(S) /\ Removed(q, r, pos)
  BY <1>1, RemoveAtFacts
<1> HIDE DEF q
<1>3. /\ Len(q) = Len(r) - 1
      /\ \A k \in 1 .. Len(r) - 1 : q[k] = IF k < pos THEN r[k] ELSE r[k + 1]
  BY <1>2 DEF Removed
<1>4. /\ \A k \in 1 .. Len(r) - 1 : k \in 1 .. Len(r) /\ k + 1 \in 1 .. Len(r)
      /\ \A k \in 1 .. pos - 1 : k \in 1 .. Len(r) - 1 /\ k < pos
  BY <1>1
<1>5. \A k \in 1 .. Len(q) : \E l \in 1 .. Len(s) : q[k] = s[l]
  <2> SUFFICES ASSUME NEW k \in 1 .. Len(r) - 1
               PROVE  \E l \in 1 .. Len(s) : q[k] = s[l]
    BY <1>3
  <2>1. \E m \in 1 .. Len(r) : q[k] = r[m]
    BY <1>3, <1>4
  <2> QED BY <1>1, <2>1
<1>6. \A k \in 1 .. pos - 1 : q[k] = s[k]
  BY <1>1, <1>3, <1>4
<1>7. Len(q) \in Nat /\ Len(q) < Len(s) /\ pos <= Len(q) + 1 /\ Len(q) < Len(r)
  BY <1>1, <1>3
<1>8. Len(q) <= Len(s) /\ Len(q) # Len(s)
  BY <1>1, <1>7
<1> QED BY <1>2, <1>5, <1>6, <1>7, <1>8 DEF Shrunk, q

\* The loop over a candidate's own future slots.
EraseStep(left, i, cands, pos, sci, p) ==
  IF pos <= Len(left) /\ Hits(sci, FutureSlot(cands[pos], i, p), left[pos])
  THEN RemoveAt(left, pos) ELSE left
ErasesUpTo(h, cands, pos, sci, p) ==
  /\ h[0] = cands
  /\ \A i \in 1 .. p.cResel : h[i] = EraseStep(h[i - 1], i, cands, pos, sci, p)

\* EraseFor is the last value of the recursion over the own future slots.
LEMMA EraseForDef ==
  ASSUME NEW S, NEW cands \in Seq(S), NEW pos \in 1 .. Len(cands),
         NEW sci, NEW threshold, NEW p, p.cResel \in Nat, ~(sci.rsrp <= threshold)
  PROVE  \E h : /\ ErasesUpTo(h, cands, pos, sci, p)
                /\ EraseFor(cands, pos, sci, threshold, p) = h[p.cResel]
<1> DEFINE n == p.cResel
           X == Seq(S)
           step == [x \in X \X (1 .. n) |-> EraseStep(x[1], x[2], cands, pos, sci, p)]
           Rec(h) == h = [i \in 0 .. p.cResel |->
                            IF i = 0 THEN cands
                            ELSE IF /\ pos <= Len(h[i - 1])
                                    /\ Hits(sci, FutureSlot(cands[pos], i, p), h[i - 1][pos])
                                 THEN RemoveAt(h[i - 1], pos) ELSE h[i - 1]]
<1>1. n \in Nat /\ cands \in X
  OBVIOUS
<1>2. ASSUME NEW left \in X, NEW i
      PROVE  EraseStep(left, i, cands, pos, sci, p) \in X
  <2>1. CASE pos <= Len(left)
    <3>1. pos \in 1 .. Len(left)
      BY <2>1
    <3>2. RemoveAt(left, pos) \in Seq(S)
      BY <3>1, RemoveAtFacts
    <3> QED BY <3>2 DEF EraseStep
  <2>2. CASE ~(pos <= Len(left))
    BY <2>2 DEF EraseStep
  <2> QED BY <2>1, <2>2
<1>3. step \in [X \X (1 .. n) -> X]
  <2> HIDE DEF X
  <2> QED BY <1>2
<1>4. \A x \in X, i \in 1 .. n : step[<<x, i>>] = EraseStep(x, i, cands, pos, sci, p)
  <2> HIDE DEF X
  <2> QED OBVIOUS
<1> HIDE DEF X, step
<1>5. PICK f \in [0 .. n -> X] : Follows(f, n, cands, step)
  <2> HIDE DEF n
  <2> QED BY <1>1, <1>3, FiniteRecursion
<1>6. f[0] = cands /\ \A i \in 1 .. n : f[i] = EraseStep(f[i - 1], i, cands, pos, sci, p)
  <2>1. ASSUME NEW i \in 1 .. n
        PROVE  f[i] = EraseStep(f[i - 1], i, cands, pos, sci, p)
    <3>1. i - 1 \in 0 .. n
      BY <1>1
    <3>2. f[i - 1] \in X
      BY <3>1
    <3>3. f[i] = step[<<f[i - 1], i>>]
      BY <1>5 DEF Follows
    <3> QED BY <3>2, <3>3, <1>4
  <2> QED BY <1>5, <2>1 DEF Follows
<1>7. Rec(f)
  <2>1. f = [i \in 0 .. p.cResel |-> f[i]]
    OBVIOUS
  <2>2. ASSUME NEW i \in 0 .. p.cResel
        PROVE  f[i] = IF i = 0 THEN cands
                      ELSE IF /\ pos <= Len(f[i - 1])
                              /\ Hits(sci, FutureSlot(cands[pos], i, p), f[i - 1][pos])
                           THEN RemoveAt(f[i - 1], pos) ELSE f[i - 1]
    <3>1. CASE i = 0
      BY <1>6, <3>1
    <3>2. CASE i # 0
      <4>1. i \in 1 .. n
        BY <1>1, <3>2
      <4>2. f[i] = EraseStep(f[i - 1], i, cands, pos, sci, p)
        BY <1>6, <4>1
      <4> QED BY <3>2, <4>2, Zenon DEF EraseStep
    <3> QED BY <3>1, <3>2
  <2> QED BY <2>1, <2>2, Zenon
<1> DEFINE h == CHOOSE g : Rec(g)
<1>8. Rec(h)
  <2> HIDE DEF Rec
  <2> QED BY <1>7, Zenon
<1>9. EraseFor(cands, pos, sci, threshold, p) = h[n]
  BY DEF EraseFor
<1> HIDE DEF h
<1>10. h[0] = cands /\ \A i \in 1 .. n : h[i] = EraseStep(h[i - 1], i, cands, pos, sci, p)
  <2>1. \A i \in 0 .. p.cResel :
          h[i] = IF i = 0 THEN cands
                 ELSE IF /\ pos <= Len(h[i - 1])
                         /\ Hits(sci, FutureSlot(cands[pos], i, p), h[i - 1][pos])
                      THEN RemoveAt(h[i - 1], pos) ELSE h[i - 1]
    BY <1>8, Zenon
  <2>2. 0 \in 0 .. n /\ \A i \in 1 .. n : i \in 0 .. p.cResel /\ i # 0
    BY <1>1
  <2>3. h[0] = cands
    BY <2>1, <2>2, Zenon
  <2>4. ASSUME NEW i \in 1 .. n
        PROVE  h[i] = EraseStep(h[i - 1], i, cands, pos, sci, p)
    BY <2>1, <2>2, Zenon DEF EraseStep
  <2> QED BY <2>3, <2>4
<1> QED BY <1>9, <1>10 DEF ErasesUpTo

\* The candidate at a position is hit by an SCI in one of its future slots.
IsHit(cand, sci, p) == \E i \in 1 .. p.cResel : Hits(sci, FutureSlot(cand, i, p), cand)

\* An SCI erases at the position or after it, and only leaves the list as it
\* is when the candidate at the position is not hit.
LEMMA EraseForFacts ==
  ASSUME NEW S, NEW cands \in Seq(S), NEW pos \in 1 .. Len(cands),
         NEW sci, NEW threshold, NEW p, p.cResel \in Nat
  PROVE  /\ EraseFor(cands, pos, sci, threshold, p) \in Seq(S)
         /\ Shrunk(EraseFor(cands, pos, sci, threshold, p), cands, pos)
         /\ EraseFor(cands, pos, sci, threshold, p) = cands =>
              sci.rsrp <= threshold \/ ~IsHit(cands[pos], sci, p)
<1> DEFINE n == p.cResel
           r == EraseFor(cands, pos, sci, threshold, p)
<1>1. Shrunk(cands, cands, pos) /\ n \in Nat /\ Len(cands) \in Nat
  BY ShrunkSame
<1>2. CASE sci.rsrp <= threshold
  <2>1. r = cands
    BY <1>2 DEF EraseFor
  <2> QED BY <1>1, <1>2, <2>1
<1>3. CASE ~(sci.rsrp <= threshold)
  <2>1. PICK h : ErasesUpTo(h, cands, pos, sci, p) /\ r = h[n]
    BY <1>3, EraseForDef
  <2> HIDE DEF r
  <2>2. /\ h[0] = cands
        /\ \A i \in 1 .. n : h[i] = EraseStep(h[i - 1], i, cands, pos, sci, p)
    BY <2>1 DEF ErasesUpTo
  <2> DEFINE Hit(i) == Hits(sci, FutureSlot(cands[pos], i, p), cands[pos])
             Missed(k) == h[k] = cands => \A i \in 1 .. k : ~Hit(i)
             G == {k \in 0 .. n : h[k] \in Seq(S) /\ Shrunk(h[k], cands, pos) /\ Missed(k)}
  <2> HIDE DEF Hit
  <2>3. 0 \in G
    BY <1>1, <2>2
  <2>4. ASSUME NEW k \in 0 .. n - 1, k \in G
        PROVE  k + 1 \in G
    <3>1. k \in Nat /\ k + 1 \in 1 .. n /\ (k + 1) - 1 = k /\ k + 1 \in 0 .. n
      BY <1>1
    <3>2. h[k + 1] = EraseStep(h[k], k + 1, cands, pos, sci, p)
      BY <2>2, <3>1
    <3>3. h[k] \in Seq(S) /\ Shrunk(h[k], cands, pos) /\ Missed(k)
      BY <2>4
    <3>4. CASE pos <= Len(h[k]) /\ Hits(sci, FutureSlot(cands[pos], k + 1, p), h[k][pos])
      <4>1. h[k + 1] = RemoveAt(h[k], pos)
        BY <3>2, <3>4 DEF EraseStep
      <4>2. /\ h[k + 1] \in Seq(S) /\ Shrunk(h[k + 1], cands, pos)
            /\ Len(h[k + 1]) < Len(h[k])
        BY <3>3, <3>4, <4>1, ShrunkMore
      <4>3. Len(h[k + 1]) \in Nat /\ Len(h[k]) \in Nat /\ Len(h[k]) <= Len(cands)
        BY <3>3, <4>2 DEF Shrunk
      <4>4. h[k + 1] # cands
        BY <1>1, <4>2, <4>3
      <4> QED BY <3>1, <4>2, <4>4
    <3>5. CASE ~(pos <= Len(h[k]) /\ Hits(sci, FutureSlot(cands[pos], k + 1, p), h[k][pos]))
      <4>1. h[k + 1] = h[k]
        BY <3>2, <3>5 DEF EraseStep
      <4>2. ASSUME h[k + 1] = cands, NEW i \in 1 .. k + 1
            PROVE  ~Hit(i)
        <5>1. h[k] = cands /\ pos <= Len(h[k])
          BY <4>1, <4>2
        <5>2. CASE i = k + 1
          BY <3>5, <5>1, <5>2 DEF Hit
        <5>3. CASE i # k + 1
          <6>1. i \in 1 .. k
            BY <3>1, <5>3
          <6> QED BY <3>3, <5>1, <6>1
        <5> QED BY <5>2, <5>3
      <4> QED BY <3>1, <3>3, <4>1, <4>2
    <3> QED BY <3>4, <3>5
  <2> HIDE DEF G
  <2>5. \A k \in 0 .. n : k \in G
    <3> HIDE DEF n
    <3> QED BY <1>1, <2>3, <2>4, InductionUpTo
  <2>6. n \in G
    BY <1>1, <2>5
  <2>7. r \in Seq(S) /\ Shrunk(r, cands, pos) /\ (r = cands => \A i \in 1 .. n : ~Hit(i))
    BY <2>1, <2>6 DEF G
  <2> QED BY <2>7 DEF r, Hit, IsHit
<1> QED BY <1>2, <1>3

\* No SCI above the threshold hits a candidate in its future slots.
Clear(cand, sensed, threshold, p) ==
  \A k \in DOMAIN sensed : sensed[k].rsrp <= threshold \/ ~IsHit(cand, sensed[k], p)

\* Unless something is erased, the candidate at the position is clear.
LEMMA EraseAtFacts ==
  ASSUME NEW S, NEW cands \in Seq(S), NEW pos \in 1 .. Len(cands),
         NEW sensed, DOMAIN sensed \in SUBSET Nat, NEW threshold, NEW p, p.cResel \in Nat
  PROVE  /\ EraseAt(cands, pos, sensed, threshold, p) \in Seq(S)
         /\ Shrunk(EraseAt(cands, pos, sensed, threshold, p), cands, pos)
         /\ EraseAt(cands, pos, sensed, threshold, p) = cands =>
              Clear(cands[pos], sensed, threshold, p)
<1> DEFINE after(k) == EraseFor(cands, pos, sensed[k], threshold, p)
           erasing == {k \in DOMAIN sensed : after(k) # cands}
           r == EraseAt(cands, pos, sensed, threshold, p)
<1>1. ASSUME NEW k \in DOMAIN sensed
      PROVE  /\ after(k) \in Seq(S) /\ Shrunk(after(k), cands, pos)
             /\ after(k) = cands => sensed[k].rsrp <= threshold \/ ~IsHit(cands[pos], sensed[k], p)
  BY EraseForFacts
<1>2. r = IF erasing = {} THEN cands ELSE after(Min(erasing))
  BY DEF EraseAt
<1>3. CASE erasing = {}
  <2>1. r = cands /\ \A k \in DOMAIN sensed : after(k) = cands
    BY <1>2, <1>3
  <2>2. Shrunk(cands, cands, pos)
    BY ShrunkSame
  <2> HIDE DEF after, r
  <2> QED BY <1>1, <2>1, <2>2 DEF Clear, r
<1>4. CASE erasing # {}
  <2>1. erasing \in SUBSET Nat
    OBVIOUS
  <2>2. Min(erasing) \in erasing
    <3> HIDE DEF erasing
    <3>1. PICK m \in erasing : \A k \in erasing : m <= k
      BY <1>4, <2>1, LeastOf
    <3> QED BY <3>1, Zenon DEF Min
  <2>3. r = after(Min(erasing)) /\ Min(erasing) \in DOMAIN sensed /\ r # cands
    BY <1>2, <1>4, <2>2
  <2> HIDE DEF after, r, erasing
  <2> QED BY <1>1, <2>3 DEF r
<1> QED BY <1>3, <1>4

\* The loop over the candidates.
SiftsUpTo(h, cands, sensed, threshold, p) ==
  /\ h[0] = [list |-> cands, pos |-> 1]
  /\ \A i \in 1 .. Len(cands) : h[i] = SiftNext(h[i - 1], sensed, threshold, p)

Sifting(S) == [list : Seq(S), pos : Nat \ {0}]

\* A step of a pass leaves a list of candidates and a position.
LEMMA SiftNextType ==
  ASSUME NEW S, NEW acc \in Sifting(S), NEW sensed, DOMAIN sensed \in SUBSET Nat,
         NEW threshold, NEW p, p.cResel \in Nat
  PROVE  SiftNext(acc, sensed, threshold, p) \in Sifting(S)
<1> DEFINE rest == EraseAt(acc.list, acc.pos, sensed, threshold, p)
<1>1. acc.list \in Seq(S) /\ acc.pos \in Nat \ {0} /\ Len(acc.list) \in Nat
  BY DEF Sifting
<1>2. CASE acc.pos > Len(acc.list)
  BY <1>2 DEF SiftNext
<1>3. CASE ~(acc.pos > Len(acc.list))
  <2>1. acc.pos \in 1 .. Len(acc.list)
    BY <1>1, <1>3
  <2>2. rest \in Seq(S)
    BY <1>1, <2>1, EraseAtFacts
  <2>3. SiftNext(acc, sensed, threshold, p) =
          [list |-> rest, pos |-> IF rest # acc.list THEN acc.pos ELSE acc.pos + 1]
    BY <1>3 DEF SiftNext
  <2> HIDE DEF rest
  <2> QED BY <1>1, <2>2, <2>3 DEF Sifting
<1> QED BY <1>2, <1>3

\* Sift is the last value of the recursion over the candidates.
LEMMA SiftDef ==
  ASSUME NEW S, NEW cands \in Seq(S), NEW sensed, DOMAIN sensed \in SUBSET Nat,
         NEW threshold, NEW p, p.cResel \in Nat
  PROVE  \E h : /\ SiftsUpTo(h, cands, sensed, threshold, p)
                /\ Sift(cands, sensed, threshold, p) = h[Len(cands)].list
<1> DEFINE n == Len(cands)
           X == Sifting(S)
           first == [list |-> cands, pos |-> 1]
           step == [x \in X \X (1 .. n) |-> SiftNext(x[1], sensed, threshold, p)]
           Rec(h) == h = [i \in 0 .. Len(cands) |->
                            IF i = 0 THEN [list |-> cands, pos |-> 1]
                            ELSE SiftNext(h[i - 1], sensed, threshold, p)]
<1>1. n \in Nat /\ first \in X
  BY DEF Sifting
<1>2. step \in [X \X (1 .. n) -> X]
  <2>1. ASSUME NEW x \in X
        PROVE  SiftNext(x, sensed, threshold, p) \in X
    BY SiftNextType
  <2> HIDE DEF X
  <2> QED BY <2>1
<1>3. \A x \in X, i \in 1 .. n : step[<<x, i>>] = SiftNext(x, sensed, threshold, p)
  <2> HIDE DEF X
  <2> QED OBVIOUS
<1> HIDE DEF X, step, first, n
<1>4. PICK f \in [0 .. n -> X] : Follows(f, n, first, step)
  BY <1>1, <1>2, FiniteRecursion
<1>5. f[0] = first /\ \A i \in 1 .. n : f[i] = SiftNext(f[i - 1], sensed, threshold, p)
  <2>1. ASSUME NEW i \in 1 .. n
        PROVE  f[i] = SiftNext(f[i - 1], sensed, threshold, p)
    <3>1. i - 1 \in 0 .. n
      BY <1>1
    <3>2. f[i - 1] \in X
      BY <3>1
    <3>3. f[i] = step[<<f[i - 1], i>>]
      BY <1>4 DEF Follows
    <3> QED BY <3>2, <3>3, <1>3
  <2> QED BY <1>4, <2>1 DEF Follows
<1>6. Rec(f)
  <2>1. f = [i \in 0 .. Len(cands) |-> f[i]]
    BY DEF n
  <2>2. ASSUME NEW i \in 0 .. Len(cands)
        PROVE  f[i] = IF i = 0 THEN [list |-> cands, pos |-> 1]
                      ELSE SiftNext(f[i - 1], sensed, threshold, p)
    <3>1. CASE i = 0
      BY <1>5, <3>1 DEF first
    <3>2. CASE i # 0
      <4>1. i \in 1 .. n
        BY <1>1, <3>2 DEF n
      <4> QED BY <1>5, <3>2, <4>1
    <3> QED BY <3>1, <3>2
  <2> QED BY <2>1, <2>2, Zenon
<1> DEFINE h == CHOOSE g : Rec(g)
<1>7. Rec(h)
  <2> HIDE DEF Rec
  <2> QED BY <1>6, Zenon
<1>8. Sift(cands, sensed, threshold, p) = h[Len(cands)].list
  BY DEF Sift
<1> HIDE DEF h
<1>9. SiftsUpTo(h, cands, sensed, threshold, p)
  <2>1. \A i \in 0 .. Len(cands) :
          h[i] = IF i = 0 THEN [list |-> cands, pos |-> 1]
                 ELSE SiftNext(h[i - 1], sensed, threshold, p)
    BY <1>7, Zenon
  <2>2. 0 \in 0 .. Len(cands) /\ \A i \in 1 .. Len(cands) : i \in 0 .. Len(cands) /\ i # 0
    OBVIOUS
  <2> QED BY <2>1, <2>2, Zenon DEF SiftsUpTo
<1> QED BY <1>8, <1>9

\* A pass leaves candidates of the list, and none that an SCI above the
\* threshold hits: each step erases one or moves past a clear one.
LEMMA SiftFacts ==
  ASSUME NEW S, NEW cands \in Seq(S), NEW sensed, DOMAIN sensed \in SUBSET Nat,
         NEW threshold, NEW p, p.cResel \in Nat
  PROVE  /\ Sift(cands, sensed, threshold, p) \in Seq(S)
         /\ \A k \in 1 .. Len(Sift(cands, sensed, threshold, p)) :
              Clear(Sift(cands, sensed, threshold, p)[k], sensed, threshold, p)
<1> DEFINE n == Len(cands)
           Ok(c) == Clear(c, sensed, threshold, p)
           Good(a, i) == /\ a \in Sifting(S)
                         /\ \A k \in 1 .. a.pos - 1 : Ok(a.list[k])
                         /\ a.pos <= Len(a.list) + 1
                         /\ Len(a.list) + 1 - a.pos <= n - i
<1>1. PICK h : /\ SiftsUpTo(h, cands, sensed, threshold, p)
               /\ Sift(cands, sensed, threshold, p) = h[Len(cands)].list
  BY SiftDef
<1>2. n \in Nat
  OBVIOUS
<1> DEFINE G == {i \in 0 .. n : Good(h[i], i)}
<1> HIDE DEF Ok
<1>3. 0 \in G
  <2>1. h[0] = [list |-> cands, pos |-> 1]
    BY <1>1 DEF SiftsUpTo
  <2>2. Good(h[0], 0)
    BY <1>2, <2>1 DEF Sifting
  <2> HIDE DEF Good
  <2> QED BY <1>2, <2>2
<1>4. ASSUME NEW i \in 0 .. n - 1, i \in G
      PROVE  i + 1 \in G
  <2> DEFINE a == h[i]
             rest == EraseAt(a.list, a.pos, sensed, threshold, p)
             b == h[i + 1]
  <2>1. i \in Nat /\ i + 1 \in 1 .. n /\ (i + 1) - 1 = i /\ i + 1 \in 0 .. n
    BY <1>2
  <2>2. b = SiftNext(a, sensed, threshold, p)
    BY <1>1, <2>1 DEF SiftsUpTo
  <2>3. Good(a, i)
    BY <1>4
  <2> HIDE DEF a, b
  <2>4. /\ a.list \in Seq(S) /\ a.pos \in Nat \ {0} /\ Len(a.list) \in Nat
        /\ \A k \in 1 .. a.pos - 1 : Ok(a.list[k])
        /\ a.pos <= Len(a.list) + 1
        /\ Len(a.list) + 1 - a.pos <= n - i
    BY <2>3 DEF Sifting
  <2>5. b \in Sifting(S)
    BY <2>2, <2>3, SiftNextType
  <2>6. CASE a.pos > Len(a.list)
    <3>1. b = a
      BY <2>2, <2>6 DEF SiftNext
    <3>2. Len(a.list) + 1 - a.pos <= n - (i + 1)
      BY <1>2, <2>1, <2>4, <2>6
    <3> QED BY <2>1, <2>4, <2>5, <3>1, <3>2 DEF b
  <2>7. CASE ~(a.pos > Len(a.list))
    <3>1. a.pos \in 1 .. Len(a.list)
      BY <2>4, <2>7
    <3>2. /\ rest \in Seq(S) /\ Shrunk(rest, a.list, a.pos)
          /\ rest = a.list => Ok(a.list[a.pos])
      BY <2>4, <3>1, EraseAtFacts DEF Ok
    <3>3. b = [list |-> rest, pos |-> IF rest # a.list THEN a.pos ELSE a.pos + 1]
      BY <2>2, <2>7 DEF SiftNext
    <3> HIDE DEF rest
    <3>4. CASE rest = a.list
      <4>1. b.list = a.list /\ b.pos = a.pos + 1
        BY <3>3, <3>4
      <4>2. \A k \in 1 .. b.pos - 1 : k \in 1 .. a.pos - 1 \/ k = a.pos
        BY <2>4, <4>1
      <4>3. \A k \in 1 .. b.pos - 1 : Ok(b.list[k])
        BY <2>4, <3>2, <3>4, <4>1, <4>2
      <4>4. b.pos <= Len(b.list) + 1 /\ Len(b.list) + 1 - b.pos <= n - (i + 1)
        BY SMTT(40), <1>2, <2>1, <2>4, <2>7, <4>1
      <4> QED BY <2>1, <2>5, <4>3, <4>4 DEF b
    <3>5. CASE rest # a.list
      <4>1. b.list = rest /\ b.pos = a.pos
        BY <3>3, <3>5
      <4>2. /\ Len(rest) \in Nat /\ Len(rest) < Len(a.list) /\ a.pos <= Len(rest) + 1
            /\ \A k \in 1 .. a.pos - 1 : rest[k] = a.list[k]
        BY <2>4, <3>2, <3>5 DEF Shrunk
      <4>3. \A k \in 1 .. b.pos - 1 : Ok(b.list[k])
        BY <2>4, <4>1, <4>2
      <4>4. b.pos <= Len(b.list) + 1 /\ Len(b.list) + 1 - b.pos <= n - (i + 1)
        BY <1>2, <2>1, <2>4, <4>1, <4>2
      <4> QED BY <2>1, <2>5, <4>3, <4>4 DEF b
    <3> QED BY <3>4, <3>5
  <2> QED BY <2>6, <2>7
<1>5. n \in G
  <2>1. \A i \in 0 .. n : i \in G
    <3> HIDE DEF G
    <3> QED BY <1>2, <1>3, <1>4, InductionUpTo
  <2> HIDE DEF G
  <2> QED BY <1>2, <2>1
<1>6. Good(h[n], n)
  BY <1>5
<1>7. /\ h[n].list \in Seq(S) /\ Len(h[n].list) \in Nat
      /\ h[n].pos \in Nat /\ Len(h[n].list) + 1 <= h[n].pos
      /\ \A k \in 1 .. h[n].pos - 1 : Ok(h[n].list[k])
  BY <1>2, <1>6 DEF Sifting
<1>8. \A k \in 1 .. Len(h[n].list) : Ok(h[n].list[k])
  BY <1>7
<1> QED BY <1>1, <1>7, <1>8 DEF Ok

-----------------------------------------------------------------------------
(* The selection.                                                          *)

\* Dividing by something no larger.
LEMMA DivideOnce ==
  ASSUME NEW a \in Nat, NEW b \in Nat \ {0}, a >= b
  PROVE  a \div b \in Nat /\ a \div b >= 1
<1> DEFINE q == a \div b
           r == a % b
<1>1. q \in Int /\ r \in 0 .. b - 1 /\ a = b * q + r
  OBVIOUS
<1> HIDE DEF q, r
<1>2. q >= 1
  <2> SUFFICES ASSUME q <= 0 PROVE FALSE
    BY <1>1
  <2>1. b * q <= 0
    BY <1>1
  <2> QED BY <1>1, <2>1
<1> QED BY <1>1, <1>2 DEF q

\* A number is a multiple of what divides it, and a multiple is divided.
LEMMA Divides ==
  ASSUME NEW a \in Nat \ {0}, NEW b \in Nat \ {0}
  PROVE  /\ a % b = 0 => \E i \in 1 .. a : a = i * b
         /\ \A i \in Nat : a = i * b => a % b = 0
<1> DEFINE q == a \div b
           r == a % b
<1>1. q \in Int /\ r \in 0 .. b - 1 /\ a = b * q + r
  OBVIOUS
<1> HIDE DEF q, r
<1>2. ASSUME r = 0 PROVE \E i \in 1 .. a : a = i * b
  <2>1. a = q * b
    BY <1>1, <1>2
  <2>2. q >= 1
    <3> SUFFICES ASSUME q <= 0 PROVE FALSE
      BY <1>1
    <3>1. b * q <= 0
      BY <1>1
    <3> QED BY <1>1, <1>2, <3>1
  <2>3. q <= a
    <3>1. q * b >= q
      BY <1>1, <2>2
    <3> QED BY <1>1, <2>1, <3>1
  <2> QED BY <1>1, <2>1, <2>2, <2>3
<1>3. ASSUME NEW i \in Nat, a = i * b PROVE r = 0
  <2>1. r = b * (i - q)
    BY <1>1, <1>3
  <2>2. CASE i <= q
    <3>1. b * (i - q) <= 0
      BY <1>1, <2>2
    <3> QED BY <1>1, <2>1, <3>1
  <2>3. CASE i > q
    <3>1. b * (i - q) >= b
      BY <1>1, <2>3
    <3> QED BY <1>1, <2>1, <3>1
  <2> QED BY <1>1, <2>2, <2>3
<1> QED BY <1>2, <1>3 DEF r

\* What an SCI reserves is among the transmissions it is projected to.
LEMMA ReservesAreProjected ==
  ASSUME NEW e \in Entry
  PROVE  Reserves(e) \subseteq FutSlotsBasedOnSens(e)
<1> DEFINE P == PeriodInSlots(e.rsvp)
           N == NumPeriods(e)
<1>1. e.slot \in Nat /\ e.rsvp \in Nat
  BY DEF Entry
<1>2. P \in Nat /\ (e.rsvp # 0 => P > 0)
  BY <1>1, SensingAssumption DEF PeriodInSlots
<1>3. N \in Nat /\ (e.rsvp # 0 => N >= 1)
  <2>1. Window \in Nat /\ Window >= 1
    BY SensingAssumption DEF Window
  <2>2. CASE e.rsvp = 0
    BY <2>2 DEF NumPeriods
  <2>3. CASE e.rsvp # 0 /\ P < Window
    <3>1. N = (Window + P - 1) \div P
      BY <2>3 DEF NumPeriods
    <3>2. Window + P - 1 \in Nat /\ Window + P - 1 >= P /\ P \in Nat \ {0}
      BY <1>2, <2>1, <2>3
    <3> QED BY <3>1, <3>2, DivideOnce
  <2>4. CASE e.rsvp # 0 /\ ~(P < Window)
    BY <2>4 DEF NumPeriods
  <2> QED BY <2>2, <2>3, <2>4
<1>4. FutSlotsBasedOnSens(e) = UNION {Announced(e, e.slot + i * P) : i \in 0 .. N}
  BY DEF FutSlotsBasedOnSens
<1>5. Reserves(e) = Announced(e, e.slot) \union
                      (IF e.rsvp = 0 THEN {} ELSE Announced(e, e.slot + P))
  BY DEF Reserves
<1> HIDE DEF P, N
<1>6. Announced(e, e.slot) \subseteq FutSlotsBasedOnSens(e)
  <2>1. e.slot + 0 * P = e.slot /\ 0 \in 0 .. N
    BY <1>1, <1>2, <1>3
  <2>2. \E i \in 0 .. N : Announced(e, e.slot) = Announced(e, e.slot + i * P)
    BY <2>1
  <2> QED BY <1>4, <2>2
<1>7. CASE e.rsvp = 0
  BY <1>5, <1>6, <1>7
<1>8. CASE e.rsvp # 0
  <2>1. e.slot + 1 * P = e.slot + P /\ 1 \in 0 .. N
    BY <1>1, <1>2, <1>3, <1>8
  <2>2. \E i \in 0 .. N : Announced(e, e.slot + P) = Announced(e, e.slot + i * P)
    BY <2>1
  <2>3. Announced(e, e.slot + P) \subseteq FutSlotsBasedOnSens(e)
    BY <1>4, <2>2
  <2> QED BY <1>5, <1>6, <2>3
<1> QED BY <1>7, <1>8

\* A list is a list of its elements.
LEMMA ListOfElements ==
  ASSUME NEW n \in Nat, NEW s, s = [k \in 1 .. n |-> s[k]]
  PROVE  s \in Seq(ToSet(s))
<1>1. DOMAIN s = 1 .. n
  OBVIOUS
<1>2. \A k \in 1 .. n : s[k] \in ToSet(s)
  BY <1>1 DEF ToSet
<1>3. [k \in 1 .. n |-> s[k]] \in Seq(ToSet(s))
  BY <1>2
<1> QED BY <1>3, Zenon

\* The candidates are a list, and so are those left after step 5.
LEMMA CandidatesFacts ==
  ASSUME NEW p \in Params
  PROVE  /\ p.cResel \in Nat
         /\ Candidates(p) \in Seq(ToSet(Candidates(p)))
<1>1. p.cResel \in Nat /\ p.lSubch \in Nat \ {0}
  BY SensingAssumption DEF ParamsType
<1> DEFINE perSlot == TotalSubCh - p.lSubch + 1
<1>2. perSlot \in Int
  BY <1>1, SensingAssumption
<1>3. CASE perSlot <= 0
  <2>1. Candidates(p) = <<>>
    BY <1>3 DEF Candidates
  <2> QED BY <1>1, <2>1
<1>4. CASE ~(perSlot <= 0)
  <2>1. Window \in Nat
    BY SensingAssumption DEF Window
  <2>2. Window * perSlot \in Nat
    BY <1>2, <1>4, <2>1
  <2>3. Candidates(p) = [k \in 1 .. Window * perSlot |-> Candidates(p)[k]]
    BY <1>4 DEF Candidates
  <2> HIDE DEF perSlot
  <2>4. Candidates(p) \in Seq(ToSet(Candidates(p)))
    BY <2>2, <2>3, ListOfElements
  <2> QED BY <1>1, <2>4
<1> QED BY <1>3, <1>4

\* Step 5 leaves a list of candidates of step 4.
LEMMA AfterHistoryFacts ==
  ASSUME NEW p \in Params
  PROVE  /\ AfterHistory(p) \in Seq(ToSet(Candidates(p)))
         /\ AfterHistory(p) \in Seq(ToSet(AfterHistory(p)))
<1> DEFINE C == ToSet(Candidates(p))
           rest == Filter(Candidates(p), {c \in C : c.slot \notin SlotsToExclude})
<1>1. Candidates(p) \in Seq(C)
  BY CandidatesFacts
<1>2. rest \in Seq(C)
  <2> HIDE DEF C
  <2> QED BY <1>1, FilterElements
<1>3. AfterHistory(p) \in Seq(C)
  BY <1>1, <1>2 DEF AfterHistory
<1> DEFINE a == AfterHistory(p)
<1>4. Len(a) \in Nat /\ a = [k \in 1 .. Len(a) |-> a[k]]
  BY <1>3
<1> HIDE DEF a
<1>5. a \in Seq(ToSet(a))
  BY <1>4, ListOfElements
<1> QED BY <1>3, <1>5 DEF a

\* The SCIs and transmissions that are old enough to be looked at.
LEMMA TrimmedFacts ==
  ASSUME TypeInv
  PROVE  /\ TrimmedData \in Seq(Entry) /\ TrimmedHistory \in Seq(Nat)
         /\ \A s \in ToSet(sensingData) :
              now - s.slot > Tproc0 => \E k \in DOMAIN TrimmedData : TrimmedData[k] = s
         /\ ToSet(TrimmedHistory) = {t \in ToSet(transmitHistory) : now - t > Tproc0}
<1> DEFINE A == {s \in ToSet(sensingData) : OldEnough(s.slot)}
           B == {t \in ToSet(transmitHistory) : OldEnough(t)}
<1>1. sensingData \in Seq(Entry) /\ transmitHistory \in Seq(Nat)
  BY DEF TypeInv
<1>2. TrimmedData \in Seq(Entry) /\ Keeps(TrimmedData, sensingData, A)
  <2>1. TrimmedData = Filter(sensingData, A)
    BY DEF TrimmedData
  <2> HIDE DEF A
  <2> QED BY <1>1, <2>1, FilterElements
<1>3. TrimmedHistory \in Seq(Nat) /\ Keeps(TrimmedHistory, transmitHistory, B)
  <2>1. TrimmedHistory = Filter(transmitHistory, B)
    BY DEF TrimmedHistory
  <2> HIDE DEF B
  <2> QED BY <1>1, <2>1, FilterElements
<1>4. ASSUME NEW s \in ToSet(sensingData), now - s.slot > Tproc0
      PROVE  \E k \in DOMAIN TrimmedData : TrimmedData[k] = s
  <2>1. s \in A
    BY <1>4 DEF OldEnough
  <2>2. PICK i \in DOMAIN sensingData : sensingData[i] = s
    BY DEF ToSet
  <2> QED BY <1>2, <2>1, <2>2 DEF Keeps
<1>5. ToSet(TrimmedHistory) = B
  <2>1. \A t \in B : \E i \in DOMAIN transmitHistory : transmitHistory[i] = t
    BY DEF ToSet
  <2> HIDE DEF B
  <2>2. ToSet(TrimmedHistory) \subseteq B
    BY <1>3 DEF Keeps, ToSet
  <2>3. B \subseteq ToSet(TrimmedHistory)
    BY <1>3, <2>1 DEF Keeps, ToSet
  <2> QED BY <2>2, <2>3
<1> QED BY <1>2, <1>3, <1>4, <1>5 DEF OldEnough

\* One of the thresholds that are tried is the lowest.
LEMMA LowestThreshold ==
  ASSUME NEW E \in SUBSET Thresholds, E # {}
  PROVE  Min(E) \in E
<1>1. Threshold \in Int /\ \A t \in E : t \in Int /\ t >= Threshold
  BY SensingAssumption DEF Thresholds
<1> DEFINE Above == {t - Threshold : t \in E}
<1>2. Above \in SUBSET Nat /\ Above # {}
  BY <1>1
<1>3. PICK m \in Above : \A n \in Above : m <= n
  BY <1>2, LeastOf
<1>4. PICK t \in E : m = t - Threshold
  OBVIOUS
<1>5. \A u \in E : t <= u
  <2> SUFFICES ASSUME NEW u \in E PROVE t <= u
    OBVIOUS
  <2>1. u - Threshold \in Above
    OBVIOUS
  <2>2. t - Threshold <= u - Threshold
    BY <1>3, <1>4, <2>1
  <2> QED BY <1>1, <2>2
<1> QED BY <1>5, Zenon DEF Min

\* What a request answers with, when the UE has heard or sent something:
\* candidates of the last step that no SCI above the threshold hits.
LEMMA SelectedFacts ==
  ASSUME TypeInv, NEW p \in Params, ~(sensingData = <<>> /\ transmitHistory = <<>>),
         NEW c \in ToSet(CandidateResources(p).list)
  PROVE  /\ c \in ToSet(AfterHistory(p))
         /\ CandidateResources(p).threshold \in Int
         /\ Clear(c, Projections, CandidateResources(p).threshold, p)
<1> DEFINE cands == AfterHistory(p)
           sensed == Projections
           pass == [t \in Thresholds |-> Sift(cands, sensed, t, p)]
           enough == {t \in Thresholds : IsEnough(Len(pass[t]), p)}
           t0 == Min(enough)
           S == ToSet(AfterHistory(p))
<1>1. CandidateResources(p) =
        IF enough = {} THEN [list |-> <<>>, threshold |-> Max(Thresholds)]
        ELSE [list |-> pass[t0], threshold |-> t0]
  BY DEF CandidateResources
<1>2. enough # {}
  <2> SUFFICES ASSUME enough = {} PROVE FALSE
    OBVIOUS
  <2>1. CandidateResources(p).list = <<>>
    BY <1>1
  <2> QED BY <2>1 DEF ToSet
<1>3. t0 \in Thresholds /\ t0 \in Int
  <2>1. enough \in SUBSET Thresholds
    OBVIOUS
  <2>2. t0 \in Thresholds
    <3> HIDE DEF enough
    <3> QED BY <1>2, <2>1, LowestThreshold
  <2> HIDE DEF t0
  <2> QED BY <2>2, SensingAssumption DEF Thresholds
<1>4. /\ CandidateResources(p).list = Sift(cands, sensed, t0, p)
      /\ CandidateResources(p).threshold = t0
  <2>1. CandidateResources(p) = [list |-> pass[t0], threshold |-> t0]
    BY <1>1, <1>2
  <2>2. pass[t0] = Sift(cands, sensed, t0, p)
    <3> HIDE DEF t0, cands, sensed
    <3> QED BY <1>3
  <2> HIDE DEF pass, t0, cands, sensed
  <2> QED BY <2>1, <2>2
<1>5. cands \in Seq(S) /\ p.cResel \in Nat
  BY CandidatesFacts, AfterHistoryFacts
<1>6. DOMAIN sensed \in SUBSET Nat
  <2>1. TrimmedData \in Seq(Entry)
    BY TrimmedFacts
  <2> QED BY <2>1 DEF Projections
<1> HIDE DEF cands, sensed, t0, S
<1>7. /\ Sift(cands, sensed, t0, p) \in Seq(S)
      /\ \A k \in 1 .. Len(Sift(cands, sensed, t0, p)) :
           Clear(Sift(cands, sensed, t0, p)[k], sensed, t0, p)
  BY <1>5, <1>6, SiftFacts
<1>8. PICK k \in 1 .. Len(Sift(cands, sensed, t0, p)) : c = Sift(cands, sensed, t0, p)[k]
  BY <1>4, <1>7, RangeIs
<1>9. c \in S
  BY <1>7, <1>8
<1> QED BY <1>3, <1>4, <1>7, <1>8, <1>9 DEF S, sensed

\* No resource that is offered collides, in any of its periods, with what an
\* SCI above the final threshold reserves.
LEMMA NoneConflicts ==
  ASSUME TypeInv
  PROVE  NoConflictingCandidate
<1> SUFFICES ASSUME NEW p \in Params, NEW sci \in ToSet(sensingData),
                    now - sci.slot > Tproc0,
                    sci.rsrp > CandidateResources(p).threshold,
                    NEW c \in ToSet(CandidateResources(p).list),
                    Conflicts(sci, Reserves(sci), c, p)
             PROVE  FALSE
  BY Zenon DEF NoConflictingCandidate
<1>1. ~(sensingData = <<>> /\ transmitHistory = <<>>)
  BY DEF ToSet
<1> DEFINE threshold == CandidateResources(p).threshold
<1>2. threshold \in Int /\ Clear(c, Projections, threshold, p)
  BY <1>1, SelectedFacts
<1>3. sci \in Entry /\ sci.rsrp \in Int
  <2>1. sci \in Entry
    BY RangeIs DEF TypeInv
  <2> QED BY <2>1 DEF Entry
<1>4. PICK k \in DOMAIN TrimmedData : TrimmedData[k] = sci
  BY TrimmedFacts
<1>5. /\ k \in DOMAIN Projections
      /\ Projections[k].rsrp = sci.rsrp /\ Projections[k].len = sci.len
      /\ Projections[k].transmissions = FutSlotsBasedOnSens(sci)
  BY <1>4 DEF Projections
<1>6. p.cResel \in Nat
  BY CandidatesFacts
<1> HIDE DEF threshold
<1>7. ~(sci.rsrp <= threshold)
  BY <1>2, <1>3 DEF threshold
<1>8. ~IsHit(c, Projections[k], p)
  BY <1>2, <1>5, <1>7 DEF Clear
<1>9. PICK i \in 0 .. p.cResel - 1, tx \in Reserves(sci) :
        /\ tx[1] = c.slot + i * PeriodInSlots(p.pRsvpTx)
        /\ OverlappedResource(tx[2], sci.len, c.start, c.len)
  BY DEF Conflicts
<1>10. i + 1 \in 1 .. p.cResel /\ (i + 1) - 1 = i
  BY <1>6
<1>11. FutureSlot(c, i + 1, p) = c.slot + i * PeriodInSlots(p.pRsvpTx)
  BY <1>10 DEF FutureSlot
<1>12. tx \in Projections[k].transmissions
  BY <1>3, <1>5, <1>9, ReservesAreProjected
<1>13. Hits(Projections[k], FutureSlot(c, i + 1, p), c)
  BY <1>5, <1>9, <1>11, <1>12 DEF Hits
<1> QED BY <1>8, <1>10, <1>13 DEF IsHit

\* No resource offered for a periodic grant collides with a transmission
\* reserved by an SCI louder than the threshold the selection ended with.
THEOREM SensingNoConflictingCandidate == Spec => []NoConflictingCandidate
<1>1. SensingInv => NoConflictingCandidate
  BY NoneConflicts DEF SensingInv
<1> QED BY <1>1, SensingInvariant, PTL

-----------------------------------------------------------------------------
(* The slots the UE could not hear in.                                     *)

\* Those that another UE may reserve, unheard.
Deaf == {slot \in now + T1 .. now + T2 :
           \E h \in {t \in ToSet(transmitHistory) : now - t > Tproc0},
              period \in ReservePeriods \ {0}, i \in 1 .. now + T2 :
             slot = h + i * PeriodInSlots(period)}

\* The slots step 5 leaves out are those it could not hear about.
LEMMA DeafIsExcluded ==
  ASSUME TypeInv
  PROVE  Deaf = SlotsToExclude
<1> DEFINE H == {t \in ToSet(transmitHistory) : now - t > Tproc0}
<1>1. ToSet(TrimmedHistory) = H
  BY TrimmedFacts
<1>2. now \in Nat /\ T1 \in Nat /\ T2 \in Nat /\ Tproc0 \in Nat
  BY SensingAssumption DEF TypeInv
<1>3. ASSUME NEW h \in H
      PROVE  h \in Nat
  <2>1. h \in ToSet(transmitHistory) /\ transmitHistory \in Seq(Nat)
    BY DEF TypeInv
  <2> QED BY <2>1 DEF ToSet
<1>4. ASSUME NEW period \in ReservePeriods \ {0}
      PROVE  PeriodInSlots(period) \in Nat \ {0}
  <2>1. period \in Nat \ {0} /\ SlotsPerMs \in Nat \ {0}
    BY SensingAssumption
  <2> QED BY <2>1 DEF PeriodInSlots
<1>5. ASSUME NEW slot \in now + T1 .. now + T2, NEW h \in H, NEW P \in Nat \ {0}
      PROVE  (\E i \in 1 .. now + T2 : slot = h + i * P)
               <=> slot > h /\ ((slot - h) % P) = 0
  <2>1. slot \in Nat /\ h \in Nat /\ slot <= now + T2
    BY <1>2, <1>3
  <2>2. ASSUME NEW i \in 1 .. now + T2, slot = h + i * P
        PROVE  slot > h /\ ((slot - h) % P) = 0
    <3>1. i \in Nat /\ i >= 1
      BY <1>2
    <3>2. i * P \in Nat /\ i * P >= 1
      BY <3>1
    <3>3. slot > h /\ slot - h \in Nat \ {0} /\ slot - h = i * P
      BY <2>1, <2>2, <3>2
    <3> QED BY <3>1, <3>3, Divides
  <2>3. ASSUME slot > h, ((slot - h) % P) = 0
        PROVE  \E i \in 1 .. now + T2 : slot = h + i * P
    <3>1. slot - h \in Nat \ {0} /\ slot - h <= now + T2
      BY <1>2, <2>1, <2>3
    <3>2. PICK i \in 1 .. slot - h : slot - h = i * P
      BY <2>3, <3>1, Divides
    <3>3. i \in 1 .. now + T2 /\ i * P \in Nat
      BY <1>2, <3>1
    <3>4. slot = h + i * P
      BY <2>1, <3>2, <3>3
    <3> QED BY <3>3, <3>4
  <2> QED BY <2>2, <2>3
<1>6. Deaf = {slot \in now + T1 .. now + T2 :
                \E h \in H, period \in ReservePeriods \ {0} :
                  \E i \in 1 .. now + T2 : slot = h + i * PeriodInSlots(period)}
  BY DEF Deaf
<1>7. SlotsToExclude = {slot \in now + T1 .. now + T2 :
                          \E h \in H, period \in ReservePeriods \ {0} :
                            slot > h /\ ((slot - h) % PeriodInSlots(period)) = 0}
  BY <1>1 DEF SlotsToExclude
<1> HIDE DEF H
<1>8. ASSUME NEW slot \in Deaf PROVE slot \in SlotsToExclude
  <2>1. slot \in now + T1 .. now + T2
    BY <1>6
  <2>2. PICK h \in H, period \in ReservePeriods \ {0} :
          \E i \in 1 .. now + T2 : slot = h + i * PeriodInSlots(period)
    BY <1>6
  <2> DEFINE P == PeriodInSlots(period)
  <2>3. P \in Nat \ {0}
    BY <1>4
  <2>4. slot > h /\ ((slot - h) % P) = 0
    <3> HIDE DEF P
    <3>1. \E i \in 1 .. now + T2 : slot = h + i * P
      BY <2>2 DEF P
    <3> QED BY <1>5, <2>1, <2>3, <3>1
  <2> QED BY <1>7, <2>1, <2>4
<1>9. ASSUME NEW slot \in SlotsToExclude PROVE slot \in Deaf
  <2>1. slot \in now + T1 .. now + T2
    BY <1>7
  <2>2. PICK h \in H, period \in ReservePeriods \ {0} :
          slot > h /\ ((slot - h) % PeriodInSlots(period)) = 0
    BY <1>7
  <2> DEFINE P == PeriodInSlots(period)
  <2>3. P \in Nat \ {0}
    BY <1>4
  <2>4. \E i \in 1 .. now + T2 : slot = h + i * P
    <3> HIDE DEF P
    <3>1. slot > h /\ ((slot - h) % P) = 0
      BY <2>2 DEF P
    <3> QED BY <1>5, <2>1, <2>3, <3>1
  <2> QED BY <1>6, <2>1, <2>4
<1> QED BY <1>8, <1>9

\* A list has at least as many elements as there are different ones in it.
LEMMA DifferentElements ==
  ASSUME NEW S, NEW s \in Seq(S), NEW A, A \subseteq ToSet(s)
  PROVE  Cardinality(A) \in Nat /\ Cardinality(A) <= Len(s)
<1> DEFINE n == Len(s)
<1>1. ToSet(s) = {s[i] : i \in 1 .. n} /\ n \in Nat
  BY RangeIs
<1>2. IsFiniteSet(1 .. n) /\ Cardinality(1 .. n) = n
  <2>1. /\ IsFiniteSet(1 .. n)
        /\ Cardinality(1 .. n) = IF 1 > n THEN 0 ELSE n - 1 + 1
    <3> HIDE DEF n
    <3> QED BY <1>1, FS_Interval
  <2> QED BY <1>1, <2>1
<1>3. [i \in 1 .. n |-> s[i]] \in Surjection(1 .. n, ToSet(s))
  BY <1>1 DEF Surjection
<1> HIDE DEF n
<1>4. IsFiniteSet(ToSet(s)) /\ Cardinality(ToSet(s)) <= n
  BY <1>2, <1>3, FS_Surjection
<1>5. IsFiniteSet(A) /\ Cardinality(A) <= Cardinality(ToSet(s))
  BY <1>4, FS_Subset
<1>6. Cardinality(A) \in Nat /\ Cardinality(ToSet(s)) \in Nat
  BY <1>4, <1>5, FS_CardinalityType
<1> QED BY <1>1, <1>4, <1>5, <1>6 DEF n

\* If enough candidates lie in other slots, the exclusion is not undone.
LEMMA DeafAvoided ==
  ASSUME TypeInv
  PROVE  DeafSlotsAvoided
<1> DEFINE hearing(p) == {c \in ToSet(Candidates(p)) : c.slot \notin Deaf}
<1> SUFFICES ASSUME NEW p \in Params,
                    100 * Cardinality(hearing(p)) >= Percentage * Len(Candidates(p)),
                    NEW c \in ToSet(CandidateResources(p).list), c.slot \in Deaf
             PROVE  FALSE
  BY Zenon DEF DeafSlotsAvoided, Deaf
<1>1. ~(sensingData = <<>> /\ transmitHistory = <<>>)
  BY DEF Deaf, ToSet
<1>2. c \in ToSet(AfterHistory(p))
  BY <1>1, SelectedFacts
<1> DEFINE C == ToSet(Candidates(p))
           A == {x \in C : x.slot \notin SlotsToExclude}
           rest == Filter(Candidates(p), A)
<1>3. Candidates(p) \in Seq(C) /\ Len(Candidates(p)) \in Nat
  BY CandidatesFacts
<1>4. rest \in Seq(C) /\ Keeps(rest, Candidates(p), A)
  <2> HIDE DEF A, C
  <2> QED BY <1>3, FilterElements
<1>5. Deaf = SlotsToExclude
  BY DeafIsExcluded
<1>6. hearing(p) = A
  BY <1>5
<1>7. A \subseteq ToSet(rest)
  <2>1. \A x \in A : \E i \in DOMAIN Candidates(p) : Candidates(p)[i] = x
    BY DEF ToSet
  <2> HIDE DEF A, rest
  <2> QED BY <1>4, <2>1 DEF Keeps, ToSet
<1>8. Cardinality(A) \in Nat /\ Cardinality(A) <= Len(rest) /\ Len(rest) \in Nat
  <2> HIDE DEF A, rest, C
  <2> QED BY <1>4, <1>7, DifferentElements
<1>9. IsEnough(Len(rest), p)
  <2>1. Percentage \in Nat /\ Percentage * Len(Candidates(p)) \in Nat
    BY <1>3, SensingAssumption
  <2>2. 100 * Cardinality(A) >= Percentage * Len(Candidates(p))
    BY <1>6
  <2> HIDE DEF A, rest
  <2> QED BY <1>8, <2>1, <2>2 DEF IsEnough
<1>10. AfterHistory(p) = rest
  BY <1>9 DEF AfterHistory
<1>11. c \in A
  <2> HIDE DEF A, rest
  <2> QED BY <1>2, <1>4, <1>10 DEF Keeps, ToSet
<1> QED BY <1>5, <1>11

\* A slot that a UE unheard during a transmission may have reserved is offered
\* only if leaving all such slots out would leave too few resources.
THEOREM SensingDeafSlotsAvoided == Spec => []DeafSlotsAvoided
<1>1. SensingInv => DeafSlotsAvoided
  BY DeafAvoided DEF SensingInv
<1> QED BY <1>1, SensingInvariant, PTL
=============================================================================
