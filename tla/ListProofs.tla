------------------------------- MODULE ListProofs -------------------------------
(***************************************************************************)
(* Facts about lists, recursion and counting that the proofs of several    *)
(* components need.  Induction is over the members of a set, and a         *)
(* recursion is given by a function, so that both can be cited.            *)
(***************************************************************************)
EXTENDS Lists, WellFoundedInduction, FiniteSetTheorems, TLAPS

\* Less-than on the natural numbers, as a set of pairs.
Below == {ss \in Nat \X Nat : ss[1] < ss[2]}

\* A set of numbers that has one has a least one.
LEMMA LeastOf ==
  ASSUME NEW S \in SUBSET Nat, S # {}
  PROVE  \E m \in S : \A n \in S : m <= n
<1>1. IsWellFoundedOn(Below, Nat)
  <2>1. IsWellFoundedOn(OpToRel(<, Nat), Nat)
    BY NatLessThanWellFounded
  <2> QED BY <2>1, Zenon DEF OpToRel, Below
<1>2. PICK m \in S : \A n \in S : <<n, m>> \notin Below
  BY <1>1, WFMin
<1>3. \A n \in S : ~(n < m)
  BY <1>2 DEF Below
<1> QED BY <1>3

\* Induction up to n: a set that has 0, and with each number below n the next.
LEMMA InductionUpTo ==
  ASSUME NEW n \in Nat, NEW G, 0 \in G,
         \A i \in 0 .. n - 1 : i \in G => i + 1 \in G
  PROVE  \A i \in 0 .. n : i \in G
<1> SUFFICES ASSUME NEW j \in 0 .. n, j \notin G
             PROVE  FALSE
  OBVIOUS
<1> DEFINE Bad == {i \in 0 .. n : i \notin G}
<1>1. Bad \in SUBSET Nat /\ Bad # {}
  OBVIOUS
<1>2. PICK m \in Bad : \A i \in Bad : m <= i
  BY <1>1, LeastOf
<1>3. m \in Nat /\ m # 0 /\ m <= n
  OBVIOUS
<1>4. m - 1 \in 0 .. n - 1 /\ m - 1 \notin Bad
  BY <1>2, <1>3
<1>5. m - 1 \in G
  BY <1>4, <1>3
<1> QED BY <1>3, <1>4, <1>5

\* A recursion along 0 .. n has a result.
Follows(f, n, first, step) ==
  /\ f[0] = first
  /\ \A i \in 1 .. n : f[i] = step[<<f[i - 1], i>>]

LEMMA FiniteRecursion ==
  ASSUME NEW n \in Nat, NEW X, NEW first \in X,
         NEW step \in [X \X (1 .. n) -> X]
  PROVE  \E f \in [0 .. n -> X] : Follows(f, n, first, step)
<1> DEFINE Goes(f, k) == /\ f[0] = first
                         /\ \A i \in 1 .. k : f[i] = step[<<f[i - 1], i>>]
           G == {k \in 0 .. n : \E f \in [0 .. k -> X] : Goes(f, k)}
<1>1. 0 \in G
  <2> DEFINE f == [i \in 0 .. 0 |-> first]
  <2>1. f \in [0 .. 0 -> X] /\ f[0] = first
    OBVIOUS
  <2>2. Goes(f, 0)
    BY <2>1
  <2> HIDE DEF f, Goes
  <2> QED BY <2>1, <2>2
<1>2. ASSUME NEW k \in 0 .. n - 1, k \in G
      PROVE  k + 1 \in G
  <2>1. PICK f \in [0 .. k -> X] : Goes(f, k)
    BY <1>2
  <2> DEFINE g == [i \in 0 .. k + 1 |-> IF i = k + 1 THEN step[<<f[k], k + 1>>] ELSE f[i]]
  <2>2. f[k] \in X /\ k + 1 \in 1 .. n
    OBVIOUS
  <2>3. step[<<f[k], k + 1>>] \in X
    BY <2>2
  <2>4. g \in [0 .. k + 1 -> X]
    BY <2>3
  <2>5. g[k + 1] = step[<<g[k], k + 1>>]
    <3>1. g[k + 1] = step[<<f[k], k + 1>>]
      OBVIOUS
    <3>2. g[k] = f[k]
      OBVIOUS
    <3> QED BY <3>1, <3>2
  <2>6. \A i \in 0 .. k : g[i] = f[i]
    OBVIOUS
  <2>7. Goes(g, k + 1)
    <3> HIDE DEF g
    <3>1. g[0] = first
      BY <2>1, <2>6
    <3>2. ASSUME NEW i \in 1 .. k + 1
          PROVE  g[i] = step[<<g[i - 1], i>>]
      <4>1. CASE i = k + 1
        BY <4>1, <2>5
      <4>2. CASE i # k + 1
        <5>1. i \in 1 .. k /\ i \in 0 .. k /\ i - 1 \in 0 .. k
          BY <4>2
        <5>2. f[i] = step[<<f[i - 1], i>>]
          BY <5>1, <2>1
        <5> QED BY <5>1, <5>2, <2>6
      <4> QED BY <4>1, <4>2
    <3> QED BY <3>1, <3>2
  <2>8. k + 1 \in 0 .. n
    OBVIOUS
  <2> QED BY <2>4, <2>7, <2>8
<1> HIDE DEF G
<1>3. \A i \in 0 .. n : i \in G
  BY <1>1, <1>2, InductionUpTo
<1>4. n \in G
  BY <1>3
<1> QED BY <1>4 DEF G, Follows

\* A recursion whose steps are known to be good only from good values.
Guarded(f, n, first, step, good) ==
  Follows(f, n, first, step) /\ \A i \in 0 .. n : f[i] \in good[i]

LEMMA GuardedRecursion ==
  ASSUME NEW n \in Nat, NEW X, NEW good \in [0 .. n -> SUBSET X],
         NEW first \in good[0], NEW step,
         \A i \in 1 .. n : \A x \in good[i - 1] : step[<<x, i>>] \in good[i]
  PROVE  \E f \in [0 .. n -> X] : Guarded(f, n, first, step, good)
<1> DEFINE Goes(f, k) == /\ f[0] = first
                         /\ \A i \in 1 .. k : f[i] = step[<<f[i - 1], i>>]
                         /\ \A i \in 0 .. k : f[i] \in good[i]
           G == {k \in 0 .. n : \E f \in [0 .. k -> X] : Goes(f, k)}
<1>0. \A i \in 0 .. n : \A x \in good[i] : x \in X
  OBVIOUS
<1>1. 0 \in G
  <2> DEFINE f == [i \in 0 .. 0 |-> first]
  <2>1. f \in [0 .. 0 -> X] /\ f[0] = first
    BY <1>0
  <2>2. Goes(f, 0)
    BY <2>1
  <2> HIDE DEF f, Goes
  <2> QED BY <2>1, <2>2
<1>2. ASSUME NEW k \in 0 .. n - 1, k \in G
      PROVE  k + 1 \in G
  <2>1. PICK f \in [0 .. k -> X] : Goes(f, k)
    BY <1>2
  <2> DEFINE g == [i \in 0 .. k + 1 |-> IF i = k + 1 THEN step[<<f[k], k + 1>>] ELSE f[i]]
  <2>2. k + 1 \in 1 .. n /\ k + 1 \in 0 .. n /\ (k + 1) - 1 = k /\ k \in 0 .. k
    OBVIOUS
  <2>3. step[<<f[k], k + 1>>] \in good[k + 1]
    <3>1. f[k] \in good[k]
      BY <2>1, <2>2
    <3> QED BY <3>1, <2>2
  <2>4. g \in [0 .. k + 1 -> X]
    <3>1. step[<<f[k], k + 1>>] \in X
      BY <2>2, <2>3, <1>0
    <3> QED BY <3>1
  <2>5. g[k + 1] = step[<<g[k], k + 1>>] /\ g[k + 1] \in good[k + 1]
    <3>1. g[k + 1] = step[<<f[k], k + 1>>]
      OBVIOUS
    <3>2. g[k] = f[k]
      OBVIOUS
    <3> QED BY <2>3, <3>1, <3>2
  <2>6. \A i \in 0 .. k : g[i] = f[i]
    OBVIOUS
  <2>7. Goes(g, k + 1)
    <3> HIDE DEF g
    <3>1. g[0] = first
      BY <2>1, <2>6
    <3>2. ASSUME NEW i \in 1 .. k + 1
          PROVE  g[i] = step[<<g[i - 1], i>>]
      <4>1. CASE i = k + 1
        BY <4>1, <2>2, <2>5
      <4>2. CASE i # k + 1
        <5>1. i \in 1 .. k /\ i \in 0 .. k /\ i - 1 \in 0 .. k
          BY <4>2
        <5>2. f[i] = step[<<f[i - 1], i>>]
          BY <5>1, <2>1
        <5> QED BY <5>1, <5>2, <2>6
      <4> QED BY <4>1, <4>2
    <3>3. ASSUME NEW i \in 0 .. k + 1
          PROVE  g[i] \in good[i]
      <4>1. CASE i = k + 1
        BY <4>1, <2>5
      <4>2. CASE i # k + 1
        <5>1. i \in 0 .. k
          BY <4>2
        <5> QED BY <5>1, <2>1, <2>6
      <4> QED BY <4>1, <4>2
    <3> QED BY <3>1, <3>2, <3>3
  <2> HIDE DEF g, Goes
  <2> QED BY <2>2, <2>4, <2>7
<1> HIDE DEF G
<1>3. \A i \in 0 .. n : i \in G
  BY <1>1, <1>2, InductionUpTo
<1>4. n \in G
  BY <1>3
<1> QED BY <1>4 DEF G, Guarded, Follows

-----------------------------------------------------------------------------
\* Filter is well defined: this is what its recursion computes.
KeptSoFar(f, s, A) ==
  /\ f[0] = <<>>
  /\ \A i \in 1 .. Len(s) :
       f[i] = IF s[i] \in A THEN Append(f[i - 1], s[i]) ELSE f[i - 1]

LEMMA FilterDef ==
  ASSUME NEW S, NEW s \in Seq(S), NEW A
  PROVE  \E f \in [0 .. Len(s) -> Seq(S)] :
           KeptSoFar(f, s, A) /\ Filter(s, A) = f[Len(s)]
<1> DEFINE n == Len(s)
           X == Seq(S)
           step == [p \in X \X (1 .. n) |->
                      IF s[p[2]] \in A THEN Append(p[1], s[p[2]]) ELSE p[1]]
           Rec(f) == f = [i \in 0 .. Len(s) |->
                            IF i = 0 THEN <<>>
                            ELSE IF s[i] \in A THEN Append(f[i - 1], s[i])
                            ELSE f[i - 1]]
<1>1. n \in Nat /\ <<>> \in X
  OBVIOUS
<1>2. step \in [X \X (1 .. n) -> X]
  <2>1. ASSUME NEW p \in X \X (1 .. n)
        PROVE  (IF s[p[2]] \in A THEN Append(p[1], s[p[2]]) ELSE p[1]) \in X
    <3>1. p[1] \in Seq(S) /\ p[2] \in 1 .. n
      OBVIOUS
    <3>2. s[p[2]] \in S
      BY <3>1
    <3>3. Append(p[1], s[p[2]]) \in Seq(S)
      BY <3>1, <3>2
    <3> QED BY <3>1, <3>3
  <2> QED BY <2>1
<1>3. \A x \in X, i \in 1 .. n :
        step[<<x, i>>] = IF s[i] \in A THEN Append(x, s[i]) ELSE x
  OBVIOUS
<1> HIDE DEF n, step, X
<1>4. PICK f \in [0 .. n -> X] : Follows(f, n, <<>>, step)
  BY <1>1, <1>2, FiniteRecursion
<1>5. \A i \in 1 .. n : f[i] = IF s[i] \in A THEN Append(f[i - 1], s[i]) ELSE f[i - 1]
  <2>1. ASSUME NEW i \in 1 .. n
        PROVE  f[i] = IF s[i] \in A THEN Append(f[i - 1], s[i]) ELSE f[i - 1]
    <3>1. i - 1 \in 0 .. n
      BY <1>1
    <3>2. f[i - 1] \in X
      BY <3>1
    <3>3. f[i] = step[<<f[i - 1], i>>]
      BY <1>4 DEF Follows
    <3> QED BY <3>2, <3>3, <1>3
  <2> QED BY <2>1
<1>6. Rec(f)
  <2>1. f = [i \in 0 .. n |-> f[i]]
    OBVIOUS
  <2>2. \A i \in 0 .. n : f[i] = IF i = 0 THEN <<>>
                                 ELSE IF s[i] \in A THEN Append(f[i - 1], s[i])
                                 ELSE f[i - 1]
    <3>1. ASSUME NEW i \in 0 .. n
          PROVE  f[i] = IF i = 0 THEN <<>>
                        ELSE IF s[i] \in A THEN Append(f[i - 1], s[i])
                        ELSE f[i - 1]
      <4>1. CASE i = 0
        BY <4>1, <1>4 DEF Follows
      <4>2. CASE i # 0
        <5>1. i \in 1 .. n
          BY <4>2, <1>1
        <5> QED BY <5>1, <4>2, <1>5, Zenon
      <4> QED BY <4>1, <4>2
    <3> QED BY <3>1
  <2> QED BY <2>1, <2>2 DEF n
<1> DEFINE h == CHOOSE g : Rec(g)
<1>7. Rec(h)
  BY <1>6
<1>8. Filter(s, A) = h[Len(s)]
  BY DEF Filter
<1> HIDE DEF h
<1>9. h[0] = <<>> /\ \A i \in 1 .. n : h[i] = IF s[i] \in A THEN Append(h[i - 1], s[i])
                                              ELSE h[i - 1]
  <2>1. /\ n \in Nat /\ n = Len(s)
        /\ h = [i \in 0 .. Len(s) |-> IF i = 0 THEN <<>>
                                     ELSE IF s[i] \in A THEN Append(h[i - 1], s[i])
                                     ELSE h[i - 1]]
    BY <1>1, <1>7 DEF n
  <2>2. \A i \in 0 .. n : h[i] = IF i = 0 THEN <<>>
                                  ELSE IF s[i] \in A THEN Append(h[i - 1], s[i])
                                  ELSE h[i - 1]
    BY <2>1, Zenon
  <2>3. 0 \in 0 .. n /\ \A i \in 1 .. n : i \in 0 .. n /\ i # 0
    BY <2>1
  <2>4. h[0] = <<>>
    BY <2>2, <2>3, Zenon
  <2>5. ASSUME NEW i \in 1 .. n
        PROVE  h[i] = IF s[i] \in A THEN Append(h[i - 1], s[i]) ELSE h[i - 1]
    BY <2>2, <2>3, Zenon
  <2> QED BY <2>4, <2>5
<1>10. \A i \in 0 .. n : h[i] = f[i]
  <2> DEFINE G == {i \in 0 .. n : h[i] = f[i]}
  <2>1. 0 \in G
    BY <1>1, <1>4, <1>9 DEF Follows
  <2>2. ASSUME NEW i \in 0 .. n - 1, i \in G
        PROVE  i + 1 \in G
    <3>1. i + 1 \in 1 .. n /\ (i + 1) - 1 = i
      BY <1>1
    <3>2. h[i + 1] = IF s[i + 1] \in A THEN Append(h[i], s[i + 1]) ELSE h[i]
      BY <1>9, <3>1
    <3>3. f[i + 1] = IF s[i + 1] \in A THEN Append(f[i], s[i + 1]) ELSE f[i]
      BY <1>5, <3>1
    <3> QED BY <3>1, <3>2, <3>3, <2>2
  <2> HIDE DEF G
  <2>3. \A i \in 0 .. n : i \in G
    BY <1>1, <2>1, <2>2, InductionUpTo
  <2> QED BY <2>3 DEF G
<1>11. Filter(s, A) = f[n]
  BY <1>1, <1>8, <1>10 DEF n
<1>12. f \in [0 .. Len(s) -> Seq(S)] /\ Filter(s, A) = f[Len(s)]
  BY <1>4, <1>11 DEF X, n
<1>13. KeptSoFar(f, s, A)
  BY <1>4, <1>5 DEF n, Follows, KeptSoFar
<1> QED BY <1>12, <1>13

\* Position k of the result comes from position g[k] of the list: the
\* positions in between are in order and are exactly those to be kept.
Positions(s, A, r, g) ==
  /\ Len(r) \in Nat /\ DOMAIN r = 1 .. Len(r)
  /\ g \in [1 .. Len(r) -> 1 .. Len(s)]
  /\ \A k \in 1 .. Len(r) : r[k] = s[g[k]] /\ r[k] \in A
  /\ \A k, l \in 1 .. Len(r) : k < l => g[k] < g[l]

LEMMA FilterFacts ==
  ASSUME NEW S, NEW s \in Seq(S), NEW A
  PROVE  /\ Filter(s, A) \in Seq(S)
         /\ \E g : /\ Positions(s, A, Filter(s, A), g)
                   /\ \A i \in 1 .. Len(s) : s[i] \in A =>
                        \E k \in 1 .. Len(Filter(s, A)) : g[k] = i
<1> DEFINE n == Len(s)
<1>0. n \in Nat
  OBVIOUS
<1>1. PICK f \in [0 .. n -> Seq(S)] : KeptSoFar(f, s, A) /\ Filter(s, A) = f[n]
  BY FilterDef
<1>1a. /\ f[0] = <<>>
       /\ \A i \in 1 .. n :
            f[i] = IF s[i] \in A THEN Append(f[i - 1], s[i]) ELSE f[i - 1]
  BY <1>1 DEF KeptSoFar
<1> DEFINE Upto(i, g) == /\ Positions(s, A, f[i], g)
                         /\ \A k \in 1 .. Len(f[i]) : g[k] <= i
                         /\ \A j \in 1 .. i : s[j] \in A =>
                              \E k \in 1 .. Len(f[i]) : g[k] = j
           G == {i \in 0 .. n : \E g : Upto(i, g)}
<1>2. 0 \in G
  <2> DEFINE g == [k \in 1 .. 0 |-> k]
  <2>1. Len(f[0]) = 0 /\ DOMAIN f[0] = 1 .. 0
    BY <1>1a
  <2>2. Upto(0, g)
    BY <2>1 DEF Positions
  <2> HIDE DEF Upto, g
  <2> QED BY <2>2, <1>0
<1>3. ASSUME NEW i \in 0 .. n - 1, i \in G
      PROVE  i + 1 \in G
  <2>1. PICK g : Upto(i, g)
    BY <1>3
  <2>2. i \in Nat /\ i + 1 \in 1 .. n /\ (i + 1) - 1 = i /\ i \in 0 .. n /\ i + 1 \in 0 .. n
    BY <1>0
  <2>3. f[i] \in Seq(S) /\ s[i + 1] \in S
    BY <2>2
  <2>4. f[i + 1] = IF s[i + 1] \in A THEN Append(f[i], s[i + 1]) ELSE f[i]
    BY <1>1a, <2>2
  <2>5. CASE s[i + 1] \notin A
    <3>1. f[i + 1] = f[i]
      BY <2>4, <2>5
    <3>2. \A j \in 1 .. i + 1 : j \in 1 .. i \/ j = i + 1
      BY <2>2
    <3>3. Len(f[i]) \in Nat
      BY <2>3
    <3>3a. g \in [1 .. Len(f[i]) -> 1 .. n]
      BY <2>1 DEF Positions
    <3>3b. \A k \in 1 .. Len(f[i]) : g[k] <= i + 1
      <4>1. ASSUME NEW k \in 1 .. Len(f[i])
            PROVE  g[k] <= i + 1
        <5>1. g[k] \in 1 .. n /\ g[k] <= i
          BY <3>3a, <2>1
        <5> QED BY <5>1, <2>2, <1>0
      <4> QED BY <4>1
    <3>4. Upto(i + 1, g)
      BY <2>1, <2>2, <2>5, <3>1, <3>2, <3>3b
    <3> HIDE DEF Upto
    <3> QED BY <2>2, <3>4
  <2>6. CASE s[i + 1] \in A
    <3> DEFINE m == Len(f[i])
               g2 == [k \in 1 .. m + 1 |-> IF k = m + 1 THEN i + 1 ELSE g[k]]
    <3>1. m \in Nat /\ f[i + 1] = Append(f[i], s[i + 1])
      BY <2>3, <2>4, <2>6
    <3>2. /\ Len(f[i + 1]) = m + 1
          /\ DOMAIN f[i + 1] = 1 .. m + 1
          /\ f[i + 1][m + 1] = s[i + 1]
          /\ \A k \in 1 .. m : f[i + 1][k] = f[i][k]
      BY <2>3, <3>1
    <3>3. g \in [1 .. m -> 1 .. n] /\ \A k \in 1 .. m : g[k] <= i
      BY <2>1 DEF Positions
    <3>4. g2 \in [1 .. m + 1 -> 1 .. n]
      BY <2>2, <3>1, <3>3
    <3>5. g2[m + 1] = i + 1 /\ \A k \in 1 .. m : g2[k] = g[k]
      BY <3>1
    <3> HIDE DEF g2
    <3>6. \A k \in 1 .. m + 1 : k \in 1 .. m \/ k = m + 1
      BY <3>1
    <3>7. \A k \in 1 .. m + 1 : f[i + 1][k] = s[g2[k]] /\ f[i + 1][k] \in A
      BY <2>1, <2>6, <3>2, <3>5, <3>6 DEF Positions
    <3>8. ASSUME NEW k \in 1 .. m + 1, NEW l \in 1 .. m + 1, k < l
          PROVE  g2[k] < g2[l]
      <4>1. k \in 1 .. m
        BY <3>1, <3>8
      <4>2. g[k] \in 1 .. n /\ g[k] <= i /\ g2[k] = g[k]
        BY <3>3, <3>5, <4>1
      <4>3. CASE l = m + 1
        BY <4>2, <4>3, <3>5, <2>2
      <4>4. CASE l # m + 1
        BY <2>1, <3>5, <3>6, <3>8, <4>1, <4>4 DEF Positions
      <4> QED BY <4>3, <4>4
    <3>9. \A k \in 1 .. m + 1 : g2[k] <= i + 1
      <4>1. ASSUME NEW k \in 1 .. m + 1
            PROVE  g2[k] <= i + 1
        <5>1. CASE k = m + 1
          BY <5>1, <3>5, <2>2
        <5>2. CASE k # m + 1
          <6>1. k \in 1 .. m
            BY <5>2, <3>6
          <6>2. g[k] \in 1 .. n /\ g[k] <= i /\ g2[k] = g[k]
            BY <6>1, <3>3, <3>5
          <6> QED BY <6>2, <2>2, <1>0
        <5> QED BY <5>1, <5>2
      <4> QED BY <4>1
    <3>10. ASSUME NEW j \in 1 .. i + 1, s[j] \in A
           PROVE  \E k \in 1 .. m + 1 : g2[k] = j
      <4>1. CASE j = i + 1
        BY <4>1, <3>1, <3>5
      <4>2. CASE j # i + 1
        <5>1. j \in 1 .. i
          BY <4>2, <2>2
        <5>2. PICK k \in 1 .. m : g[k] = j
          BY <5>1, <2>1, <3>10
        <5>3. k \in 1 .. m + 1
          BY <3>1
        <5> QED BY <5>2, <5>3, <3>5
      <4> QED BY <4>1, <4>2
    <3>11. Positions(s, A, f[i + 1], g2)
      BY <3>1, <3>2, <3>4, <3>7, <3>8 DEF Positions
    <3>12. Upto(i + 1, g2)
      BY <3>2, <3>9, <3>10, <3>11
    <3> HIDE DEF Upto
    <3> QED BY <2>2, <3>12
  <2> QED BY <2>5, <2>6
<1> HIDE DEF G
<1>4. n \in G
  <2>1. \A i \in 0 .. n : i \in G
    BY <1>0, <1>2, <1>3, InductionUpTo
  <2> QED BY <2>1, <1>0
<1>5. PICK g : Upto(n, g)
  BY <1>4 DEF G
<1>6. f[n] \in Seq(S)
  BY <1>0
<1> QED BY <1>1, <1>5, <1>6

\* The elements of r are exactly those of the list s that are in A.
Keeps(r, s, A) ==
  /\ \A k \in DOMAIN r : r[k] \in A /\ \E i \in DOMAIN s : s[i] = r[k]
  /\ \A i \in DOMAIN s : s[i] \in A => \E k \in DOMAIN r : r[k] = s[i]

LEMMA FilterElements ==
  ASSUME NEW S, NEW s \in Seq(S), NEW A
  PROVE  Filter(s, A) \in Seq(S) /\ Keeps(Filter(s, A), s, A)
<1> DEFINE r == Filter(s, A)
<1>1. PICK g : /\ Positions(s, A, r, g)
               /\ \A i \in 1 .. Len(s) : s[i] \in A => \E k \in 1 .. Len(r) : g[k] = i
  BY FilterFacts
<1>2. r \in Seq(S)
  BY FilterFacts
<1>3. DOMAIN s = 1 .. Len(s) /\ DOMAIN r = 1 .. Len(r)
  BY <1>2
<1> HIDE DEF r
<1>4. \A k \in 1 .. Len(r) : r[k] \in A /\ g[k] \in 1 .. Len(s) /\ s[g[k]] = r[k]
  BY <1>1 DEF Positions
<1>5. \A k \in DOMAIN r : r[k] \in A /\ \E i \in DOMAIN s : s[i] = r[k]
  BY <1>3, <1>4
<1>6. ASSUME NEW i \in DOMAIN s, s[i] \in A
      PROVE  \E k \in DOMAIN r : r[k] = s[i]
  <2>1. PICK k \in 1 .. Len(r) : g[k] = i
    BY <1>1, <1>3, <1>6
  <2> QED BY <2>1, <1>3, <1>4
<1> QED BY <1>2, <1>5, <1>6 DEF r, Keeps

\* Elements told apart by a key stay so.
LEMMA FilterDistinct ==
  ASSUME NEW S, NEW s \in Seq(S), NEW A, NEW key,
         \A i, j \in DOMAIN s : key[s[i]] = key[s[j]] => i = j
  PROVE  \A k, l \in DOMAIN Filter(s, A) :
           key[Filter(s, A)[k]] = key[Filter(s, A)[l]] => k = l
<1> DEFINE r == Filter(s, A)
<1>1. PICK g : Positions(s, A, r, g)
  BY FilterFacts
<1>2. r \in Seq(S)
  BY FilterFacts
<1>3. DOMAIN s = 1 .. Len(s) /\ DOMAIN r = 1 .. Len(r) /\ Len(r) \in Nat /\ Len(s) \in Nat
  BY <1>2
<1> HIDE DEF r
<1>4. ASSUME NEW k \in DOMAIN r, NEW l \in DOMAIN r, key[r[k]] = key[r[l]]
      PROVE  k = l
  <2>1. g[k] \in DOMAIN s /\ g[l] \in DOMAIN s /\ r[k] = s[g[k]] /\ r[l] = s[g[l]]
    BY <1>1, <1>3 DEF Positions
  <2>2. g[k] = g[l]
    BY <2>1, <1>4
  <2>3. k \in 1 .. Len(r) /\ l \in 1 .. Len(r) /\ g[k] \in Int
    BY <1>3, <2>1
  <2>4. ~(k < l) /\ ~(l < k)
    BY <1>1, <2>2, <2>3 DEF Positions
  <2> QED BY <2>3, <2>4
<1> QED BY <1>4 DEF r

-----------------------------------------------------------------------------
\* PartialSums is well defined: this is what its recursion computes.
AddsUp(f, s) == f[0] = 0 /\ \A i \in 1 .. Len(s) : f[i] = f[i - 1] + s[i]

LEMMA PartialSumsDef ==
  ASSUME NEW s \in Seq(Nat)
  PROVE  PartialSums(s) \in [0 .. Len(s) -> Nat] /\ AddsUp(PartialSums(s), s)
<1> DEFINE n == Len(s)
           step == [p \in Nat \X (1 .. n) |-> p[1] + s[p[2]]]
           Rec(f) == f = [i \in 0 .. Len(s) |-> IF i = 0 THEN 0 ELSE f[i - 1] + s[i]]
<1>1. n \in Nat /\ \A i \in 1 .. n : s[i] \in Nat
  OBVIOUS
<1>2. step \in [Nat \X (1 .. n) -> Nat]
  <2>1. ASSUME NEW p \in Nat \X (1 .. n)
        PROVE  p[1] + s[p[2]] \in Nat
    <3>1. p[1] \in Nat /\ p[2] \in 1 .. n
      OBVIOUS
    <3> QED BY <3>1, <1>1
  <2> QED BY <2>1
<1>3. \A x \in Nat, i \in 1 .. n : step[<<x, i>>] = x + s[i]
  OBVIOUS
<1> HIDE DEF n, step
<1>4. PICK f \in [0 .. n -> Nat] : Follows(f, n, 0, step)
  BY <1>1, <1>2, FiniteRecursion
<1>5. \A i \in 1 .. n : f[i] = f[i - 1] + s[i]
  <2>1. ASSUME NEW i \in 1 .. n
        PROVE  f[i] = f[i - 1] + s[i]
    <3>1. i - 1 \in 0 .. n
      BY <1>1
    <3>2. f[i - 1] \in Nat
      BY <3>1
    <3>3. f[i] = step[<<f[i - 1], i>>]
      BY <1>4 DEF Follows
    <3> QED BY <3>2, <3>3, <1>3
  <2> QED BY <2>1
<1>6. Rec(f)
  <2>1. f = [i \in 0 .. n |-> f[i]]
    OBVIOUS
  <2>2. ASSUME NEW i \in 0 .. n
        PROVE  f[i] = IF i = 0 THEN 0 ELSE f[i - 1] + s[i]
    <3>1. CASE i = 0
      BY <3>1, <1>4 DEF Follows
    <3>2. CASE i # 0
      <4>1. i \in 1 .. n
        BY <3>2, <1>1
      <4> QED BY <4>1, <3>2, <1>5
    <3> QED BY <3>1, <3>2
  <2> QED BY <2>1, <2>2 DEF n
<1> DEFINE h == CHOOSE g : Rec(g)
<1>7. Rec(h)
  BY <1>6
<1>8. PartialSums(s) = h
  BY DEF PartialSums
<1> HIDE DEF h
<1>9. /\ n = Len(s)
      /\ h = [i \in 0 .. n |-> IF i = 0 THEN 0 ELSE h[i - 1] + s[i]]
  BY <1>7 DEF n
<1>10. \A i \in 0 .. n : h[i] = IF i = 0 THEN 0 ELSE h[i - 1] + s[i]
  BY <1>9, Zenon
<1>11. h[0] = 0 /\ \A i \in 1 .. n : h[i] = h[i - 1] + s[i]
  <2>1. 0 \in 0 .. n /\ \A i \in 1 .. n : i \in 0 .. n /\ i # 0
    BY <1>1
  <2> QED BY <2>1, <1>10, Zenon
<1> DEFINE G == {i \in 0 .. n : h[i] \in Nat}
<1>12. 0 \in G
  BY <1>1, <1>11
<1>13. ASSUME NEW i \in 0 .. n - 1, i \in G
       PROVE  i + 1 \in G
  <2>1. i + 1 \in 1 .. n /\ (i + 1) - 1 = i
    BY <1>1
  <2>2. h[i + 1] = h[i] + s[i + 1]
    BY <2>1, <1>11
  <2> QED BY SMTT(40), <2>1, <2>2, <1>1, <1>13
<1> HIDE DEF G
<1>14. \A i \in 0 .. n : i \in G
  BY <1>1, <1>12, <1>13, InductionUpTo
<1>15. h \in [0 .. n -> Nat]
  <2>1. \A i \in 0 .. n : h[i] \in Nat
    BY <1>14 DEF G
  <2>2. DOMAIN h = 0 .. n /\ h = [i \in 0 .. n |-> h[i]]
    BY <1>9, Zenon
  <2> QED BY <2>1, <2>2
<1> QED BY <1>8, <1>9, <1>11, <1>15 DEF AddsUp

\* A position never goes back, and each element fits before the next.
LEMMA PartialSumsGrow ==
  ASSUME NEW s \in Seq(Nat), NEW k \in 1 .. Len(s), NEW l \in 0 .. Len(s), k <= l
  PROVE  PartialSums(s)[k - 1] + s[k] <= PartialSums(s)[l]
<1> DEFINE n == Len(s)
           f == PartialSums(s)
<1>1. n \in Nat /\ \A i \in 1 .. n : s[i] \in Nat
  OBVIOUS
<1>2. f \in [0 .. n -> Nat] /\ f[0] = 0 /\ \A i \in 1 .. n : f[i] = f[i - 1] + s[i]
  BY PartialSumsDef DEF AddsUp
<1> HIDE DEF f
<1> DEFINE G == {i \in 0 .. n : k <= i => f[k] <= f[i]}
<1>3. 0 \in G
  BY <1>1
<1>4. ASSUME NEW i \in 0 .. n - 1, i \in G
      PROVE  i + 1 \in G
  <2>1. i + 1 \in 1 .. n /\ (i + 1) - 1 = i
    BY <1>1
  <2>1a. i \in 0 .. n /\ k \in 0 .. n
    BY <1>1
  <2>2. f[i + 1] = f[i] + s[i + 1] /\ f[i] \in Nat /\ f[k] \in Nat /\ s[i + 1] \in Nat
    BY <2>1, <2>1a, <1>1, <1>2
  <2>3. CASE k = i + 1
    BY <2>3, <2>1, <2>2
  <2>4. CASE k # i + 1
    BY <2>4, <2>1, <2>2, <1>4
  <2> QED BY <2>3, <2>4
<1> HIDE DEF G
<1>5. \A i \in 0 .. n : i \in G
  BY <1>1, <1>3, <1>4, InductionUpTo
<1>6. f[k] <= f[l] /\ f[k] = f[k - 1] + s[k]
  BY <1>2, <1>5 DEF G
<1> QED BY <1>6 DEF f

LEMMA TotalFacts ==
  ASSUME NEW s \in Seq(Nat)
  PROVE  Total(s) \in Nat
BY PartialSumsDef DEF Total

\* A list that is nowhere larger adds up to no more.
LEMMA TotalNoMore ==
  ASSUME NEW s \in Seq(Nat), NEW t \in Seq(Nat), Len(s) = Len(t),
         \A i \in 1 .. Len(s) : s[i] <= t[i]
  PROVE  Total(s) <= Total(t)
<1> DEFINE n == Len(s)
           f == PartialSums(s)
           g == PartialSums(t)
<1>1. n \in Nat /\ \A i \in 1 .. n : s[i] \in Nat /\ t[i] \in Nat
  OBVIOUS
<1>2. /\ f \in [0 .. n -> Nat] /\ f[0] = 0 /\ \A i \in 1 .. n : f[i] = f[i - 1] + s[i]
      /\ g \in [0 .. n -> Nat] /\ g[0] = 0 /\ \A i \in 1 .. n : g[i] = g[i - 1] + t[i]
  BY PartialSumsDef DEF AddsUp
<1> HIDE DEF f, g
<1> DEFINE G == {i \in 0 .. n : f[i] <= g[i]}
<1>3. 0 \in G
  BY <1>1, <1>2
<1>4. ASSUME NEW i \in 0 .. n - 1, i \in G
      PROVE  i + 1 \in G
  <2>1. i + 1 \in 1 .. n /\ (i + 1) - 1 = i /\ i \in 0 .. n
    BY <1>1
  <2>2. f[i + 1] = f[i] + s[i + 1] /\ g[i + 1] = g[i] + t[i + 1]
    BY <2>1, <1>2
  <2>3. f[i] \in Nat /\ g[i] \in Nat /\ s[i + 1] \in Nat /\ t[i + 1] \in Nat
    BY <2>1, <1>1, <1>2
  <2>4. s[i + 1] <= t[i + 1]
    BY <2>1
  <2> QED BY <2>1, <2>2, <2>3, <2>4, <1>4
<1> HIDE DEF G
<1>5. n \in G
  <2>1. \A i \in 0 .. n : i \in G
    BY <1>1, <1>3, <1>4, InductionUpTo
  <2> QED BY <2>1, <1>1
<1> QED BY <1>5 DEF G, Total, f, g

\* The place of an element of a list.
LEMMA PlaceFacts ==
  ASSUME NEW s, NEW x, \E i \in DOMAIN s : s[i] = x
  PROVE  Place(s, x) \in DOMAIN s /\ s[Place(s, x)] = x
BY DEF Place

\* Two elements do not overlap, and each lies within the total.
Apart(s, k, l) ==
  \/ PartialSums(s)[k - 1] + s[k] <= PartialSums(s)[l - 1]
  \/ PartialSums(s)[l - 1] + s[l] <= PartialSums(s)[k - 1]

Within(s, k) ==
  PartialSums(s)[k - 1] \in Nat /\ PartialSums(s)[k - 1] + s[k] <= Total(s)

LEMMA PartialSumsApart ==
  ASSUME NEW s \in Seq(Nat)
  PROVE  /\ \A k \in 1 .. Len(s) : Within(s, k)
         /\ \A k, l \in 1 .. Len(s) : k # l => Apart(s, k, l)
<1> DEFINE n == Len(s)
<1>1. n \in Nat /\ PartialSums(s) \in [0 .. n -> Nat]
  BY PartialSumsDef
<1>2. ASSUME NEW k \in 1 .. n
      PROVE  Within(s, k)
  <2>1. n \in 0 .. n /\ k <= n /\ k - 1 \in 0 .. n
    BY <1>1
  <2>2. PartialSums(s)[k - 1] + s[k] <= PartialSums(s)[n]
    BY <2>1, PartialSumsGrow
  <2> QED BY <2>1, <2>2, <1>1 DEF Within, Total
<1>3. ASSUME NEW k \in 1 .. n, NEW l \in 1 .. n, k < l
      PROVE  PartialSums(s)[k - 1] + s[k] <= PartialSums(s)[l - 1]
  <2>1. l - 1 \in 0 .. n /\ k <= l - 1
    BY <1>1, <1>3
  <2> QED BY <2>1, PartialSumsGrow
<1>4. ASSUME NEW k \in 1 .. n, NEW l \in 1 .. n, k # l
      PROVE  Apart(s, k, l)
  <2>1. CASE k < l
    BY <2>1, <1>3 DEF Apart
  <2>2. CASE l < k
    BY <2>2, <1>3 DEF Apart
  <2> QED BY <2>1, <2>2, <1>1, <1>4
<1> QED BY <1>2, <1>4
=============================================================================
