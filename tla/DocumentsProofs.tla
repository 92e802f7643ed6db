--------------------------- MODULE DocumentsProofs ---------------------------
(***************************************************************************)
(* Lemmas about values, conditions, documents and XML, for all values,     *)
(* texts and paths: what the proofs about the components that use them     *)
(* cite.  First come sequences, sums and recursion in general.             *)
(***************************************************************************)
EXTENDS XmlDocuments, TLAPS, WellFoundedInduction, SequenceTheorems, FiniteSetTheorems

\* A set of numbers has a least one.
LEMMA Least ==
  ASSUME NEW T, T \subseteq Nat, T # {}
  PROVE  \E x \in T : \A y \in T : x <= y
<1>1. IsWellFoundedOn(OpToRel(<, Nat), Nat)
  BY NatLessThanWellFounded
<1>2. \E x \in T : \A y \in T : ~ (<<y, x>> \in OpToRel(<, Nat))
  BY <1>1, WFMin
<1>3. PICK x \in T : \A y \in T : ~ (<<y, x>> \in OpToRel(<, Nat))
  BY <1>2
<1>4. \A y \in T : ~(y < x)
  BY <1>3 DEF OpToRel
<1> QED BY <1>4

\* Induction, for a set in the place of a predicate.
LEMMA Induction ==
  ASSUME NEW S, 0 \in S, \A n \in Nat : n \in S => n + 1 \in S
  PROVE  Nat \subseteq S
<1> DEFINE T == Nat \ S
<1>1. SUFFICES ASSUME T # {} PROVE FALSE
  OBVIOUS
<1>2. PICK x \in T : \A y \in T : x <= y
  <2> HIDE DEF T
  <2>1. T \subseteq Nat
    BY DEF T
  <2> QED BY <1>1, <2>1, Least
<1>3. x # 0 /\ x - 1 \in Nat /\ x - 1 < x
  OBVIOUS
<1> QED BY <1>2, <1>3

IsIteration(f, S, a, step) ==
  f \in [Nat -> S] /\ f[0] = a /\ \A n \in Nat : f[n + 1] = step[<<n, f[n]>>]

\* What a recursion of one step defines is a function.
LEMMA Recursion ==
  ASSUME NEW S, NEW a \in S, NEW step \in [Nat \X S -> S]
  PROVE  \E f : IsIteration(f, S, a, step)
<1> DEFINE Upto(g, n) == /\ g \in [0 .. n -> S]
                         /\ g[0] = a
                         /\ \A i \in Nat : i < n => g[i + 1] = step[<<i, g[i]>>]
           T == {n \in Nat : \E g : Upto(g, n)}
<1>1. 0 \in T
  <2>1. Upto([i \in 0 .. 0 |-> a], 0)
    OBVIOUS
  <2> QED BY <2>1
<1>2. ASSUME NEW n \in Nat, n \in T PROVE n + 1 \in T
  <2>1. PICK g : Upto(g, n)
    BY <1>2
  <2> DEFINE h == [i \in 0 .. n + 1 |-> IF i = n + 1 THEN step[<<n, g[n]>>] ELSE g[i]]
  <2>2. g[n] \in S /\ step[<<n, g[n]>>] \in S
    BY <2>1
  <2>3. h \in [0 .. n + 1 -> S] /\ h[0] = a
    BY <2>1, <2>2
  <2>4. ASSUME NEW i \in Nat, i < n + 1 PROVE h[i + 1] = step[<<i, h[i]>>]
    <3>1. h[i] = g[i] /\ h[i + 1] = IF i = n THEN step[<<n, g[n]>>] ELSE g[i + 1]
      BY <2>4
    <3>2. CASE i = n
      BY <3>1, <3>2
    <3>3. CASE i # n
      <4>1. i < n
        BY <2>4, <3>3
      <4> HIDE DEF h
      <4> QED BY <2>1, <3>1, <3>3, <4>1
    <3> QED BY <3>2, <3>3
  <2>5. Upto(h, n + 1)
    <3> HIDE DEF h
    <3> QED BY <2>3, <2>4
  <2> HIDE DEF Upto
  <2> QED BY <2>5
<1>3. Nat \subseteq T
  <2> HIDE DEF T
  <2> QED BY <1>1, <1>2, Induction
<1>4. ASSUME NEW n \in Nat, NEW m \in Nat, NEW g, NEW h, Upto(g, n), Upto(h, m)
      PROVE  \A i \in Nat : i <= n /\ i <= m => g[i] = h[i]
  <2> DEFINE U == {i \in Nat : i <= n /\ i <= m => g[i] = h[i]}
  <2>1. 0 \in U
    BY <1>4
  <2>2. ASSUME NEW i \in Nat, i \in U PROVE i + 1 \in U
    <3>1. SUFFICES ASSUME i + 1 <= n, i + 1 <= m PROVE g[i + 1] = h[i + 1]
      OBVIOUS
    <3>2. g[i] = h[i] /\ i < n /\ i < m
      BY <2>2, <3>1
    <3> QED BY <1>4, <3>2
  <2>3. Nat \subseteq U
    <3> HIDE DEF U
    <3> QED BY <2>1, <2>2, Induction
  <2> QED BY <2>3
<1> DEFINE G == [n \in Nat |-> CHOOSE g : Upto(g, n)]
           f == [n \in Nat |-> G[n][n]]
<1>5. ASSUME NEW n \in Nat PROVE Upto(G[n], n)
  <2>1. \E g : Upto(g, n)
    BY <1>3
  <2>2. Upto(CHOOSE g : Upto(g, n), n)
    <3> HIDE DEF Upto
    <3> QED BY <2>1
  <2> QED BY <2>2
<1>6. f \in [Nat -> S] /\ f[0] = a
  <2>1. \A n \in Nat : G[n][n] \in S
    <3> HIDE DEF G
    <3> QED BY <1>5
  <2>2. G[0][0] = a
    <3> HIDE DEF G
    <3> QED BY <1>5
  <2> QED BY <2>1, <2>2
<1>7. ASSUME NEW n \in Nat PROVE f[n + 1] = step[<<n, f[n]>>]
  <2> HIDE DEF G, Upto
  <2>0. n + 1 \in Nat
    OBVIOUS
  <2>1. Upto(G[n], n) /\ Upto(G[n + 1], n + 1)
    BY <1>5, <2>0
  <2> USE DEF Upto
  <2>2. G[n + 1][n] = G[n][n]
    <3> HIDE DEF Upto
    <3> QED BY <2>1, <1>4
  <2>3. G[n + 1][n + 1] = step[<<n, G[n + 1][n]>>]
    BY <2>1
  <2>4. n \in Nat /\ n + 1 \in Nat
    OBVIOUS
  <2>5. f[n + 1] = G[n + 1][n + 1] /\ f[n] = G[n][n]
    BY <2>4
  <2> QED BY <2>2, <2>3, <2>5
<1> HIDE DEF f
<1> QED BY <1>6, <1>7 DEF IsIteration

IsRecursion(f, S, B, start, smaller, step) ==
  /\ f \in [Nat -> S]
  /\ \A n \in Nat : f[n] = IF n \in B THEN start[n] ELSE step[<<n, f[smaller[n]]>>]
Descends(smaller, B) == smaller \in [Nat -> Nat] /\ \A n \in Nat \ B : smaller[n] < n

\* What is defined by a recursion on smaller numbers is a function, too.
LEMMA RecursionBelow ==
  ASSUME NEW S, NEW start \in [Nat -> S], NEW B \in SUBSET Nat,
         NEW smaller, Descends(smaller, B), NEW step \in [Nat \X S -> S]
  PROVE  \E f : IsRecursion(f, S, B, start, smaller, step)
<1>0. smaller \in [Nat -> Nat] /\ \A n \in Nat \ B : smaller[n] < n
  BY DEF Descends
<1> DEFINE H == [Nat -> S]
           value == [x \in H \X Nat |-> IF x[2] \in B THEN start[x[2]]
                                        ELSE step[<<x[2], x[1][smaller[x[2]]]>>]]
           first == [n \in Nat |-> IF n \in B THEN start[n] ELSE step[<<n, start[n]>>]]
           more == [x \in Nat \X H |->
                      [n \in Nat |-> IF n = x[1] + 1 THEN value[<<x[2], n>>] ELSE x[2][n]]]
<1>1. first \in H
  OBVIOUS
<1>2. \A h \in H, n \in Nat : value[<<h, n>>] \in S
  <2> SUFFICES ASSUME NEW h \in H, NEW n \in Nat PROVE value[<<h, n>>] \in S
    OBVIOUS
  <2>1. value[<<h, n>>] = IF n \in B THEN start[n] ELSE step[<<n, h[smaller[n]]>>]
    BY <<h, n>> \in H \X Nat
  <2>2. smaller[n] \in Nat /\ h[smaller[n]] \in S /\ start[n] \in S
    BY <1>0
  <2>3. step[<<n, h[smaller[n]]>>] \in S
    BY <2>2
  <2> HIDE DEF value
  <2> QED BY <2>1, <2>2, <2>3
<1>3. \A h \in H, n \in Nat :
        value[<<h, n>>] = IF n \in B THEN start[n] ELSE step[<<n, h[smaller[n]]>>]
  OBVIOUS
<1> HIDE DEF value, first
<1>4. more \in [Nat \X H -> H]
  BY <1>2
<1>5. \A k \in Nat, h \in H, n \in Nat :
        more[<<k, h>>][n] = IF n = k + 1 THEN value[<<h, n>>] ELSE h[n]
  OBVIOUS
<1>6. PICK g : IsIteration(g, H, first, more)
  <2> HIDE DEF more, H
  <2> QED BY <1>1, <1>4, Recursion
<1>7. /\ \A k \in Nat : g[k] \in H
      /\ g[0] = first
      /\ \A k \in Nat : g[k + 1] = more[<<k, g[k]>>]
  <2> HIDE DEF more, H
  <2> QED BY <1>6 DEF IsIteration
<1>8. \A k \in Nat, n \in Nat : g[k + 1][n] = IF n = k + 1 THEN value[<<g[k], n>>] ELSE g[k][n]
  <2> SUFFICES ASSUME NEW k \in Nat, NEW n \in Nat
               PROVE  g[k + 1][n] = IF n = k + 1 THEN value[<<g[k], n>>] ELSE g[k][n]
    OBVIOUS
  <2>1. g[k] \in H /\ g[k + 1] = more[<<k, g[k]>>]
    BY <1>7
  <2> HIDE DEF more, H
  <2> QED BY <1>5, <2>1
<1> HIDE DEF more
\* From its own number on a value stays.
<1>9. ASSUME NEW n \in Nat PROVE \A k \in Nat : g[n + k][n] = g[n][n]
  <2> DEFINE T == {k \in Nat : g[n + k][n] = g[n][n]}
  <2>1. 0 \in T
    OBVIOUS
  <2>2. ASSUME NEW k \in Nat, k \in T PROVE k + 1 \in T
    <3>1. n + k \in Nat /\ n # (n + k) + 1 /\ n + (k + 1) = (n + k) + 1
      OBVIOUS
    <3>2. g[(n + k) + 1][n] = g[n + k][n]
      <4> HIDE DEF H, T
      <4> QED BY <1>8, <3>1
    <3> QED BY <2>2, <3>1, <3>2
  <2>3. Nat \subseteq T
    <3> HIDE DEF T, H
    <3> QED BY <2>1, <2>2, Induction
  <2> QED BY <2>3
<1>10. \A m, n \in Nat : n <= m => g[m][n] = g[n][n]
  <2> SUFFICES ASSUME NEW m \in Nat, NEW n \in Nat, n <= m PROVE g[m][n] = g[n][n]
    OBVIOUS
  <2>1. m - n \in Nat /\ n + (m - n) = m
    OBVIOUS
  <2>2. g[n + (m - n)][n] = g[n][n]
    BY <1>9, <2>1
  <2> QED BY <2>1, <2>2
<1> DEFINE f == [n \in Nat |-> g[n][n]]
<1>11. f \in [Nat -> S]
  BY <1>7
<1>12. ASSUME NEW n \in Nat
       PROVE  f[n] = IF n \in B THEN start[n] ELSE step[<<n, f[smaller[n]]>>]
  <2>1. CASE n = 0
    <3>1. n \in B
      <4>1. smaller[n] \in Nat /\ (n \notin B => smaller[n] < n)
        BY <1>0
      <4> QED BY <2>1, <4>1
    <3>2. f[n] = first[n]
      BY <1>7, <2>1
    <3> QED BY <3>1, <3>2 DEF first
  <2>2. CASE n # 0
    <3>1. n - 1 \in Nat /\ (n - 1) + 1 = n
      BY <2>2
    <3>2. g[(n - 1) + 1][n] = value[<<g[n - 1], n>>]
      <4> HIDE DEF H
      <4> QED BY <1>8, <3>1
    <3>3. g[n - 1] \in H
      BY <1>7, <3>1
    <3>4. f[n] = IF n \in B THEN start[n] ELSE step[<<n, g[n - 1][smaller[n]]>>]
      <4>1. f[n] = value[<<g[n - 1], n>>]
        BY <3>1, <3>2
      <4> HIDE DEF f, H
      <4> QED BY <1>3, <3>3, <4>1
    <3>5. n \notin B => g[n - 1][smaller[n]] = f[smaller[n]]
      <4>1. SUFFICES ASSUME n \notin B PROVE g[n - 1][smaller[n]] = f[smaller[n]]
        OBVIOUS
      <4>2. smaller[n] \in Nat /\ smaller[n] <= n - 1
        BY <1>0, <3>1, <4>1
      <4>3. g[n - 1][smaller[n]] = g[smaller[n]][smaller[n]]
        BY <1>10, <3>1, <4>2
      <4> QED BY <4>2, <4>3
    <3> HIDE DEF f
    <3> QED BY <3>4, <3>5
  <2> QED BY <2>1, <2>2
<1> HIDE DEF f, H
<1> QED BY <1>11, <1>12 DEF IsRecursion

LEMMA Binary ==
  /\ binary \in [Nat -> Nat]
  /\ binary[0] = 1
  /\ \A k \in Nat : binary[k + 1] = 2 * binary[k]
<1> DEFINE double == [x \in Nat \X Nat |-> 2 * x[2]]
           F(f) == [k \in Nat |-> IF k = 0 THEN 1 ELSE 2 * f[k - 1]]
<1>1. double \in [Nat \X Nat -> Nat]
  OBVIOUS
<1>2. PICK f \in [Nat -> Nat] : f[0] = 1 /\ \A n \in Nat : f[n + 1] = double[<<n, f[n]>>]
  <2>1. 1 \in Nat
    OBVIOUS
  <2> HIDE DEF double
  <2>2. \E f : IsIteration(f, Nat, 1, double)
    BY <1>1, <2>1, Recursion
  <2> QED BY <2>2 DEF IsIteration
<1>3. \A n \in Nat : f[n + 1] = 2 * f[n]
  BY <1>2
<1>4. ASSUME NEW k \in Nat PROVE f[k] = IF k = 0 THEN 1 ELSE 2 * f[k - 1]
  <2>1. CASE k = 0
    BY <1>2, <2>1
  <2>2. CASE k # 0
    <3>1. k - 1 \in Nat /\ (k - 1) + 1 = k
      BY <2>2
    <3>2. f[(k - 1) + 1] = 2 * f[k - 1]
      BY <1>3, <3>1
    <3> QED BY <2>2, <3>1, <3>2
  <2> QED BY <2>1, <2>2
<1>5. f = F(f)
  BY <1>2, <1>4
<1>6. binary = F(binary)
  BY <1>5 DEF binary
<1>7. \A k \in Nat : binary[k] = IF k = 0 THEN 1 ELSE 2 * binary[k - 1]
  BY <1>6
<1>8. Nat \subseteq {k \in Nat : binary[k] \in Nat}
  <2> DEFINE S == {k \in Nat : binary[k] \in Nat}
  <2>1. 0 \in S
    BY <1>7
  <2>2. \A n \in Nat : n \in S => n + 1 \in S
    BY <1>7
  <2> HIDE DEF S
  <2>3. Nat \subseteq S
    BY <2>1, <2>2, Induction
  <2> QED BY <2>3 DEF S
<1> QED BY <1>6, <1>7, <1>8

LEMMA BinaryGrows ==
  /\ \A k \in Nat : binary[k] \in Nat /\ k < binary[k]
  /\ \A j, k \in Nat : j <= k => binary[j] <= binary[k]
<1>1. \A k \in Nat : binary[k] \in Nat /\ k < binary[k]
  <2> DEFINE S == {k \in Nat : k < binary[k]}
  <2>1. 0 \in S
    BY Binary
  <2>2. ASSUME NEW n \in Nat, n \in S PROVE n + 1 \in S
    BY <2>2, Binary
  <2> HIDE DEF S
  <2>3. Nat \subseteq S
    BY <2>1, <2>2, Induction
  <2> QED BY <2>3, Binary DEF S
<1>2. ASSUME NEW j \in Nat PROVE \A k \in Nat : binary[j] <= binary[j + k]
  <2> DEFINE S == {k \in Nat : binary[j] <= binary[j + k]}
  <2>1. 0 \in S
    BY Binary
  <2>2. ASSUME NEW n \in Nat, n \in S PROVE n + 1 \in S
    <3>1. j + n \in Nat /\ j + (n + 1) = (j + n) + 1
      OBVIOUS
    <3>2. binary[(j + n) + 1] = 2 * binary[j + n]
      BY <3>1, Binary
    <3>3. binary[j] \in Nat /\ binary[j + n] \in Nat
      BY <3>1, Binary
    <3> QED BY <2>2, <3>1, <3>2, <3>3
  <2> HIDE DEF S
  <2>3. Nat \subseteq S
    BY <2>1, <2>2, Induction
  <2> QED BY <2>3 DEF S
<1>3. ASSUME NEW j \in Nat, NEW k \in Nat, j <= k PROVE binary[j] <= binary[k]
  <2>1. k - j \in Nat /\ j + (k - j) = k
    BY <1>3
  <2> QED BY <1>2, <2>1
<1> QED BY <1>1, <1>3

LEMMA BinarySum ==
  \A j, k \in Nat : binary[j + k] = binary[j] * binary[k]
<1>1. ASSUME NEW j \in Nat PROVE \A k \in Nat : binary[j + k] = binary[j] * binary[k]
  <2> DEFINE S == {k \in Nat : binary[j + k] = binary[j] * binary[k]}
  <2>1. 0 \in S
    BY Binary
  <2>2. ASSUME NEW n \in Nat, n \in S PROVE n + 1 \in S
    <3>1. j + n \in Nat /\ j + (n + 1) = (j + n) + 1
      OBVIOUS
    <3>2. binary[(j + n) + 1] = 2 * binary[j + n] /\ binary[n + 1] = 2 * binary[n]
      BY <3>1, Binary
    <3>3. binary[j] \in Nat /\ binary[n] \in Nat
      BY Binary
    <3>4. 2 * (binary[j] * binary[n]) = binary[j] * (2 * binary[n])
      BY <3>3
    <3> QED BY <2>2, <3>1, <3>2, <3>4
  <2> HIDE DEF S
  <2>3. Nat \subseteq S
    BY <2>1, <2>2, Induction
  <2> QED BY <2>3 DEF S
<1> QED BY <1>1

LEMMA ExpFacts ==
  ASSUME NEW n \in Nat
  PROVE  /\ Exp(n) \in Nat
         /\ n < binary[Exp(n) + Precision]
         /\ Exp(n) = 0 \/ binary[Exp(n) - 1 + Precision] <= n
<1> USE PrecisionAssumption
<1> DEFINE T == {k \in Nat : n < binary[k + Precision]}
           Q(k) == n < binary[k + Precision] /\ (k = 0 \/ binary[k - 1 + Precision] <= n)
<1>1. n \in T
  <2>1. n + Precision \in Nat /\ n <= n + Precision
    OBVIOUS
  <2>2. n < binary[n] /\ binary[n] <= binary[n + Precision] /\ binary[n] \in Nat
        /\ binary[n + Precision] \in Nat
    BY <2>1, BinaryGrows
  <2> QED BY <2>2
<1>2. PICK k \in T : \A y \in T : k <= y
  <2>1. T \subseteq Nat /\ T # {}
    BY <1>1
  <2> HIDE DEF T
  <2> QED BY <2>1, Least
<1>3. k \in 0 .. n
  BY <1>1, <1>2
<1>4. k = 0 \/ binary[k - 1 + Precision] <= n
  <2>1. SUFFICES ASSUME k # 0 PROVE binary[k - 1 + Precision] <= n
    OBVIOUS
  <2>2. k - 1 \in Nat /\ k - 1 + Precision \in Nat /\ k - 1 \notin T
    BY <1>2, <2>1
  <2>3. binary[k - 1 + Precision] \in Nat
    BY <2>2, Binary
  <2> QED BY <2>2, <2>3
<1>5. \E j \in 0 .. n : Q(j)
  BY <1>2, <1>3, <1>4
<1>6. Exp(n) \in 0 .. n /\ Q(Exp(n))
  <2> HIDE DEF Q
  <2>1. Exp(n) = CHOOSE j \in 0 .. n : Q(j)
    BY DEF Exp, Q
  <2> QED BY <1>5, <2>1
<1> QED BY <1>6

LEMMA ExpUnique ==
  ASSUME NEW n \in Nat, NEW k \in Nat,
         n < binary[k + Precision],
         k = 0 \/ binary[k - 1 + Precision] <= n
  PROVE  k = Exp(n)
<1> USE PrecisionAssumption
<1>1. Exp(n) \in Nat
  BY ExpFacts
<1>2. ASSUME NEW i \in Nat, NEW j \in Nat, i < j, n < binary[i + Precision],
             binary[j - 1 + Precision] <= n
      PROVE  FALSE
  <2>1. i + Precision \in Nat /\ j - 1 + Precision \in Nat /\ i + Precision <= j - 1 + Precision
    BY <1>2
  <2>2. binary[i + Precision] <= binary[j - 1 + Precision]
    BY <2>1, BinaryGrows
  <2>3. binary[i + Precision] \in Nat /\ binary[j - 1 + Precision] \in Nat
    BY <2>1, Binary
  <2> QED BY <1>2, <2>2, <2>3
<1>3. ~(k < Exp(n))
  <2>1. SUFFICES ASSUME k < Exp(n) PROVE FALSE
    OBVIOUS
  <2>2. binary[Exp(n) - 1 + Precision] <= n
    BY <1>1, <2>1, ExpFacts
  <2> QED BY <1>1, <1>2, <2>1, <2>2
<1>4. ~(Exp(n) < k)
  <2>1. SUFFICES ASSUME Exp(n) < k PROVE FALSE
    OBVIOUS
  <2>2. n < binary[Exp(n) + Precision] /\ binary[k - 1 + Precision] <= n
    BY <1>1, <2>1, ExpFacts
  <2> QED BY <1>1, <1>2, <2>1, <2>2
<1> QED BY <1>1, <1>3, <1>4

LEMMA Division ==
  ASSUME NEW n \in Nat, NEW u \in Nat, u # 0
  PROVE  /\ n \div u \in Nat /\ n % u \in 0 .. u - 1
         /\ n = (n \div u) * u + (n % u)
<1>1. n \div u \in Nat /\ n % u \in Nat
  OBVIOUS
<1>2. n % u < u
  OBVIOUS
<1>3. n = (n \div u) * u + (n % u)
  OBVIOUS
<1> QED BY <1>1, <1>2, <1>3

LEMMA DivisionUnique ==
  ASSUME NEW q \in Nat, NEW u \in Nat, NEW r \in Nat, r < u
  PROVE  (q * u + r) \div u = q /\ (q * u + r) % u = r
OBVIOUS

LEMMA MultipleFacts ==
  ASSUME NEW n \in Nat, NEW u \in Nat, u # 0
  PROVE  /\ \E q \in Nat : /\ NearestMultiple(n, u) = q * u
                           /\ q = n \div u \/ q = n \div u + 1
         /\ NearestMultiple(n * u, u) = n * u
<1>1. n \div u \in Nat
  BY Division
<1>2. NearestMultiple(n * u, u) = n * u
  <2>1. n * u \in Nat /\ n * u + 0 = n * u
    OBVIOUS
  <2>2. (n * u + 0) \div u = n /\ (n * u + 0) % u = 0
    BY DivisionUnique
  <2> QED BY <2>1, <2>2 DEF NearestMultiple
<1> QED BY <1>1, <1>2 DEF NearestMultiple

LEMMA NearestOfNat ==
  ASSUME NEW n \in Nat
  PROVE  Nearest(n) \in Nat /\ Nearest(Nearest(n)) = Nearest(n)
<1> USE PrecisionAssumption
<1> DEFINE e == Exp(n)
           u == binary[e]
           two == binary[Precision]
           half == binary[Precision - 1]
<1>1. e \in Nat /\ n < binary[e + Precision] /\ (e = 0 \/ binary[e - 1 + Precision] <= n)
  BY ExpFacts
<1>2. u \in Nat /\ u # 0 /\ two \in Nat /\ half \in Nat /\ half # 0 /\ two = 2 * half
  <2>1. Precision - 1 \in Nat /\ (Precision - 1) + 1 = Precision
    OBVIOUS
  <2>2. u \in Nat /\ u # 0
    BY <1>1, BinaryGrows
  <2>3. half \in Nat /\ half # 0
    BY <2>1, BinaryGrows
  <2>4. two \in Nat /\ two = 2 * half
    BY <2>1, Binary
  <2> QED BY <2>2, <2>3, <2>4
<1>3. binary[e + Precision] = u * two
  BY <1>1, BinarySum
<1>4. e # 0 => binary[e - 1 + Precision] = u * half
  <2>1. SUFFICES ASSUME e # 0 PROVE binary[e - 1 + Precision] = u * half
    OBVIOUS
  <2>2. e - 1 + Precision = e + (Precision - 1) /\ Precision - 1 \in Nat
    BY <1>1, <2>1
  <2> QED BY <1>1, <2>2, BinarySum
<1> HIDE DEF e, u, two, half
<1>5. PICK q \in Nat : NearestMultiple(n, u) = q * u /\ (q = n \div u \/ q = n \div u + 1)
  BY <1>2, MultipleFacts
<1>6. Nearest(n) = q * u
  BY <1>5 DEF Nearest, e, u
<1>7. n \div u \in Nat /\ n \div u < two
  <2>1. n = (n \div u) * u + (n % u) /\ n \div u \in Nat /\ n % u \in Nat
    BY <1>2, Division
  <2>2. n < two * u
    BY <1>1, <1>2, <1>3
  <2>3. (n \div u) * u < two * u
    BY <1>2, <2>1, <2>2
  <2> QED BY <1>2, <2>1, <2>3
<1>8. q <= two
  BY <1>2, <1>5, <1>7
<1>9. q * u \in Nat
  BY <1>2, <1>5
<1>10. CASE q < two
  <2>1. q * u < binary[e + Precision]
    BY <1>2, <1>3, <1>5, <1>10
  <2>2. e = 0 \/ binary[e - 1 + Precision] <= q * u
    <3>1. SUFFICES ASSUME e # 0 PROVE u * half <= q * u
      BY <1>4
    <3>2. u * half <= n
      BY <1>1, <1>4, <3>1
    <3>3. half <= n \div u
      <4>1. n = (n \div u) * u + (n % u) /\ n % u \in 0 .. u - 1
        BY <1>2, Division
      <4>2. half * u < (n \div u + 1) * u
        BY <1>2, <1>7, <3>2, <4>1
      <4>3. half < n \div u + 1
        BY <1>2, <1>7, <4>2
      <4> QED BY <1>2, <1>7, <4>3
    <3>4. half <= q
      BY <1>2, <1>5, <1>7, <3>3
    <3> QED BY <1>2, <1>5, <3>4
  <2>3. e = Exp(q * u)
    BY <1>1, <1>9, <2>1, <2>2, ExpUnique
  <2>4. NearestMultiple(q * u, u) = q * u
    BY <1>2, <1>5, MultipleFacts
  <2> QED BY <1>6, <1>9, <2>3, <2>4 DEF Nearest, u
<1>11. CASE q = two
  <2>1. binary[e + 1] = 2 * u /\ e + 1 \in Nat
    BY <1>1, Binary DEF u
  <2>2. q * u = half * binary[e + 1]
    BY <1>2, <1>11, <2>1
  <2>3. q * u = binary[e + Precision]
    BY <1>2, <1>3, <1>11
  <2>4. binary[e + 1 + Precision] = 2 * binary[e + Precision] /\ binary[e + Precision] \in Nat
    <3>1. e + Precision \in Nat /\ (e + Precision) + 1 = e + 1 + Precision
      BY <1>1
    <3> QED BY <3>1, Binary
  <2>5. q * u < binary[e + 1 + Precision]
    <3>1. e + Precision \in Nat
      BY <1>1
    <3>2. 0 < binary[e + Precision]
      BY <3>1, BinaryGrows
    <3> QED BY <2>3, <2>4, <3>2
  <2>6. e + 1 = Exp(q * u)
    <3> DEFINE k == e + 1
                m == q * u
    <3>1. k \in Nat /\ m \in Nat
      BY <1>9, <2>1
    <3>2. m < binary[k + Precision]
      BY <2>5
    <3>3. binary[k - 1 + Precision] <= m
      <4>1. k - 1 + Precision = e + Precision
        BY <1>1
      <4>2. m = binary[e + Precision] /\ m \in Nat
        BY <1>9, <2>3
      <4> HIDE DEF k, m
      <4> QED BY <4>1, <4>2
    <3> HIDE DEF k, m
    <3>4. k = Exp(m)
      BY <3>1, <3>2, <3>3, ExpUnique
    <3> QED BY <3>4 DEF k, m
  <2>7. NearestMultiple(half * binary[e + 1], binary[e + 1]) = half * binary[e + 1]
    <3>1. binary[e + 1] \in Nat /\ binary[e + 1] # 0
      BY <1>2, <2>1
    <3> QED BY <1>2, <3>1, MultipleFacts
  <2>8. NearestMultiple(q * u, binary[Exp(q * u)]) = q * u
    BY <2>2, <2>6, <2>7
  <2> QED BY <1>6, <1>9, <2>8 DEF Nearest
<1> QED BY <1>2, <1>5, <1>8, <1>10, <1>11

\* Rounding to a float64 is idempotent.
LEMMA NearestIdempotent ==
  ASSUME NEW n \in Int
  PROVE  Nearest(n) \in Int /\ Nearest(Nearest(n)) = Nearest(n)
<1>1. CASE n \in Nat
  BY <1>1, NearestOfNat
<1>2. CASE n < 0
  <2> DEFINE m == Nearest(-n)
  <2>1. -n \in Nat
    BY <1>2
  <2>2. m \in Nat /\ Nearest(m) = m
    BY <2>1, NearestOfNat
  <2>3. Nearest(n) = -m
    BY <1>2, <2>1 DEF Nearest
  <2>4. CASE m = 0
    BY <2>2, <2>3, <2>4
  <2>5. CASE m # 0
    <3>1. -m < 0 /\ -(-m) = m
      BY <2>2, <2>5
    <3>2. Nearest(m) = NearestMultiple(m, binary[Exp(m)])
      BY <2>2 DEF Nearest
    <3>3. Nearest(-m) = -NearestMultiple(-(-m), binary[Exp(-(-m))])
      BY <3>1 DEF Nearest
    <3> HIDE DEF m
    <3> QED BY <2>2, <2>3, <3>1, <3>2, <3>3
  <2> QED BY <2>4, <2>5
<1> QED BY <1>1, <1>2

\* Rounding to a float64 is off by half of a number at most.
LEMMA NearestIsNear ==
  ASSUME NEW n \in Nat
  PROVE  n <= 2 * Nearest(n) /\ 2 * Nearest(n) <= 3 * n
<1> USE PrecisionAssumption
<1> DEFINE e == Exp(n)
           u == binary[e]
           q == n \div u
           r == n % u
<1>1. e \in Nat /\ (e = 0 \/ binary[e - 1 + Precision] <= n)
  BY ExpFacts
<1>2. u \in Nat /\ u # 0
  BY <1>1, BinaryGrows
<1>3. e # 0 => u <= n
  <2>1. SUFFICES ASSUME e # 0 PROVE u <= n
    OBVIOUS
  <2>2. e - 1 + Precision \in Nat /\ e <= e - 1 + Precision
    BY <1>1, <2>1
  <2>3. binary[e] <= binary[e - 1 + Precision] /\ binary[e - 1 + Precision] \in Nat
    BY <1>1, <2>2, BinaryGrows
  <2> QED BY <1>1, <1>2, <2>1, <2>3
<1>4. q \in Nat /\ r \in 0 .. u - 1 /\ n = q * u + r
  BY <1>2, Division
<1>5. Nearest(n) = NearestMultiple(n, u)
  BY DEF Nearest
<1>6. \/ Nearest(n) = q * u /\ 2 * r <= u
      \/ Nearest(n) = (q + 1) * u /\ 2 * r >= u
  <2> HIDE DEF u
  <2> QED BY <1>2, <1>4, <1>5 DEF NearestMultiple
<1>7. q * u \in Nat /\ (q + 1) * u = q * u + u
  <2> HIDE DEF u, q
  <2> QED BY <1>2, <1>4
<1>8. e = 0 => u = 1
  BY Binary
<1> HIDE DEF u, q, r, e
<1>9. CASE e = 0
  <2>1. u = 1 /\ r = 0 /\ q * u = n
    BY <1>4, <1>7, <1>8, <1>9
  <2>2. Nearest(n) = n
    BY <1>6, <2>1
  <2> QED BY <2>2
<1>10. CASE e # 0
  <2>1. u <= n
    BY <1>3, <1>10
  <2>2. PICK m \in Nat : m = q * u
    BY <1>7
  <2>3. (Nearest(n) = m /\ 2 * r <= u) \/ (Nearest(n) = m + u /\ 2 * r >= u)
    BY <1>6, <1>7, <2>2
  <2>4. n = m + r /\ r \in Nat /\ r < u
    BY <1>2, <1>4, <2>2
  <2>5. PICK x : x = Nearest(n)
    OBVIOUS
  <2>6. CASE x = m /\ 2 * r <= u
    <3>1. n <= 2 * x /\ 2 * x <= 3 * n
      BY <1>2, <2>1, <2>4, <2>6
    <3> QED BY <2>5, <3>1
  <2>7. CASE x = m + u /\ 2 * r >= u
    <3>1. n <= 2 * x /\ 2 * x <= 3 * n
      BY <1>2, <2>1, <2>4, <2>7
    <3> QED BY <2>5, <3>1
  <2> QED BY <2>3, <2>5, <2>6, <2>7
<1> QED BY <1>9, <1>10

\* Numbers of no more bits than a float64 has are exact, and no other is rounded to them.
LEMMA ExactNumbers ==
  ASSUME NEW n \in Nat
  PROVE  /\ n < binary[Precision] => Nearest(n) = n
         /\ n >= binary[Precision] => Nearest(n) >= binary[Precision]
<1> USE PrecisionAssumption
<1> DEFINE e == Exp(n)
           u == binary[e]
           half == binary[Precision - 1]
<1>1. e \in Nat /\ n < binary[e + Precision] /\ (e = 0 \/ binary[e - 1 + Precision] <= n)
  BY ExpFacts
<1>2. u \in Nat /\ u # 0 /\ half \in Nat /\ Precision - 1 \in Nat
  <2>1. Precision - 1 \in Nat
    OBVIOUS
  <2> QED BY <1>1, <2>1, BinaryGrows
<1>3. PICK q \in Nat : NearestMultiple(n, u) = q * u /\ (q = n \div u \/ q = n \div u + 1)
  BY <1>2, MultipleFacts
<1>4. Nearest(n) = q * u
  BY <1>3 DEF Nearest
<1>5. ASSUME n < binary[Precision] PROVE Nearest(n) = n
  <2>1. 0 + Precision = Precision
    OBVIOUS
  <2>2. n < binary[0 + Precision] /\ 0 \in Nat
    BY <1>5, <2>1
  <2>3. 0 = Exp(n)
    BY <2>2, ExpUnique
  <2>4. NearestMultiple(n * 1, 1) = n * 1
    BY MultipleFacts
  <2>5. n * 1 = n /\ binary[0] = 1
    BY Binary
  <2> QED BY <2>3, <2>4, <2>5 DEF Nearest
<1>6. ASSUME n >= binary[Precision] PROVE Nearest(n) >= binary[Precision]
  <2>1. binary[Precision] \in Nat
    BY BinaryGrows
  <2>2. e # 0
    <3>1. e = 0 => e + Precision = Precision
      OBVIOUS
    <3> HIDE DEF e
    <3> QED BY <1>1, <1>6, <2>1, <3>1
  <2>3. e - 1 + Precision = e + (Precision - 1) /\ e - 1 + Precision \in Nat /\ Precision <= e - 1 + Precision
    <3> HIDE DEF e
    <3> QED BY <1>1, <2>2
  <2>4. binary[e - 1 + Precision] = u * half
    BY <1>1, <1>2, <2>3, BinarySum
  <2>5. binary[Precision] <= u * half
    BY <2>3, <2>4, BinaryGrows
  <2>6. n = (n \div u) * u + (n % u) /\ n % u \in 0 .. u - 1 /\ n \div u \in Nat
    BY <1>2, Division
  <2> HIDE DEF e, u, half
  <2>7. u * half <= n
    BY <1>1, <2>2, <2>4
  <2>8. half * u < (n \div u + 1) * u
    BY <1>2, <2>6, <2>7
  <2>9. half <= q
    <3>1. half < n \div u + 1
      BY <1>2, <2>6, <2>8
    <3> QED BY <1>2, <1>3, <2>6, <3>1
  <2>10. u * half <= q * u
    BY <1>2, <2>9
  <2>11. q * u \in Nat /\ u * half \in Nat
    BY <1>2
  <2> QED BY <1>4, <2>1, <2>5, <2>10, <2>11
<1> QED BY <1>5, <1>6

\* The integers whose rounding is of no other integer.
LEMMA ExactIntegers ==
  ASSUME NEW m \in Int, NEW n \in Int, n \in -binary[Precision] + 1 .. binary[Precision] - 1,
         Nearest(m) = Nearest(n)
  PROVE  m = n
<1>1. PICK b \in Nat : b = binary[Precision]
  BY BinaryGrows, PrecisionAssumption
<1>2. \A k \in Nat : /\ Nearest(k) \in Nat
                     /\ k < b => Nearest(k) = k
                     /\ k >= b => Nearest(k) >= b
  BY <1>1, ExactNumbers, NearestOfNat
<1>3. \A k \in Int : k < 0 => -k \in Nat /\ Nearest(k) = -Nearest(-k)
  <2> SUFFICES ASSUME NEW k \in Int, k < 0 PROVE -k \in Nat /\ Nearest(k) = -Nearest(-k)
    OBVIOUS
  <2>1. -k \in Nat /\ ~(-k < 0)
    OBVIOUS
  <2> QED BY <2>1 DEF Nearest
<1>4. b # 0
  BY <1>1, BinaryGrows, PrecisionAssumption
<1>5. \A k \in Int : /\ k < b /\ -b < k => Nearest(k) = k
                     /\ k >= b => Nearest(k) >= b
                     /\ k <= -b => Nearest(k) <= -b
  <2> SUFFICES ASSUME NEW k \in Int
               PROVE  /\ k < b /\ -b < k => Nearest(k) = k
                      /\ k >= b => Nearest(k) >= b
                      /\ k <= -b => Nearest(k) <= -b
    OBVIOUS
  <2>1. CASE k \in Nat
    BY <1>2, <1>4, <2>1
  <2>2. CASE k < 0
    <3>1. -k \in Nat /\ Nearest(k) = -Nearest(-k)
      BY <1>3, <2>2
    <3>2. PICK j \in Nat : j = -k
      BY <3>1
    <3>3. PICK x \in Nat : x = Nearest(j)
      BY <1>2
    <3>4. (j < b => x = j) /\ (j >= b => x >= b)
      BY <1>2, <3>3
    <3>5. Nearest(k) = -x
      BY <3>1, <3>2, <3>3
    <3> QED BY <2>2, <3>2, <3>4, <3>5
  <2> QED BY <2>1, <2>2
<1>6. Nearest(n) = n /\ -b < n /\ n < b
  BY <1>1, <1>5
<1> QED BY <1>4, <1>5, <1>6

\* They are those that the rounding leaves as they are.
LEMMA ExactIsKept ==
  ASSUME NEW n \in Int, FloatIsExact(n)
  PROVE  Nearest(n) = n
<1>1. PICK b \in Nat : b = binary[Precision]
  BY BinaryGrows, PrecisionAssumption
<1>2. -b < n /\ n < b
  BY <1>1 DEF FloatIsExact
<1>3. CASE n \in Nat
  BY <1>1, <1>2, <1>3, ExactNumbers
<1>4. CASE n < 0
  <2>1. -n \in Nat /\ -n < b /\ ~(-n < 0)
    BY <1>2, <1>4
  <2>2. Nearest(-n) = -n
    BY <1>1, <2>1, ExactNumbers
  <2>3. Nearest(n) = -Nearest(-n)
    BY <1>4, <2>1 DEF Nearest
  <2> QED BY <2>2, <2>3
<1> QED BY <1>3, <1>4
-----------------------------------------------------------------------------
(***************************************************************************)
(* Values.                                                                 *)
(***************************************************************************)
LEMMA FloatNodes ==
  ASSUME NEW x, IsScalar(x) \/ x \in [kind : Containers]
  PROVE  /\ IsScalar(x) => IsScalar(FloatNode(x)) /\ IsScalar(DigitsNode(x))
         /\ x \in [kind : Containers] => FloatNode(x) = x /\ DigitsNode(x) = x
         /\ FloatNode(FloatNode(x)) = FloatNode(x) /\ FloatNode(DigitsNode(x)) = FloatNode(x)
         /\ FloatNode(x).kind = x.kind /\ DigitsNode(x).kind = x.kind
<1>1. CASE IsNumber(x)
  <2>1. IsScalar(x) /\ x.n \in Int
    BY <1>1 DEF IsScalar, IsNumber, Containers
  <2>2. FloatNode(x) = Float(Nearest(x.n)) /\ Nearest(x.n) \in Int
        /\ Nearest(Nearest(x.n)) = Nearest(x.n) /\ DigitsNode(x) = Number(x.n)
    BY <1>1, <2>1, NearestIdempotent DEF FloatNode, DigitsNode, ToFloat64
  <2>3. \A n : /\ FloatNode(Float(n)) = Float(Nearest(n)) /\ FloatNode(Number(n)) = Float(Nearest(n))
               /\ Float(n).kind = "number" /\ Number(n).kind = "number"
    BY DEF FloatNode, ToFloat64, Number, Float, IsNumber
  <2>4. \A n \in Int : IsScalar(Number(n)) /\ IsScalar(Float(n))
    BY DEF IsScalar, Number, Float
  <2> QED BY <1>1, <2>1, <2>2, <2>3, <2>4 DEF IsNumber, Containers
<1>2. CASE ~IsNumber(x)
  BY <1>2 DEF FloatNode, DigitsNode
<1> QED BY <1>1, <1>2

LEMMA InsideOfValue ==
  ASSUME NEW v, IsValue(v)
  PROVE  /\ Inside(v) \subseteq Seq(Step) \ {<<>>}
         /\ Inside(v) # {} => IsContainer(v)
         /\ \A p \in Inside(v) : /\ NodeAt(v, p) = v.at[p]
                                 /\ IsScalar(v.at[p]) \/ v.at[p] \in [kind : Containers]
         /\ IsContainer(v) => NodeAt(v, <<>>) = [kind |-> v.kind]
         /\ ~IsContainer(v) => NodeAt(v, <<>>) = v
<1>1. CASE IsContainer(v)
  <2>1. /\ DOMAIN v.at \subseteq Seq(Step) \ {<<>>}
        /\ \A p \in DOMAIN v.at : IsScalar(v.at[p]) \/ v.at[p] \in [kind : Containers]
    BY <1>1 DEF IsValue
  <2>2. Inside(v) = DOMAIN v.at
    BY <1>1 DEF Inside
  <2>3. \A p \in Inside(v) : p # <<>>
    BY <2>1, <2>2
  <2> QED BY <1>1, <2>1, <2>2, <2>3 DEF NodeAt, Here
<1>2. CASE ~IsContainer(v)
  BY <1>2 DEF Inside, NodeAt, Here
<1> QED BY <1>1, <1>2

\* A value is what it holds where.
LEMMA SameValue ==
  ASSUME NEW v, IsValue(v), NEW w, IsValue(w), Inside(v) = Inside(w),
         \A p : p = <<>> \/ p \in Inside(v) => NodeAt(v, p) = NodeAt(w, p)
  PROVE  v = w
<1>1. NodeAt(v, <<>>) = NodeAt(w, <<>>)
  OBVIOUS
<1>2. CASE IsContainer(v) /\ IsContainer(w)
  <2>1. v.kind = w.kind
    BY <1>1, <1>2, InsideOfValue
  <2>2. Inside(v) = DOMAIN v.at /\ Inside(w) = DOMAIN w.at
    BY <1>2 DEF Inside
  <2>3. \A p \in DOMAIN v.at : v.at[p] = w.at[p]
    <3> SUFFICES ASSUME NEW p \in DOMAIN v.at PROVE v.at[p] = w.at[p]
      OBVIOUS
    <3>1. p \in Inside(v) /\ p \in Inside(w)
      BY <2>2
    <3>2. NodeAt(v, p) = v.at[p] /\ NodeAt(w, p) = w.at[p]
      BY <3>1, InsideOfValue
    <3> QED BY <3>1, <3>2
  <2>4. [p \in DOMAIN v.at |-> v.at[p]] = [p \in DOMAIN w.at |-> w.at[p]]
    BY <2>2, <2>3
  <2>5. /\ v = [kind |-> v.kind, at |-> [p \in DOMAIN v.at |-> v.at[p]]]
        /\ w = [kind |-> w.kind, at |-> [p \in DOMAIN w.at |-> w.at[p]]]
    BY <1>2 DEF IsValue
  <2> QED BY <2>1, <2>4, <2>5
<1>3. CASE ~IsContainer(v) /\ ~IsContainer(w)
  BY <1>1, <1>3, InsideOfValue
<1>4. CASE IsContainer(v) /\ ~IsContainer(w)
  BY <1>1, <1>4, InsideOfValue DEF IsContainer
<1>5. CASE ~IsContainer(v) /\ IsContainer(w)
  BY <1>1, <1>5, InsideOfValue DEF IsContainer
<1> QED BY <1>2, <1>3, <1>4, <1>5

\* What Each gives, for a function in the place of its operator.
\* f keeps the scalars of v scalars, of their kind, and its containers; w has f of each.
KeepsKinds(f, v) == \A p : p = <<>> \/ p \in Inside(v) =>
  /\ IsScalar(NodeAt(v, p)) => IsScalar(f[NodeAt(v, p)])
  /\ NodeAt(v, p) \in [kind : Containers] => f[NodeAt(v, p)] = NodeAt(v, p)
  /\ f[NodeAt(v, p)].kind = NodeAt(v, p).kind
IsEach(w, f, v) ==
  w = IF IsContainer(v) THEN [kind |-> v.kind, at |-> [p \in DOMAIN v.at |-> f[v.at[p]]]] ELSE f[v]

LEMMA EachValue ==
  ASSUME NEW v, IsValue(v), NEW f, NEW w, KeepsKinds(f, v), IsEach(w, f, v)
  PROVE  /\ IsValue(w) /\ w.kind = v.kind /\ Inside(w) = Inside(v)
         /\ \A p : p = <<>> \/ p \in Inside(v) => NodeAt(w, p) = f[NodeAt(v, p)]
<1> USE DEF KeepsKinds, IsEach
<1>1. CASE IsContainer(v)
  <2> DEFINE at == [p \in DOMAIN v.at |-> f[v.at[p]]]
  <2>1. /\ DOMAIN v.at \subseteq Seq(Step) \ {<<>>} /\ IsFiniteSet(DOMAIN v.at)
        /\ \A p \in DOMAIN v.at : IsScalar(v.at[p]) \/ v.at[p] \in [kind : Containers]
    BY <1>1 DEF IsValue
  <2>2. w = [kind |-> v.kind, at |-> at]
    BY <1>1
  <2>3. w.kind = v.kind /\ w.at = at /\ DOMAIN at = DOMAIN v.at
    BY <2>2
  <2>4. IsContainer(w) /\ Inside(w) = Inside(v) /\ Inside(v) = DOMAIN v.at
    BY <1>1, <2>3 DEF IsContainer, Inside
  <2>5. \A p \in DOMAIN v.at : IsScalar(at[p]) \/ at[p] \in [kind : Containers]
    BY <2>1, <2>4, InsideOfValue
  <2>6. at = [p \in DOMAIN at |-> at[p]]
    OBVIOUS
  <2>7. IsValue(w)
    <3> HIDE DEF at
    <3> QED BY <2>1, <2>2, <2>3, <2>4, <2>5, <2>6 DEF IsValue
  <2>8. ASSUME NEW p \in Inside(v) PROVE NodeAt(w, p) = f[NodeAt(v, p)]
    BY <2>3, <2>4, <2>7, InsideOfValue
  <2>9. NodeAt(w, <<>>) = f[NodeAt(v, <<>>)]
    <3>1. NodeAt(w, <<>>) = [kind |-> v.kind] /\ NodeAt(v, <<>>) = [kind |-> v.kind]
      BY <1>1, <2>3, <2>4, <2>7, InsideOfValue
    <3>2. [kind |-> v.kind] \in [kind : Containers]
      BY <1>1 DEF IsContainer
    <3> QED BY <3>1, <3>2
  <2> QED BY <2>3, <2>4, <2>7, <2>8, <2>9
<1>2. CASE ~IsContainer(v)
  <2>1. IsScalar(v) /\ w = f[v] /\ NodeAt(v, <<>>) = v
    BY <1>2, InsideOfValue DEF IsValue
  <2>2. IsScalar(w) /\ w.kind = v.kind
    BY <2>1
  <2>3. ~IsContainer(w)
    BY <1>2, <2>2 DEF IsContainer
  <2>4. IsValue(w)
    BY <2>2, <2>3 DEF IsValue
  <2>5. Inside(v) = {} /\ Inside(w) = {} /\ NodeAt(w, <<>>) = w
    BY <1>2, <2>3, <2>4, InsideOfValue DEF Inside
  <2> QED BY <2>1, <2>2, <2>4, <2>5
<1> QED BY <1>1, <1>2

LEMMA NodesOfValue ==
  ASSUME NEW v, IsValue(v), NEW p, p = <<>> \/ p \in Inside(v)
  PROVE  IsScalar(NodeAt(v, p)) \/ NodeAt(v, p) \in [kind : Containers]
BY InsideOfValue DEF IsValue, IsContainer

LEMMA EachOfValue ==
  ASSUME NEW v, IsValue(v)
  PROVE  /\ IsValue(Floats(v)) /\ Floats(v).kind = v.kind
         /\ Inside(Floats(v)) = Inside(v)
         /\ \A p : p = <<>> \/ p \in Inside(v) => NodeAt(Floats(v), p) = FloatNode(NodeAt(v, p))
         /\ IsValue(Marshal(v)) /\ Marshal(v).kind = v.kind
         /\ Inside(Marshal(v)) = Inside(v)
         /\ \A p : p = <<>> \/ p \in Inside(v) => NodeAt(Marshal(v), p) = DigitsNode(NodeAt(v, p))
<1> DEFINE nodes == {NodeAt(v, p) : p \in Inside(v) \cup {<<>>}}
           float64 == [x \in nodes |-> FloatNode(x)]
           digits == [x \in nodes |-> DigitsNode(x)]
<1>1. \A x \in nodes : float64[x] = FloatNode(x) /\ digits[x] = DigitsNode(x)
  OBVIOUS
<1>2. \A x \in nodes : IsScalar(x) \/ x \in [kind : Containers]
  BY NodesOfValue
<1>3. \A p : p = <<>> \/ p \in Inside(v) => NodeAt(v, p) \in nodes
  OBVIOUS
<1>4. IsContainer(v) => \A p \in DOMAIN v.at : v.at[p] \in nodes
  BY <1>3, InsideOfValue DEF Inside
<1>5. ~IsContainer(v) => v \in nodes
  BY <1>3, InsideOfValue
<1> HIDE DEF nodes, float64, digits
<1>6. Floats(v) = IF IsContainer(v)
                  THEN [kind |-> v.kind, at |-> [p \in DOMAIN v.at |-> float64[v.at[p]]]] ELSE float64[v]
  BY <1>1, <1>4, <1>5 DEF Floats, Each
<1>7. Marshal(v) = IF IsContainer(v)
                   THEN [kind |-> v.kind, at |-> [p \in DOMAIN v.at |-> digits[v.at[p]]]] ELSE digits[v]
  BY <1>1, <1>4, <1>5 DEF Marshal, Each
<1>8. \A x \in nodes : /\ IsScalar(x) => IsScalar(float64[x]) /\ IsScalar(digits[x])
                       /\ x \in [kind : Containers] => float64[x] = x /\ digits[x] = x
                       /\ float64[x].kind = x.kind /\ digits[x].kind = x.kind
  BY <1>1, <1>2, FloatNodes
<1>9. PICK e : e = Floats(v)
  OBVIOUS
<1>10. /\ IsValue(e) /\ e.kind = v.kind /\ Inside(e) = Inside(v)
       /\ \A p : p = <<>> \/ p \in Inside(v) => NodeAt(e, p) = float64[NodeAt(v, p)]
  <2>1. KeepsKinds(float64, v)
    BY <1>3, <1>8 DEF KeepsKinds
  <2>2. IsEach(e, float64, v)
    BY <1>6, <1>9 DEF IsEach
  <2> QED BY <2>1, <2>2, EachValue
<1>11. PICK m : m = Marshal(v)
  OBVIOUS
<1>12. /\ IsValue(m) /\ m.kind = v.kind /\ Inside(m) = Inside(v)
       /\ \A p : p = <<>> \/ p \in Inside(v) => NodeAt(m, p) = digits[NodeAt(v, p)]
  <2>1. KeepsKinds(digits, v)
    BY <1>3, <1>8 DEF KeepsKinds
  <2>2. IsEach(m, digits, v)
    BY <1>7, <1>11 DEF IsEach
  <2> QED BY <2>1, <2>2, EachValue
<1> QED BY <1>1, <1>3, <1>9, <1>10, <1>11, <1>12

LEMMA FloatsOfValue ==
  ASSUME NEW v, IsValue(v)
  PROVE  /\ IsValue(Floats(v)) /\ Floats(v).kind = v.kind
         /\ Inside(Floats(v)) = Inside(v)
         /\ \A p : p = <<>> \/ p \in Inside(v) => NodeAt(Floats(v), p) = FloatNode(NodeAt(v, p))
         /\ Floats(Floats(v)) = Floats(v)
<1>1. /\ IsValue(Floats(v)) /\ Floats(v).kind = v.kind /\ Inside(Floats(v)) = Inside(v)
      /\ \A p : p = <<>> \/ p \in Inside(v) => NodeAt(Floats(v), p) = FloatNode(NodeAt(v, p))
  BY EachOfValue
<1>2. /\ IsValue(Floats(Floats(v))) /\ Inside(Floats(Floats(v))) = Inside(v)
      /\ \A p : p = <<>> \/ p \in Inside(v) =>
           NodeAt(Floats(Floats(v)), p) = FloatNode(NodeAt(Floats(v), p))
  BY <1>1, EachOfValue
<1>3. \A p : p = <<>> \/ p \in Inside(v) => FloatNode(FloatNode(NodeAt(v, p))) = FloatNode(NodeAt(v, p))
  BY NodesOfValue, FloatNodes
<1>4. Floats(Floats(v)) = Floats(v)
  BY <1>1, <1>2, <1>3, SameValue
<1> QED BY <1>1, <1>4

\* What JSON makes of a value is read back with the same numbers.
LEMMA MarshaledValue ==
  ASSUME NEW v, IsValue(v)
  PROVE  /\ IsValue(Marshal(v)) /\ Marshal(v).kind = v.kind
         /\ Inside(Marshal(v)) = Inside(v)
         /\ \A p : p = <<>> \/ p \in Inside(v) => NodeAt(Marshal(v), p) = DigitsNode(NodeAt(v, p))
         /\ Floats(Marshal(v)) = Floats(v)
<1>1. /\ IsValue(Marshal(v)) /\ Marshal(v).kind = v.kind /\ Inside(Marshal(v)) = Inside(v)
      /\ \A p : p = <<>> \/ p \in Inside(v) => NodeAt(Marshal(v), p) = DigitsNode(NodeAt(v, p))
  BY EachOfValue
<1>2. /\ IsValue(Floats(Marshal(v))) /\ Inside(Floats(Marshal(v))) = Inside(v)
      /\ \A p : p = <<>> \/ p \in Inside(v) =>
           NodeAt(Floats(Marshal(v)), p) = FloatNode(NodeAt(Marshal(v), p))
  BY <1>1, EachOfValue
<1>3. \A p : p = <<>> \/ p \in Inside(v) =>
        FloatNode(DigitsNode(NodeAt(v, p))) = FloatNode(NodeAt(v, p))
  BY NodesOfValue, FloatNodes
<1>4. Floats(Marshal(v)) = Floats(v)
  BY <1>1, <1>2, <1>3, EachOfValue, SameValue
<1> QED BY <1>1, <1>4

LEMMA PrefixMeans ==
  ASSUME NEW S, NEW s \in Seq(S), NEW t \in Seq(S)
  PROVE  IsPrefix(s, t) <=> Len(s) <= Len(t) /\ \A i \in 1 .. Len(s) : s[i] = t[i]
<1>1. SubSeq(s, 1, Len(s)) = s
  BY SubSeqFull
<1>2. CASE Len(s) <= Len(t)
  <2>1. \A i \in 1 .. Len(s) : t[i] \in S
    BY <1>2, ElementOfSeq, LenProperties
  <2>2. /\ SubSeq(t, 1, Len(s)) \in Seq(S)
        /\ Len(SubSeq(t, 1, Len(s))) = Len(s)
        /\ \A i \in 1 .. Len(s) : SubSeq(t, 1, Len(s))[i] = t[i]
    BY <2>1, LenProperties, SubSeqProperties
  <2>3. s = SubSeq(t, 1, Len(s)) <=> \A i \in 1 .. Len(s) : s[i] = t[i]
    BY <2>2, SeqEqual
  <2> QED BY <1>1, <1>2, <2>3 DEF IsPrefix
<1> QED BY <1>2 DEF IsPrefix

LEMMA EmptyIsPrefix ==
  ASSUME NEW S, NEW s \in Seq(S), NEW t \in Seq(S)
  PROVE  Len(s) = 0 => IsPrefix(s, t)
<1>1. Len(t) \in Nat
  BY LenProperties
<1>2. Len(s) = 0 => \A i \in 1 .. Len(s) : s[i] = t[i]
  OBVIOUS
<1>3. IsPrefix(s, t) <=> Len(s) <= Len(t) /\ \A i \in 1 .. Len(s) : s[i] = t[i]
  BY PrefixMeans
<1> QED BY <1>1, <1>2, <1>3

\* Two prefixes of a sequence: one is a prefix of the other.
LEMMA PrefixesAreComparable ==
  ASSUME NEW S, NEW s \in Seq(S), NEW t \in Seq(S), NEW r \in Seq(S),
         IsPrefix(s, r), IsPrefix(t, r)
  PROVE  IsPrefix(s, t) \/ IsPrefix(t, s)
<1>1. Len(s) \in Nat /\ Len(t) \in Nat
  BY LenProperties
<1>2. \A i \in 1 .. Len(s) : s[i] = r[i]
  BY PrefixMeans
<1>3. \A i \in 1 .. Len(t) : t[i] = r[i]
  BY PrefixMeans
<1>4. CASE Len(s) <= Len(t)
  BY <1>1, <1>2, <1>3, <1>4, PrefixMeans
<1>5. CASE Len(t) <= Len(s)
  BY <1>1, <1>2, <1>3, <1>5, PrefixMeans
<1> QED BY <1>1, <1>4, <1>5

LEMMA Concatenation ==
  ASSUME NEW S, NEW p \in Seq(S), NEW q \in Seq(S)
  PROVE  /\ p \o q \in Seq(S) /\ IsPrefix(p, p \o q)
         /\ SubSeq(p \o q, Len(p) + 1, Len(p \o q)) = q
         /\ p \o q = p <=> q = <<>>
<1> DEFINE r == p \o q
<1>1. /\ r \in Seq(S) /\ Len(r) = Len(p) + Len(q)
      /\ \A i \in 1 .. Len(p) + Len(q) : r[i] = IF i <= Len(p) THEN p[i] ELSE q[i - Len(p)]
  BY ConcatProperties
<1>2. Len(p) \in Nat /\ Len(q) \in Nat
  BY LenProperties
<1> HIDE DEF r
<1>3. IsPrefix(p, r)
  BY <1>1, <1>2, PrefixMeans
<1>4. SubSeq(r, Len(p) + 1, Len(r)) = q
  <2> DEFINE m == Len(p) + 1
              n == Len(r)
  <2>1. m \in Int /\ n \in Int /\ \A i \in m .. n : r[i] \in S
    BY <1>1, <1>2, ElementOfSeq
  <2> HIDE DEF m, n
  <2>2. /\ SubSeq(r, m, n) \in Seq(S)
        /\ Len(SubSeq(r, m, n)) = IF m <= n THEN n - m + 1 ELSE 0
        /\ \A i \in 1 .. n - m + 1 : SubSeq(r, m, n)[i] = r[m + i - 1]
    BY <2>1, SubSeqProperties
  <2>3. Len(SubSeq(r, m, n)) = Len(q)
    BY <1>1, <1>2, <2>2 DEF m, n
  <2>4. ASSUME NEW i \in 1 .. Len(q) PROVE SubSeq(r, m, n)[i] = q[i]
    <3>1. SubSeq(r, m, n)[i] = r[Len(p) + i]
      BY <1>1, <1>2, <2>2 DEF m, n
    <3>2. r[Len(p) + i] = q[Len(p) + i - Len(p)]
      BY <1>1, <1>2
    <3> QED BY <1>2, <3>1, <3>2
  <2>5. SubSeq(r, m, n) = q
    BY <2>2, <2>3, <2>4, SeqEqual
  <2> QED BY <2>5 DEF m, n
<1>5. p \o q = p <=> q = <<>>
  BY ConcatEqualIffEmpty
<1> QED BY <1>1, <1>3, <1>4, <1>5 DEF r

\* A sequence with the prefix p is p and the rest.
LEMMA Rest ==
  ASSUME NEW S, NEW p \in Seq(S), NEW r \in Seq(S), IsPrefix(p, r)
  PROVE  /\ SubSeq(r, Len(p) + 1, Len(r)) \in Seq(S)
         /\ r = p \o SubSeq(r, Len(p) + 1, Len(r))
<1> DEFINE m == Len(p) + 1
           n == Len(r)
           q == SubSeq(r, m, n)
<1>1. Len(p) \in Nat /\ n \in Nat /\ Len(p) <= n /\ \A i \in 1 .. Len(p) : p[i] = r[i]
  BY LenProperties, PrefixMeans
<1>2. m \in Int /\ n \in Int /\ \A i \in m .. n : r[i] \in S
  BY <1>1, ElementOfSeq
<1>3. /\ q \in Seq(S)
      /\ Len(q) = n - Len(p)
      /\ \A i \in 1 .. n - Len(p) : q[i] = r[Len(p) + i]
  <2> HIDE DEF m, n
  <2>1. /\ q \in Seq(S)
        /\ Len(q) = IF m <= n THEN n - m + 1 ELSE 0
        /\ \A i \in 1 .. n - m + 1 : q[i] = r[m + i - 1]
    BY <1>2, SubSeqProperties
  <2> HIDE DEF q
  <2> QED BY <1>1, <2>1 DEF m, n
<1> HIDE DEF q
<1>4. /\ p \o q \in Seq(S) /\ Len(p \o q) = Len(p) + Len(q)
      /\ \A i \in 1 .. Len(p) + Len(q) :
           (p \o q)[i] = IF i <= Len(p) THEN p[i] ELSE q[i - Len(p)]
  BY <1>3, ConcatProperties
<1>5. Len(r) = Len(p \o q)
  BY <1>1, <1>3, <1>4
<1>6. ASSUME NEW i \in 1 .. Len(r) PROVE r[i] = (p \o q)[i]
  <2>1. CASE i <= Len(p)
    BY <1>1, <1>3, <1>4, <2>1 DEF n
  <2>2. CASE ~(i <= Len(p))
    <3>1. i - Len(p) \in 1 .. n - Len(p) /\ Len(p) + (i - Len(p)) = i
      BY <1>1, <2>2 DEF n
    <3>2. q[i - Len(p)] = r[i]
      BY <1>3, <3>1
    <3>3. (p \o q)[i] = q[i - Len(p)]
      BY <1>1, <1>3, <1>4, <2>2 DEF n
    <3> QED BY <3>2, <3>3
  <2> QED BY <2>1, <2>2
<1>7. r = p \o q
  BY <1>4, <1>5, <1>6, SeqEqual
<1> QED BY <1>3, <1>7 DEF q
-----------------------------------------------------------------------------
(***************************************************************************)
(* Texts.                                                                  *)
(***************************************************************************)
LEMMA DigitTexts ==
  /\ \A i \in 1 .. 10 : Digits[i] \in Symbols
  /\ \A i, j \in 1 .. 10 : Digits[i] = Digits[j] => i = j
<1>1. /\ Digits[1] = "0" /\ Digits[2] = "1" /\ Digits[3] = "2" /\ Digits[4] = "3"
      /\ Digits[5] = "4" /\ Digits[6] = "5" /\ Digits[7] = "6" /\ Digits[8] = "7"
      /\ Digits[9] = "8" /\ Digits[10] = "9"
  BY DEF Digits
<1>2. \A i \in 1 .. 10 : \/ i = 1 \/ i = 2 \/ i = 3 \/ i = 4 \/ i = 5 \/ i = 6 \/ i = 7 \/ i = 8
                          \/ i = 9 \/ i = 10
  OBVIOUS
<1>3. \A i \in 1 .. 10 : Digits[i] \in Symbols
  <2>1. ASSUME NEW i \in 1 .. 10
        PROVE  Digits[i] \in {"0", "1", "2", "3", "4", "5", "6", "7", "8", "9"}
    BY <1>1, <1>2
  <2> QED BY <2>1 DEF Symbols, Written
<1>4. \A i, j \in 1 .. 10 : Digits[i] = Digits[j] => i = j
  BY <1>1, <1>2
<1> QED BY <1>3, <1>4

\* The text of a natural number.
LEMMA DecimalTexts ==
  /\ decimal \in [Nat -> Seq(Symbols)]
  /\ \A n \in Nat : decimal[n] = (IF n < 10 THEN <<>> ELSE decimal[n \div 10]) \o <<Digits[(n % 10) + 1]>>
<1> DEFINE S == Seq(Symbols)
           digit(n) == Digits[(n % 10) + 1]
           start == [n \in Nat |-> <<>> \o <<digit(n)>>]
           B == 0 .. 9
           smaller == [n \in Nat |-> n \div 10]
           step == [x \in Nat \X S |-> x[2] \o <<digit(x[1])>>]
           F(f) == [n \in Nat |-> (IF n < 10 THEN <<>> ELSE f[n \div 10]) \o <<digit(n)>>]
<1>1. \A n \in Nat : digit(n) \in Symbols
  <2>1. \A i \in 1 .. 10 : Digits[i] \in Symbols
    BY DigitTexts
  <2>2. \A n \in Nat : (n % 10) + 1 \in 1 .. 10
    OBVIOUS
  <2> QED BY <2>1, <2>2
<1> HIDE DEF digit
<1>2. \A n \in Nat : <<digit(n)>> \in S
  BY <1>1
<1>3. start \in [Nat -> S]
  <2>1. \A n \in Nat : <<>> \o <<digit(n)>> \in S
    BY <1>2, EmptySeq, ConcatProperties
  <2> HIDE DEF S
  <2> QED BY <2>1
<1>4. step \in [Nat \X S -> S]
  <2>1. ASSUME NEW x \in Nat \X S PROVE x[2] \o <<digit(x[1])>> \in S
    <3>1. x[2] \in S /\ <<digit(x[1])>> \in S
      BY <1>2
    <3> QED BY <3>1, ConcatProperties
  <2> HIDE DEF S
  <2> QED BY <2>1
<1>5. B \in SUBSET Nat /\ Descends(smaller, B)
  BY DEF Descends
<1>6. PICK f \in [Nat -> S] :
        \A n \in Nat : f[n] = IF n \in B THEN start[n] ELSE step[<<n, f[smaller[n]]>>]
  <2> HIDE DEF S, B, start, step, smaller, F
  <2>1. \E f : IsRecursion(f, S, B, start, smaller, step)
    BY <1>3, <1>4, <1>5, RecursionBelow
  <2> QED BY <2>1 DEF IsRecursion
<1>7. ASSUME NEW n \in Nat
      PROVE  f[n] = (IF n < 10 THEN <<>> ELSE f[n \div 10]) \o <<digit(n)>>
  <2>1. CASE n < 10
    <3>1. n \in B /\ start[n] = <<>> \o <<digit(n)>>
      BY <2>1
    <3>2. f[n] = start[n]
      <4> HIDE DEF S, B, start, step, smaller
      <4> QED BY <1>6, <3>1
    <3> QED BY <2>1, <3>1, <3>2
  <2>2. CASE ~(n < 10)
    <3>1. n \notin B /\ smaller[n] = n \div 10 /\ n \div 10 \in Nat
      BY <2>2
    <3>2. f[n \div 10] \in S
      BY <1>6, <3>1
    <3>3. f[n] = step[<<n, f[n \div 10]>>]
      <4> HIDE DEF S, B, start, step
      <4> QED BY <1>6, <3>1
    <3> HIDE DEF S, B
    <3> QED BY <2>2, <3>2, <3>3
  <2> QED BY <2>1, <2>2
<1>8. f = F(f)
  <2>1. f = [n \in Nat |-> f[n]]
    <3> HIDE DEF S, B, start, step, smaller
    <3> QED BY <1>6
  <2>2. \A n \in Nat : f[n] = F(f)[n]
    BY <1>7
  <2>3. F(f) = [n \in Nat |-> F(f)[n]]
    OBVIOUS
  <2> HIDE DEF F
  <2> QED BY <2>1, <2>2, <2>3
<1>9. decimal = F(decimal)
  BY <1>8 DEF decimal, digit
<1>10. \A n \in Nat : decimal[n] = (IF n < 10 THEN <<>> ELSE decimal[n \div 10]) \o <<digit(n)>>
  <2> HIDE DEF S
  <2> QED BY <1>9
<1> HIDE DEF S, B, start, step, smaller, F
<1>11. \A n \in Nat :
         /\ n < 10 => decimal[n] = f[n]
         /\ ~(n < 10) => decimal[n] = decimal[n \div 10] \o <<digit(n)>>
         /\ ~(n < 10) => f[n] = f[n \div 10] \o <<digit(n)>>
  <2> SUFFICES ASSUME NEW n \in Nat
               PROVE  /\ n < 10 => decimal[n] = f[n]
                      /\ ~(n < 10) => decimal[n] = decimal[n \div 10] \o <<digit(n)>>
                      /\ ~(n < 10) => f[n] = f[n \div 10] \o <<digit(n)>>
    OBVIOUS
  <2> DEFINE c == n < 10
  <2>1. decimal[n] = (IF c THEN <<>> ELSE decimal[n \div 10]) \o <<digit(n)>>
    BY <1>10
  <2>2. f[n] = (IF c THEN <<>> ELSE f[n \div 10]) \o <<digit(n)>>
    BY <1>7
  <2>3. (c => decimal[n] = f[n]) /\ (~c => /\ decimal[n] = decimal[n \div 10] \o <<digit(n)>>
                                          /\ f[n] = f[n \div 10] \o <<digit(n)>>)
    <3> HIDE DEF c, digit
    <3> QED BY <2>1, <2>2, Zenon
  <2> QED BY <2>3
<1>12. \A n \in Nat : decimal[n] = f[n]
  <2> DEFINE T == {k \in Nat : \A n \in 0 .. k : decimal[n] = f[n]}
  <2>1. 0 \in T
    <3>1. 0 \in Nat /\ 0 < 10
      OBVIOUS
    <3>2. decimal[0] = f[0]
      BY <1>11, <3>1
    <3> QED BY <3>2
  <2>2. ASSUME NEW k \in Nat, k \in T PROVE k + 1 \in T
    <3>1. k + 1 \in Nat /\ (~(k + 1 < 10) => (k + 1) \div 10 \in 0 .. k)
      OBVIOUS
    <3>2. decimal[k + 1] = f[k + 1]
      <4>1. CASE k + 1 < 10
        BY <1>11, <3>1, <4>1
      <4>2. CASE ~(k + 1 < 10)
        <5>1. decimal[(k + 1) \div 10] = f[(k + 1) \div 10]
          BY <2>2, <3>1, <4>2
        <5> QED BY <1>11, <3>1, <4>2, <5>1
      <4> QED BY <4>1, <4>2
    <3>3. \A n \in 0 .. k : decimal[n] = f[n]
      BY <2>2
    <3> HIDE DEF T
    <3>4. \A n \in 0 .. k + 1 : decimal[n] = f[n]
      BY <3>2, <3>3
    <3> QED BY <3>4 DEF T
  <2>3. Nat \subseteq T
    <3> HIDE DEF T
    <3> QED BY <2>1, <2>2, Induction
  <2> QED BY <2>3
<1>13. decimal \in [Nat -> S]
  <2>1. decimal = [n \in Nat |-> decimal[n]]
    BY <1>9 DEF F
  <2> QED BY <1>6, <1>12, <2>1
<1> QED BY <1>10, <1>13 DEF digit, S

\* Natural numbers have different texts, which start with a digit.
LEMMA DecimalsDiffer ==
  /\ \A m, n \in Nat : decimal[m] = decimal[n] => m = n
  /\ \A n \in Nat : /\ decimal[n] \in Seq(Symbols) /\ decimal[n] # <<>>
                    /\ \E i \in 1 .. 10 : decimal[n][1] = Digits[i]
<1> DEFINE digit(n) == Digits[(n % 10) + 1]
           rest(n) == IF n < 10 THEN <<>> ELSE decimal[n \div 10]
<1>1. \A n \in Nat : decimal[n] \in Seq(Symbols) /\ decimal[n] = rest(n) \o <<digit(n)>>
  BY DecimalTexts
<1>2. \A n \in Nat : (n % 10) + 1 \in 1 .. 10 /\ digit(n) \in Symbols
  <2>1. \A n \in Nat : (n % 10) + 1 \in 1 .. 10
    OBVIOUS
  <2> QED BY <2>1, DigitTexts
<1>3. \A n \in Nat : rest(n) \in Seq(Symbols)
  <2> SUFFICES ASSUME NEW n \in Nat PROVE rest(n) \in Seq(Symbols)
    OBVIOUS
  <2>1. n \div 10 \in Nat
    OBVIOUS
  <2> QED BY <1>1, <2>1, EmptySeq
<1>4. \A n \in Nat : decimal[n] = Append(rest(n), digit(n))
  <2> HIDE DEF digit, rest
  <2> QED BY <1>1, <1>2, <1>3, AppendIsConcat
<1>5. \A n \in Nat : decimal[n] # <<>>
  <2> SUFFICES ASSUME NEW n \in Nat PROVE decimal[n] # <<>>
    OBVIOUS
  <2>1. rest(n) \in Seq(Symbols) /\ digit(n) \in Symbols /\ decimal[n] = Append(rest(n), digit(n))
    BY <1>2, <1>3, <1>4
  <2> HIDE DEF digit, rest
  <2> QED BY <2>1, AppendProperties
<1>6. \A m, n \in Nat : decimal[m] = decimal[n] => rest(m) = rest(n) /\ digit(m) = digit(n)
  <2> SUFFICES ASSUME NEW m \in Nat, NEW n \in Nat, decimal[m] = decimal[n]
               PROVE  rest(m) = rest(n) /\ digit(m) = digit(n)
    OBVIOUS
  <2> HIDE DEF digit, rest
  <2>1. /\ rest(m) \in Seq(Symbols) /\ digit(m) \in Symbols
        /\ rest(n) \in Seq(Symbols) /\ digit(n) \in Symbols
        /\ Append(rest(m), digit(m)) = Append(rest(n), digit(n))
    BY <1>2, <1>3, <1>4
  <2> QED BY <2>1, AppendInjective
<1>7. \A m, n \in Nat : digit(m) = digit(n) => m % 10 = n % 10
  <2> SUFFICES ASSUME NEW m \in Nat, NEW n \in Nat, digit(m) = digit(n) PROVE m % 10 = n % 10
    OBVIOUS
  <2>1. PICK i \in 1 .. 10 : i = (m % 10) + 1
    BY <1>2
  <2>2. PICK j \in 1 .. 10 : j = (n % 10) + 1
    BY <1>2
  <2>3. i = j
    BY <2>1, <2>2, DigitTexts
  <2> QED BY <2>1, <2>2, <2>3
<1> HIDE DEF digit
<1>8. \A k \in Nat : \A m, n \in 0 .. k : decimal[m] = decimal[n] => m = n
  <2> DEFINE T == {k \in Nat : \A m, n \in 0 .. k : decimal[m] = decimal[n] => m = n}
  <2>1. 0 \in T
    OBVIOUS
  <2>2. ASSUME NEW k \in Nat, k \in T PROVE k + 1 \in T
    <3>1. ASSUME NEW m \in 0 .. k + 1, NEW n \in 0 .. k + 1, decimal[m] = decimal[n]
          PROVE  m = n
      <4>1. rest(m) = rest(n) /\ m % 10 = n % 10 /\ m \in Nat /\ n \in Nat
        <5>1. m \in Nat /\ n \in Nat
          OBVIOUS
        <5> HIDE DEF rest
        <5> QED BY <1>6, <1>7, <3>1, <5>1
      <4>2. m \div 10 \in Nat /\ n \div 10 \in Nat
        BY <4>1
      <4>3. decimal[m \div 10] # <<>> /\ decimal[n \div 10] # <<>>
        BY <1>5, <4>2
      <4>4. CASE m < 10 /\ n < 10
        BY <4>1, <4>4
      <4>5. CASE m < 10 /\ ~(n < 10)
        BY <4>1, <4>3, <4>5
      <4>6. CASE ~(m < 10) /\ n < 10
        BY <4>1, <4>3, <4>6
      <4>7. CASE ~(m < 10) /\ ~(n < 10)
        <5>1. m \div 10 \in 0 .. k /\ n \div 10 \in 0 .. k
          BY <4>1, <4>7
        <5>2. decimal[m \div 10] = decimal[n \div 10]
          BY <4>1, <4>7
        <5>3. m \div 10 = n \div 10
          BY <2>2, <5>1, <5>2
        <5> QED BY <4>1, <5>3
      <4> QED BY <4>4, <4>5, <4>6, <4>7
    <3> HIDE DEF rest
    <3> QED BY <3>1
  <2> HIDE DEF T
  <2>3. Nat \subseteq T
    BY <2>1, <2>2, Induction
  <2> QED BY <2>3 DEF T
<1>9. \A m, n \in Nat : decimal[m] = decimal[n] => m = n
  <2> SUFFICES ASSUME NEW m \in Nat, NEW n \in Nat, decimal[m] = decimal[n] PROVE m = n
    OBVIOUS
  <2>1. m + n \in Nat /\ m \in 0 .. m + n /\ n \in 0 .. m + n
    OBVIOUS
  <2> QED BY <1>8, <2>1
<1>10. \A k \in Nat : \A n \in 0 .. k : \E i \in 1 .. 10 : decimal[n][1] = Digits[i]
  <2> DEFINE T == {k \in Nat : \A n \in 0 .. k : \E i \in 1 .. 10 : decimal[n][1] = Digits[i]}
  <2>0. \A n \in Nat : n < 10 => \E i \in 1 .. 10 : decimal[n][1] = Digits[i]
    <3> SUFFICES ASSUME NEW n \in Nat, n < 10 PROVE \E i \in 1 .. 10 : decimal[n][1] = Digits[i]
      OBVIOUS
    <3>1. decimal[n] = Append(<<>>, digit(n))
      BY <1>4
    <3>2. decimal[n][1] = digit(n)
      BY <3>1
    <3> QED BY <1>2, <3>2 DEF digit
  <2>1. 0 \in T
    BY <2>0
  <2>2. ASSUME NEW k \in Nat, k \in T PROVE k + 1 \in T
    <3>1. \E i \in 1 .. 10 : decimal[k + 1][1] = Digits[i]
      <4>1. CASE k + 1 < 10
        BY <2>0, <4>1
      <4>2. CASE ~(k + 1 < 10)
        <5>1. (k + 1) \div 10 \in 0 .. k /\ k + 1 \in Nat /\ (k + 1) \div 10 \in Nat
          BY <4>2
        <5>2. PICK s : s = decimal[(k + 1) \div 10]
          OBVIOUS
        <5>3. decimal[k + 1] = Append(s, digit(k + 1))
          BY <1>4, <4>2, <5>1, <5>2
        <5>4. s \in Seq(Symbols) /\ s # <<>> /\ digit(k + 1) \in Symbols
          BY <1>1, <1>2, <1>5, <5>1, <5>2
        <5>5. 1 \in 1 .. Len(s)
          BY <5>4, EmptySeq, LenProperties
        <5>6. decimal[k + 1][1] = s[1]
          BY <5>3, <5>4, <5>5, AppendProperties
        <5> QED BY <2>2, <5>1, <5>2, <5>6
      <4> QED BY <4>1, <4>2
    <3> QED BY <2>2, <3>1
  <2> HIDE DEF T
  <2>3. Nat \subseteq T
    BY <2>1, <2>2, Induction
  <2> QED BY <2>3 DEF T
<1>11. \A n \in Nat : \E i \in 1 .. 10 : decimal[n][1] = Digits[i]
  BY <1>10
<1> QED BY <1>1, <1>5, <1>9, <1>11

\* Integers have different texts, whose first symbol is a digit or the sign.
LEMMA IntegersDiffer ==
  /\ \A m, n \in Int : Decimal(m) = Decimal(n) => m = n
  /\ \A n \in Int : Decimal(n)[1] = "-" \/ \E i \in 1 .. 10 : Decimal(n)[1] = Digits[i]
<1>0. \A i \in 1 .. 10 : Digits[i] # "-"
  <2>1. /\ Digits[1] = "0" /\ Digits[2] = "1" /\ Digits[3] = "2" /\ Digits[4] = "3"
        /\ Digits[5] = "4" /\ Digits[6] = "5" /\ Digits[7] = "6" /\ Digits[8] = "7"
        /\ Digits[9] = "8" /\ Digits[10] = "9"
    BY DEF Digits
  <2>2. \A i \in 1 .. 10 : \/ i = 1 \/ i = 2 \/ i = 3 \/ i = 4 \/ i = 5 \/ i = 6 \/ i = 7 \/ i = 8
                           \/ i = 9 \/ i = 10
    OBVIOUS
  <2> QED BY <2>1, <2>2
<1>1. "-" \in Symbols
  <2>1. "-" \in Written
    BY DEF Written
  <2> QED BY <2>1 DEF Symbols
<1>2. \A n \in Int : n < 0 => /\ -n \in Nat /\ Decimal(n) = <<"-">> \o decimal[-n]
                              /\ Decimal(n)[1] = "-"
  <2> SUFFICES ASSUME NEW n \in Int, n < 0
               PROVE  -n \in Nat /\ Decimal(n) = <<"-">> \o decimal[-n] /\ Decimal(n)[1] = "-"
    OBVIOUS
  <2>1. -n \in Nat /\ Decimal(n) = <<"-">> \o decimal[-n]
    BY DEF Decimal
  <2>2. PICK d \in Seq(Symbols) : d = decimal[-n]
    BY <2>1, DecimalsDiffer
  <2>3. (<<"-">> \o d)[1] = "-"
    BY <2>2
  <2> QED BY <2>1, <2>2, <2>3
<1>3. \A n \in Nat : Decimal(n) = decimal[n] /\ Decimal(n)[1] # "-"
                     /\ \E i \in 1 .. 10 : Decimal(n)[1] = Digits[i]
  <2> SUFFICES ASSUME NEW n \in Nat
               PROVE  /\ Decimal(n) = decimal[n] /\ Decimal(n)[1] # "-"
                      /\ \E i \in 1 .. 10 : Decimal(n)[1] = Digits[i]
    OBVIOUS
  <2>1. Decimal(n) = decimal[n]
    BY DEF Decimal
  <2>2. \E i \in 1 .. 10 : decimal[n][1] = Digits[i]
    BY DecimalsDiffer
  <2> QED BY <1>0, <2>1, <2>2
<1>4. \A a, b \in Seq(Symbols) : <<"-">> \o a = <<"-">> \o b => a = b
  <2> SUFFICES ASSUME NEW a \in Seq(Symbols), NEW b \in Seq(Symbols), <<"-">> \o a = <<"-">> \o b
               PROVE  a = b
    OBVIOUS
  <2>1. <<"-">> \in Seq(Symbols) /\ Len(<<"-">>) = 1
    <3>1. \A x \in Symbols : <<x>> \in Seq(Symbols) /\ Len(<<x>>) = 1
      OBVIOUS
    <3> QED BY <1>1, <3>1
  <2>2. PICK sign \in Seq(Symbols) : sign = <<"-">>
    BY <2>1
  <2>3. SubSeq(sign \o a, Len(sign) + 1, Len(sign \o a)) = a
        /\ SubSeq(sign \o b, Len(sign) + 1, Len(sign \o b)) = b
    BY Concatenation
  <2> QED BY <2>2, <2>3
<1>5. ASSUME NEW m \in Int, NEW n \in Int, Decimal(m) = Decimal(n) PROVE m = n
  <2>1. CASE m < 0 /\ n < 0
    <3>1. -m \in Nat /\ -n \in Nat /\ <<"-">> \o decimal[-m] = <<"-">> \o decimal[-n]
      BY <1>2, <1>5, <2>1
    <3>2. decimal[-m] \in Seq(Symbols) /\ decimal[-n] \in Seq(Symbols)
      BY <3>1, DecimalsDiffer
    <3>3. decimal[-m] = decimal[-n]
      BY <1>4, <3>1, <3>2
    <3>4. -m = -n
      BY <3>1, <3>3, DecimalsDiffer
    <3> QED BY <3>4
  <2>2. CASE m \in Nat /\ n \in Nat
    BY <1>3, <1>5, <2>2, DecimalsDiffer
  <2>3. CASE m < 0 /\ n \in Nat
    BY <1>2, <1>3, <1>5, <2>3
  <2>4. CASE m \in Nat /\ n < 0
    BY <1>2, <1>3, <1>5, <2>4
  <2> QED BY <2>1, <2>2, <2>3, <2>4
<1>6. \A n \in Int : Decimal(n)[1] = "-" \/ \E i \in 1 .. 10 : Decimal(n)[1] = Digits[i]
  <2> SUFFICES ASSUME NEW n \in Int
               PROVE  Decimal(n)[1] = "-" \/ \E i \in 1 .. 10 : Decimal(n)[1] = Digits[i]
    OBVIOUS
  <2> QED BY <1>2, <1>3
<1> QED BY <1>5, <1>6

LEMMA Flattening ==
  ASSUME NEW S, NEW seqs \in Seq(Seq(S)), seqs # <<>>
  PROVE  /\ FlattenSeq(seqs) \in Seq(S)
         /\ seqs[Len(seqs)] # <<>> => FlattenSeq(seqs) # <<>>
<1> DEFINE n == Len(seqs)
           F(f) == [i \in 1 .. n |-> IF i = 1 THEN seqs[i] ELSE f[i - 1] \o seqs[i]]
           joined == [x \in Nat \X Seq(S) |-> IF x[1] + 2 <= n THEN x[2] \o seqs[x[1] + 2] ELSE x[2]]
           flatten == CHOOSE f : f = F(f)
<1>1. n \in Nat /\ n >= 1 /\ \A i \in 1 .. n : seqs[i] \in Seq(S)
  BY EmptySeq, LenProperties, ElementOfSeq
<1>2. joined \in [Nat \X Seq(S) -> Seq(S)] /\ seqs[1] \in Seq(S)
  <2>1. ASSUME NEW x \in Nat \X Seq(S)
        PROVE  (IF x[1] + 2 <= n THEN x[2] \o seqs[x[1] + 2] ELSE x[2]) \in Seq(S)
    <3>1. CASE x[1] + 2 <= n
      <4>1. x[1] + 2 \in 1 .. n /\ x[2] \in Seq(S)
        BY <1>1, <3>1
      <4>2. x[2] \o seqs[x[1] + 2] \in Seq(S)
        BY <1>1, <4>1, ConcatProperties
      <4> QED BY <3>1, <4>2
    <3> QED BY <3>1
  <2> QED BY <1>1, <2>1
<1>3. PICK g : IsIteration(g, Seq(S), seqs[1], joined)
  <2> HIDE DEF joined
  <2> QED BY <1>2, Recursion
<1>4. /\ g \in [Nat -> Seq(S)] /\ g[0] = seqs[1]
      /\ \A k \in Nat : k + 2 <= n => g[k + 1] = g[k] \o seqs[k + 2]
  BY <1>3 DEF IsIteration
<1> DEFINE h == [i \in 1 .. n |-> g[i - 1]]
<1>5. h = F(h)
  <2>1. ASSUME NEW i \in 1 .. n
        PROVE  h[i] = IF i = 1 THEN seqs[i] ELSE h[i - 1] \o seqs[i]
    <3>1. CASE i = 1
      BY <1>1, <1>4, <3>1
    <3>2. CASE i # 1
      <4>1. i - 2 \in Nat /\ (i - 2) + 2 = i /\ (i - 2) + 1 = i - 1 /\ (i - 2) + 2 <= n
            /\ i - 1 \in 1 .. n /\ (i - 1) - 1 = i - 2
        BY <1>1, <3>2
      <4>2. g[(i - 2) + 1] = g[i - 2] \o seqs[(i - 2) + 2]
        BY <1>4, <4>1
      <4>3. h[i - 1] = g[i - 2] /\ h[i] = g[i - 1]
        BY <4>1
      <4> HIDE DEF h
      <4> QED BY <3>2, <4>1, <4>2, <4>3
    <3> QED BY <3>1, <3>2
  <2> QED BY <2>1
<1>6. flatten = F(flatten)
  <2>1. \E f : f = F(f)
    BY <1>5
  <2> HIDE DEF F
  <2> QED BY <2>1
<1>7. FlattenSeq(seqs) = flatten[n]
  BY <1>1 DEF FlattenSeq
<1>8. \A i \in 1 .. n : flatten[i] = IF i = 1 THEN seqs[i] ELSE flatten[i - 1] \o seqs[i]
  <2> HIDE DEF flatten
  <2> QED BY <1>6
<1> HIDE DEF flatten
<1>9. \A i \in 1 .. n : flatten[i] \in Seq(S)
  <2> DEFINE T == {k \in Nat : k + 1 <= n => flatten[k + 1] \in Seq(S)}
  <2>1. 0 \in T
    BY <1>1, <1>8
  <2>2. ASSUME NEW k \in Nat, k \in T PROVE k + 1 \in T
    <3>1. SUFFICES ASSUME k + 1 + 1 <= n PROVE flatten[k + 1 + 1] \in Seq(S)
      OBVIOUS
    <3>2. k + 1 + 1 \in 1 .. n /\ k + 1 + 1 # 1 /\ (k + 1 + 1) - 1 = k + 1 /\ k + 1 <= n
      BY <1>1, <3>1
    <3>3. flatten[k + 1 + 1] = flatten[k + 1] \o seqs[k + 1 + 1]
      BY <1>8, <3>2
    <3>4. flatten[k + 1] \in Seq(S) /\ seqs[k + 1 + 1] \in Seq(S)
      BY <1>1, <2>2, <3>2
    <3> QED BY <3>3, <3>4, ConcatProperties
  <2>3. Nat \subseteq T
    <3> HIDE DEF T
    <3> QED BY <2>1, <2>2, Induction
  <2>4. ASSUME NEW i \in 1 .. n PROVE flatten[i] \in Seq(S)
    <3>1. i - 1 \in Nat /\ (i - 1) + 1 = i /\ (i - 1) + 1 <= n
      BY <1>1
    <3> QED BY <2>3, <3>1
  <2> QED BY <2>4
<1>10. seqs[n] # <<>> => flatten[n] # <<>>
  <2>1. n \in 1 .. n
    BY <1>1
  <2>2. CASE n = 1
    BY <1>8, <2>1, <2>2
  <2>3. CASE n # 1
    <3>0. n - 1 \in 1 .. n
      <4> HIDE DEF n
      <4> QED BY <1>1, <2>3
    <3>1. flatten[n] = flatten[n - 1] \o seqs[n]
      BY <1>8, <2>1, <2>3
    <3>2. flatten[n - 1] \in Seq(S) /\ seqs[n] \in Seq(S)
      BY <1>1, <1>9, <2>1, <3>0
    <3> QED BY <3>1, <3>2, ConcatEqualIffEmpty
  <2> QED BY <2>2, <2>3
<1> QED BY <1>1, <1>7, <1>9, <1>10

LEMMA FlatTexts ==
  ASSUME NEW S, NEW seqs \in Seq(Seq(S))
  PROVE  FlattenSeq(seqs) \in Seq(S)
<1>1. CASE seqs = <<>>
  <2>1. FlattenSeq(seqs) = <<>>
    BY <1>1, EmptySeq DEF FlattenSeq
  <2> QED BY <2>1, EmptySeq
<1> QED BY <1>1, Flattening

LEMMA JoinedTexts ==
  ASSUME NEW texts \in Seq(Seq(Symbols)), NEW separator \in Seq(Symbols)
  PROVE  Join(texts, separator) \in Seq(Symbols)
<1> DEFINE parts == [i \in DOMAIN texts |-> IF i = 1 THEN texts[i] ELSE separator \o texts[i]]
<1>1. DOMAIN texts = 1 .. Len(texts) /\ Len(texts) \in Nat
      /\ \A i \in DOMAIN texts : texts[i] \in Seq(Symbols)
  BY LenProperties, ElementOfSeq
<1>2. \A i \in DOMAIN texts : parts[i] \in Seq(Symbols)
  <2>1. \A t \in Seq(Symbols) : separator \o t \in Seq(Symbols)
    BY ConcatProperties
  <2> QED BY <1>1, <2>1
<1>3. parts \in Seq(Seq(Symbols))
  BY <1>1, <1>2
<1> QED BY <1>3, FlatTexts DEF Join

LEMMA BracketedTexts ==
  ASSUME NEW texts \in Seq(Seq(Symbols)), NEW kind
  PROVE  Bracketed(kind, texts) \in Seq(Symbols)
<1>1. "map" \in Symbols /\ "[" \in Symbols /\ "]" \in Symbols /\ " " \in Symbols
  BY DEF Symbols, Written
<1>2. \A a, b \in Symbols : <<a>> \in Seq(Symbols) /\ <<a, b>> \in Seq(Symbols)
  OBVIOUS
<1>3. (IF kind = "map" THEN <<"map", "[">> ELSE <<"[">>) \in Seq(Symbols)
      /\ <<"]">> \in Seq(Symbols) /\ <<" ">> \in Seq(Symbols)
  BY <1>1, <1>2
<1>4. Join(texts, <<" ">>) \in Seq(Symbols)
  BY <1>3, JoinedTexts
<1> QED BY <1>3, <1>4, ConcatProperties DEF Bracketed

LEMMA IntegerTexts ==
  ASSUME NEW n \in Int
  PROVE  Decimal(n) \in Seq(Symbols)
<1>1. CASE n < 0
  <2>1. -n \in Nat /\ Decimal(n) = <<"-">> \o decimal[-n]
    BY <1>1 DEF Decimal
  <2>2. "-" \in Symbols
    BY DEF Symbols, Written
  <2>3. <<"-">> \in Seq(Symbols) /\ decimal[-n] \in Seq(Symbols)
    BY <2>1, <2>2, DecimalTexts
  <2> QED BY <2>1, <2>3, ConcatProperties
<1>2. CASE ~(n < 0)
  BY <1>2, DecimalTexts DEF Decimal
<1> QED BY <1>1, <1>2

LEMMA ScalarTexts ==
  ASSUME NEW x, IsScalar(x) \/ x \in [kind : Containers]
  PROVE  ScalarText(x) \in Seq(Symbols)
<1>1. \A a \in Written : <<a>> \in Seq(Symbols)
  BY DEF Symbols
<1>2. CASE x.kind = "number"
  <2>1. x.n \in Int
    BY <1>2 DEF IsScalar, Containers
  <2>2. (IF HasExponent(x) THEN <<"e+">> ELSE <<>>) \in Seq(Symbols)
    BY <1>1, EmptySeq DEF Written
  <2>3. ScalarText(x) = Decimal(x.n) \o (IF HasExponent(x) THEN <<"e+">> ELSE <<>>)
    BY <1>2 DEF ScalarText
  <2> QED BY <2>1, <2>2, <2>3, IntegerTexts, ConcatProperties
<1>3. CASE x.kind = "string"
  BY <1>3 DEF IsScalar, Containers, ScalarText
<1>4. CASE x.kind = "null"
  <2>1. ScalarText(x) = <<"<nil>">> /\ "<nil>" \in Written
    BY <1>4 DEF ScalarText, Written
  <2> QED BY <1>1, <2>1
<1>5. CASE x.kind = "bool"
  <2>1. ScalarText(x) = <<"true">> \/ ScalarText(x) = <<"false">>
    BY <1>5 DEF ScalarText
  <2>2. "true" \in Written /\ "false" \in Written
    BY DEF Written
  <2> QED BY <1>1, <2>1, <2>2
<1>6. CASE x.kind \in Containers
  <2>1. ScalarText(x) = <<>>
    BY <1>6 DEF ScalarText, Containers
  <2> QED BY <2>1, EmptySeq
<1> QED BY <1>2, <1>3, <1>4, <1>5, <1>6 DEF IsScalar

\* The members of a slice or a map, in an order.
LEMMA OrderedMembers ==
  ASSUME NEW nodes, DOMAIN nodes \subseteq Seq(Step), IsFiniteSet(DOMAIN nodes),
         NEW p \in DOMAIN nodes
  PROVE  InOrder(nodes, p) \in Seq({q \in DOMAIN nodes : q # <<>>})
<1> DEFINE members == {q \in DOMAIN nodes : Len(q) = Len(p) + 1 /\ IsPrefix(p, q)}
           byIndex == [i \in 1 .. Cardinality(members) |-> Append(p, ByIndex(i - 1))]
           N == {q \in DOMAIN nodes : q # <<>>}
<1>1. members \subseteq N
  <2>1. Len(p) \in Nat /\ Len(<<>>) = 0
    BY LenProperties, EmptySeq
  <2> QED BY <2>1
<1>2. IsFiniteSet(members)
  <2>1. members \subseteq DOMAIN nodes
    OBVIOUS
  <2> HIDE DEF members
  <2> QED BY <2>1, FS_Subset
<1> HIDE DEF members
<1>3. Cardinality(members) \in Nat /\ ExistsBijection(1 .. Cardinality(members), members)
  BY <1>2, FS_CardinalityType
<1>4. CASE ToSet(byIndex) = members
  <2>1. \A i \in 1 .. Cardinality(members) : byIndex[i] \in N
    BY <1>1, <1>4 DEF ToSet
  <2>2. byIndex \in Seq(N)
    <3>1. PICK n \in Nat : n = Cardinality(members)
      BY <1>3
    <3>2. DOMAIN byIndex = 1 .. n /\ byIndex = [i \in DOMAIN byIndex |-> byIndex[i]]
      BY <3>1
    <3>3. \A i \in 1 .. n : byIndex[i] \in N
      BY <2>1, <3>1
    <3> HIDE DEF byIndex, N
    <3>4. byIndex \in [1 .. n -> N]
      BY <3>2, <3>3
    <3> QED BY <3>4
  <2>3. InOrder(nodes, p) = byIndex
    BY <1>4 DEF InOrder, members
  <2> QED BY <2>2, <2>3
<1>5. CASE ToSet(byIndex) # members
  <2>1. PICK f \in [1 .. Cardinality(members) -> members] : IsInjective(f)
    <3>1. PICK f \in Bijection(1 .. Cardinality(members), members) : TRUE
      BY <1>3 DEF ExistsBijection
    <3> QED BY <3>1, ZenonT(30) DEF Bijection, Injection
  <2>2. SetToSeq(members) \in [1 .. Cardinality(members) -> members]
    <3>1. PICK S : S = [1 .. Cardinality(members) -> members]
      OBVIOUS
    <3>2. \E g \in S : IsInjective(g)
      BY <2>1, <3>1
    <3>3. (CHOOSE g \in S : IsInjective(g)) \in S
      BY <3>2
    <3> QED BY <3>1, <3>3 DEF SetToSeq
  <2>3. SetToSeq(members) \in Seq(N)
    <3>1. members \subseteq N
      BY <1>1
    <3>2. PICK n \in Nat : n = Cardinality(members)
      BY <1>3
    <3> HIDE DEF N
    <3>3. SetToSeq(members) \in [1 .. n -> N]
      BY <2>2, <3>1, <3>2
    <3> QED BY <3>3
  <2>4. InOrder(nodes, p) = SetToSeq(members)
    BY <1>5 DEF InOrder, members
  <2> QED BY <2>3, <2>4
<1> QED BY <1>4, <1>5

LEMMA LabelTexts ==
  ASSUME NEW p \in Seq(Step), p # <<>>
  PROVE  Label(p) \in Seq(Symbols)
<1>1. Last(p) \in Step
  <2>1. Len(p) \in 1 .. Len(p)
    BY EmptySeq, LenProperties
  <2> QED BY <2>1, ElementOfSeq DEF Last
<1>2. CASE "key" \in DOMAIN Last(p)
  <2>1. Last(p) \in [key : STRING]
    BY <1>1, <1>2 DEF Step
  <2>2. Last(p).key \in Symbols /\ ":" \in Symbols
    BY <2>1 DEF Symbols, Written
  <2>3. \A a, b \in Symbols : <<a, b>> \in Seq(Symbols)
    OBVIOUS
  <2> QED BY <1>2, <2>2, <2>3 DEF Label
<1>3. CASE "key" \notin DOMAIN Last(p)
  BY <1>3, EmptySeq DEF Label
<1> QED BY <1>2, <1>3

\* What is printed of a slice or a map, however deep.
LEMMA NodesTexts ==
  ASSUME NEW nodes, DOMAIN nodes \subseteq Seq(Step), IsFiniteSet(DOMAIN nodes),
         <<>> \in DOMAIN nodes, \A p \in DOMAIN nodes : nodes[p].text \in Seq(Symbols)
  PROVE  NodesText(nodes) \in Seq(Symbols)
<1> DEFINE S == [DOMAIN nodes -> Seq(Symbols)]
           M(p) == InOrder(nodes, p)
           Inner(x, p) == Bracketed(nodes[p].kind, [i \in DOMAIN M(p) |-> Label(M(p)[i]) \o x[M(p)[i]]])
           Outer(x, p) == IF nodes[p].kind \notin Containers THEN nodes[p].text ELSE Inner(x, p)
           leaves == [p \in DOMAIN nodes |-> nodes[p].text]
           step == [x \in Nat \X S |-> [p \in DOMAIN nodes |-> Outer(x[2], p)]]
           F(f) == [n \in Nat |-> [p \in DOMAIN nodes |->
                     IF n = 0 \/ nodes[p].kind \notin Containers THEN nodes[p].text
                     ELSE Inner(f[n - 1], p)]]
           down == CHOOSE f : f = F(f)
<1>1. leaves \in S
  OBVIOUS
<1>2. ASSUME NEW x \in S, NEW p \in DOMAIN nodes PROVE Outer(x, p) \in Seq(Symbols)
  <2>1. M(p) \in Seq({q \in DOMAIN nodes : q # <<>>})
    BY OrderedMembers
  <2> HIDE DEF M
  <2>2. \A i \in DOMAIN M(p) : M(p)[i] \in {q \in DOMAIN nodes : q # <<>>}
    BY <2>1, ElementOfSeq, LenProperties
  <2>3. \A i \in DOMAIN M(p) : Label(M(p)[i]) \o x[M(p)[i]] \in Seq(Symbols)
    <3> SUFFICES ASSUME NEW i \in DOMAIN M(p) PROVE Label(M(p)[i]) \o x[M(p)[i]] \in Seq(Symbols)
      OBVIOUS
    <3>1. M(p)[i] \in DOMAIN nodes /\ M(p)[i] \in Seq(Step) /\ M(p)[i] # <<>>
      BY <2>2
    <3>2. Label(M(p)[i]) \in Seq(Symbols) /\ x[M(p)[i]] \in Seq(Symbols)
      BY <3>1, LabelTexts
    <3> QED BY <3>2, ConcatProperties
  <2>4. DOMAIN M(p) = 1 .. Len(M(p)) /\ Len(M(p)) \in Nat
    BY <2>1, LenProperties
  <2>5. [i \in DOMAIN M(p) |-> Label(M(p)[i]) \o x[M(p)[i]]] \in Seq(Seq(Symbols))
    BY <2>3, <2>4
  <2>6. Inner(x, p) \in Seq(Symbols)
    BY <2>5, BracketedTexts
  <2> HIDE DEF Inner
  <2> QED BY <2>6
<1> HIDE DEF Outer
<1>3. step \in [Nat \X S -> S]
  <2>1. \A x \in Nat \X S : [p \in DOMAIN nodes |-> Outer(x[2], p)] \in S
    BY <1>2
  <2> QED BY <2>1
<1> HIDE DEF S, leaves, step
<1>4. PICK g : IsIteration(g, S, leaves, step)
  BY <1>1, <1>3, Recursion
<1>5. g \in [Nat -> S] /\ g[0] = leaves
      /\ \A n \in Nat : g[n + 1] = [p \in DOMAIN nodes |-> Outer(g[n], p)]
  <2>1. g \in [Nat -> S] /\ g[0] = leaves /\ \A n \in Nat : g[n + 1] = step[<<n, g[n]>>]
    BY <1>4 DEF IsIteration
  <2>2. \A n \in Nat : <<n, g[n]>> \in Nat \X S /\ <<n, g[n]>>[2] = g[n]
    BY <2>1
  <2>3. \A n \in Nat : step[<<n, g[n]>>] = [p \in DOMAIN nodes |-> Outer(g[n], p)]
    BY <2>2 DEF step
  <2> QED BY <2>1, <2>3
<1>6. g = F(g)
  <2>1. ASSUME NEW n \in Nat
        PROVE  g[n] = [p \in DOMAIN nodes |->
                         IF n = 0 \/ nodes[p].kind \notin Containers THEN nodes[p].text
                         ELSE Inner(g[n - 1], p)]
    <3> HIDE DEF Inner
    <3>1. CASE n = 0
      BY <1>5, <3>1 DEF leaves
    <3>2. CASE n # 0
      <4>1. n - 1 \in Nat /\ (n - 1) + 1 = n
        BY <3>2
      <4>2. g[n] = [p \in DOMAIN nodes |-> Outer(g[n - 1], p)]
        BY <1>5, <4>1
      <4> QED BY <3>2, <4>2 DEF Outer
    <3> QED BY <3>1, <3>2
  <2> HIDE DEF Inner
  <2> QED BY <1>5, <2>1
<1>7. down = F(down)
  <2>1. \E f : f = F(f)
    BY <1>6
  <2> HIDE DEF F
  <2> QED BY <2>1
<1>8. NodesText(nodes) = down[Cardinality(DOMAIN nodes)][<<>>]
  BY DEF NodesText
<1> HIDE DEF down
<1>9. \A n \in Nat : down[n] = [p \in DOMAIN nodes |->
                                  IF n = 0 \/ nodes[p].kind \notin Containers THEN nodes[p].text
                                  ELSE Inner(down[n - 1], p)]
  <2> HIDE DEF Inner
  <2> QED BY <1>7
<1> DEFINE T == {n \in Nat : down[n] \in S}
<1>10. 0 \in T
  <2>1. down[0] = leaves
    <3> HIDE DEF Inner
    <3> QED BY <1>9 DEF leaves
  <2> QED BY <1>1, <2>1
<1>11. ASSUME NEW n \in Nat, n \in T PROVE n + 1 \in T
  <2>1. n + 1 \in Nat /\ n + 1 # 0 /\ (n + 1) - 1 = n
    OBVIOUS
  <2>2. down[n + 1] = [p \in DOMAIN nodes |-> Outer(down[n], p)]
    <3> HIDE DEF Inner
    <3> QED BY <1>9, <2>1 DEF Outer
  <2>3. down[n + 1] \in S
    BY <1>2, <1>11, <2>2 DEF S
  <2> QED BY <2>1, <2>3
<1>12. Nat \subseteq T
  <2> HIDE DEF T
  <2> QED BY <1>10, <1>11, Induction
<1>13. Cardinality(DOMAIN nodes) \in Nat
  BY FS_CardinalityType
<1> QED BY <1>8, <1>12, <1>13 DEF S

\* What is printed at the positions of a slice or a map.
LEMMA PrintedTexts ==
  ASSUME NEW v, IsValue(v), IsContainer(v)
  PROVE  /\ DOMAIN PrintedNodes(v) \subseteq Seq(Step) /\ IsFiniteSet(DOMAIN PrintedNodes(v))
         /\ <<>> \in DOMAIN PrintedNodes(v)
         /\ \A p \in DOMAIN PrintedNodes(v) : PrintedNodes(v)[p].text \in Seq(Symbols)
<1>1. DOMAIN PrintedNodes(v) = Inside(v) \cup {<<>>}
  BY DEF PrintedNodes, Inside
<1>2. Inside(v) \subseteq Seq(Step) /\ IsFiniteSet(Inside(v))
  BY InsideOfValue DEF IsValue, Inside
<1>3. IsFiniteSet(Inside(v) \cup {<<>>})
  BY <1>2, FS_AddElement
<1>4. ASSUME NEW p \in DOMAIN PrintedNodes(v) PROVE PrintedNodes(v)[p].text \in Seq(Symbols)
  <2>1. PrintedNodes(v)[p].text = ScalarText(NodeAt(v, p))
    BY <1>1, <1>4 DEF PrintedNodes, Inside
  <2>2. IsScalar(NodeAt(v, p)) \/ NodeAt(v, p) \in [kind : Containers]
    BY <1>1, NodesOfValue
  <2> QED BY <2>1, <2>2, ScalarTexts
<1> QED BY <1>1, <1>2, <1>3, <1>4, EmptySeq

\* The text of a value is a sequence of symbols.
LEMMA TextOfValue ==
  ASSUME NEW v, IsValue(v)
  PROVE  Text(v) \in Seq(Symbols)
<1>1. CASE IsContainer(v)
  BY <1>1, PrintedTexts, NodesTexts DEF Text
<1>2. CASE ~IsContainer(v)
  BY <1>2, ScalarTexts DEF Text, IsValue
<1> QED BY <1>1, <1>2

\* A text of digits is the text of a number.
LEMMA DigitsAreANumber ==
  ASSUME NEW s, Len(s) \in Nat
  PROVE  FromDigits(s) \in Nat
<1> DEFINE step == [x \in Nat \X Nat |-> 10 * x[2] + Digit(s[x[1] + 1])]
           F(f) == [n \in Nat |-> IF n = 0 THEN 0 ELSE 10 * f[n - 1] + Digit(s[n])]
           upto == CHOOSE f : f = F(f)
<1>1. \A d : Digit(d) \in Nat
  <2> SUFFICES ASSUME NEW d PROVE Digit(d) \in Nat
    OBVIOUS
  <2>1. \E n \in 0 .. 9 : d \in ToSet(Digits) => Digits[n + 1] = d
    <3>1. CASE d \in ToSet(Digits)
      <4>1. DOMAIN Digits = 1 .. 10
        BY DEF Digits
      <4>2. PICK i \in 1 .. 10 : Digits[i] = d
        BY <3>1, <4>1 DEF ToSet
      <4>3. i - 1 \in 0 .. 9 /\ (i - 1) + 1 = i
        OBVIOUS
      <4> QED BY <4>2, <4>3
    <3>2. CASE d \notin ToSet(Digits)
      BY <3>2, 0 \in 0 .. 9
    <3> QED BY <3>1, <3>2
  <2>2. Digit(d) \in 0 .. 9
    BY <2>1 DEF Digit
  <2> QED BY <2>2
<1>2. step \in [Nat \X Nat -> Nat]
  BY <1>1
<1>3. PICK g \in [Nat -> Nat] : g[0] = 0 /\ \A n \in Nat : g[n + 1] = step[<<n, g[n]>>]
  <2>1. 0 \in Nat
    OBVIOUS
  <2> HIDE DEF step
  <2>2. \E g : IsIteration(g, Nat, 0, step)
    BY <1>2, <2>1, Recursion
  <2> QED BY <2>2 DEF IsIteration
<1>4. \A n \in Nat : g[n + 1] = 10 * g[n] + Digit(s[n + 1])
  BY <1>3
<1>5. ASSUME NEW n \in Nat PROVE g[n] = IF n = 0 THEN 0 ELSE 10 * g[n - 1] + Digit(s[n])
  <2>1. CASE n = 0
    BY <1>3, <2>1
  <2>2. CASE n # 0
    <3>1. n - 1 \in Nat /\ (n - 1) + 1 = n
      BY <2>2
    <3>2. g[(n - 1) + 1] = 10 * g[n - 1] + Digit(s[(n - 1) + 1])
      BY <1>4, <3>1
    <3> QED BY <2>2, <3>1, <3>2
  <2> QED BY <2>1, <2>2
<1>6. g = F(g)
  BY <1>3, <1>5
<1>7. upto = F(upto)
  <2>1. \E f : f = F(f)
    BY <1>6
  <2> HIDE DEF F
  <2> QED BY <2>1
<1>8. FromDigits(s) = upto[Len(s)]
  BY DEF FromDigits
<1> HIDE DEF upto
<1>9. \A n \in Nat : upto[n] = IF n = 0 THEN 0 ELSE 10 * upto[n - 1] + Digit(s[n])
  BY <1>7
<1>10. Nat \subseteq {n \in Nat : upto[n] \in Nat}
  <2> DEFINE T == {n \in Nat : upto[n] \in Nat}
  <2>1. 0 \in T
    BY <1>9
  <2>2. ASSUME NEW n \in Nat, n \in T PROVE n + 1 \in T
    <3>1. n + 1 \in Nat /\ n + 1 # 0 /\ (n + 1) - 1 = n
      OBVIOUS
    <3>2. upto[n + 1] = 10 * upto[n] + Digit(s[n + 1])
      BY <1>9, <3>1
    <3>3. upto[n] \in Nat /\ Digit(s[n + 1]) \in Nat
      BY <1>1, <2>2
    <3>4. \A a, b \in Nat : 10 * a + b \in Nat
      OBVIOUS
    <3>5. upto[n + 1] \in Nat
      BY <3>2, <3>3, <3>4
    <3> QED BY <3>1, <3>5
  <2> HIDE DEF T
  <2>3. Nat \subseteq T
    BY <2>1, <2>2, Induction
  <2> QED BY <2>3 DEF T
<1> QED BY <1>8, <1>10

LEMMA ParsedNumbers ==
  ASSUME NEW s \in Seq(Symbols), NEW x \in ParseFloat(s)
  PROVE  x \in Int
<1>1. Unsigned(s) \in Seq(Symbols)
  BY DEF Unsigned
<1>2. Unmarked(Unsigned(s)) \in Seq(Symbols)
  <2>1. \A t \in Seq(Symbols) : t # <<>> => SubSeq(t, 1, Len(t) - 1) \in Seq(Symbols)
    OBVIOUS
  <2> QED BY <1>1, <2>1 DEF Unmarked, Front
<1>3. PICK n \in Nat : n = FromDigits(Unmarked(Unsigned(s)))
  BY <1>2, LenProperties, DigitsAreANumber
<1>4. x = Nearest(IF Unsigned(s) = s THEN n ELSE -n)
  BY <1>3 DEF ParseFloat
<1>5. (IF Unsigned(s) = s THEN n ELSE -n) \in Int
  OBVIOUS
<1> QED BY <1>4, <1>5, NearestIdempotent
-----------------------------------------------------------------------------
(***************************************************************************)
(* Paths.                                                                  *)
(***************************************************************************)
LEMMA PartPositions ==
  ASSUME NEW part \in Parts
  PROVE  /\ PartSteps(part) \in Seq(Step)
         /\ part # Part("", NoIndex) /\ part.index # BadIndex => PartSteps(part) # <<>>
<1>1. part.key \in STRING /\ (part.index \in Nat \/ part.index = -1 \/ part.index = -2)
      /\ part = [key |-> part.key, index |-> part.index]
  BY DEF Parts, NoIndex, BadIndex
<1>2. ByKey(part.key) \in Step
  BY <1>1 DEF ByKey, Step
<1>3. CASE part.index < 0
  <2>1. part.key = "" => PartSteps(part) = <<>> \o <<>>
    BY <1>3 DEF PartSteps
  <2>2. part.key # "" => PartSteps(part) = <<ByKey(part.key)>> \o <<>>
    BY <1>3 DEF PartSteps
  <2>3. <<>> \o <<>> \in Seq(Step)
    BY EmptySeq, ConcatProperties
  <2>4. <<ByKey(part.key)>> \in Seq(Step) /\ <<ByKey(part.key)>> # <<>>
    BY <1>2
  <2>5. <<ByKey(part.key)>> \o <<>> = <<ByKey(part.key)>>
    BY <2>4, ConcatEmptySeq
  <2>6. part # Part("", NoIndex) /\ part.index # BadIndex => part.key # ""
    <3>1. part.index = -1 \/ part.index = -2
      BY <1>1, <1>3
    <3>2. part.key = "" /\ part.index = -1 => part = Part("", NoIndex)
      BY <1>1 DEF Part, NoIndex
    <3> QED BY <3>1, <3>2 DEF BadIndex
  <2> QED BY <2>1, <2>2, <2>3, <2>4, <2>5, <2>6
<1>4. CASE ~(part.index < 0)
  <2> DEFINE k == IF part.key = "" THEN <<>> ELSE <<ByKey(part.key)>>
              i == <<ByIndex(part.index)>>
  <2>1. ByIndex(part.index) \in Step
    BY <1>1, <1>4 DEF ByIndex, Step
  <2>2. k \in Seq(Step) /\ i \in Seq(Step) /\ i # <<>>
    <3>1. <<ByKey(part.key)>> \in Seq(Step) /\ <<>> \in Seq(Step)
      BY <1>2, EmptySeq
    <3>2. i \in Seq(Step) /\ i # <<>>
      <4> HIDE DEF Step
      <4> QED BY <2>1
    <3> QED BY <3>1, <3>2
  <2>3. PartSteps(part) = k \o i
    BY <1>4 DEF PartSteps
  <2> HIDE DEF k, i
  <2>4. k \o i \in Seq(Step) /\ k \o i # <<>>
    BY <2>2, ConcatProperties, ConcatEqualIffEmpty
  <2> QED BY <2>3, <2>4
<1> QED BY <1>3, <1>4

LEMMA Positions ==
  ASSUME NEW path \in Seq(Parts)
  PROVE  /\ Position(path) \in Seq(Step)
         /\ path = <<>> => Position(path) = <<>>
         /\ path # <<>> /\ ~SetsNothing(path) /\ IsReadable(path) => Position(path) # <<>>
<1> DEFINE seqs == [i \in DOMAIN path |-> PartSteps(path[i])]
<1>1. DOMAIN path = 1 .. Len(path) /\ Len(path) \in Nat /\ \A i \in DOMAIN path : path[i] \in Parts
  BY LenProperties, ElementOfSeq
<1>2. seqs \in [1 .. Len(path) -> Seq(Step)]
  BY <1>1, PartPositions
<1>3. seqs \in Seq(Seq(Step)) /\ Len(seqs) = Len(path)
  BY <1>1, <1>2, SeqDef
<1>4. Position(path) = FlattenSeq(seqs)
  BY DEF Position
<1>5. CASE path = <<>>
  <2>1. Len(seqs) = 0 /\ seqs = <<>>
    BY <1>3, <1>5, EmptySeq
  <2>2. FlattenSeq(seqs) = <<>>
    BY <2>1 DEF FlattenSeq
  <2> QED BY <1>4, <1>5, <2>2, EmptySeq
<1>6. CASE path # <<>>
  <2>1. Len(path) # 0 /\ Len(path) \in DOMAIN path /\ seqs # <<>>
    BY <1>1, <1>3, <1>6, EmptySeq
  <2>2. seqs[Len(path)] = PartSteps(path[Len(path)])
    BY <2>1
  <2>3. ~SetsNothing(path) /\ IsReadable(path) => seqs[Len(path)] # <<>>
    BY <1>1, <2>1, <2>2, PartPositions DEF SetsNothing, IsReadable, Last
  <2> HIDE DEF seqs
  <2> QED BY <1>3, <1>4, <1>6, <2>1, <2>3, Flattening
<1> QED BY <1>5, <1>6
-----------------------------------------------------------------------------
(***************************************************************************)
(* What a value holds at a position.                                       *)
(***************************************************************************)
LEMMA BelowMeans ==
  ASSUME NEW v, IsValue(v), NEW p \in Seq(Step), NEW q
  PROVE  q \in Below(v, p) <=> q \in Seq(Step) \ {<<>>} /\ p \o q \in Inside(v)
<1>1. Inside(v) \subseteq Seq(Step)
  BY InsideOfValue
<1>2. ASSUME q \in Below(v, p) PROVE q \in Seq(Step) \ {<<>>} /\ p \o q \in Inside(v)
  <2>1. PICK r \in Inside(v) : q = SubSeq(r, Len(p) + 1, Len(r))
    BY <1>2 DEF Below
  <2>2. r \in Seq(Step) /\ Len(r) \in Nat /\ Len(p) \in Nat
    BY <1>1, LenProperties
  <2> DEFINE m == Len(p) + 1
             n == Len(r)
  <2>3. m \in Int /\ n \in Int /\ \A i \in m .. n : r[i] \in Step
    BY <2>2, ElementOfSeq
  <2>4. SubSeq(r, m, n) \in Seq(Step)
    <3> HIDE DEF m, n, Step
    <3> QED BY <2>3, SubSeqProperties
  <2> QED BY <1>2, <2>1, <2>4 DEF Below
<1>3. ASSUME q \in Seq(Step) \ {<<>>}, p \o q \in Inside(v) PROVE q \in Below(v, p)
  <2>1. SubSeq(p \o q, Len(p) + 1, Len(p \o q)) = q
    BY <1>3, Concatenation
  <2> QED BY <1>3, <2>1 DEF Below
<1> QED BY <1>2, <1>3

LEMMA InsideIsFinite == ASSUME NEW v, IsValue(v) PROVE IsFiniteSet(Inside(v))
BY FS_EmptySet DEF IsValue, Inside

\* The image of a finite set is finite.
LEMMA FiniteImages ==
  ASSUME NEW S, IsFiniteSet(S), NEW T, NEW f, \A y \in T : \E x \in S : y = f[x]
  PROVE  IsFiniteSet(T)
<1> DEFINE D == {x \in S : f[x] \in T}
           g == [x \in D |-> f[x]]
<1>1. IsFiniteSet(D)
  BY FS_Subset
<1>2. g \in Surjection(D, T)
  BY DEF Surjection
<1> HIDE DEF D
<1> QED BY <1>1, <1>2, FS_Surjection DEF ExistsSurjection

LEMMA BelowIsFinite ==
  ASSUME NEW v, IsValue(v), NEW p \in Seq(Step)
  PROVE  IsFiniteSet(Below(v, p))
<1> DEFINE rest == [r \in Inside(v) |-> SubSeq(r, Len(p) + 1, Len(r))]
<1>1. \A q \in Below(v, p) : \E r \in Inside(v) : q = rest[r]
  BY DEF Below
<1> HIDE DEF rest
<1> QED BY <1>1, InsideIsFinite, FiniteImages

\* Two values with the same nodes at and under a position hold the same there.
LEMMA SameAt ==
  ASSUME NEW v, IsValue(v), NEW w, IsValue(w), NEW p \in Seq(Step), NEW q \in Seq(Step),
         NodeAt(v, p) = NodeAt(w, q),
         \A r \in Seq(Step) \ {<<>>} :
           /\ p \o r \in Inside(v) <=> q \o r \in Inside(w)
           /\ p \o r \in Inside(v) => NodeAt(v, p \o r) = NodeAt(w, q \o r)
  PROVE  At(v, p) = At(w, q)
<1>1. Below(v, p) = Below(w, q)
  BY BelowMeans
<1>2. \A r \in Below(v, p) : v.at[p \o r] = w.at[q \o r]
  BY BelowMeans, InsideOfValue
<1>3. [r \in Below(v, p) |-> v.at[p \o r]] = [r \in Below(w, q) |-> w.at[q \o r]]
  BY <1>1, <1>2
<1> QED BY <1>3 DEF At

LEMMA WholeValue ==
  ASSUME NEW v, IsValue(v), NEW w, IsValue(w), NEW p \in Seq(Step),
         NodeAt(v, p) = NodeAt(w, <<>>),
         \A r \in Seq(Step) \ {<<>>} :
           /\ p \o r \in Inside(v) <=> r \in Inside(w)
           /\ p \o r \in Inside(v) => NodeAt(v, p \o r) = NodeAt(w, r)
  PROVE  At(v, p) = w
<1>1. CASE IsContainer(w)
  <2>1. NodeAt(v, p) = [kind |-> w.kind] /\ w.kind \in Containers /\ Inside(w) = DOMAIN w.at
    BY <1>1, InsideOfValue DEF IsContainer, Inside
  <2>2. Below(v, p) = DOMAIN w.at
    BY <2>1, BelowMeans, InsideOfValue
  <2>3. \A r \in Below(v, p) : v.at[p \o r] = w.at[r]
    BY <2>1, <2>2, BelowMeans, InsideOfValue
  <2>4. [r \in Below(v, p) |-> v.at[p \o r]] = [r \in DOMAIN w.at |-> w.at[r]]
    BY <2>2, <2>3
  <2>5. w = [kind |-> w.kind, at |-> [r \in DOMAIN w.at |-> w.at[r]]]
    BY <1>1 DEF IsValue
  <2>6. NodeAt(v, p).kind = w.kind
    BY <2>1
  <2> HIDE DEF IsContainer
  <2> QED BY <2>1, <2>4, <2>5, <2>6 DEF At
<1>2. CASE ~IsContainer(w)
  <2>1. NodeAt(v, p) = w /\ ~(w.kind \in Containers)
    BY <1>2, InsideOfValue DEF IsContainer
  <2> QED BY <2>1 DEF At
<1> QED BY <1>1, <1>2

LEMMA FloatsOfFound ==
  ASSUME NEW v, IsValue(v), NEW p \in Seq(Step)
  PROVE  /\ Found(Floats(v), p) = {Floats(x) : x \in Found(v, p)}
         /\ \A x \in Found(v, p) : IsValue(x)
<1>1. /\ IsValue(Floats(v)) /\ Inside(Floats(v)) = Inside(v)
      /\ \A q : q = <<>> \/ q \in Inside(v) => NodeAt(Floats(v), q) = FloatNode(NodeAt(v, q))
  BY FloatsOfValue
<1>2. Leads(Floats(v), p) <=> Leads(v, p)
  BY <1>1 DEF Leads
<1>3. ASSUME Leads(v, p) PROVE At(Floats(v), p) = Floats(At(v, p)) /\ IsValue(At(v, p))
  <2> DEFINE x == NodeAt(v, p)
  <2>1. IsScalar(x) \/ x \in [kind : Containers]
    BY <1>3, InsideOfValue DEF Leads, IsValue, IsContainer
  <2>2. NodeAt(Floats(v), p) = FloatNode(x) /\ FloatNode(x).kind = x.kind
    BY <1>1, <1>3, <2>1, FloatNodes DEF Leads
  <2> DEFINE under == [q \in Below(v, p) |-> v.at[p \o q]]
  <2>3. CASE x.kind \in Containers
    <3>1. At(v, p) = [kind |-> x.kind, at |-> under]
      BY <2>3 DEF At
    <3> DEFINE a == At(v, p)
    <3>2. a.kind = x.kind /\ a.at = under /\ DOMAIN under = Below(v, p) /\ IsContainer(a)
      BY <2>3, <3>1 DEF IsContainer
    <3>3. Below(Floats(v), p) = Below(v, p)
      BY <1>1, BelowMeans
    <3>4. \A q \in Below(v, p) : Floats(v).at[p \o q] = FloatNode(v.at[p \o q])
      BY <1>1, BelowMeans, InsideOfValue
    <3>5. At(Floats(v), p) = [kind |-> x.kind, at |-> [q \in Below(v, p) |-> FloatNode(v.at[p \o q])]]
      BY <2>2, <2>3, <3>3, <3>4 DEF At
    <3>6. [q \in DOMAIN a.at |-> FloatNode(a.at[q])] = [q \in Below(v, p) |-> FloatNode(v.at[p \o q])]
      BY <3>2
    <3>7. Floats(a) = At(Floats(v), p)
      <4> HIDE DEF a
      <4> QED BY <3>2, <3>5, <3>6 DEF Floats, Each
    <3>8. \A q \in DOMAIN a.at : IsScalar(a.at[q]) \/ a.at[q] \in [kind : Containers]
      BY <3>2, BelowMeans, InsideOfValue
    <3>9. DOMAIN a.at \subseteq Seq(Step) \ {<<>>} /\ IsFiniteSet(DOMAIN a.at)
      BY <3>2, BelowMeans, BelowIsFinite
    <3>10. a.at = [q \in DOMAIN a.at |-> a.at[q]]
      BY <3>2
    <3>11. IsValue(a)
      <4>1. a = [kind |-> a.kind, at |-> a.at]
        BY <3>1, <3>2
      <4> HIDE DEF a
      <4> QED BY <3>2, <3>8, <3>9, <3>10, <4>1 DEF IsValue
    <3> QED BY <3>7, <3>11
  <2>4. CASE ~(x.kind \in Containers)
    <3>1. At(v, p) = x /\ At(Floats(v), p) = FloatNode(x) /\ ~IsContainer(x) /\ IsScalar(x)
      BY <2>1, <2>2, <2>4 DEF At, IsContainer
    <3> QED BY <3>1 DEF Floats, Each, IsValue
  <2> QED BY <2>3, <2>4
<1>4. CASE Leads(v, p)
  BY <1>2, <1>3, <1>4 DEF Found
<1>5. CASE ~Leads(v, p)
  BY <1>2, <1>5 DEF Found
<1> QED BY <1>4, <1>5
-----------------------------------------------------------------------------
(***************************************************************************)
(* Setting a field of a document.                                          *)
(***************************************************************************)
LEMMA Replacing ==
  ASSUME NEW v, IsValue(v), IsContainer(v), NEW p \in Seq(Step) \ {<<>>}, NEW new, IsValue(new),
         NEW d, d = Replace(v, p, new)
  PROVE  /\ IsValue(d) /\ d.kind = v.kind
         /\ \A r \in Seq(Step) : ~IsPrefix(p, r) =>
              /\ r \in Inside(d) <=> r \in Inside(v)
              /\ r \in Inside(d) => NodeAt(d, r) = NodeAt(v, r)
         /\ \A q \in Seq(Step) :
              /\ p \o q \in Inside(d) <=> q = <<>> \/ q \in Inside(new)
              /\ p \o q \in Inside(d) => NodeAt(d, p \o q) = NodeAt(new, q)
<1> DEFINE kept == {r \in Inside(v) : ~IsPrefix(p, r)}
           under == {p \o q : q \in Inside(new) \cup {<<>>}}
           Put(r) == IF r \in kept THEN v.at[r] ELSE NodeAt(new, SubSeq(r, Len(p) + 1, Len(r)))
           at == [r \in kept \cup under |-> Put(r)]
<1>1. d = [kind |-> v.kind, at |-> at]
  BY DEF Replace
<1>2. d.kind = v.kind /\ IsContainer(d) /\ Inside(d) = kept \cup under /\ d.at = at
  BY <1>1 DEF IsContainer, Inside
<1>3. \A q \in Inside(new) \cup {<<>>} : q \in Seq(Step)
  BY InsideOfValue, EmptySeq
<1>4. ASSUME NEW q \in Inside(new) \cup {<<>>}
      PROVE  /\ p \o q \in Seq(Step) /\ p \o q # <<>> /\ IsPrefix(p, p \o q)
             /\ Put(p \o q) = NodeAt(new, q)
  <2>1. q \in Seq(Step)
    BY <1>3
  <2>2. /\ p \o q \in Seq(Step) /\ IsPrefix(p, p \o q)
        /\ SubSeq(p \o q, Len(p) + 1, Len(p \o q)) = q
    BY <2>1, Concatenation
  <2>3. p \o q # <<>>
    BY <2>1, ConcatEqualIffEmpty, ConcatEmptySeq
  <2> QED BY <2>2, <2>3
<1>5. ASSUME NEW q \in Inside(new) \cup {<<>>}
      PROVE  IsScalar(NodeAt(new, q)) \/ NodeAt(new, q) \in [kind : Containers]
  BY NodesOfValue
<1>6. ASSUME NEW r \in kept \cup under
      PROVE  /\ r \in Seq(Step) \ {<<>>}
             /\ IsScalar(at[r]) \/ at[r] \in [kind : Containers]
  <2>1. CASE r \in kept
    <3>1. at[r] = v.at[r]
      BY <2>1
    <3> HIDE DEF at
    <3> QED BY <2>1, <3>1, InsideOfValue
  <2>2. CASE r \in under
    <3>1. PICK q \in Inside(new) \cup {<<>>} : r = p \o q
      BY <2>2
    <3>2. r \in Seq(Step) \ {<<>>} /\ r \notin kept /\ at[r] = NodeAt(new, q)
      <4>1. at[r] = Put(r)
        OBVIOUS
      <4> QED BY <1>4, <3>1, <4>1
    <3> HIDE DEF at
    <3> QED BY <1>5, <3>2
  <2> QED BY <2>1, <2>2
<1>7. IsValue(d)
  <2>0. IsFiniteSet(DOMAIN at)
    <3> DEFINE longer == [q \in Inside(new) \cup {<<>>} |-> p \o q]
    <3>1. IsFiniteSet(kept)
      BY InsideIsFinite, FS_Subset
    <3>2. IsFiniteSet(Inside(new) \cup {<<>>})
      BY InsideIsFinite, FS_AddElement
    <3>3. \A r \in under : \E q \in Inside(new) \cup {<<>>} : r = longer[q]
      OBVIOUS
    <3>4. DOMAIN at = kept \cup under
      OBVIOUS
    <3> HIDE DEF longer, kept, under, at
    <3>5. IsFiniteSet(under)
      BY <3>2, <3>3, FiniteImages
    <3> QED BY <3>1, <3>4, <3>5, FS_Union
  <2>1. at = [r \in DOMAIN at |-> at[r]] /\ DOMAIN at = kept \cup under
    OBVIOUS
  <2>2. d = [kind |-> d.kind, at |-> [r \in DOMAIN d.at |-> d.at[r]]]
    BY <1>1, <1>2, <2>1
  <2> HIDE DEF at
  <2> QED BY <1>2, <1>6, <2>0, <2>1, <2>2 DEF IsValue
<1>8. \A r \in kept \cup under : NodeAt(d, r) = Put(r)
  <2>1. \A r \in kept \cup under : at[r] = Put(r)
    OBVIOUS
  <2> HIDE DEF at, Put
  <2> QED BY <1>2, <1>7, <2>1, InsideOfValue
<1>9. ASSUME NEW r \in Seq(Step), ~IsPrefix(p, r)
      PROVE  /\ r \in Inside(d) <=> r \in Inside(v)
             /\ r \in Inside(d) => NodeAt(d, r) = NodeAt(v, r)
  <2>1. r \notin under
    BY <1>4, <1>9
  <2>2. r \in kept <=> r \in Inside(v)
    BY <1>9
  <2>3. r \in kept => NodeAt(d, r) = v.at[r]
    BY <1>8
  <2> QED BY <1>2, <2>1, <2>2, <2>3, InsideOfValue
<1>10. ASSUME NEW q \in Seq(Step)
       PROVE  /\ p \o q \in Inside(d) <=> q = <<>> \/ q \in Inside(new)
              /\ p \o q \in Inside(d) => NodeAt(d, p \o q) = NodeAt(new, q)
  <2>1. p \o q \notin kept
    BY Concatenation
  <2>2. ASSUME p \o q \in under PROVE q \in Inside(new) \cup {<<>>}
    <3>1. PICK u \in Inside(new) \cup {<<>>} : p \o q = p \o u
      BY <2>2
    <3>2. u \in Seq(Step)
      BY <1>3
    <3> DEFINE After(r) == SubSeq(r, Len(p) + 1, Len(r))
    <3>3. After(p \o u) = u /\ After(p \o q) = q
      BY <3>2, Concatenation
    <3>4. After(p \o u) = After(p \o q)
      <4> HIDE DEF After
      <4> QED BY <3>1
    <3> QED BY <3>3, <3>4
  <2>3. q \in Inside(new) \cup {<<>>} => p \o q \in under
    OBVIOUS
  <2> HIDE DEF kept, under
  <2>4. p \o q \in Inside(d) <=> q \in Inside(new) \cup {<<>>}
    BY <1>2, <2>1, <2>2, <2>3
  <2>5. p \o q \in Inside(d) => NodeAt(d, p \o q) = NodeAt(new, q)
    BY <1>2, <1>4, <1>8, <2>4
  <2> QED BY <2>4, <2>5
<1> HIDE DEF kept, under, Put, at
<1> QED BY <1>2, <1>7, <1>9, <1>10

LEMMA ReplacedIsFound ==
  ASSUME NEW v, IsValue(v), IsContainer(v), NEW p \in Seq(Step) \ {<<>>}, NEW new, IsValue(new)
  PROVE  Found(Replace(v, p, new), p) = {new}
<1> DEFINE d == Replace(v, p, new)
<1>1. /\ IsValue(d)
      /\ \A q \in Seq(Step) : /\ p \o q \in Inside(d) <=> q = <<>> \/ q \in Inside(new)
                              /\ p \o q \in Inside(d) => NodeAt(d, p \o q) = NodeAt(new, q)
  BY Replacing
<1> HIDE DEF d
<1>2. p \o <<>> = p /\ <<>> \in Seq(Step)
  BY ConcatEmptySeq, EmptySeq
<1>3. p \in Inside(d) /\ NodeAt(d, p) = NodeAt(new, <<>>)
  BY <1>1, <1>2
<1>4. At(d, p) = new
  BY <1>1, <1>3, WholeValue
<1> QED BY <1>3, <1>4 DEF Found, Leads, d

LEMMA ApartIsKept ==
  ASSUME NEW v, IsValue(v), IsContainer(v), NEW p \in Seq(Step) \ {<<>>}, NEW new, IsValue(new),
         NEW q \in Seq(Step), ~IsPrefix(p, q), ~IsPrefix(q, p)
  PROVE  Found(Replace(v, p, new), q) = Found(v, q)
<1> DEFINE d == Replace(v, p, new)
<1>1. /\ IsValue(d)
      /\ \A r \in Seq(Step) : ~IsPrefix(p, r) =>
           /\ r \in Inside(d) <=> r \in Inside(v)
           /\ r \in Inside(d) => NodeAt(d, r) = NodeAt(v, r)
  BY Replacing
<1> HIDE DEF d
<1>2. q # <<>>
  <2>1. IsPrefix(<<>>, p)
    BY EmptySeq, EmptyIsPrefix
  <2> QED BY <2>1
<1>3. \A r \in Seq(Step) : q \o r \in Seq(Step) /\ ~IsPrefix(p, q \o r)
  BY Concatenation, PrefixesAreComparable
<1>4. Leads(d, q) <=> Leads(v, q)
  BY <1>1, <1>2 DEF Leads
<1>5. ASSUME Leads(v, q) PROVE At(d, q) = At(v, q)
  <2>1. NodeAt(d, q) = NodeAt(v, q)
    BY <1>1, <1>2, <1>5 DEF Leads
  <2>2. \A r \in Seq(Step) \ {<<>>} :
          /\ q \o r \in Inside(d) <=> q \o r \in Inside(v)
          /\ q \o r \in Inside(d) => NodeAt(d, q \o r) = NodeAt(v, q \o r)
    BY <1>1, <1>3
  <2> QED BY <1>1, <2>1, <2>2, SameAt
<1> QED BY <1>4, <1>5 DEF Found, d

\* What setValueByPath gives: the document itself, or with the new value at the position.
LEMMA SettingAField ==
  ASSUME NEW data, IsValue(data), NEW path \in Paths, NEW new, IsValue(new),
         NEW d \in setValueByPath(data, path, new)
  PROVE  /\ IsValue(d) /\ d.kind = data.kind /\ IsReadable(path)
         /\ SetsNothing(path) => d = data
         /\ ~SetsNothing(path) => /\ IsContainer(data) /\ Position(path) \in Seq(Step) \ {<<>>}
                                  /\ d = Replace(data, Position(path), new)
<1> DEFINE n == Len(path)
           target == path[n]
<1>1. path \in Seq(Parts) /\ path # <<>>
  BY DEF Paths, Parts
<1>2. /\ n \in Nat /\ n >= 1 /\ n - 1 \in 0 .. n /\ DOMAIN path = 1 .. n
      /\ \A i \in 1 .. n : path[i] \in Parts
  BY <1>1, EmptySeq, LenProperties, ElementOfSeq
<1>3. Last(path) = target
  BY DEF Last
<1>4. /\ Front(path) \in Seq(Parts) /\ DOMAIN Front(path) = 1 .. n - 1
      /\ \A i \in 1 .. n - 1 : Front(path)[i] = path[i]
  <2>1. \A i \in 1 .. n - 1 : path[i] \in Parts
    BY <1>2
  <2> DEFINE m == n - 1
  <2>2. /\ SubSeq(path, 1, m) \in Seq(Parts)
        /\ Len(SubSeq(path, 1, m)) = IF 1 <= m THEN m - 1 + 1 ELSE 0
        /\ \A i \in 1 .. m - 1 + 1 : SubSeq(path, 1, m)[i] = path[1 + i - 1]
    <3>1. m \in Int
      BY <1>2
    <3> HIDE DEF n, m, Parts
    <3>2. \A i \in 1 .. m : path[i] \in Parts
      BY <2>1 DEF m
    <3> QED BY <3>1, <3>2, SubSeqProperties
  <2>3. Front(path) = SubSeq(path, 1, m)
    BY DEF Front
  <2>4. DOMAIN SubSeq(path, 1, m) = 1 .. Len(SubSeq(path, 1, m))
    BY <2>2, LenProperties
  <2> HIDE DEF n
  <2>5. Len(SubSeq(path, 1, m)) = m
    BY <1>2, <2>2
  <2> QED BY <1>2, <2>2, <2>3, <2>4, <2>5
<1> DEFINE isThere == IF target.key # "" /\ target.index = NoIndex
                      THEN \E parent \in getValueByPath(data, Front(path)) : parent.kind = "map"
                      ELSE getValueByPath(data, path) # {}
<1>5. /\ isThere
      /\ SetsNothing(path) => d = data
      /\ ~SetsNothing(path) => d = Replace(data, Position(path), new)
  <2>1. d \in CASE ~isThere -> {}
                [] isThere /\ SetsNothing(path) -> {data}
                [] OTHER -> {Replace(data, Position(path), new)}
    BY <1>3 DEF setValueByPath
  <2> HIDE DEF isThere
  <2>2. CASE ~isThere
    BY <2>1, <2>2
  <2>3. CASE isThere /\ SetsNothing(path)
    BY <2>1, <2>3
  <2>4. CASE isThere /\ ~SetsNothing(path)
    BY <2>1, <2>4
  <2> QED BY <2>2, <2>3, <2>4
<1>6. IsReadable(path)
  <2>1. CASE target.key # "" /\ target.index = NoIndex
    <3>1. IsReadable(Front(path))
      BY <1>5, <2>1 DEF getValueByPath
    <3>2. \A i \in 1 .. n - 1 : path[i].index # BadIndex
      BY <1>4, <3>1 DEF IsReadable
    <3>3. path[n].index # BadIndex
      <4>1. NoIndex # BadIndex
        BY DEF NoIndex, BadIndex
      <4> QED BY <2>1, <4>1
    <3> HIDE DEF n
    <3>4. \A i \in 1 .. n : i \in 1 .. n - 1 \/ i = n
      BY <1>2
    <3> QED BY <1>2, <3>2, <3>3, <3>4 DEF IsReadable
  <2>2. CASE ~(target.key # "" /\ target.index = NoIndex)
    BY <1>5, <2>2 DEF getValueByPath
  <2> QED BY <2>1, <2>2
<1>7. ASSUME ~SetsNothing(path)
      PROVE  Position(path) \in Seq(Step) \ {<<>>}
  BY <1>1, <1>6, <1>7, Positions
<1>8. ASSUME ~SetsNothing(path) PROVE IsContainer(data)
  <2>1. CASE target.key # "" /\ target.index = NoIndex
    <3>1. PICK parent \in Found(data, Position(Front(path))) : parent.kind = "map"
      BY <1>5, <2>1 DEF getValueByPath
    <3> DEFINE q == Position(Front(path))
    <3>2. q \in Seq(Step) /\ Leads(data, q) /\ parent = At(data, q)
      BY <1>4, <3>1, Positions DEF Found
    <3>3. CASE q \in Inside(data)
      BY <3>3, InsideOfValue
    <3>4. CASE q = <<>>
      <4>1. ASSUME ~IsContainer(data) PROVE FALSE
        <5>1. NodeAt(data, q) = data /\ ~(data.kind \in Containers)
          BY <3>4, <4>1, InsideOfValue DEF IsContainer
        <5>2. parent = data
          BY <3>2, <5>1 DEF At
        <5> QED BY <3>1, <5>1, <5>2 DEF Containers
      <4> QED BY <4>1
    <3> QED BY <3>2, <3>3, <3>4 DEF Leads
  <2>2. CASE ~(target.key # "" /\ target.index = NoIndex)
    <3>1. Leads(data, Position(path)) /\ Position(path) # <<>>
      BY <1>5, <1>7, <1>8, <2>2 DEF getValueByPath, Found
    <3> QED BY <3>1, InsideOfValue DEF Leads
  <2> QED BY <2>1, <2>2
<1>9. CASE SetsNothing(path)
  BY <1>5, <1>6, <1>9
<1>10. CASE ~SetsNothing(path)
  <2> HIDE DEF isThere, target
  <2>1. d = Replace(data, Position(path), new) /\ IsContainer(data)
        /\ Position(path) \in Seq(Step) \ {<<>>}
    BY <1>5, <1>7, <1>8, <1>10
  <2>2. IsValue(d) /\ d.kind = data.kind
    BY <2>1, Replacing
  <2> QED BY <1>6, <1>10, <2>1, <2>2
<1> QED BY <1>9, <1>10

\* What the mock server finds in a body is a value.
LEMMA JSONPathsLeadToValues ==
  ASSUME NEW body, IsValue(body), NEW path \in Paths, NEW v \in getJSONPath(body, path)
  PROVE  IsValue(v)
<1> DEFINE Index(part) == IF part.index = BadIndex THEN 0 ELSE part.index
           taken == [i \in DOMAIN path |-> Part(path[i].key, Index(path[i]))]
<1>1. /\ path \in Seq(Parts) /\ DOMAIN path = 1 .. Len(path) /\ Len(path) \in Nat
      /\ \A i \in DOMAIN path : path[i] \in Parts
  <2>1. path \in Seq(Parts)
    BY DEF Paths, Parts
  <2> QED BY <2>1, LenProperties, ElementOfSeq
<1>2. ASSUME NEW i \in DOMAIN path PROVE Part(path[i].key, Index(path[i])) \in Parts
  BY <1>1 DEF Part, Parts, BadIndex, NoIndex
<1>3. taken \in Seq(Parts)
  <2>1. taken \in [1 .. Len(path) -> Parts]
    BY <1>1, <1>2
  <2> QED BY <1>1, <2>1, SeqDef
<1>4. v \in Found(body, Position(taken))
  BY DEF getJSONPath
<1>5. Position(taken) \in Seq(Step)
  BY <1>3, Positions
<1> QED BY <1>4, <1>5, FloatsOfFound
-----------------------------------------------------------------------------
(***************************************************************************)
(* XML.  What the decoder gives is a tree of elements with the attributes  *)
(* of their tags, and a path leads to a text in it.                        *)
(***************************************************************************)
StartTags(tokens) == {t \in ToSet(tokens) : t.token = "start"}
Nodes(tokens) == [name : {t.name : t \in StartTags(tokens)},
                  attrs : {t.attrs : t \in StartTags(tokens)},
                  text : Seq(Symbols)]
Trees(tokens) == UNION {[D -> Nodes(tokens)] : D \in SUBSET Seq(Nat)}
Readings(tokens) == {st \in [tree : Trees(tokens), open : Seq(Nat)] : IsFiniteSet(DOMAIN st.tree)}

LEMMA TreesAre ==
  ASSUME NEW tokens, NEW tree
  PROVE  tree \in Trees(tokens) <=>
           DOMAIN tree \in SUBSET Seq(Nat) /\ tree \in [DOMAIN tree -> Nodes(tokens)]
BY DEF Trees

LEMMA Bounded ==
  ASSUME NEW n \in Nat, NEW T, T \subseteq 1 .. n, T # {}
  PROVE  /\ \E x \in T : \A y \in T : x <= y
         /\ \E x \in T : \A y \in T : x >= y
<1>1. \E x \in T : \A y \in T : x <= y
  <2>1. T \subseteq Nat
    OBVIOUS
  <2> QED BY <2>1, Least
<1> DEFINE U == {n - y : y \in T}
<1>2. U \subseteq Nat /\ U # {}
  <2>1. \A y \in T : n - y \in Nat
    OBVIOUS
  <2> QED BY <2>1
<1>3. PICK u \in U : \A v \in U : u <= v
  <2> HIDE DEF U
  <2> QED BY <1>2, Least
<1>4. PICK x \in T : u = n - x
  OBVIOUS
<1>5. ASSUME NEW y \in T PROVE x >= y
  <2>1. n - x <= n - y
    BY <1>3, <1>4
  <2> QED BY <2>1
<1> QED BY <1>1, <1>5

LEMMA Trimmed ==
  ASSUME NEW S, NEW s \in Seq(S), NEW c PROVE Trim(s, c) \in Seq(S)
<1> DEFINE inner == {i \in DOMAIN s : s[i] # c}
           m == CHOOSE i \in inner : \A j \in inner : i <= j
           n == CHOOSE i \in inner : \A j \in inner : i >= j
<1>0. DOMAIN s = 1 .. Len(s) /\ Len(s) \in Nat
  BY LenProperties
<1>1. CASE inner = {}
  <2>1. Trim(s, c) = <<>>
    BY <1>1 DEF Trim
  <2> QED BY <2>1, EmptySeq
<1>2. CASE inner # {}
  <2>1. Trim(s, c) = SubSeq(s, m, n)
    BY <1>2 DEF Trim
  <2>2. inner \subseteq 1 .. Len(s)
    BY <1>0
  <2>3. m \in inner /\ n \in inner
    <3> HIDE DEF inner
    <3> QED BY <1>0, <1>2, <2>2, Bounded
  <2>4. m \in 1 .. Len(s) /\ n \in 1 .. Len(s)
    <3> HIDE DEF inner, m, n
    <3> QED BY <2>2, <2>3
  <2> HIDE DEF inner, m, n
  <2>5. \A i \in m .. n : s[i] \in S
    BY <1>0, <2>4, ElementOfSeq
  <2> QED BY <2>1, <2>4, <2>5, SubSeqProperties
<1> QED BY <1>1, <1>2

LEMMA TrimmedTexts ==
  ASSUME NEW S, NEW s \in Seq(S) PROVE TrimSpace(s) \in Seq(S)
BY Trimmed DEF TrimSpace

LEMMA StartedElements ==
  ASSUME NEW tokens, IsXML(tokens), NEW st \in Readings(tokens), NEW t \in StartTags(tokens)
  PROVE  StartElement(st, Node(t.name, t.attrs)) \in Readings(tokens)
<1> DEFINE node == Node(t.name, t.attrs)
           kept == IF st.open = <<>> THEN {} ELSE DOMAIN st.tree
           p == IF st.open = <<>> THEN Root
                ELSE Append(st.open, Cardinality(Children(st.tree, st.open)) + 1)
           tree == [q \in kept \cup {p} |-> IF q = p THEN node ELSE st.tree[q]]
<1>1. /\ st.tree \in Trees(tokens) /\ st.open \in Seq(Nat) /\ IsFiniteSet(DOMAIN st.tree)
  BY DEF Readings
<1>2. /\ DOMAIN st.tree \in SUBSET Seq(Nat)
      /\ st.tree \in [DOMAIN st.tree -> Nodes(tokens)]
  BY <1>1, TreesAre
<1>3. node \in Nodes(tokens)
  <2>1. <<>> \in Seq(Symbols)
    BY EmptySeq
  <2> QED BY <2>1 DEF Nodes, Node
<1>4. p \in Seq(Nat)
  <2>1. CASE st.open = <<>>
    BY <2>1 DEF Root
  <2>2. CASE st.open # <<>>
    <3>1. IsFiniteSet(Children(st.tree, st.open))
      BY <1>1, FS_Subset DEF Children
    <3>2. Cardinality(Children(st.tree, st.open)) \in Nat
      BY <3>1, FS_CardinalityType
    <3>3. PICK k \in Nat : k = Cardinality(Children(st.tree, st.open)) + 1
      BY <3>2
    <3> QED BY <1>1, <2>2, <3>3, AppendProperties
  <2> QED BY <2>1, <2>2
<1>5. kept \subseteq DOMAIN st.tree /\ IsFiniteSet(kept \cup {p})
  <2>1. kept \subseteq DOMAIN st.tree
    OBVIOUS
  <2>2. IsFiniteSet(kept)
    BY <1>1, <2>1, FS_Subset
  <2> QED BY <2>1, <2>2, FS_AddElement
<1> HIDE DEF node, p, kept
<1>6. tree \in Trees(tokens)
  <2>1. DOMAIN tree = kept \cup {p} /\ kept \cup {p} \in SUBSET Seq(Nat)
    BY <1>2, <1>4, <1>5
  <2>2. \A q \in kept \cup {p} : (IF q = p THEN node ELSE st.tree[q]) \in Nodes(tokens)
    BY <1>2, <1>3, <1>5
  <2>3. tree \in [DOMAIN tree -> Nodes(tokens)]
    BY <2>1, <2>2
  <2> HIDE DEF tree
  <2> QED BY <2>1, <2>3, TreesAre
<1>7. StartElement(st, Node(t.name, t.attrs)) = [tree |-> tree, open |-> p]
  BY DEF StartElement, node, p, kept
<1>8. DOMAIN tree = kept \cup {p}
  OBVIOUS
<1> HIDE DEF tree
<1> QED BY <1>4, <1>5, <1>6, <1>7, <1>8 DEF Readings

LEMMA ReadTokens ==
  ASSUME NEW tokens, IsXML(tokens), NEW st \in Readings(tokens), NEW t \in ToSet(tokens)
  PROVE  ReadToken(st, t) \in Readings(tokens)
<1>1. /\ st.tree \in Trees(tokens) /\ st.open \in Seq(Nat) /\ IsFiniteSet(DOMAIN st.tree)
      /\ st = [tree |-> st.tree, open |-> st.open]
  BY DEF Readings
<1>2. st.tree \in [DOMAIN st.tree -> Nodes(tokens)]
  BY <1>1, TreesAre
<1>3. CASE t.token = "start"
  BY <1>3, StartedElements DEF ReadToken, StartTags
<1>4. CASE t.token # "start" /\ st.open = <<>>
  BY <1>4 DEF ReadToken
<1>5. ASSUME NEW text, st.open \in DOMAIN st.tree => text \in Seq(Symbols), NEW open \in Seq(Nat)
      PROVE  [tree |-> [st.tree EXCEPT ![st.open].text = text], open |-> open] \in Readings(tokens)
  <2> DEFINE tree == [st.tree EXCEPT ![st.open].text = text]
  <2>1. DOMAIN tree = DOMAIN st.tree
    OBVIOUS
  <2>2. \A p \in DOMAIN st.tree : tree[p] \in Nodes(tokens)
    <3>1. SUFFICES ASSUME NEW p \in DOMAIN st.tree PROVE tree[p] \in Nodes(tokens)
      OBVIOUS
    <3>2. st.tree[p] \in Nodes(tokens)
      BY <1>2
    <3>3. CASE p = st.open
      <4>1. tree[p] = [st.tree[p] EXCEPT !.text = text]
        BY <3>3
      <4> HIDE DEF tree
      <4> QED BY <1>5, <3>2, <3>3, <4>1 DEF Nodes
    <3>4. CASE p # st.open
      BY <3>2, <3>4
    <3> QED BY <3>3, <3>4
  <2>3. tree \in [DOMAIN tree -> Nodes(tokens)]
    BY <2>1, <2>2
  <2>4. DOMAIN st.tree \in SUBSET Seq(Nat)
    BY <1>1, TreesAre
  <2> HIDE DEF tree
  <2>5. tree \in Trees(tokens)
    BY <2>1, <2>3, <2>4, TreesAre
  <2>6. [tree |-> tree, open |-> open] \in Readings(tokens)
    BY <1>1, <1>5, <2>1, <2>5 DEF Readings
  <2> QED BY <2>6 DEF tree
<1>6. st.open \in DOMAIN st.tree => st.tree[st.open].text \in Seq(Symbols)
  BY <1>2 DEF Nodes
<1>7. CASE t.token = "end" /\ st.open # <<>>
  <2>1. st.open \in DOMAIN st.tree => TrimSpace(st.tree[st.open].text) \in Seq(Symbols)
    BY <1>6, TrimmedTexts
  <2>2. Front(st.open) \in Seq(Nat)
    <3>1. Len(st.open) \in Nat /\ \A i \in 1 .. Len(st.open) - 1 : st.open[i] \in Nat
      BY <1>1, LenProperties, ElementOfSeq
    <3> QED BY <3>1, SubSeqProperties DEF Front
  <2>3. ReadToken(st, t) = [tree |-> [st.tree EXCEPT ![st.open].text = TrimSpace(st.tree[st.open].text)],
                            open |-> Front(st.open)]
    BY <1>7 DEF ReadToken
  <2> QED BY <1>5, <2>1, <2>2, <2>3
<1>8. CASE t.token = "chars" /\ st.open # <<>>
  <2>1. t.s \in Seq(Symbols)
    BY <1>8 DEF IsXML, IsToken
  <2>2. st.open \in DOMAIN st.tree => st.tree[st.open].text \o t.s \in Seq(Symbols)
    BY <1>6, <2>1, ConcatProperties
  <2>3. ReadToken(st, t) = [tree |-> [st.tree EXCEPT ![st.open].text = st.tree[st.open].text \o t.s],
                            open |-> st.open]
    <3>1. ReadToken(st, t) = [st EXCEPT !.tree[st.open].text = @ \o t.s]
      BY <1>8 DEF ReadToken
    <3> QED BY <1>1, <3>1
  <2> QED BY <1>1, <1>5, <2>2, <2>3
<1>9. t.token \in {"start", "end", "chars"}
  <2>1. IsToken(t)
    BY DEF IsXML
  <2> QED BY <2>1 DEF IsToken, End
<1> QED BY <1>3, <1>4, <1>7, <1>8, <1>9

LEMMA ParsedTrees ==
  ASSUME NEW tokens, IsXML(tokens)
  PROVE  parseXML(tokens) \in Trees(tokens)
<1> DEFINE n == Len(tokens)
           nothing == [tree |-> NoTree, open |-> <<>>]
           F(f) == [i \in 0 .. n |-> IF i = 0 THEN nothing ELSE ReadToken(f[i - 1], tokens[i])]
           S == Readings(tokens)
           step == [x \in Nat \X S |-> IF x[1] < n THEN ReadToken(x[2], tokens[x[1] + 1]) ELSE x[2]]
           upto == CHOOSE f : f = F(f)
<1>1. n \in Nat /\ \A i \in 1 .. n : tokens[i] \in ToSet(tokens)
  BY LenProperties DEF IsXML, ToSet
<1>2. nothing \in S
  <2>1. NoTree \in Trees(tokens)
    BY TreesAre DEF NoTree
  <2>2. DOMAIN NoTree = {} /\ IsFiniteSet({})
    BY FS_EmptySet DEF NoTree
  <2> QED BY <2>1, <2>2, EmptySeq DEF Readings
<1>3. step \in [Nat \X S -> S]
  <2>1. ASSUME NEW k \in Nat, NEW st \in S
        PROVE  (IF k < n THEN ReadToken(st, tokens[k + 1]) ELSE st) \in S
    <3>1. k < n => k + 1 \in 1 .. n
      BY <1>1
    <3> HIDE DEF n
    <3> QED BY <1>1, <3>1, ReadTokens
  <2> HIDE DEF S, n
  <2> QED BY <2>1
<1>4. PICK g : IsIteration(g, S, nothing, step)
  <2> HIDE DEF S, step, nothing
  <2> QED BY <1>2, <1>3, Recursion
<1>5. /\ g \in [Nat -> S] /\ g[0] = nothing
      /\ \A k \in Nat : k < n => g[k + 1] = ReadToken(g[k], tokens[k + 1])
  <2> HIDE DEF S, nothing, n
  <2> QED BY <1>4 DEF IsIteration
<1> DEFINE h == [i \in 0 .. n |-> g[i]]
<1>6. h = F(h)
  <2>1. ASSUME NEW i \in 0 .. n
        PROVE  h[i] = IF i = 0 THEN nothing ELSE ReadToken(h[i - 1], tokens[i])
    <3>1. CASE i = 0
      BY <1>1, <1>5, <3>1
    <3>2. CASE i # 0
      <4>1. i - 1 \in Nat /\ (i - 1) + 1 = i /\ i - 1 < n /\ i - 1 \in 0 .. n
        BY <1>1, <3>2
      <4>2. g[(i - 1) + 1] = ReadToken(g[i - 1], tokens[(i - 1) + 1])
        BY <1>5, <4>1
      <4>3. h[i] = g[i] /\ h[i - 1] = g[i - 1]
        BY <4>1
      <4> HIDE DEF h
      <4> QED BY <3>2, <4>1, <4>2, <4>3
    <3> QED BY <3>1, <3>2
  <2> QED BY <2>1
<1>7. upto = F(upto)
  <2>1. \E f : f = F(f)
    BY <1>6
  <2> HIDE DEF F
  <2> QED BY <2>1
<1>8. parseXML(tokens) = upto[n].tree
  BY DEF parseXML
<1>9. \A i \in 0 .. n : upto[i] = IF i = 0 THEN nothing ELSE ReadToken(upto[i - 1], tokens[i])
  <2> HIDE DEF upto
  <2> QED BY <1>7
<1> HIDE DEF upto
<1> DEFINE T == {k \in Nat : k <= n => upto[k] \in S}
<1>10. 0 \in T
  <2> HIDE DEF S, nothing
  <2> QED BY <1>1, <1>2, <1>9
<1>11. ASSUME NEW k \in Nat, k \in T PROVE k + 1 \in T
  <2>1. SUFFICES ASSUME k + 1 <= n PROVE upto[k + 1] \in S
    OBVIOUS
  <2>2. k + 1 \in 0 .. n /\ k + 1 # 0 /\ (k + 1) - 1 = k /\ k <= n /\ k + 1 \in 1 .. n
    BY <1>1, <2>1
  <2>3. upto[k + 1] = ReadToken(upto[k], tokens[k + 1])
    BY <1>9, <2>2
  <2>4. upto[k] \in S
    BY <1>11, <2>2
  <2> QED BY <1>1, <2>2, <2>3, <2>4, ReadTokens
<1>12. Nat \subseteq T
  <2> HIDE DEF T
  <2> QED BY <1>10, <1>11, Induction
<1>13. upto[n] \in S
  BY <1>1, <1>12
<1> QED BY <1>8, <1>13 DEF Readings

LEMMA ReachedElements ==
  ASSUME NEW tree, NEW path, NEW n \in Nat
  PROVE  Reached(tree, path, n) \subseteq DOMAIN tree
<1> DEFINE D == DOMAIN tree
           S == SUBSET D
           nothing == D \cap {Root}
           At1(i, ps) == UNION {IF i = 1 /\ tree[p].name = path[i].key
                                THEN {q \in {p} : path[i].index <= 0}
                                ELSE Child(tree, p, path[i]) : p \in ps}
           F(f) == [i \in Nat |-> IF i = 0 THEN nothing ELSE At1(i, f[i - 1])]
           step == [x \in Nat \X S |-> At1(x[1] + 1, x[2])]
           upto == CHOOSE f : f = F(f)
<1>1. \A i \in Nat, ps \in S : At1(i, ps) \in S
  BY DEF Child, Children
<1>2. step \in [Nat \X S -> S]
  <2> HIDE DEF At1
  <2>1. \A k \in Nat, ps \in S : At1(k + 1, ps) \in S
    BY <1>1
  <2> HIDE DEF S
  <2> QED BY <2>1
<1>3. nothing \in S
  OBVIOUS
<1>4. PICK g : IsIteration(g, S, nothing, step)
  <2> HIDE DEF S, step, nothing
  <2> QED BY <1>2, <1>3, Recursion
<1>5. /\ g \in [Nat -> S] /\ g[0] = nothing
      /\ \A k \in Nat : g[k + 1] = At1(k + 1, g[k])
  <2> HIDE DEF S, nothing, At1
  <2> QED BY <1>4 DEF IsIteration
<1> HIDE DEF At1, S, nothing
<1>6. g = F(g)
  <2>1. ASSUME NEW i \in Nat PROVE g[i] = IF i = 0 THEN nothing ELSE At1(i, g[i - 1])
    <3>1. CASE i = 0
      BY <1>5, <3>1
    <3>2. CASE i # 0
      <4>1. i - 1 \in Nat /\ (i - 1) + 1 = i
        BY <3>2
      <4> QED BY <1>5, <3>2, <4>1
    <3> QED BY <3>1, <3>2
  <2> QED BY <1>5, <2>1
<1>7. upto = F(upto)
  <2>1. \E f : f = F(f)
    BY <1>6
  <2> HIDE DEF F
  <2> QED BY <2>1
<1>8. Reached(tree, path, n) = upto[n]
  BY DEF Reached, At1, nothing
<1>9. \A i \in Nat : upto[i] = IF i = 0 THEN nothing ELSE At1(i, upto[i - 1])
  <2> HIDE DEF upto
  <2> QED BY <1>7
<1> HIDE DEF upto
<1> DEFINE T == {k \in Nat : upto[k] \in S}
<1>10. 0 \in T
  BY <1>3, <1>9
<1>11. ASSUME NEW k \in Nat, k \in T PROVE k + 1 \in T
  <2>1. k + 1 \in Nat /\ k + 1 # 0 /\ (k + 1) - 1 = k
    OBVIOUS
  <2>2. upto[k + 1] = At1(k + 1, upto[k])
    BY <1>9, <2>1
  <2> QED BY <1>1, <1>11, <2>1, <2>2
<1>12. Nat \subseteq T
  <2> HIDE DEF T
  <2> QED BY <1>10, <1>11, Induction
<1>13. upto[n] \in S
  BY <1>12
<1> QED BY <1>8, <1>13 DEF S

\* What a path leads to in an XML body is a text.
LEMMA XMLPathsLeadToTexts ==
  ASSUME NEW tokens, IsXML(tokens), NEW path \in XMLPaths,
         NEW v \in getXMLPath(parseXML(tokens), path)
  PROVE  \E s \in Seq(Symbols) : v = Str(s)
<1> DEFINE tree == parseXML(tokens)
           n == Cardinality(Elements(path))
           Texts(node) == IF n = Len(path) THEN {node.text} ELSE AttrsAt(node, path[n + 1])
<1>1. PICK p \in Reached(tree, path, n) : \E s \in Texts(tree[p]) : v = Str(s)
  BY DEF getXMLPath
<1>2. PICK s \in Texts(tree[p]) : v = Str(s)
  BY <1>1
<1>3. n \in Nat
  <2>1. IsFiniteSet(DOMAIN path)
    BY LenProperties, FS_Interval DEF XMLPaths
  <2>2. IsFiniteSet(Elements(path))
    BY <2>1, FS_Subset DEF Elements
  <2> QED BY <2>2, FS_CardinalityType
<1> HIDE DEF n
<1>4. tree[p] \in Nodes(tokens)
  <2>1. tree \in Trees(tokens)
    BY ParsedTrees
  <2>2. p \in DOMAIN tree
    BY <1>3, ReachedElements
  <2> HIDE DEF tree
  <2> QED BY <2>1, <2>2, TreesAre
<1>5. s \in Seq(Symbols)
  <2>1. tree[p].text \in Seq(Symbols)
    BY <1>4 DEF Nodes
  <2>2. PICK t \in StartTags(tokens) : tree[p].attrs = t.attrs
    BY <1>4 DEF Nodes
  <2>3. t.attrs \in [DOMAIN t.attrs -> Seq(Symbols)]
    BY DEF StartTags, IsXML, IsToken
  <2>4. \A part : AttrsAt(tree[p], part) \subseteq Seq(Symbols)
    BY <2>2, <2>3 DEF AttrsAt
  <2> QED BY <1>2, <2>1, <2>4
<1> QED BY <1>2, <1>5
==============================================================================
