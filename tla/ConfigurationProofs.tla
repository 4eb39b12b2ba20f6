------------------------- MODULE ConfigurationProofs -------------------------
(***************************************************************************)
(* What a refused Configure leaves, what it names, and that what is        *)
(* announced is what is enforced, for every set of config classes and of   *)
(* requests.                                                               *)
(*                                                                         *)
(* The invariant is Answering (an answer is what Configure made of the     *)
(* request) and Announcing (the parameters are the ones of the class).     *)
(* What is left is that two readings of one text agree, field by field: of *)
(* a default (DefaultReads), a text left out (AbsentReads), a Literal      *)
(* (LiteralReads) and a text given (GivenReads).  A float needs that       *)
(* rounding is monotone (RoundToOrder), so that a nudged bound parts the   *)
(* floats as the bound does; a duration that what the formatter writes is  *)
(* read as what was formatted, by Go and by Python (DurationsRoundTrip).    *)
(* That goes by induction over its digits.                                 *)
(***************************************************************************)
EXTENDS Configuration, WellFoundedInduction, SequenceTheorems, TLAPS

---------------------------------------------------------------------------
(* Induction and recursion over the naturals.                              *)

\* The order of the naturals is well-founded.
LEMMA LessIsWellFounded ==
  IsWellFoundedOn({pair \in Nat \X Nat : pair[1] < pair[2]}, Nat)
  BY NatLessThanWellFounded, Zenon DEF OpToRel

\* A set of naturals has a least element.
LEMMA LeastNatural ==
  ASSUME NEW T \in SUBSET Nat, T # {}
  PROVE  \E n \in T : \A m \in T : n <= m
  <1> DEFINE Less == {pair \in Nat \X Nat : pair[1] < pair[2]}
  <1>1. \E n \in T : \A m \in T : <<m, n>> \notin Less
    BY LessIsWellFounded, WFMin
  <1>2. \A m, n \in Nat : <<m, n>> \in Less <=> m < n
    OBVIOUS
  <1> HIDE DEF Less
  <1>3. PICK n \in T : \A m \in T : <<m, n>> \notin Less
    BY <1>1
  <1>4. n \in Nat /\ \A m \in T : m \in Nat /\ ~(m < n)
    BY <1>2, <1>3
  <1> QED
    BY <1>4

\* Induction, for a set instead of a predicate.
LEMMA Induction ==
  ASSUME NEW T \in SUBSET Nat, 0 \in T, \A n \in T : n + 1 \in T
  PROVE  \A n \in Nat : n \in T
  <1> SUFFICES ASSUME Nat \ T # {}
               PROVE  FALSE
    OBVIOUS
  <1>1. PICK n \in Nat \ T : \A m \in Nat \ T : n <= m
    BY LeastNatural
  <1>2. n # 0 /\ n - 1 \in Nat
    BY <1>1
  <1>3. n - 1 \in T
    BY <1>1, <1>2
  <1> QED
    BY <1>1, <1>2, <1>3

\* g is the recursion from base by step up to n.
Recurs(g, base, step, n) ==
  g[0] = base /\ \A i \in Nat : i < n => g[i + 1] = step[<<i, g[i]>>]

\* There is only one.
LEMMA RecursionUnique ==
  ASSUME NEW g, NEW h, NEW base, NEW step, NEW n \in Nat,
         Recurs(g, base, step, n), Recurs(h, base, step, n)
  PROVE  \A i \in 0..n : g[i] = h[i]
  <1> DEFINE T == {i \in Nat : i <= n => g[i] = h[i]}
  <1>1. 0 \in T
    BY DEF Recurs
  <1>2. \A i \in T : i + 1 \in T
    <2> SUFFICES ASSUME NEW i \in Nat, g[i] = h[i], i + 1 <= n
                 PROVE  g[i + 1] = h[i + 1]
      OBVIOUS
    <2>1. g[i + 1] = step[<<i, g[i]>>] /\ h[i + 1] = step[<<i, h[i]>>]
      BY DEF Recurs
    <2> QED
      BY <2>1
  <1>3. T \in SUBSET Nat
    OBVIOUS
  <1> HIDE DEF T
  <1>4. \A i \in Nat : i \in T
    BY <1>1, <1>2, <1>3, Induction
  <1> QED
    BY <1>4 DEF T

\* And there is one, over all naturals.
LEMMA Recursion ==
  ASSUME NEW base \in Int, NEW step \in [Nat \X Int -> Int]
  PROVE  \E f \in [Nat -> Int] : f[0] = base /\ \A n \in Nat : f[n + 1] = step[<<n, f[n]>>]
  <1> DEFINE T == {n \in Nat : \E g \in [Nat -> Int] : Recurs(g, base, step, n)}
             f == [n \in Nat |-> (CHOOSE g \in [Nat -> Int] : Recurs(g, base, step, n))[n]]
  <1>1. 0 \in T
    <2>1. [i \in Nat |-> base] \in [Nat -> Int] /\ Recurs([i \in Nat |-> base], base, step, 0)
      BY DEF Recurs
    <2> QED
      BY <2>1
  <1>2. \A n \in T : n + 1 \in T
    <2> SUFFICES ASSUME NEW n \in T
                 PROVE  n + 1 \in T
      OBVIOUS
    <2>1. PICK g \in [Nat -> Int] : Recurs(g, base, step, n)
      OBVIOUS
    <2> DEFINE h == [g EXCEPT ![n + 1] = step[<<n, g[n]>>]]
    <2>2. h \in [Nat -> Int]
      OBVIOUS
    <2>3. Recurs(h, base, step, n + 1)
      BY <2>1 DEF Recurs
    <2> HIDE DEF h
    <2> QED
      BY <2>2, <2>3
  <1>3. T \in SUBSET Nat
    OBVIOUS
  <1>4. \A n \in Nat : n \in T
    <2> HIDE DEF T
    <2> QED
      BY <1>1, <1>2, <1>3, Induction
  <1>5. \A n \in Nat : \E g \in [Nat -> Int] : Recurs(g, base, step, n) /\ f[n] = g[n]
    BY <1>4
  <1>6. f \in [Nat -> Int]
    BY <1>5
  <1>7. f[0] = base
    BY <1>5 DEF Recurs
  <1>8. ASSUME NEW n \in Nat
        PROVE  f[n + 1] = step[<<n, f[n]>>]
    <2>1. PICK g \in [Nat -> Int] : Recurs(g, base, step, n) /\ f[n] = g[n]
      BY <1>5
    <2>2. PICK h \in [Nat -> Int] : Recurs(h, base, step, n + 1) /\ f[n + 1] = h[n + 1]
      <3>1. n + 1 \in Nat
        OBVIOUS
      <3> HIDE DEF f
      <3> QED
        BY <1>5, <3>1
    <2>3. Recurs(h, base, step, n)
      BY <2>2 DEF Recurs
    <2>4. g[n] = h[n]
      BY <2>1, <2>3, RecursionUnique
    <2> QED
      BY <2>1, <2>2, <2>4 DEF Recurs
  <1> HIDE DEF f
  <1> QED
    BY <1>6, <1>7, <1>8

\* b ^ 0 = 1, and b ^ (n + 1) = b * b ^ n.
LEMMA PowerStep ==
  ASSUME NEW b \in Nat
  PROVE  /\ Power(b, 0) = 1
         /\ \A n \in Nat : Power(b, n) \in Nat /\ Power(b, n + 1) = b * Power(b, n)
  <1> DEFINE Defines(p) == p = [i \in Nat |-> IF i = 0 THEN 1 ELSE b * p[i - 1]]
             step == [x \in Nat \X Int |-> b * x[2]]
  <1>1. step \in [Nat \X Int -> Int]
    OBVIOUS
  <1>2. PICK f \in [Nat -> Int] : f[0] = 1 /\ \A n \in Nat : f[n + 1] = step[<<n, f[n]>>]
    <2>1. 1 \in Int
      OBVIOUS
    <2> HIDE DEF step
    <2> QED
      BY <1>1, <2>1, Recursion
  <1>3. \A n \in Nat : f[n + 1] = b * f[n]
    BY <1>2
  <1>4. Defines(f)
    <2>1. \A i \in Nat : i # 0 => i - 1 \in Nat /\ f[i] = b * f[i - 1]
      BY <1>3
    <2> QED
      BY <1>2, <2>1
  <1>5. \E p : Defines(p)
    BY <1>4
  <1> DEFINE p == CHOOSE p : Defines(p)
  <1>6. Defines(p)
    BY <1>5
  <1>7. \A n \in Nat : Power(b, n) = p[n]
    BY DEF Power
  <1> HIDE DEF p
  <1>8. p[0] = 1 /\ \A n \in Nat : p[n + 1] = b * p[n]
    BY <1>6
  <1> DEFINE T == {n \in Nat : p[n] \in Nat}
  <1>9. 0 \in T /\ \A n \in T : n + 1 \in T
    BY <1>8
  <1>10. \A n \in Nat : n \in T
    <2>1. T \in SUBSET Nat
      OBVIOUS
    <2> HIDE DEF T
    <2> QED
      BY <1>9, <2>1, Induction
  <1> QED
    BY <1>7, <1>8, <1>10

\* The sums a total is built from.
LEMMA TotalSums ==
  ASSUME NEW s, NEW n \in Nat, n = Len(s), \A i \in 1..n : s[i] \in Int
  PROVE  \E sum : /\ \A i \in 0..n : sum[i] \in Int
                  /\ sum[0] = 0
                  /\ \A i \in 1..n : sum[i] = sum[i - 1] + s[i]
                  /\ Total(s) = sum[n]
  <1> DEFINE Defines(sum) == sum = [i \in 0..n |-> IF i = 0 THEN 0 ELSE sum[i - 1] + s[i]]
             step == [x \in Nat \X Int |-> IF x[1] + 1 \in 1..n THEN x[2] + s[x[1] + 1] ELSE 0]
             sum == CHOOSE sum : Defines(sum)
  <1>1. step \in [Nat \X Int -> Int]
    OBVIOUS
  <1>2. PICK f \in [Nat -> Int] : f[0] = 0 /\ \A i \in Nat : f[i + 1] = step[<<i, f[i]>>]
    <2>1. 0 \in Int
      OBVIOUS
    <2> HIDE DEF step
    <2> QED
      BY <1>1, <2>1, Recursion
  <1>3. \A i \in 1..n : i - 1 \in 0..n /\ f[i] = f[i - 1] + s[i]
    <2> SUFFICES ASSUME NEW i \in 1..n
                 PROVE  f[i] = f[i - 1] + s[i]
      OBVIOUS
    <2>1. i - 1 \in Nat /\ (i - 1) + 1 = i /\ <<i - 1, f[i - 1]>> \in Nat \X Int
      BY <1>2
    <2>2. f[i] = step[<<i - 1, f[i - 1]>>]
      <3> HIDE DEF step
      <3> QED
        BY <1>2, <2>1
    <2>3. step[<<i - 1, f[i - 1]>>] = f[i - 1] + s[i]
      BY <2>1
    <2> QED
      BY <2>2, <2>3
  <1> HIDE DEF step
  <1> DEFINE g == [i \in 0..n |-> f[i]]
  <1>4. Defines(g)
    <2>1. \A i \in 0..n : i # 0 => i \in 1..n /\ i - 1 \in 0..n
      OBVIOUS
    <2>2. \A i \in 0..n : g[i] = IF i = 0 THEN 0 ELSE g[i - 1] + s[i]
      BY <1>2, <1>3, <2>1
    <2> QED
      BY <2>2
  <1>5. Defines(sum)
    <2> HIDE DEF g
    <2> QED
      BY <1>4
  <1>6. Total(s) = sum[n]
    BY DEF Total
  <1> HIDE DEF sum
  <1>7. sum[0] = 0 /\ \A i \in 1..n : sum[i] = sum[i - 1] + s[i]
    <2>1. 0 \in 0..n /\ \A i \in 1..n : i \in 0..n /\ i # 0
      OBVIOUS
    <2>2. \A i \in 0..n : sum[i] = IF i = 0 THEN 0 ELSE sum[i - 1] + s[i]
      BY <1>5
    <2> QED
      BY <2>1, <2>2
  <1> DEFINE T == {i \in Nat : i <= n => sum[i] \in Int}
  <1>8. 0 \in T /\ \A i \in T : i + 1 \in T
    <2> SUFFICES ASSUME NEW i \in Nat, i + 1 <= n, sum[i] \in Int
                 PROVE  sum[i + 1] \in Int
      BY <1>7
    <2>1. i + 1 \in 1..n /\ (i + 1) - 1 = i
      OBVIOUS
    <2> QED
      BY <1>7, <2>1
  <1>9. \A i \in Nat : i \in T
    <2>1. T \in SUBSET Nat
      OBVIOUS
    <2> HIDE DEF T
    <2> QED
      BY <1>8, <2>1, Induction
  <1>10. \A i \in 0..n : sum[i] \in Int
    BY <1>9
  <1> QED
    BY <1>6, <1>7, <1>10

\* Naturals add up to a natural.
LEMMA TotalNat ==
  ASSUME NEW s, NEW n \in Nat, n = Len(s), \A i \in 1..n : s[i] \in Nat
  PROVE  Total(s) \in Nat
  <1>1. PICK sum : /\ \A i \in 0..n : sum[i] \in Int
                   /\ sum[0] = 0
                   /\ \A i \in 1..n : sum[i] = sum[i - 1] + s[i]
                   /\ Total(s) = sum[n]
    <2>1. \A i \in 1..n : s[i] \in Int
      OBVIOUS
    <2> QED
      BY <2>1, TotalSums
  <1> DEFINE T == {i \in Nat : i <= n => sum[i] \in Nat}
  <1>2. 0 \in T /\ \A i \in T : i + 1 \in T
    <2> SUFFICES ASSUME NEW i \in Nat, i + 1 <= n, sum[i] \in Nat
                 PROVE  sum[i + 1] \in Nat
      BY <1>1
    <2>1. i + 1 \in 1..n /\ (i + 1) - 1 = i
      OBVIOUS
    <2> QED
      BY <1>1, <2>1
  <1>3. \A i \in Nat : i \in T
    <2>1. T \in SUBSET Nat
      OBVIOUS
    <2> HIDE DEF T
    <2> QED
      BY <1>2, <2>1, Induction
  <1> QED
    BY <1>1, <1>3

\* b ^ (m + n) = b ^ m * b ^ n, and a power of something is not zero.
LEMMA PowerFacts ==
  ASSUME NEW b \in Nat \ {0}, NEW m \in Nat, NEW n \in Nat
  PROVE  /\ Power(b, n) \in Nat \ {0}
         /\ Power(b, m + n) = Power(b, m) * Power(b, n)
  <1> DEFINE T == {i \in Nat : /\ Power(b, i) # 0
                               /\ Power(b, m + i) = Power(b, m) * Power(b, i)}
  <1>1. /\ Power(b, 0) = 1
        /\ \A i \in Nat : Power(b, i) \in Nat /\ Power(b, i + 1) = b * Power(b, i)
    BY PowerStep
  <1>2. 0 \in T
    BY <1>1
  <1>3. ASSUME NEW i \in T
        PROVE  i + 1 \in T
    <2>1. i \in Nat /\ m + i \in Nat /\ m + (i + 1) = (m + i) + 1
      OBVIOUS
    <2>2. Power(b, m + (i + 1)) = b * (Power(b, m) * Power(b, i))
      BY <1>1, <2>1
    <2>3. \A x, y, z \in Nat : x * (y * z) = y * (x * z)
      OBVIOUS
    <2>4. Power(b, m + (i + 1)) = Power(b, m) * Power(b, i + 1)
      BY <1>1, <2>1, <2>2, <2>3
    <2>5. \A x, y \in Nat : x # 0 /\ y # 0 => x * y # 0
      OBVIOUS
    <2>6. Power(b, i + 1) # 0
      BY <1>1, <2>1, <2>5
    <2> QED
      BY <2>4, <2>6
  <1>4. \A i \in Nat : i \in T
    <2>1. T \in SUBSET Nat
      OBVIOUS
    <2> HIDE DEF T
    <2> QED
      BY <1>2, <1>3, <2>1, Induction
  <1> QED
    BY <1>1, <1>4

---------------------------------------------------------------------------
(* Division.                                                               *)

\* A quotient and its remainder are the only ones.
LEMMA Division ==
  ASSUME NEW a \in Int, NEW d \in Nat \ {0}
  PROVE  /\ a \div d \in Int /\ a % d \in Nat /\ a % d < d
         /\ a = d * (a \div d) + (a % d)
         /\ \A q \in Int, r \in Nat : r < d /\ a = d * q + r => a \div d = q /\ a % d = r
  <1>1. /\ a \div d \in Int /\ a % d \in Nat /\ a % d < d
        /\ a = d * (a \div d) + (a % d)
    <2>1. a \div d \in Int
      OBVIOUS
    <2>2. a % d \in Nat /\ a % d < d
      OBVIOUS
    <2>3. a = (a \div d) * d + (a % d)
      BY Z3
    <2> DEFINE k == a \div d
               s == a % d
    <2>4. k \in Int /\ s \in Nat /\ s < d /\ a = k * d + s
      BY <2>1, <2>2, <2>3
    <2> HIDE DEF k, s
    <2>5. a = d * k + s
      BY <2>4
    <2> QED
      BY <2>4, <2>5 DEF k, s
  <1>2. ASSUME NEW q \in Int, NEW r \in Nat, r < d, a = d * q + r
        PROVE  a \div d = q /\ a % d = r
    <2> DEFINE k == a \div d
               s == a % d
    <2>1. k \in Int /\ s \in Nat /\ s < d /\ a = d * k + s
      BY <1>1
    <2> HIDE DEF k, s
    <2>2. ~(k > q)
      <3> SUFFICES ASSUME k > q
                   PROVE  FALSE
        OBVIOUS
      <3>1. k - q >= 1 /\ d * (k - q) = r - s
        BY <1>2, <2>1
      <3>2. d * (k - q) >= d
        BY <3>1, <2>1
      <3> QED
        BY <1>2, <2>1, <3>1, <3>2
    <2>3. ~(q > k)
      <3> SUFFICES ASSUME q > k
                   PROVE  FALSE
        OBVIOUS
      <3>1. q - k >= 1 /\ d * (q - k) = s - r
        BY <1>2, <2>1
      <3>2. d * (q - k) >= d
        BY <3>1, <2>1
      <3> QED
        BY <1>2, <2>1, <3>1, <3>2
    <2>4. k = q /\ s = r
      BY <1>2, <2>1, <2>2, <2>3
    <2> QED
      BY <2>4 DEF k, s
  <1> QED
    BY <1>1, <1>2

\* The quotient, as an operator that the provers leave alone.
Quotient(a, d) == a \div d

\* Dividing by d and then by e is dividing by their product.
LEMMA NestedQuotient ==
  ASSUME NEW a \in Nat, NEW d \in Nat \ {0}, NEW e \in Nat \ {0}
  PROVE  Quotient(Quotient(a, d), e) = Quotient(a, d * e)
  <1> DEFINE q == a \div d
             r == a % d
             k == q \div e
             s == q % e
             D == d * e
             R == d * s + r
  <1>1. q \in Nat /\ r \in Nat /\ r < d /\ a = d * q + r
    BY Division
  <1>2. k \in Nat /\ s \in Nat /\ s < e /\ q = e * k + s
    <2> HIDE DEF q
    <2>1. k \in Int /\ s \in Nat /\ s < e /\ q = e * k + s
      BY <1>1, Division
    <2>2. k >= 0
      BY <1>1
    <2> QED
      BY <2>1, <2>2
  <1>3. Quotient(Quotient(a, d), e) = k
    BY DEF Quotient
  <1> HIDE DEF q, r, k, s
  <1>4. a = D * k + R
    <2>1. a = d * (e * k + s) + r
      BY <1>1, <1>2
    <2>2. d * (e * k + s) = (d * e) * k + d * s
      BY <1>2
    <2> QED
      BY <1>1, <1>2, <2>1, <2>2
  <1>5. D \in Nat \ {0} /\ R \in Nat /\ R < D
    <2>1. s + 1 <= e /\ d * (s + 1) <= d * e /\ d * (s + 1) = d * s + d
      BY <1>2
    <2> QED
      BY <1>1, <1>2, <2>1
  <1> HIDE DEF D, R
  <1>6. a \div D = k
    BY <1>2, <1>4, <1>5, Division
  <1> QED
    BY <1>3, <1>6 DEF D, Quotient

---------------------------------------------------------------------------
(* Durations.                                                              *)

\* The units, in nanoseconds.
LEMMA Units ==
  /\ Micro \in Nat \ {0} /\ Milli = Micro
  /\ Second = Micro * Micro /\ Minute = Sixty * Second /\ Hour = Sixty * Minute
  /\ {Second, Minute, Hour} \subseteq Nat \ {0}
  /\ \A u \in DOMAIN UnitInNs : UnitInNs[u] \in Nat \ {0}
  <1>1. Micro \in Nat \ {0} /\ Second = Micro * Micro
    <2>1. Zeros \in Nat /\ 10 \in Nat \ {0} /\ 2 * Zeros = Zeros + Zeros
      BY DurationsAssumption
    <2> QED
      BY <2>1, PowerFacts DEF Micro, Second
  <1>2. \A m, n \in Nat \ {0} : m * n \in Nat \ {0}
    OBVIOUS
  <1>3. Second \in Nat \ {0}
    BY <1>1, <1>2
  <1>4. Minute \in Nat \ {0}
    BY <1>2, <1>3, DurationsAssumption DEF Minute
  <1>5. Hour \in Nat \ {0}
    BY <1>2, <1>4, DurationsAssumption DEF Hour
  <1>6. Milli = Micro
    BY DEF Milli, Micro
  <1>7. \A u \in DOMAIN UnitInNs : UnitInNs[u] \in Nat \ {0}
    <2>1. /\ Milli * Micro \in Nat \ {0} /\ Second * Micro \in Nat \ {0}
          /\ Minute * Micro \in Nat \ {0} /\ Hour * Micro \in Nat \ {0}
      BY <1>1, <1>2, <1>3, <1>4, <1>5, <1>6
    <2> QED
      BY <1>1, <2>1 DEF UnitInNs
  <1> QED
    BY <1>1, <1>3, <1>4, <1>5, <1>6, <1>7 DEF Minute, Hour

\* What the i-th of z digits of n is worth, where n is worth n * M.
Place(n, z, M, i) == (((n \div Power(10, z - i)) % 10) * (Power(10, z) * M)) \div Power(10, i)

\* s are the first p of them.
Places(s, n, z, M, p) == Len(s) = p /\ \A i \in 1..p : s[i] = Place(n, z, M, i)

\* The digits after the point, down to the last that is not zero, are worth
\* what was left over.
LEMMA DigitsWorth ==
  ASSUME NEW rest \in Nat, NEW z \in Nat, rest < Power(10, z), NEW p \in 0..z,
         rest % Power(10, z - p) = 0, NEW M \in Nat, NEW s, Places(s, rest, z, M, p)
  PROVE  Total(s) = rest * M
  <1> DEFINE P(i) == Power(10, i)
             q(i) == rest \div P(z - i)
  <1>1. \A i \in Nat : P(i) \in Nat \ {0}
    <2>1. 10 \in Nat \ {0} /\ 0 \in Nat
      OBVIOUS
    <2> QED
      BY <2>1, PowerFacts
  <1>2. \A i \in 0..z : z - i \in Nat /\ P(z - i) \in Nat \ {0}
    <2>1. \A i \in 0..z : z - i \in Nat
      OBVIOUS
    <2> HIDE DEF P
    <2> QED
      BY <1>1, <2>1
  <1>3. \A i \in 0..z : q(i) \in Nat
    <2> SUFFICES ASSUME NEW i \in 0..z
                 PROVE  q(i) \in Nat
      OBVIOUS
    <2> DEFINE d == P(z - i)
    <2>1. d \in Nat \ {0}
      BY <1>2
    <2> HIDE DEF d
    <2>2. rest \div d \in Nat
      BY <2>1
    <2> QED
      BY <2>2 DEF d
  <1>4. ASSUME NEW i \in 1..z
        PROVE  /\ P(z - (i - 1)) = 10 * P(z - i)
               /\ q(i) = 10 * q(i - 1) + (q(i) % 10)
               /\ P(z) = P(i) * P(z - i)
    <2>1. z - i \in Nat /\ i \in Nat /\ z - (i - 1) = (z - i) + 1 /\ i + (z - i) = z
      OBVIOUS
    <2>2. P(z - (i - 1)) = 10 * P(z - i)
      BY <2>1, PowerStep
    <2>3. P(z) = P(i) * P(z - i)
      <3>1. 10 \in Nat \ {0}
        OBVIOUS
      <3> QED
        BY <2>1, <3>1, PowerFacts
    <2> DEFINE d == P(z - i)
    <2>4. d \in Nat \ {0} /\ 10 \in Nat \ {0}
      BY <1>1, <2>1
    <2>5. q(i - 1) = (rest \div d) \div 10 /\ q(i) = rest \div d
      <3>1. q(i - 1) = rest \div (10 * d) /\ q(i) = rest \div d
        BY <2>2
      <3> HIDE DEF q, d, P
      <3>2. d * 10 = 10 * d
        BY <2>4
      <3>3. Quotient(Quotient(rest, d), 10) = Quotient(rest, d * 10)
        BY <2>4, NestedQuotient
      <3> QED
        BY <3>1, <3>2, <3>3 DEF Quotient
    <2> HIDE DEF q, d, P
    <2>6. rest \div d \in Nat
      BY <2>4
    <2> DEFINE k == rest \div d
    <2>7. k \in Nat /\ q(i) = k /\ q(i - 1) = k \div 10
      BY <2>5, <2>6
    <2> HIDE DEF k
    <2>8. q(i) = 10 * q(i - 1) + (q(i) % 10)
      BY <2>7
    <2> QED
      BY <2>2, <2>3, <2>8 DEF d
  <1>5. ASSUME NEW i \in 1..p
        PROVE  s[i] = (q(i) % 10) * (P(z - i) * M)
    <2> DEFINE c == q(i) % 10
               a == P(i)
               b == P(z - i)
    <2>1. i \in 1..z /\ i \in 0..z /\ i \in Nat
      OBVIOUS
    <2>2. s[i] = (c * ((a * b) * M)) \div a
      BY <1>4, <2>1 DEF Places, Place
    <2>3. a \in Nat \ {0} /\ b \in Nat \ {0} /\ c \in Nat
      <3> HIDE DEF q, P
      <3> QED
        BY <1>1, <1>2, <1>3, <2>1
    <2> HIDE DEF a, b, c
    <2>4. c * ((a * b) * M) = a * (c * (b * M)) + 0
      BY <2>3
    <2> DEFINE X == c * (b * M)
    <2>5. X \in Int /\ a * X + 0 \in Int /\ 0 \in Nat /\ 0 < a
      BY <2>3
    <2> HIDE DEF X
    <2>6. (a * X + 0) \div a = X
      BY <2>3, <2>5, Division
    <2> QED
      BY <2>2, <2>4, <2>6 DEF X, b, c
  <1>6. /\ p \in Nat /\ p = Len(s)
        /\ \A i \in 1..p : s[i] \in Int
    <2>1. p \in Nat /\ p = Len(s)
      BY DEF Places
    <2>2. ASSUME NEW i \in 1..p
          PROVE  s[i] \in Int
      <3>1. i \in 0..z
        OBVIOUS
      <3> HIDE DEF P, q
      <3> QED
        BY <1>2, <1>3, <1>5, <3>1
    <2> QED
      BY <2>1, <2>2
  <1>7. PICK sum : /\ \A i \in 0..p : sum[i] \in Int
                   /\ sum[0] = 0
                   /\ \A i \in 1..p : sum[i] = sum[i - 1] + s[i]
                   /\ Total(s) = sum[p]
    BY <1>6, TotalSums
  <1> DEFINE T == {i \in Nat : i <= p => sum[i] = q(i) * P(z - i) * M}
  <1>8. 0 \in T
    <2>1. z - 0 = z /\ P(z) \in Nat \ {0}
      BY <1>1
    <2>2. q(0) = 0
      <3> DEFINE d == P(z)
      <3>1. d \in Nat \ {0} /\ rest < d /\ q(0) = rest \div d
        BY <2>1
      <3> HIDE DEF d, P, q
      <3>2. rest \div d = 0
        BY <3>1
      <3> QED
        BY <3>1, <3>2
    <2> HIDE DEF q, P
    <2> QED
      BY <1>7, <2>1, <2>2
  <1>9. ASSUME NEW i \in T
        PROVE  i + 1 \in T
    <2> SUFFICES ASSUME i + 1 <= p
                 PROVE  sum[i + 1] = q(i + 1) * P(z - (i + 1)) * M
      OBVIOUS
    <2>1. i \in Nat /\ i + 1 \in 1..z /\ i + 1 \in 1..p /\ (i + 1) - 1 = i
          /\ i \in 0..z /\ i + 1 \in 0..z
      OBVIOUS
    <2>2. sum[i] = q(i) * P(z - i) * M
      BY <2>1
    <2>3. sum[i + 1] = sum[i] + s[i + 1]
      BY <1>7, <2>1
    <2>4. s[i + 1] = (q(i + 1) % 10) * (P(z - (i + 1)) * M)
      BY <1>5, <2>1
    <2>5. /\ P(z - i) = 10 * P(z - (i + 1))
          /\ q(i + 1) = 10 * q(i) + (q(i + 1) % 10)
      <3> HIDE DEF P, q
      <3> QED
        BY <1>4, <2>1
    <2> DEFINE c == q(i + 1) % 10
               d == P(z - (i + 1))
               k == q(i)
    <2>6. c \in Nat /\ d \in Nat /\ k \in Nat
      <3> HIDE DEF P, q
      <3> QED
        BY <1>2, <1>3, <2>1
    <2>7. /\ sum[i + 1] = k * (10 * d) * M + c * (d * M)
          /\ q(i + 1) = 10 * k + c
      <3> HIDE DEF P, q
      <3> QED
        BY <2>2, <2>3, <2>4, <2>5
    <2> HIDE DEF c, d, k, P, q
    <2>8. k * (10 * d) * M + c * (d * M) = (10 * k + c) * d * M
      BY <2>6
    <2> QED
      BY <2>7, <2>8 DEF d
  <1>10. \A i \in Nat : i \in T
    <2>1. T \in SUBSET Nat
      OBVIOUS
    <2> HIDE DEF T
    <2> QED
      BY <1>8, <1>9, <2>1, Induction
  <1>11. sum[p] = q(p) * P(z - p) * M
    <2>1. p \in Nat /\ p <= p
      OBVIOUS
    <2> HIDE DEF P, q
    <2> QED
      BY <1>10, <2>1
  <1>12. q(p) * P(z - p) = rest
    <2> DEFINE d == P(z - p)
    <2>1. d \in Nat \ {0} /\ rest % d = 0 /\ q(p) = rest \div d
      BY <1>2
    <2> HIDE DEF d, q, P
    <2>2. rest = d * (rest \div d) + (rest % d) /\ rest \div d \in Int
      BY <2>1, Division
    <2> DEFINE k == rest \div d
    <2>3. k \in Int /\ rest = d * k + 0 /\ q(p) = k
      BY <2>1, <2>2
    <2> HIDE DEF k
    <2>4. k * d = rest
      BY <2>1, <2>3
    <2> QED
      BY <2>3, <2>4 DEF d
  <1>13. Total(s) = rest * M
    <2> HIDE DEF P, q
    <2> QED
      BY <1>7, <1>11, <1>12
  <1> QED
    BY <1>13

\* Nothing adds up to nothing, one part to itself, and so on.
LEMMA ShortTotals ==
  /\ Total(<<>>) = 0
  /\ \A a \in Int : Total(<<a>>) = a
  /\ \A a, b \in Int : Total(<<a, b>>) = a + b
  /\ \A a, b, c \in Int : Total(<<a, b, c>>) = a + b + c
  <1> DEFINE Sums(s, n, sum) == /\ \A i \in 0..n : sum[i] \in Int
                                /\ sum[0] = 0
                                /\ \A i \in 1..n : sum[i] = sum[i - 1] + s[i]
                                /\ Total(s) = sum[n]
  <1>1. ASSUME NEW s, NEW n \in Nat, n = Len(s), \A i \in 1..n : s[i] \in Int
        PROVE  \E sum : Sums(s, n, sum)
    BY <1>1, TotalSums
  <1>2. Total(<<>>) = 0
    <2>1. 0 \in Nat /\ 0 = Len(<<>>) /\ \A i \in 1..0 : <<>>[i] \in Int
      OBVIOUS
    <2>2. PICK sum : Sums(<<>>, 0, sum)
      <3> HIDE DEF Sums
      <3> QED
        BY <1>1, <2>1
    <2> QED
      BY <2>2
  <1>3. ASSUME NEW a \in Int
        PROVE  Total(<<a>>) = a
    <2> DEFINE s == <<a>>
    <2>1. 1 \in Nat /\ 1 = Len(s) /\ \A i \in 1..1 : s[i] \in Int
      OBVIOUS
    <2>2. PICK sum : Sums(s, 1, sum)
      <3> HIDE DEF Sums, s
      <3> QED
        BY <1>1, <2>1
    <2>3. sum[1] = sum[0] + s[1]
      BY <2>2
    <2> QED
      BY <2>2, <2>3
  <1>4. ASSUME NEW a \in Int, NEW b \in Int
        PROVE  Total(<<a, b>>) = a + b
    <2> DEFINE s == <<a, b>>
    <2>1. 2 \in Nat /\ 2 = Len(s) /\ \A i \in 1..2 : s[i] \in Int
      OBVIOUS
    <2>2. PICK sum : Sums(s, 2, sum)
      <3> HIDE DEF Sums, s
      <3> QED
        BY <1>1, <2>1
    <2>3. sum[1] = sum[0] + s[1] /\ sum[2] = sum[1] + s[2]
      BY <2>2
    <2> QED
      BY <2>2, <2>3
  <1>5. ASSUME NEW a \in Int, NEW b \in Int, NEW c \in Int
        PROVE  Total(<<a, b, c>>) = a + b + c
    <2> DEFINE s == <<a, b, c>>
    <2>1. 3 \in Nat /\ 3 = Len(s) /\ \A i \in 1..3 : s[i] \in Int
      OBVIOUS
    <2>2. PICK sum : Sums(s, 3, sum)
      <3> HIDE DEF Sums, s
      <3> QED
        BY <1>1, <2>1
    <2>3. sum[1] = sum[0] + s[1] /\ sum[2] = sum[1] + s[2] /\ sum[3] = sum[2] + s[3]
      BY <2>2
    <2> QED
      BY <2>2, <2>3
  <1> QED
    BY <1>2, <1>3, <1>4, <1>5

\* _format_scaled loses nothing.
LEMMA FormatScaledWorth ==
  ASSUME NEW total \in Nat, NEW zeros \in Nat, NEW unit \in DOMAIN UnitInNs,
         UnitInNs[unit] = Power(10, zeros) * Micro
  PROVE  Worth(FormatScaled(total, zeros, unit)) = total * Micro
  <1> DEFINE P(i) == Power(10, i)
             rest == total % P(zeros)
             C == {p \in 0..zeros : rest % P(zeros - p) = 0}
             Shortest(p) == /\ rest % P(zeros - p) = 0
                            /\ \A q \in 0..(p - 1) : rest % P(zeros - q) # 0
             digits == CHOOSE p \in 0..zeros : Shortest(p)
             c == FormatScaled(total, zeros, unit)
  <1>1. /\ P(zeros) \in Nat \ {0} /\ P(0) = 1
        /\ \A i \in Nat : P(i) \in Nat \ {0}
    <2>1. 10 \in Nat \ {0} /\ 0 \in Nat
      OBVIOUS
    <2> QED
      BY <2>1, PowerFacts, PowerStep
  <1>2. rest \in Nat /\ rest < P(zeros)
        /\ total = P(zeros) * (total \div P(zeros)) + rest /\ total \div P(zeros) \in Nat
    <2> DEFINE d == P(zeros)
    <2>1. d \in Nat \ {0}
      BY <1>1
    <2> HIDE DEF d
    <2>2. /\ total % d \in Nat /\ total % d < d
          /\ total = d * (total \div d) + (total % d) /\ total \div d \in Nat
      BY <2>1, Division
    <2> QED
      BY <2>2 DEF d
  <1> HIDE DEF rest
  <1>3. \E p \in 0..zeros : Shortest(p)
    <2>1. zeros \in C
      <3>1. zeros \in 0..zeros /\ zeros - zeros = 0
        OBVIOUS
      <3>2. rest % 1 = 0
        BY <1>2
      <3> QED
        BY <1>1, <3>1, <3>2
    <2>2. C \in SUBSET Nat /\ C # {}
      <3>1. C \subseteq 0..zeros
        OBVIOUS
      <3>2. 0..zeros \subseteq Nat
        OBVIOUS
      <3> HIDE DEF C
      <3> QED
        BY <2>1, <3>1, <3>2
    <2>3. PICK p \in C : \A m \in C : p <= m
      <3> HIDE DEF C
      <3> QED
        BY <2>2, LeastNatural
    <2>4. p \in 0..zeros /\ rest % P(zeros - p) = 0
      OBVIOUS
    <2>5. ASSUME NEW q \in 0..(p - 1), rest % P(zeros - q) = 0
          PROVE  FALSE
      <3>1. q \in 0..zeros /\ q < p
        BY <2>4
      <3>2. q \in C
        BY <2>5, <3>1
      <3> HIDE DEF C
      <3> QED
        BY <2>3, <2>4, <3>1, <3>2
    <2> QED
      BY <2>4, <2>5
  <1>4. digits \in 0..zeros /\ rest % P(zeros - digits) = 0
    <2> DEFINE p == digits
    <2>1. p \in 0..zeros /\ Shortest(p)
      <3> HIDE DEF Shortest
      <3> QED
        BY <1>3
    <2> QED
      BY <2>1
  <1>5. c = [whole |-> total \div P(zeros),
             digits |-> [i \in 1..digits |-> (rest \div P(zeros - i)) % 10], unit |-> unit]
    BY DEF FormatScaled, Component, rest
  <1> HIDE DEF digits, c
  <1> DEFINE s == [i \in DOMAIN c.digits |-> (c.digits[i] * UnitInNs[c.unit]) \div P(i)]
  <1>6. Total(s) = rest * Micro
    <2>1. Len(s) = digits /\ DOMAIN c.digits = 1..digits
      BY <1>4, <1>5
    <2>2. \A i \in 1..digits : s[i] = Place(rest, zeros, Micro, i)
      BY <1>5, <2>1 DEF Place
    <2>3. Micro \in Nat /\ Places(s, rest, zeros, Micro, digits)
      BY <2>1, <2>2, Units DEF Places
    <2> HIDE DEF s
    <2> QED
      BY <1>2, <1>4, <2>3, DigitsWorth
  <1>7. Worth(c) = (total \div P(zeros)) * (P(zeros) * Micro) + rest * Micro
    <2>1. Worth(c) = c.whole * UnitInNs[c.unit] + Total(s)
      BY DEF Worth
    <2> HIDE DEF s
    <2> QED
      BY <1>5, <1>6, <2>1
  <1>8. (total \div P(zeros)) * (P(zeros) * Micro) + rest * Micro = total * Micro
    <2> DEFINE d == P(zeros)
               k == total \div d
    <2>1. d \in Nat /\ k \in Nat /\ rest \in Nat /\ Micro \in Nat /\ total = d * k + rest
      BY <1>1, <1>2, Units
    <2> HIDE DEF d, k
    <2>2. k * (d * Micro) + rest * Micro = (d * k + rest) * Micro
      BY <2>1
    <2> QED
      BY <2>1, <2>2 DEF d, k
  <1> QED
    BY <1>7, <1>8 DEF c

\* A component without a point is worth its whole number of units.
LEMMA WholeWorth ==
  ASSUME NEW n \in Nat, NEW unit \in DOMAIN UnitInNs
  PROVE  Worth(Component(n, <<>>, unit)) = n * UnitInNs[unit]
  <1> DEFINE c == Component(n, <<>>, unit)
  <1>1. c.whole = n /\ c.digits = <<>> /\ c.unit = unit
    BY DEF Component
  <1>2. [i \in DOMAIN c.digits |-> (c.digits[i] * UnitInNs[c.unit]) \div Power(10, i)] = <<>>
    BY <1>1
  <1>3. UnitInNs[unit] \in Nat
    BY Units
  <1> HIDE DEF c
  <1>4. Worth(c) = n * UnitInNs[unit] + 0
    BY <1>1, <1>2, ShortTotals DEF Worth
  <1> QED
    BY <1>3, <1>4 DEF c

\* Rounding a multiple gives the quotient.
LEMMA RoundingMultiples ==
  ASSUME NEW k \in Int, NEW d \in Nat \ {0}
  PROVE  RoundHalfEven(k * d, d) = k
  <1>1. (k * d) \div d = k /\ (k * d) % d = 0
    <2> DEFINE a == k * d
    <2>1. a \in Int /\ 0 \in Nat /\ 0 < d /\ a = d * k + 0
      OBVIOUS
    <2> HIDE DEF a
    <2>2. a \div d = k /\ a % d = 0
      BY <2>1, Division
    <2> QED
      BY <2>2 DEF a
  <1>2. ~(2 * 0 > d) /\ ~(2 * 0 = d)
    OBVIOUS
  <1> QED
    BY <1>1, <1>2 DEF RoundHalfEven

\* What the parts of a text are worth.
LEMMA PartsWorth ==
  /\ \A a : Worth(a) \in Int =>
       Total([i \in DOMAIN <<a>> |-> Worth(<<a>>[i])]) = Worth(a)
  /\ \A a, b : Worth(a) \in Int /\ Worth(b) \in Int =>
       Total([i \in DOMAIN <<a, b>> |-> Worth(<<a, b>>[i])]) = Worth(a) + Worth(b)
  /\ \A a, b, c : Worth(a) \in Int /\ Worth(b) \in Int /\ Worth(c) \in Int =>
       Total([i \in DOMAIN <<a, b, c>> |-> Worth(<<a, b, c>>[i])])
         = Worth(a) + Worth(b) + Worth(c)
  <1>1. \A a : [i \in DOMAIN <<a>> |-> Worth(<<a>>[i])] = <<Worth(a)>>
    OBVIOUS
  <1>2. \A a, b : [i \in DOMAIN <<a, b>> |-> Worth(<<a, b>>[i])] = <<Worth(a), Worth(b)>>
    OBVIOUS
  <1>3. \A a, b, c : [i \in DOMAIN <<a, b, c>> |-> Worth(<<a, b, c>>[i])]
                       = <<Worth(a), Worth(b), Worth(c)>>
    OBVIOUS
  <1> QED
    BY <1>1, <1>2, <1>3, ShortTotals

\* A number in a mixed radix: d to the second place, e of those to the third.
LEMMA MixedRadix ==
  ASSUME NEW n \in Nat, NEW d \in Nat \ {0}, NEW e \in Nat \ {0}
  PROVE  /\ n = (n \div (e * d)) * (e * d) + ((n \div d) % e) * d + (n % d)
         /\ n \div (e * d) \in Nat /\ n \div d \in Nat /\ (n \div d) % e \in Nat /\ n % d \in Nat
         /\ n < e * d => n \div (e * d) = 0
  <1> DEFINE q == n \div d
             r == n % d
             h == q \div e
             m == q % e
  <1>1. q \in Nat /\ r \in Nat /\ n = d * q + r
    BY Division
  <1>2. h \in Nat /\ m \in Nat /\ q = e * h + m
    <2> HIDE DEF q
    <2> QED
      BY <1>1, Division
  <1>3. n \div (e * d) = h
    <2>1. Quotient(Quotient(n, d), e) = Quotient(n, d * e)
      BY NestedQuotient
    <2>2. d * e = e * d
      OBVIOUS
    <2> QED
      BY <2>1, <2>2 DEF Quotient
  <1>4. n < e * d => n \div (e * d) = 0
    <2> DEFINE D == e * d
    <2>1. D \in Nat \ {0}
      OBVIOUS
    <2> HIDE DEF D
    <2>2. n < D => n \div D = 0
      BY <2>1
    <2> QED
      BY <2>2 DEF D
  <1> HIDE DEF q, r, h, m
  <1>5. n = h * (e * d) + m * d + r
    <2>1. d * (e * h + m) = h * (e * d) + m * d
      BY <1>1, <1>2
    <2> QED
      BY <1>1, <1>2, <2>1
  <1> QED
    BY <1>1, <1>2, <1>3, <1>4, <1>5 DEF q, r, m

\* The hours, minutes and seconds of a long duration make it up.
LEMMA HoursMinutesSeconds ==
  ASSUME NEW us \in Nat
  PROVE  /\ us \div Minute \in Nat /\ us \div Hour \in Nat
         /\ us % Minute \in Nat /\ (us \div Minute) % Sixty \in Nat
         /\ us = (us \div Hour) * Hour + ((us \div Minute) % Sixty) * Minute + (us % Minute)
         /\ us < Hour => us \div Hour = 0
  <1>1. Minute \in Nat \ {0} /\ Sixty \in Nat \ {0} /\ Hour = Sixty * Minute
    BY Units, DurationsAssumption
  <1>2. \A d, e \in Nat \ {0} :
          /\ us = (us \div (e * d)) * (e * d) + ((us \div d) % e) * d + (us % d)
          /\ us \div (e * d) \in Nat /\ us \div d \in Nat /\ (us \div d) % e \in Nat
          /\ us % d \in Nat /\ (us < e * d => us \div (e * d) = 0)
    BY MixedRadix, Zenon
  <1> QED
    BY <1>1, <1>2, Zenon

\* Two parts, after one more or none.
LEMMA Concatenated ==
  ASSUME NEW a, NEW b, NEW c
  PROVE  /\ <<a>> \o <<b, c>> = <<a, b, c>>
         /\ <<>> \o <<b, c>> = <<b, c>>
  <1> DEFINE S == {a, b, c}
  <1>1. <<a>> \in Seq(S) /\ <<b, c>> \in Seq(S)
    OBVIOUS
  <1>2. /\ <<a>> \o <<b, c>> \in Seq(S) /\ Len(<<a>> \o <<b, c>>) = 3
        /\ <<a, b, c>> \in Seq(S) /\ Len(<<a, b, c>>) = 3
    OBVIOUS
  <1>3. \A i \in 1..3 : (<<a>> \o <<b, c>>)[i] = <<a, b, c>>[i]
    OBVIOUS
  <1> HIDE DEF S
  <1>4. <<a>> \o <<b, c>> = <<a, b, c>>
    BY <1>2, <1>3, SeqEqual
  <1>5. <<>> \o <<b, c>> = <<b, c>>
    BY <1>1, ConcatEmptySeq
  <1> QED
    BY <1>4, <1>5

\* What format_go_duration writes is worth the duration it is given.
LEMMA FormatWorth ==
  ASSUME NEW duration \in Int
  PROVE  /\ InNs(FormatDuration(duration)) = duration * Micro
         /\ FormatDuration(duration).negative = (duration < 0)
  <1> DEFINE us == Magnitude(duration)
             text == FormatDuration(duration)
             sum == Total([i \in DOMAIN text.parts |-> Worth(text.parts[i])])
             hours == Component(us \div Hour, <<>>, "h")
             minutes == Component((us \div Minute) % Sixty, <<>>, "m")
             seconds == FormatScaled(us % Minute, 2 * Zeros, "s")
             long == (IF us >= Hour THEN <<hours>> ELSE <<>>) \o <<minutes, seconds>>
  <1>1. /\ us \in Nat
        /\ duration < 0 => us = -duration
        /\ ~(duration < 0) => us = duration
    BY DEF Magnitude
  <1>2. text.negative = (duration < 0)
    BY DEF FormatDuration
  <1>3. text.parts = CASE us = 0 -> <<Component(0, <<>>, "s")>>
                       [] us \in 1..(Milli - 1) -> <<Component(us, <<>>, "us")>>
                       [] us \in Milli..(Second - 1) -> <<FormatScaled(us, Zeros, "ms")>>
                       [] us \in Second..(Minute - 1) -> <<FormatScaled(us, 2 * Zeros, "s")>>
                       [] OTHER -> long
    BY DEF FormatDuration
  <1>4. /\ Micro \in Nat \ {0} /\ Milli = Micro /\ Milli \in Nat
        /\ Second \in Nat \ {0} /\ Minute \in Nat \ {0} /\ Hour \in Nat \ {0}
        /\ Zeros \in Nat /\ 2 * Zeros \in Nat
        /\ Milli <= Second /\ Second <= Minute
    <2>1. Zeros \in Nat /\ 2 * Zeros \in Nat /\ Sixty \in Nat \ {0}
      BY DurationsAssumption
    <2>2. \A m, n \in Nat \ {0} : m <= n * m
      OBVIOUS
    <2> QED
      BY <2>1, <2>2, Units
  <1>5. /\ UnitInNs["us"] = Micro
        /\ UnitInNs["ms"] = Power(10, Zeros) * Micro
        /\ UnitInNs["s"] = Power(10, 2 * Zeros) * Micro
        /\ UnitInNs["m"] = Minute * Micro /\ UnitInNs["h"] = Hour * Micro
        /\ {"us", "ms", "s", "m", "h"} \subseteq DOMAIN UnitInNs
    BY DEF UnitInNs, Milli, Second
  <1> HIDE DEF us, text, hours, minutes, seconds
  <1>6. sum = us * Micro
    <2>1. CASE us = 0
      <3>1. text.parts = <<Component(0, <<>>, "s")>>
        BY <1>3, <1>4, <2>1
      <3>2. Worth(Component(0, <<>>, "s")) = 0
        <4>1. 0 \in Nat /\ "s" \in DOMAIN UnitInNs
          BY <1>5
        <4>2. Worth(Component(0, <<>>, "s")) = 0 * UnitInNs["s"]
          BY <4>1, WholeWorth
        <4>3. UnitInNs["s"] \in Nat
          BY <4>1, Units
        <4> QED
          BY <4>2, <4>3
      <3> QED
        BY <1>4, <2>1, <3>1, <3>2, PartsWorth
    <2>2. CASE us \in 1..(Milli - 1)
      <3>1. text.parts = <<Component(us, <<>>, "us")>>
        BY <1>3, <1>4, <2>2
      <3>2. Worth(Component(us, <<>>, "us")) = us * Micro
        BY <1>1, <1>5, WholeWorth
      <3>3. us * Micro \in Int
        BY <1>1, <1>4
      <3> QED
        BY <3>1, <3>2, <3>3, PartsWorth
    <2>3. CASE us \in Milli..(Second - 1)
      <3>1. text.parts = <<FormatScaled(us, Zeros, "ms")>>
        BY <1>3, <1>4, <2>3
      <3>2. Worth(FormatScaled(us, Zeros, "ms")) = us * Micro
        BY <1>1, <1>4, <1>5, FormatScaledWorth
      <3>3. us * Micro \in Int
        BY <1>1, <1>4
      <3> QED
        BY <3>1, <3>2, <3>3, PartsWorth
    <2>4. CASE us \in Second..(Minute - 1)
      <3>1. text.parts = <<FormatScaled(us, 2 * Zeros, "s")>>
        BY <1>3, <1>4, <2>4
      <3>2. Worth(FormatScaled(us, 2 * Zeros, "s")) = us * Micro
        BY <1>1, <1>4, <1>5, FormatScaledWorth
      <3>3. us * Micro \in Int
        BY <1>1, <1>4
      <3> QED
        BY <3>1, <3>2, <3>3, PartsWorth
    <2>5. CASE us >= Minute
      <3>1. text.parts = long
        BY <1>1, <1>3, <1>4, <2>5
      <3> DEFINE h == us \div Hour
                 m == (us \div Minute) % Sixty
                 s == us % Minute
      <3>2. /\ h \in Nat /\ m \in Nat /\ s \in Nat
            /\ us = h * Hour + m * Minute + s
            /\ us < Hour => h = 0
        BY <1>1, HoursMinutesSeconds
      <3>3. Worth(hours) = h * (Hour * Micro) /\ Worth(minutes) = m * (Minute * Micro)
        BY <1>5, <3>2, WholeWorth DEF hours, minutes
      <3>4. Worth(seconds) = s * Micro
        BY <1>4, <1>5, <3>2, FormatScaledWorth DEF seconds
      <3> HIDE DEF h, m, s
      <3>5. Worth(hours) \in Int /\ Worth(minutes) \in Int /\ Worth(seconds) \in Int
        BY <1>4, <3>2, <3>3, <3>4
      <3>6. us * Micro = h * (Hour * Micro) + m * (Minute * Micro) + s * Micro
        BY <1>4, <3>2
      <3>7. us * Micro = Worth(hours) + Worth(minutes) + Worth(seconds)
        BY <3>3, <3>4, <3>6
      <3>8. CASE us >= Hour
        <4>1. text.parts = <<hours, minutes, seconds>>
          BY <3>1, <3>8, Concatenated
        <4> QED
          BY <3>5, <3>7, <4>1, PartsWorth
      <3>9. CASE us < Hour
        <4>1. ~(us >= Hour)
          BY <1>1, <1>4, <3>9
        <4>2. text.parts = <<minutes, seconds>>
          BY <3>1, <4>1, Concatenated
        <4>3. Worth(hours) = 0
          BY <1>4, <3>2, <3>3, <3>9
        <4> QED
          BY <3>5, <3>7, <4>2, <4>3, PartsWorth
      <3> QED
        BY <1>1, <1>4, <3>8, <3>9
    <2> QED
      BY <1>1, <1>4, <2>1, <2>2, <2>3, <2>4, <2>5
  <1>7. InNs(text) = IF duration < 0 THEN -(us * Micro) ELSE us * Micro
    BY <1>2, <1>6 DEF InNs
  <1>8. InNs(text) = duration * Micro
    BY <1>1, <1>4, <1>7
  <1> QED
    BY <1>2, <1>8 DEF text

\* A duration that format_go_duration writes is the one that parse_go_duration
\* reads ("round-trips exactly"), whatever its sign and however many digits.
THEOREM DurationsRoundTrip ==
  \A duration \in Int : ParseDuration(FormatDuration(duration)) = duration
  <1> SUFFICES ASSUME NEW duration \in Int
               PROVE  ParseDuration(FormatDuration(duration)) = duration
    OBVIOUS
  <1> DEFINE text == FormatDuration(duration)
             us == Magnitude(duration)
  <1>1. InNs(text) = duration * Micro /\ text.negative = (duration < 0)
    BY FormatWorth
  <1>2. /\ us \in Nat /\ Micro \in Nat \ {0}
        /\ duration < 0 => us = -duration
        /\ ~(duration < 0) => us = duration
    BY Units DEF Magnitude
  <1>3. Magnitude(duration * Micro) = us * Micro
    <2>1. /\ duration < 0 => duration * Micro < 0 /\ -(duration * Micro) = us * Micro
          /\ ~(duration < 0) => ~(duration * Micro < 0) /\ duration * Micro = us * Micro
      BY <1>2
    <2> QED
      BY <2>1 DEF Magnitude
  <1> HIDE DEF text, us
  <1>4. RoundHalfEven(us * Micro, Micro) = us
    BY <1>2, RoundingMultiples
  <1>5. ParseDuration(text) = IF duration < 0 THEN -us ELSE us
    BY <1>1, <1>3, <1>4 DEF ParseDuration
  <1>6. ParseDuration(text) = duration
    BY <1>2, <1>5
  <1> QED
    BY <1>6 DEF text

---------------------------------------------------------------------------
(* Rounding.                                                               *)

\* Rounding stays on its side of a multiple.
LEMMA RoundingOrder ==
  ASSUME NEW n \in Int, NEW d \in Nat \ {0}, NEW j \in Int
  PROVE  /\ RoundHalfEven(n, d) \in Int
         /\ n <= d * j => RoundHalfEven(n, d) <= j
         /\ n >= d * j => RoundHalfEven(n, d) >= j
  <1> DEFINE q == n \div d
             r == n % d
  <1>1. q \in Int /\ r \in Nat /\ r < d /\ n = d * q + r
    BY Division
  <1>2. /\ RoundHalfEven(n, d) \in {q, q + 1}
        /\ r = 0 => RoundHalfEven(n, d) = q
    BY DEF RoundHalfEven
  <1> HIDE DEF q, r
  <1>3. \A x, y \in Int : x <= y - 1 => d * x <= d * y - d
    <2> SUFFICES ASSUME NEW x \in Int, NEW y \in Int, x <= y - 1
                 PROVE  d * x <= d * y - d
      OBVIOUS
    <2>1. d * x <= d * (y - 1) /\ d * (y - 1) = d * y - d
      OBVIOUS
    <2> QED
      BY <2>1
  <1>4. ASSUME n <= d * j
        PROVE  q < j \/ (q = j /\ r = 0)
    <2>1. ~(j <= q - 1)
      <3> SUFFICES ASSUME j <= q - 1
                   PROVE  FALSE
        OBVIOUS
      <3>1. d * j <= d * q - d
        BY <1>1, <1>3
      <3> QED
        BY <1>1, <1>4, <3>1
    <2> QED
      BY <1>1, <1>4, <2>1
  <1>5. ASSUME n >= d * j
        PROVE  q >= j
    <2> SUFFICES ASSUME q <= j - 1
                 PROVE  FALSE
      BY <1>1
    <2>1. d * q <= d * j - d
      BY <1>1, <1>3
    <2> QED
      BY <1>1, <1>5, <2>1
  <1> QED
    BY <1>1, <1>2, <1>4, <1>5

\* Powers of two are positive, grow, and outgrow their exponent.
LEMMA PowersOfTwo ==
  /\ \A n \in Nat : Power(2, n) \in Nat \ {0} /\ n < Power(2, n)
  /\ \A m, n \in Nat : m <= n => Power(2, n) = Power(2, m) * Power(2, n - m)
  /\ \A m, n \in Nat : m <= n => Power(2, m) <= Power(2, n)
  <1>1. 2 \in Nat \ {0} /\ 0 \in Nat
    OBVIOUS
  <1>2. /\ Power(2, 0) = 1
        /\ \A n \in Nat : Power(2, n) \in Nat \ {0} /\ Power(2, n + 1) = 2 * Power(2, n)
    BY <1>1, PowerStep, PowerFacts
  <1> DEFINE T == {n \in Nat : n < Power(2, n)}
  <1>3. 0 \in T /\ \A n \in T : n + 1 \in T
    BY <1>2
  <1>4. \A n \in Nat : n \in T
    <2>1. T \in SUBSET Nat
      OBVIOUS
    <2> HIDE DEF T
    <2> QED
      BY <1>3, <2>1, Induction
  <1>5. \A m, n \in Nat : m <= n => Power(2, n) = Power(2, m) * Power(2, n - m)
    <2> SUFFICES ASSUME NEW m \in Nat, NEW n \in Nat, m <= n
                 PROVE  Power(2, n) = Power(2, m) * Power(2, n - m)
      OBVIOUS
    <2>1. n - m \in Nat /\ m + (n - m) = n
      OBVIOUS
    <2> QED
      BY <1>1, <2>1, PowerFacts
  <1>6. \A x, y \in Nat \ {0} : x <= x * y
    OBVIOUS
  <1>7. \A m, n \in Nat : m <= n => Power(2, m) <= Power(2, n)
    <2> SUFFICES ASSUME NEW m \in Nat, NEW n \in Nat, m <= n
                 PROVE  Power(2, m) <= Power(2, n)
      OBVIOUS
    <2> DEFINE x == Power(2, m)
               y == Power(2, n - m)
    <2>1. n - m \in Nat
      OBVIOUS
    <2>2. x \in Nat \ {0} /\ y \in Nat \ {0}
      BY <1>2, <2>1
    <2>3. Power(2, n) = x * y
      BY <1>5
    <2> HIDE DEF x, y
    <2>4. x <= Power(2, n)
      BY <1>6, <2>2, <2>3
    <2> QED
      BY <2>4 DEF x
  <1> QED
    BY <1>2, <1>4, <1>5, <1>7

\* The last place of a number's significand.
LEMMA LastPlaces ==
  ASSUME NEW bits \in Nat, NEW n \in Int
  PROVE  \E k \in Nat : /\ LastPlace(bits, n) = Power(2, k)
                        /\ Magnitude(n) < Power(2, bits + k)
                        /\ k > 0 => Magnitude(n) >= Power(2, bits + k - 1)
  <1> DEFINE size == Magnitude(n)
             Fits(k) == /\ size < Power(2, bits + k)
                        /\ k > 0 => size >= Power(2, bits + k - 1)
             T == {k \in Nat : size < Power(2, bits + k)}
  <1>1. size \in Nat
    BY DEF Magnitude
  <1> HIDE DEF size
  <1>2. size \in T
    <2>1. size <= bits + size /\ bits + size \in Nat
      BY <1>1
    <2>2. size < Power(2, size) /\ Power(2, size) <= Power(2, bits + size)
          /\ Power(2, size) \in Nat /\ Power(2, bits + size) \in Nat
      BY <1>1, <2>1, PowersOfTwo
    <2> QED
      BY <1>1, <2>2
  <1>3. PICK k \in T : \A m \in T : k <= m
    <2>1. T \in SUBSET Nat /\ T # {}
      BY <1>2
    <2> HIDE DEF T
    <2> QED
      BY <2>1, LeastNatural
  <1>4. k \in 0..size
    BY <1>1, <1>2, <1>3
  <1>5. Fits(k)
    <2>1. k > 0 => size >= Power(2, bits + k - 1)
      <3> SUFFICES ASSUME k > 0, ~(size >= Power(2, bits + k - 1))
                   PROVE  FALSE
        OBVIOUS
      <3>1. k - 1 \in Nat /\ bits + (k - 1) = bits + k - 1 /\ bits + k - 1 \in Nat
        OBVIOUS
      <3>2. Power(2, bits + k - 1) \in Nat
        BY <3>1, PowersOfTwo
      <3>3. k - 1 \in T
        BY <1>1, <3>1, <3>2
      <3> QED
        BY <1>3, <3>1, <3>3
    <2> QED
      BY <2>1
  <1> DEFINE j == CHOOSE i \in 0..size : Fits(i)
  <1>6. j \in 0..size /\ Fits(j)
    <2> HIDE DEF Fits
    <2> QED
      BY <1>4, <1>5
  <1>7. LastPlace(bits, n) = Power(2, j)
    BY DEF LastPlace, size
  <1> HIDE DEF j
  <1>8. j \in Nat
    BY <1>1, <1>6
  <1> QED
    BY <1>6, <1>7, <1>8 DEF size

\* A floating-point number lies between no number and what that is rounded to.
LEMMA RoundToOrder ==
  ASSUME NEW bits \in Nat \ {0}, NEW a \in Int, RoundTo(bits, a) = a, NEW n \in Int
  PROVE  /\ RoundTo(bits, n) \in Int
         /\ n <= a => RoundTo(bits, n) <= a
         /\ n >= a => RoundTo(bits, n) >= a
  <1>1. PICK k \in Nat : /\ LastPlace(bits, n) = Power(2, k)
                         /\ Magnitude(n) < Power(2, bits + k)
                         /\ k > 0 => Magnitude(n) >= Power(2, bits + k - 1)
    BY LastPlaces
  <1>2. PICK l \in Nat : /\ LastPlace(bits, a) = Power(2, l)
                         /\ Magnitude(a) < Power(2, bits + l)
    BY LastPlaces
  <1> DEFINE P == Power(2, k)
             R == RoundHalfEven(n, P)
  <1>3. P \in Nat \ {0} /\ RoundTo(bits, n) = R * P
    BY <1>1, PowersOfTwo DEF RoundTo
  <1> HIDE DEF P, R
  <1>4. /\ R \in Int
        /\ \A j \in Int : (n <= P * j => R <= j) /\ (n >= P * j => R >= j)
    BY <1>3, RoundingOrder DEF R
  <1>5. \A i, j \in Int : i <= j => i * P <= P * j
    <2> SUFFICES ASSUME NEW i \in Int, NEW j \in Int, i <= j
                 PROVE  i * P <= P * j
      OBVIOUS
    <2>1. (j - i) * P >= 0
      BY <1>3
    <2> QED
      BY <1>3, <2>1
  <1>6. \A j \in Int : /\ n <= P * j => R * P <= P * j
                       /\ n >= P * j => R * P >= P * j
    <2> SUFFICES ASSUME NEW j \in Int
                 PROVE  /\ n <= P * j => R * P <= P * j
                        /\ n >= P * j => R * P >= P * j
      OBVIOUS
    <2>1. R <= j => R * P <= P * j
      BY <1>4, <1>5
    <2>2. j * P <= P * R <=> P * j <= R * P
      BY <1>3, <1>4
    <2>3. R >= j => R * P >= P * j
      BY <1>4, <1>5, <2>2
    <2> QED
      BY <1>4, <2>1, <2>3
  <1>7. CASE l >= k
    <2> DEFINE b == RoundHalfEven(a, Power(2, l))
               c == Power(2, l - k)
    <2>1. Power(2, l) \in Nat \ {0} /\ l - k \in Nat
      <3>1. l - k \in Nat
        BY <1>7
      <3> QED
        BY <3>1, PowersOfTwo
    <2>2. b \in Int /\ c \in Nat
      BY <2>1, RoundingOrder, PowersOfTwo
    <2>3. Power(2, l) = P * c
      BY <1>7, PowersOfTwo DEF P
    <2>4. a = b * (P * c)
      BY <1>2, <2>3 DEF RoundTo
    <2> HIDE DEF b, c
    <2>5. a = P * (b * c) /\ b * c \in Int
      BY <1>3, <2>2, <2>4
    <2> DEFINE j == b * c
    <2>6. a = P * j /\ j \in Int
      BY <2>5
    <2> HIDE DEF j
    <2>7. R * P \in Int
      BY <1>3, <1>4
    <2> QED
      BY <1>3, <1>6, <2>6, <2>7
  <1>8. CASE l < k
    <2> DEFINE Q == Power(2, bits + k - 1)
               c == Power(2, bits - 1)
    <2>1. /\ k > 0 /\ bits - 1 \in Nat /\ bits + k - 1 \in Nat /\ bits + l \in Nat
          /\ bits + l <= bits + k - 1 /\ k <= bits + k - 1 /\ (bits + k - 1) - k = bits - 1
      BY <1>8
    <2>2. Q = P * c /\ c \in Nat \ {0} /\ Q \in Nat \ {0}
      BY <2>1, PowersOfTwo DEF P
    <2>3. Magnitude(n) >= Q
      BY <1>1, <2>1
    <2>4. Magnitude(a) < Q
      <3>1. Power(2, bits + l) <= Q /\ Power(2, bits + l) \in Nat
        BY <2>1, PowersOfTwo
      <3>2. Magnitude(a) \in Nat
        BY DEF Magnitude
      <3> QED
        BY <1>2, <2>2, <3>1, <3>2
    <2> HIDE DEF Q, c
    <2>5. -Q < a /\ a < Q /\ (n <= -Q \/ n >= Q)
      BY <2>2, <2>3, <2>4 DEF Magnitude
    <2>6. R * P \in Int
      BY <1>3, <1>4
    <2>7. CASE n <= -Q
      <3>1. -Q = P * (-c) /\ -c \in Int
        BY <1>3, <2>2
      <3> DEFINE j == -c
      <3>2. j \in Int /\ -Q = P * j /\ n <= P * j
        BY <2>7, <3>1
      <3> HIDE DEF j
      <3>3. R * P <= -Q
        BY <1>6, <3>2
      <3> QED
        BY <1>3, <2>2, <2>5, <2>6, <2>7, <3>3
    <2>8. CASE n >= Q
      <3>1. c \in Int /\ n >= P * c
        BY <2>2, <2>8
      <3>2. R * P >= Q
        BY <1>6, <2>2, <3>1
      <3> QED
        BY <1>3, <2>2, <2>5, <2>6, <2>8, <3>2
    <2> QED
      BY <2>5, <2>7, <2>8
  <1> QED
    BY <1>7, <1>8

\* A text has the sign that is written before it.
LEMMA TextsSign ==
  ASSUME NEW text, WellFormed(text)
  PROVE  /\ InNs(text) \in Int
         /\ InNs(text) < 0 => text.negative
         /\ InNs(text) > 0 => ~text.negative
  <1> DEFINE n == Len(text.parts)
             s == [i \in DOMAIN text.parts |-> Worth(text.parts[i])]
  <1>1. n \in Nat /\ DOMAIN text.parts = 1..n /\ text.negative \in BOOLEAN
    BY DEF WellFormed
  <1>2. ASSUME NEW i \in 1..n
        PROVE  Worth(text.parts[i]) \in Nat
    <2> DEFINE c == text.parts[i]
               m == Len(c.digits)
               t == [j \in DOMAIN c.digits |-> (c.digits[j] * UnitInNs[c.unit]) \div Power(10, j)]
    <2>1. /\ c.whole \in Nat /\ c.unit \in DOMAIN UnitInNs
          /\ m \in Nat /\ DOMAIN c.digits = 1..m
          /\ \A j \in 1..m : c.digits[j] \in 0..9
      BY <1>1 DEF WellFormed
    <2> HIDE DEF c
    <2>2. UnitInNs[c.unit] \in Nat
      BY <2>1, Units
    <2>3. ASSUME NEW j \in 1..m
          PROVE  t[j] \in Nat
      <3> DEFINE a == c.digits[j] * UnitInNs[c.unit]
                 d == Power(10, j)
      <3>1. a \in Nat
        <4>1. c.digits[j] \in Nat
          BY <2>1
        <4> QED
          BY <2>2, <4>1
      <3>2. d \in Nat \ {0}
        <4>1. 10 \in Nat \ {0} /\ j \in Nat /\ 0 \in Nat
          OBVIOUS
        <4> QED
          BY <4>1, PowerFacts
      <3>3. t[j] = a \div d
        BY <2>1
      <3> HIDE DEF a, d, t
      <3>4. a \div d \in Nat
        BY <3>1, <3>2
      <3> QED
        BY <3>3, <3>4
    <2>4. Len(t) = m
      BY <2>1
    <2> HIDE DEF t
    <2>5. Total(t) \in Nat
      BY <2>1, <2>3, <2>4, TotalNat
    <2>6. Worth(c) = c.whole * UnitInNs[c.unit] + Total(t)
      BY DEF Worth, t
    <2>7. Worth(c) \in Nat
      <3> DEFINE w == c.whole
                 u == UnitInNs[c.unit]
                 z == Total(t)
      <3>1. w \in Nat /\ u \in Nat /\ z \in Nat
        BY <2>1, <2>2, <2>5
      <3>2. Worth(c) = w * u + z
        BY <2>6
      <3> HIDE DEF w, u, z
      <3> QED
        BY <3>1, <3>2
    <2> QED
      BY <2>7 DEF c
  <1>3. Len(s) = n /\ \A i \in 1..n : s[i] \in Nat
    BY <1>1, <1>2
  <1> HIDE DEF s
  <1>4. Total(s) \in Nat
    BY <1>1, <1>3, TotalNat
  <1>5. InNs(text) = IF text.negative THEN -Total(s) ELSE Total(s)
    BY DEF InNs, s
  <1> QED
    BY <1>1, <1>4, <1>5

\* A text of whole microseconds is read as what it says.
LEMMA WholeMicroseconds ==
  ASSUME NEW text, WellFormed(text), InNs(text) % Micro = 0
  PROVE  ParseDuration(text) \in Int /\ ParseDuration(text) * Micro = InNs(text)
  <1> DEFINE ns == InNs(text)
             k == ns \div Micro
             size == Magnitude(k)
  <1>1. /\ ns \in Int /\ Micro \in Nat \ {0}
        /\ ns < 0 => text.negative
        /\ ns > 0 => ~text.negative
    BY TextsSign, Units
  <1> HIDE DEF ns
  <1>2. k \in Int /\ ns = k * Micro
    <2>1. k \in Int /\ ns = Micro * k + (ns % Micro)
      BY <1>1, Division
    <2>2. ns % Micro = 0
      BY DEF ns
    <2> HIDE DEF k
    <2>3. ns = Micro * k + 0
      BY <2>1, <2>2, Zenon
    <2> QED
      BY <1>1, <2>1, <2>3
  <1> HIDE DEF k
  <1>3. size \in Nat /\ Magnitude(ns) = size * Micro
        /\ (k < 0 => size = -k) /\ (~(k < 0) => size = k)
    <2>1. (k < 0 => ns < 0 /\ -ns = (-k) * Micro) /\ (~(k < 0) => ~(ns < 0))
      BY <1>1, <1>2
    <2> QED
      BY <1>2, <2>1 DEF Magnitude
  <1> HIDE DEF size
  <1>4. RoundHalfEven(Magnitude(ns), Micro) = size
    BY <1>1, <1>3, RoundingMultiples
  <1>5. ParseDuration(text) = IF text.negative THEN -size ELSE size
    BY <1>4 DEF ParseDuration, ns
  <1>6. (k < 0 => text.negative) /\ (k > 0 => ~text.negative)
    <2>1. (k < 0 => ns < 0) /\ (k > 0 => ns > 0)
      BY <1>1, <1>2
    <2> QED
      BY <1>1, <2>1
  <1>7. ParseDuration(text) = k
    BY <1>2, <1>3, <1>5, <1>6
  <1> QED
    BY <1>2, <1>7 DEF ns

\* What is announced of a constraint, as the host gets it.
Sent(f, c) ==
  LET b == AnnouncedBound(f, c)
  IN  IF f.kind = "duration" THEN [b EXCEPT !.at = InNs(FormatDuration(b.at \div Micro))] ELSE b

\* A value that the host reads: of the field's kind, not within a float's nudge.
Reads(f, value) ==
  /\ f.kind \in {"int", "float", "duration"} => value[2] \in Int
  /\ f.kind = "duration" => value[2] % Micro = 0
  /\ f.kind = "float" => \A c \in f.constraints : ~Within(f, c, value[2])

\* The bounds of a float: an inclusive bound is nudged away from what it admits.
LEMMA FloatBounds ==
  ASSUME NEW f, f.kind = "float", NEW a \in Int, RoundTo(Bits, a) = a
  PROVE  /\ RoundTo(Bits, a - Epsilon(f)) \in Int /\ RoundTo(Bits, a - Epsilon(f)) <= a
         /\ RoundTo(Bits, a + Epsilon(f)) \in Int /\ RoundTo(Bits, a + Epsilon(f)) >= a
  <1>1. Epsilon(f) = 2
    BY DEF Epsilon
  <1>2. Bits \in Nat \ {0} /\ a - 2 \in Int /\ a - 2 <= a /\ a + 2 \in Int /\ a + 2 >= a
    BY BoundsAssumption
  <1> QED
    BY <1>1, <1>2, RoundToOrder

\* What a constraint says.
LEMMA HoldsFacts ==
  ASSUME NEW c, NEW value
  PROVE  /\ c.op = "gt" => (Holds(c, value) <=> value[2] > c.at)
         /\ c.op = "lt" => (Holds(c, value) <=> value[2] < c.at)
         /\ c.op = "ge" => (Holds(c, value) <=> value[2] >= c.at)
         /\ c.op = "le" => (Holds(c, value) <=> value[2] <= c.at)
  BY DEF Holds

\* The host holds a value to an announced bound exactly where the connector
\* holds it to the declared one.
LEMMA BoundAgrees ==
  ASSUME NEW f, IsField(f), NEW c \in f.constraints, NEW value, Reads(f, value)
  PROVE  Holds(Sent(f, c), value) <=> Holds(c, value)
  <1>1. /\ c = [op |-> c.op, at |-> c.at]
        /\ \/ f.kind = "string" /\ c.op = "pattern"
           \/ /\ f.kind \in {"int", "float", "duration"}
              /\ c.op \in {"gt", "lt", "ge", "le"} /\ IsNumber(f, c.at)
    BY DEF IsField
  <1>2. CASE c.op = "pattern"
    BY <1>1, <1>2 DEF Sent, AnnouncedBound
  <1>3. CASE f.kind = "int" /\ c.op \in {"gt", "lt", "ge", "le"}
    <2>1. c.at \in Int /\ value[2] \in Int /\ Epsilon(f) = 1
      BY <1>1, <1>3 DEF IsNumber, Reads, Epsilon
    <2>2. /\ c.op = "ge" => Sent(f, c) = [op |-> "gt", at |-> c.at - 1]
          /\ c.op = "le" => Sent(f, c) = [op |-> "lt", at |-> c.at + 1]
          /\ c.op \in {"gt", "lt"} => Sent(f, c) = c
      BY <1>3, <2>1 DEF Sent, AnnouncedBound
    <2>3. /\ c.op = "ge" => (Holds(Sent(f, c), value) <=> value[2] > c.at - 1)
          /\ c.op = "le" => (Holds(Sent(f, c), value) <=> value[2] < c.at + 1)
      BY <2>2, HoldsFacts
    <2>4. /\ c.op = "ge" => (Holds(c, value) <=> value[2] >= c.at)
          /\ c.op = "le" => (Holds(c, value) <=> value[2] <= c.at)
      BY HoldsFacts
    <2> QED
      BY <1>3, <2>1, <2>2, <2>3, <2>4
  <1>4. CASE f.kind = "float" /\ c.op \in {"gt", "lt", "ge", "le"}
    <2> DEFINE below == RoundTo(Bits, c.at - Epsilon(f))
               above == RoundTo(Bits, c.at + Epsilon(f))
    <2>1. c.at \in Int /\ value[2] \in Int /\ ~Within(f, c, value[2])
      BY <1>1, <1>4 DEF IsNumber, Reads
    <2>2. below \in Int /\ below <= c.at /\ above \in Int /\ above >= c.at
      BY <1>1, <1>4, FloatBounds DEF IsNumber
    <2>3. /\ c.op = "ge" => AnnouncedBound(f, c) = [op |-> "gt", at |-> below]
          /\ c.op = "le" => AnnouncedBound(f, c) = [op |-> "lt", at |-> above]
          /\ c.op \in {"gt", "lt"} => AnnouncedBound(f, c) = c
      BY <1>4 DEF AnnouncedBound
    <2> HIDE DEF below, above
    <2>4. Sent(f, c) = AnnouncedBound(f, c)
      BY <1>4 DEF Sent
    <2>5. /\ c.op = "ge" => (Holds(Sent(f, c), value) <=> value[2] > below)
          /\ c.op = "le" => (Holds(Sent(f, c), value) <=> value[2] < above)
      BY <2>3, <2>4, HoldsFacts
    <2>6. /\ c.op = "ge" => (Holds(c, value) <=> value[2] >= c.at)
          /\ c.op = "le" => (Holds(c, value) <=> value[2] <= c.at)
      BY HoldsFacts
    <2> DEFINE v == value[2]
               a == c.at
    <2>7. /\ c.op = "ge" => /\ ~(v = a /\ below = a)
                            /\ ~(below < v /\ v < a)
          /\ c.op = "le" => /\ ~(v = a /\ above = a)
                            /\ ~(a < v /\ v < above)
      BY <2>1, <2>3 DEF Within
    <2>8. v \in Int /\ a \in Int
      BY <2>1
    <2> HIDE DEF v, a
    <2>9. (c.op = "ge" => (v > below <=> v >= a)) /\ (c.op = "le" => (v < above <=> v <= a))
      BY <2>2, <2>7, <2>8 DEF a
    <2> QED
      BY <1>4, <2>3, <2>4, <2>5, <2>6, <2>9 DEF v, a
  <1>5. CASE f.kind = "duration" /\ c.op \in {"gt", "lt", "ge", "le"}
    <2> DEFINE b == AnnouncedBound(f, c)
    <2>1. /\ c.at \in Int /\ c.at % Micro = 0 /\ value[2] \in Int /\ value[2] % Micro = 0
          /\ Micro \in Nat \ {0} /\ Epsilon(f) = Micro
      BY <1>1, <1>5, Units DEF IsNumber, Reads, Epsilon
    <2> DEFINE Multiple(n) == \E k \in Int : n = Micro * k
    <2>m. ASSUME NEW n \in Int, n % Micro = 0
          PROVE  Multiple(n)
      <3> DEFINE k == n \div Micro
      <3>1. k \in Int /\ n = Micro * k + (n % Micro)
        BY <2>1, Division
      <3> HIDE DEF k
      <3>2. n = Micro * k + 0
        BY <2>m, <3>1, Zenon
      <3>3. n = Micro * k
        BY <2>1, <3>1, <3>2
      <3> QED
        BY <3>1, <3>3
    <2>2. PICK i \in Int : c.at = Micro * i
      BY <2>1, <2>m
    <2>3. PICK j \in Int : value[2] = Micro * j
      BY <2>1, <2>m
    <2> HIDE DEF Multiple
    <2>4. /\ c.op = "ge" => b = [op |-> "gt", at |-> Micro * (i - 1)]
          /\ c.op = "le" => b = [op |-> "lt", at |-> Micro * (i + 1)]
          /\ c.op \in {"gt", "lt"} => b = c
      <3>1. /\ c.op = "ge" => b = [op |-> "gt", at |-> c.at - Micro]
            /\ c.op = "le" => b = [op |-> "lt", at |-> c.at + Micro]
            /\ c.op \in {"gt", "lt"} => b = c
        BY <1>5, <2>1 DEF AnnouncedBound
      <3>2. c.at - Micro = Micro * (i - 1) /\ c.at + Micro = Micro * (i + 1)
        BY <2>1, <2>2
      <3> QED
        BY <3>1, <3>2
    <2> HIDE DEF b
    <2>5. \A k \in Int : InNs(FormatDuration((Micro * k) \div Micro)) = Micro * k
      <3> SUFFICES ASSUME NEW k \in Int
                   PROVE  InNs(FormatDuration((Micro * k) \div Micro)) = Micro * k
        OBVIOUS
      <3> DEFINE n == Micro * k
      <3>1. n \in Int /\ n = Micro * k + 0 /\ 0 \in Nat /\ 0 < Micro
        BY <2>1
      <3> HIDE DEF n
      <3>2. n \div Micro = k
        BY <2>1, <3>1, Division
      <3>3. InNs(FormatDuration(k)) = k * Micro
        BY FormatWorth
      <3>4. k * Micro = Micro * k
        BY <2>1
      <3> QED
        BY <3>2, <3>3, <3>4 DEF n
    <2>6. i - 1 \in Int /\ i + 1 \in Int
      OBVIOUS
    <2>7. Sent(f, c) = b
      <3>1. \E k \in Int : b.at = Micro * k
        BY <1>5, <2>2, <2>4, <2>6
      <3>2. InNs(FormatDuration(b.at \div Micro)) = b.at
        BY <2>5, <3>1
      <3>3. \E op, at : b = [op |-> op, at |-> at]
        BY <1>1, <1>5, <2>4
      <3>4. Sent(f, c) = [b EXCEPT !.at = b.at]
        BY <1>5, <3>2 DEF Sent, b
      <3> QED
        BY <3>3, <3>4
    <2>8. \A x, y \in Int : Micro * x > Micro * y <=> x > y
      <3> SUFFICES ASSUME NEW x \in Int, NEW y \in Int
                   PROVE  Micro * x > Micro * y <=> x > y
        OBVIOUS
      <3>1. x > y => Micro * (x - y) > 0
        BY <2>1
      <3>2. ~(x > y) => Micro * (y - x) >= 0
        BY <2>1
      <3>3. Micro * (x - y) = Micro * x - Micro * y /\ Micro * (y - x) = Micro * y - Micro * x
        BY <2>1
      <3> QED
        BY <2>1, <3>1, <3>2, <3>3
    <2>9. /\ Micro * j > Micro * (i - 1) <=> j > i - 1
          /\ Micro * (i + 1) > Micro * j <=> i + 1 > j
          /\ Micro * i > Micro * j <=> i > j
          /\ Micro * j > Micro * i <=> j > i
      BY <2>6, <2>8
    <2> DEFINE v == value[2]
               a == c.at
    <2>10. CASE c.op = "ge"
      <3>1. Holds(Sent(f, c), value) <=> j > i - 1
        <4>1. Holds(Sent(f, c), value) <=> value[2] > Micro * (i - 1)
          BY <2>4, <2>7, <2>10, HoldsFacts
        <4> QED
          BY <2>3, <2>9, <4>1
      <3>2. Holds(c, value) <=> v >= a
        BY <2>10, HoldsFacts
      <3>3. v >= a <=> ~(i > j)
        BY <2>1, <2>2, <2>3, <2>9
      <3> QED
        BY <3>1, <3>2, <3>3
    <2>11. CASE c.op = "le"
      <3>1. Holds(Sent(f, c), value) <=> value[2] < Micro * (i + 1)
        BY <2>4, <2>7, <2>11, HoldsFacts
      <3>2. value[2] < Micro * (i + 1) <=> i + 1 > j
        BY <2>1, <2>3, <2>9
      <3>3. Holds(c, value) <=> v <= a
        BY <2>11, HoldsFacts
      <3>4. v <= a <=> ~(j > i)
        BY <2>1, <2>2, <2>3, <2>9
      <3> QED
        BY <3>1, <3>2, <3>3, <3>4
    <2>12. CASE c.op \in {"gt", "lt"}
      BY <2>4, <2>7, <2>12
    <2> QED
      BY <1>5, <2>10, <2>11, <2>12
  <1> QED
    BY <1>1, <1>2, <1>3, <1>4, <1>5

---------------------------------------------------------------------------
(* The host's reading of a field, and the connector's.                     *)

\* What an author may declare, by kinds.
LEMMA FieldFacts ==
  ASSUME NEW f, IsField(f)
  PROVE  /\ f.kind # "literal" => TypeOf(f) = f.kind /\ f.members = {}
         /\ f.default # None =>
              /\ f.kind = "string" => f.default # Absent /\ IsText(f.default)
              /\ f.kind = "bool" => IsBool(f.default)
              /\ f.kind \in {"int", "float"} =>
                   f.default = <<"number", f.default[2]>> /\ IsNumber(f, f.default[2])
              /\ f.kind = "duration" =>
                   f.default = <<"timedelta", f.default[2]>> /\ IsNumber(f, f.default[2])
              /\ f.kind = "literal" => IsMember(f.default)
  <1>1. f.kind # "literal" => TypeOf(f) = f.kind
    BY DEF TypeOf
  <1>2. f.kind # "literal" => f.members = {}
    BY DEF IsField
  <1>3. f.default # None =>
          CASE f.kind = "string" -> f.default # Absent /\ IsText(f.default)
            [] f.kind = "bool" -> IsBool(f.default)
            [] f.kind \in {"int", "float"} ->
                 f.default = <<"number", f.default[2]>> /\ IsNumber(f, f.default[2])
            [] f.kind = "duration" ->
                 f.default = <<"timedelta", f.default[2]>> /\ IsNumber(f, f.default[2])
            [] f.kind = "literal" -> IsMember(f.default)
    BY DEF IsField
  <1> QED
    BY <1>1, <1>2, <1>3

\* A default is read back as it was declared.
LEMMA DefaultReads ==
  ASSUME NEW f, IsField(f), ~f.required, f.default # None, ~PartsFrom(f, Absent)
  PROVE  DefaultText(f) # Empty /\ Read(TypeOf(f), DefaultText(f)) = f.default
  <1>1. f.default # Empty
    BY DEF PartsFrom
  <1>2. CASE f.kind = "string"
    <2>1. TypeOf(f) = "string" /\ IsText(f.default)
      BY <1>2, FieldFacts
    <2>2. DefaultText(f) = f.default
      BY <2>1 DEF DefaultText, IsText, Absent, Empty
    <2> QED
      BY <1>1, <2>1, <2>2 DEF Read
  <1>3. ASSUME IsBool(f.default), TypeOf(f) = "bool"
        PROVE  DefaultText(f) # Empty /\ Read(TypeOf(f), DefaultText(f)) = f.default
    <2>1. PICK b \in {"True", "False"} : f.default = <<"bool", b>>
      BY <1>3 DEF IsBool
    <2>2. DefaultText(f) = <<"word", IF b = "True" THEN "true" ELSE "false">>
      BY <2>1 DEF DefaultText, None
    <2> QED
      BY <1>3, <2>1, <2>2 DEF Read, Truth, Capital, Empty
  <1>4. ASSUME f.default = <<"number", f.default[2]>>,
               TypeOf(f) = "int" \/ (TypeOf(f) = "float" /\ RoundTo(Bits, f.default[2]) = f.default[2])
        PROVE  DefaultText(f) # Empty /\ Read(TypeOf(f), DefaultText(f)) = f.default
    <2> DEFINE n == f.default[2]
    <2>1. f.default = <<"number", n>>
      BY <1>4
    <2> HIDE DEF n
    <2>2. DefaultText(f) = <<"number", n>>
      BY <2>1 DEF DefaultText, None
    <2>3. TypeOf(f) = "int" \/ (TypeOf(f) = "float" /\ RoundTo(Bits, n) = n)
      BY <1>4 DEF n
    <2> QED
      BY <2>1, <2>2, <2>3 DEF Read, Empty
  <1>5. CASE f.kind = "bool"
    BY <1>3, <1>5, FieldFacts
  <1>6. CASE f.kind \in {"int", "float"}
    <2>1. f.default = <<"number", f.default[2]>> /\ IsNumber(f, f.default[2]) /\ TypeOf(f) = f.kind
      BY <1>6, FieldFacts
    <2> QED
      BY <1>4, <1>6, <2>1 DEF IsNumber
  <1>7. CASE f.kind = "duration"
    <2> DEFINE n == f.default[2]
    <2>1. f.default = <<"timedelta", n>> /\ n \in Int /\ n % Micro = 0 /\ TypeOf(f) = "duration"
      BY <1>7, FieldFacts DEF IsNumber
    <2> HIDE DEF n
    <2> DEFINE k == n \div Micro
    <2>2. k \in Int /\ k * Micro = n
      <3>1. Micro \in Nat \ {0}
        BY Units
      <3>2. k \in Int /\ n = Micro * k + (n % Micro)
        BY <2>1, <3>1, Division
      <3> HIDE DEF k
      <3>3. n = Micro * k + 0
        BY <2>1, <3>2, Zenon
      <3> QED
        BY <2>1, <3>1, <3>2, <3>3
    <2>3. DefaultText(f) = <<"duration", FormatDuration(k)>>
      BY <2>1 DEF DefaultText, None
    <2> HIDE DEF k
    <2>4. InNs(FormatDuration(k)) = n
      BY <2>2, FormatWorth
    <2> QED
      BY <2>1, <2>3, <2>4 DEF Read, Empty
  <1>8. CASE f.kind = "literal"
    <2> DEFINE only == [f EXCEPT !.members = {f.default}]
    <2>1. IsMember(f.default) /\ TypeOf(f) = TypeOf(only)
      BY <1>8 DEF IsField, PartsFrom
    <2>2. CASE IsBool(f.default)
      <3>1. TypeOf(f) = "bool"
        <4>1. f.default[1] = "bool"
          BY <2>2 DEF IsBool
        <4>2. only.kind = "literal" /\ \A m \in only.members : m[1] = "bool"
          <5>1. f.members # {}
            BY <1>8 DEF IsField
          <5> QED
            BY <1>8, <4>1
        <4> HIDE DEF only
        <4>3. TypeOf(only) = "bool"
          BY <4>2 DEF TypeOf
        <4> QED
          BY <2>1, <4>3
      <3> QED
        BY <1>3, <2>2, <3>1
    <2>3. CASE f.default[1] = "number" /\ IsText(f.default)
      <3>1. f.default = <<"number", f.default[2]>>
        BY <2>3 DEF IsText
      <3>2. TypeOf(only) = "int"
        BY <1>8, <2>3 DEF TypeOf
      <3> QED
        BY <1>4, <2>1, <3>1, <3>2
    <2>4. CASE f.default[1] = "word" /\ IsText(f.default)
      <3>1. f.default = <<"word", f.default[2]>>
        BY <2>4 DEF IsText
      <3>2. TypeOf(only) = "string"
        BY <1>8, <2>4 DEF TypeOf
      <3>3. DefaultText(f) = f.default
        BY <2>4, <3>1 DEF DefaultText
      <3> QED
        BY <1>1, <2>1, <3>2, <3>3 DEF Read
    <2> QED
      BY <2>1, <2>2, <2>3, <2>4 DEF IsMember
  <1> QED
    BY <1>2, <1>5, <1>6, <1>7, <1>8 DEF IsField

\* A given text of a Literal.
LEMMA LiteralReads ==
  ASSUME NEW f, IsField(f), f.kind = "literal", NEW text, IsText(text),
         text \notin {Absent, Empty}, ~PartsFrom(f, text)
  PROVE  HostReads(Parameter(f), text) = Validated(f, text)
  <1> DEFINE p == Parameter(f)
  <1>1. /\ p.type = TypeOf(f) /\ p.inclusion = {Str(m) : m \in f.members}
        /\ p.validations = {}
        /\ f.constraints = {}
    <2>1. f.constraints = {}
      BY DEF IsField
    <2> QED
      BY <2>1 DEF Parameter, Validations
  <1>2. f.members # {} /\ \A m \in f.members : IsMember(m)
    BY DEF IsField
  <1>3. p.inclusion # {}
    BY <1>1, <1>2
  <1> HIDE DEF p
  <1>4. HostReads(p, text) = IF Read(TypeOf(f), text) # Bad /\ text \in p.inclusion
                               THEN Read(TypeOf(f), text) ELSE Bad
    BY <1>1, <1>3 DEF HostReads
  <1>5. \A m \in f.members : m[1] # "word" => text # Str(m)
    BY DEF PartsFrom
  <1>6. Validated(f, text) = IF text[1] = "word" /\ text \in f.members /\ text # Bad THEN text ELSE Bad
    BY <1>1 DEF Validated
  <1>7. CASE \E m \in f.members : m[1] = "word" /\ text = m
    <2>1. text \in f.members /\ text[1] = "word"
      BY <1>7
    <2>2. TypeOf(f) = "string"
      BY <2>1 DEF TypeOf
    <2>3. text \in p.inclusion
      BY <1>1, <2>1 DEF Str
    <2> QED
      BY <1>4, <1>6, <2>1, <2>2, <2>3 DEF Read, p
  <1>8. CASE ~\E m \in f.members : m[1] = "word" /\ text = m
    <2>1. text \notin p.inclusion
      <3> SUFFICES ASSUME NEW m \in f.members, text = Str(m)
                   PROVE  FALSE
        BY <1>1
      <3>1. m[1] = "word"
        BY <1>5
      <3>2. Str(m) = m
        BY <3>1 DEF Str
      <3> QED
        BY <1>8, <3>1, <3>2
    <2>2. ~(text[1] = "word" /\ text \in f.members)
      BY <1>8
    <2> QED
      BY <1>4, <1>6, <2>1, <2>2 DEF p
  <1> QED
    BY <1>7, <1>8

\* A key that is left out.
LEMMA AbsentReads ==
  ASSUME NEW f, IsField(f), ~PartsFrom(f, Absent)
  PROVE  HostReads(Parameter(f), Absent) = Validated(f, Absent)
  <1> DEFINE p == Parameter(f)
  <1>1. p.type = TypeOf(f) /\ p.required = f.required /\ p.default = DefaultText(f)
    BY DEF Parameter
  <1> HIDE DEF p
  <1>2. HostReads(p, Absent) = IF p.required THEN Bad
                               ELSE IF p.default = Empty THEN None ELSE Read(p.type, p.default)
    BY DEF HostReads
  <1>3. Validated(f, Absent) = IF f.required THEN Bad ELSE f.default
    BY DEF Validated
  <1>4. CASE f.required
    BY <1>1, <1>2, <1>3, <1>4 DEF p
  <1>5. CASE ~f.required /\ f.default = None
    <2>1. DefaultText(f) = Empty
      BY <1>5 DEF DefaultText, None
    <2> QED
      BY <1>1, <1>2, <1>3, <1>5, <2>1 DEF p
  <1>6. CASE ~f.required /\ f.default # None
    <2>1. DefaultText(f) # Empty /\ Read(TypeOf(f), DefaultText(f)) = f.default
      BY <1>6, DefaultReads
    <2> QED
      BY <1>1, <1>2, <1>3, <1>6, <2>1 DEF p
  <1> QED
    BY <1>4, <1>5, <1>6

\* A given text of any other field: the host holds the same value to the
\* announced constraints.
LEMMA GivenReads ==
  ASSUME NEW f, IsField(f), f.kind # "literal", NEW text,
         text \notin {Absent, Empty}, NEW value,
         Read(f.kind, text) = value, value # Bad => Reads(f, value)
  PROVE  HostReads(Parameter(f), text)
           = IF value # Bad /\ \A c \in f.constraints : Holds(c, value) THEN value ELSE Bad
  <1> DEFINE p == Parameter(f)
  <1>1. p.type = f.kind /\ p.inclusion = {} /\ p.validations = Validations(f)
    BY FieldFacts DEF Parameter
  <1> HIDE DEF p
  <1>2. HostReads(p, text) = IF value # Bad /\ \A c \in Validations(f) : Holds(c, value)
                               THEN value ELSE Bad
    BY <1>1 DEF HostReads
  <1>3. Validations(f) = {Sent(f, c) : c \in f.constraints}
    BY DEF Validations, Sent
  <1>4. value # Bad => ((\A c \in Validations(f) : Holds(c, value))
                          <=> \A c \in f.constraints : Holds(c, value))
    <2> SUFFICES ASSUME value # Bad
                 PROVE  (\A c \in Validations(f) : Holds(c, value))
                          <=> \A c \in f.constraints : Holds(c, value)
      OBVIOUS
    <2>1. \A c \in f.constraints : Holds(Sent(f, c), value) <=> Holds(c, value)
      BY BoundAgrees
    <2> QED
      BY <1>3, <2>1
  <1> QED
    BY <1>2, <1>4 DEF p

\* A duration field's texts all parse once Configure gets to its fields.
Parses(f, text) ==
  f.kind = "duration" /\ text # Absent => IsDuration(text) /\ ~TooLong(text)

\* Host and connector read every text of a field alike, but for those on which
\* they are known to part.
LEMMA FieldAgrees ==
  ASSUME NEW f, IsField(f), NEW text, IsText(text), Parses(f, text), ~PartsFrom(f, text)
  PROVE  HostReads(Parameter(f), text) = Validated(f, text)
  <1>1. CASE text = Absent
    BY <1>1, AbsentReads
  <1>2. text # Empty
    BY DEF PartsFrom
  <1> DEFINE Ok(value) == value # Bad /\ \A c \in f.constraints : Holds(c, value)
             v == Read(f.kind, text)
  <1>3. CASE text # Absent /\ f.kind = "literal"
    BY <1>2, <1>3, LiteralReads
  <1>4. CASE text # Absent /\ f.kind = "duration"
    <2> DEFINE ns == InNs(text[2])
    <2>1. IsDuration(text) /\ ~TooLong(text)
      BY <1>4 DEF Parses
    <2>2. v = <<"timedelta", Us(text) * Micro>> /\ Us(text) * Micro \in Int
          /\ (Us(text) * Micro) % Micro = 0
      <3>1. CASE text[1] = "duration"
        <4>1. WellFormed(text[2])
          BY <3>1 DEF IsText
        <4>2. ns % Micro = 0 /\ ns \in Int
          BY <1>4, <3>1, <4>1, TextsSign DEF PartsFrom
        <4>3. Us(text) * Micro = ns
          BY <3>1, <4>1, <4>2, WholeMicroseconds DEF Us
        <4>4. v = <<"timedelta", ns>>
          BY <1>4, <3>1 DEF Read
        <4> QED
          BY <4>2, <4>3, <4>4
      <3>2. CASE text = <<"number", 0>>
        <4>1. Us(text) = 0 /\ v = <<"timedelta", 0>>
          BY <1>4, <3>2 DEF Us, Read
        <4>2. Micro \in Nat \ {0}
          BY Units
        <4>3. 0 * Micro = 0 /\ 0 % Micro = 0
          BY <4>2
        <4> QED
          BY <4>1, <4>3
      <3> QED
        BY <2>1, <3>1, <3>2 DEF IsDuration
    <2> HIDE DEF v
    <2>3. v # Bad => Reads(f, v)
      BY <1>4, <2>2 DEF Reads
    <2>4. Validated(f, text) = IF Ok(v) THEN v ELSE Bad
      BY <1>4, <2>2 DEF Validated
    <2> QED
      BY <1>2, <1>4, <2>3, <2>4, GivenReads DEF v
  <1>5. CASE text # Absent /\ f.kind \notin {"literal", "duration"}
    <2>1. v # Bad => Reads(f, v)
      <3> SUFFICES ASSUME v # Bad
                   PROVE  Reads(f, v)
        OBVIOUS
      <3>1. CASE f.kind = "int"
        <4>1. text[1] = "number" /\ v = text
          BY <3>1 DEF Read
        <4>2. v[2] \in Int
          BY <4>1 DEF IsText
        <4> QED
          BY <3>1, <4>2 DEF Reads
      <3>2. CASE f.kind = "float"
        <4>1. text[1] = "number" /\ v = <<"number", RoundTo(Bits, text[2])>>
          BY <3>2 DEF Read
        <4>2. text[2] \in Int
          BY <4>1 DEF IsText
        <4>3. RoundTo(Bits, text[2]) \in Int
          <5> DEFINE n == text[2]
          <5>1. n \in Int /\ 0 \in Int
            BY <4>2
          <5> HIDE DEF n
          <5>2. PICK k \in Nat : LastPlace(Bits, n) = Power(2, k)
            BY <5>1, LastPlaces, BoundsAssumption
          <5>3. Power(2, k) \in Nat \ {0}
            BY PowersOfTwo
          <5> DEFINE d == Power(2, k)
                     r == RoundHalfEven(n, d)
          <5>4. r \in Int
            BY <5>1, <5>3, RoundingOrder
          <5>5. RoundTo(Bits, n) = r * d
            BY <5>2 DEF RoundTo
          <5> HIDE DEF r, d
          <5> QED
            BY <5>3, <5>4, <5>5 DEF n, d
        <4>4. v[2] \in Int
          BY <4>1, <4>3
        <4>5. \A c \in f.constraints : ~Within(f, c, v[2])
          BY <3>2 DEF PartsFrom
        <4> QED
          BY <3>2, <4>4, <4>5 DEF Reads
      <3>3. CASE f.kind \notin {"int", "float"}
        BY <1>5, <3>3 DEF Reads
      <3> QED
        BY <3>1, <3>2, <3>3
    <2>2. Validated(f, text) = IF Ok(v) THEN v ELSE Bad
      BY <1>5 DEF Validated
    <2> HIDE DEF v
    <2> QED
      BY <1>2, <1>5, <2>1, <2>2, GivenReads DEF v
  <1> QED
    BY <1>1, <1>3, <1>4, <1>5

---------------------------------------------------------------------------
(* Answers.                                                                *)

\* A request is answered once, and only what Configure made of it answers it.
Answering ==
  /\ phase \in {"start", "ready", "sent", "configuring", "answered", "failed"}
  /\ phase # "answered" => answer = "none"
  /\ class \in Classes
  /\ phase \in {"sent", "configuring", "answered"} => request \in Requests(class)

\* It holds in every behaviour.
LEMMA AnsweringHolds == Spec => []Answering
  <1>1. Init => Answering
    BY DEF Init, Answering
  <1>2. Answering /\ [Next]_vars => Answering'
    <2> SUFFICES ASSUME Answering, [Next]_vars
                 PROVE  Answering'
      OBVIOUS
    <2>1. CASE BuildServer
      BY <2>1 DEF BuildServer, Answering
    <2>2. CASE Send
      BY <2>2 DEF Send, Answering
    <2>3. CASE Configure
      <3>1. /\ phase' \in {"answered", "configuring"}
            /\ phase' = "configuring" => answer' = answer
            /\ UNCHANGED <<class, request>>
        BY <2>3 DEF Configure, Rejected
      <3> QED
        BY <2>3, <3>1 DEF Configure, Answering
    <2>4. CASE ConfigureEnds
      BY <2>4 DEF ConfigureEnds, Answering
    <2>5. CASE UNCHANGED vars
      BY <2>5 DEF vars, Answering
    <2> QED
      BY <2>1, <2>2, <2>3, <2>4, <2>5 DEF Next
  <1> QED
    BY <1>1, <1>2, PTL DEF Spec

\* A config that Configure refuses leaves the batch config and the connector's
\* config as they were: each `raise` of Configure lies before both assignments.
THEOREM ConfigurationRefusalsChangeNothing == Spec => RefusedChangesNothing
  <1>1. Answering /\ [Next]_vars
          => [answer' \in {"invalid", "unknown"} => UNCHANGED <<batch, handed>>]_vars
    <2> SUFFICES ASSUME Answering, [Next]_vars, answer' \in {"invalid", "unknown"}
                 PROVE  UNCHANGED <<batch, handed>>
      OBVIOUS
    <2>1. CASE BuildServer \/ Send \/ UNCHANGED vars
      BY <2>1 DEF BuildServer, Send, vars
    <2>2. CASE Configure
      <3>1. answer = "none"
        BY <2>2 DEF Configure, Answering
      <3> QED
        BY <2>2, <3>1 DEF Configure, Rejected
    <2>3. CASE ConfigureEnds
      BY <2>3 DEF ConfigureEnds
    <2> QED
      BY <2>1, <2>2, <2>3 DEF Next
  <1> QED
    BY <1>1, AnsweringHolds, PTL DEF Spec, RefusedChangesNothing

---------------------------------------------------------------------------
(* What the host makes of the batch keys.                                  *)

\* The host refuses sdk.batch.size exactly where extract_batch_config does.
LEMMA HostRefusesSize ==
  ASSUME IsText(request.size)
  PROVE  HostView.size = Bad <=> BadSize
  <1> DEFINE text == request.size
  <1>1. HostView.size = HostReads(BatchParameters.size, text)
    BY DEF HostView
  <1>2. CASE text \in {Absent, Empty}
    <2>1. HostReads(BatchParameters.size, text) = <<"number", 0>>
      BY <1>2 DEF HostReads, BatchParameters, Read, Empty
    <2>2. <<"number", 0>> # Bad
      BY DEF Bad
    <2> QED
      BY <1>1, <1>2, <2>1, <2>2 DEF BadSize, Given
  <1>3. CASE text \notin {Absent, Empty}
    <2>1. HostReads(BatchParameters.size, text) = Bad
            <=> Read("int", text) = Bad \/ ~(Read("int", text)[2] > -1)
      <3> DEFINE p == BatchParameters.size
      <3>1. /\ p.type = "int" /\ p.required = FALSE /\ p.inclusion = {}
            /\ p.validations = {[op |-> "gt", at |-> -1]}
        BY DEF BatchParameters
      <3>2. \A value : (\A c \in p.validations : Holds(c, value)) <=> value[2] > -1
        BY <3>1 DEF Holds
      <3> HIDE DEF p
      <3>3. HostReads(p, text)
              = IF Read("int", text) # Bad /\ Read("int", text)[2] > -1
                  THEN Read("int", text) ELSE Bad
        BY <1>3, <3>1, <3>2 DEF HostReads
      <3> QED
        BY <3>3 DEF p
    <2>2. CASE text[1] = "number"
      <3>1. Read("int", text) = text /\ text # Bad /\ text[2] \in Int
        BY <2>2 DEF Read, Bad, IsText
      <3> QED
        BY <1>1, <1>3, <2>1, <3>1 DEF BadSize, Given
    <2>3. CASE text[1] # "number"
      <3>1. Read("int", text) = Bad
        BY <2>3 DEF Read
      <3> QED
        BY <1>1, <1>3, <2>1, <3>1 DEF BadSize, Given
    <2> QED
      BY <2>2, <2>3
  <1> QED
    BY <1>2, <1>3

\* Rounding keeps zero, and makes nothing negative.
LEMMA RoundingFacts ==
  ASSUME NEW d \in Nat \ {0}
  PROVE  /\ \A n \in Nat : RoundHalfEven(n, d) \in Nat
         /\ RoundHalfEven(0, d) = 0
  <1>1. \A n \in Nat : n \div d \in Nat
    OBVIOUS
  <1>2. 0 \div d = 0 /\ 0 % d = 0
    OBVIOUS
  <1>3. \A n \in Nat : RoundHalfEven(n, d) \in {n \div d, (n \div d) + 1}
    BY DEF RoundHalfEven
  <1> QED
    BY <1>1, <1>2, <1>3 DEF RoundHalfEven

\* And sdk.batch.delay, for which no bound is announced, except where it is
\* negative, or so short that it is rounded to nothing.
LEMMA HostRefusesDelay ==
  ASSUME IsText(request.delay)
  PROVE  BadDelay <=> \/ HostView.delay = Bad
                      \/ HostView.delay[2] < 0 /\ Us(request.delay) # 0
  <1> DEFINE text == request.delay
             p == BatchParameters.delay
  <1>1. HostView.delay = HostReads(p, text)
    BY DEF HostView
  <1>2. /\ p.type = "duration" /\ p.required = FALSE /\ p.inclusion = {}
        /\ p.validations = {} /\ p.default = <<"duration", FormatDuration(0)>>
    BY DEF BatchParameters
  <1> HIDE DEF p
  <1>3. CASE text \in {Absent, Empty}
    <2>1. p.default # Empty /\ Read("duration", p.default)[1] = "timedelta"
      BY <1>2 DEF Empty, Read
    <2>2. HostReads(p, text)[1] = "timedelta" /\ Us(text) = 0
      BY <1>2, <1>3, <2>1 DEF HostReads, Us, Absent, Empty
    <2>3. HostReads(p, text) # Bad
      BY <2>2 DEF Bad
    <2> QED
      BY <1>1, <1>3, <2>2, <2>3 DEF BadDelay, Given
  <1>4. CASE text \notin {Absent, Empty} /\ text[1] = "duration"
    <2>1. Read("duration", text) = <<"timedelta", InNs(text[2])>>
      BY <1>4 DEF Read
    <2>2. <<"timedelta", InNs(text[2])>> # Bad
      BY DEF Bad
    <2>3. HostReads(p, text) = <<"timedelta", InNs(text[2])>>
      BY <1>2, <1>4, <2>1, <2>2 DEF HostReads
    <2>4. Us(text) = ParseDuration(text[2]) /\ IsDuration(text)
      BY <1>4 DEF Us, IsDuration
    <2>5. ParseDuration(text[2]) < 0 <=> InNs(text[2]) < 0 /\ ParseDuration(text[2]) # 0
      <3> DEFINE ns == InNs(text[2])
                 magnitude == RoundHalfEven(Magnitude(ns), Micro)
      <3>1. /\ ns \in Int
            /\ ns < 0 => text[2].negative
            /\ ns > 0 => ~text[2].negative
        <4>1. WellFormed(text[2])
          BY <1>4 DEF IsText
        <4> QED
          BY <4>1, TextsSign
      <3>2. ParseDuration(text[2]) = IF text[2].negative THEN -magnitude ELSE magnitude
        BY DEF ParseDuration
      <3> HIDE DEF ns
      <3>3. Magnitude(ns) \in Nat /\ (ns = 0 => Magnitude(ns) = 0)
        BY <3>1 DEF Magnitude
      <3>4. magnitude \in Nat /\ (ns = 0 => magnitude = 0)
        BY <3>3, RoundingFacts, Units
      <3> HIDE DEF magnitude
      <3>5. CASE text[2].negative
        BY <3>1, <3>2, <3>4, <3>5 DEF ns
      <3>6. CASE ~text[2].negative
        BY <3>1, <3>2, <3>4, <3>6 DEF ns
      <3> QED
        BY <3>5, <3>6
    <2> QED
      BY <1>1, <1>4, <2>2, <2>3, <2>4, <2>5 DEF BadDelay, Given
  <1>5. CASE text \notin {Absent, Empty} /\ text[1] # "duration"
    <2>1. Us(text) = 0 /\ (IsDuration(text) <=> text = <<"number", 0>>)
      BY <1>5 DEF Us, IsDuration
    <2>2. Read("duration", text)
            = IF text = <<"number", 0>> THEN <<"timedelta", 0>> ELSE Bad
      BY <1>5 DEF Read
    <2>3. <<"timedelta", 0>> # Bad
      BY DEF Bad
    <2>4. HostReads(p, text) = Read("duration", text)
      BY <1>2, <1>5 DEF HostReads
    <2> QED
      BY <1>1, <1>5, <2>1, <2>2, <2>3, <2>4 DEF BadDelay, Given
  <1> QED
    BY <1>3, <1>4, <1>5

---------------------------------------------------------------------------
(* Rejections.                                                             *)

\* What Configure rejects it rejects for the keys it names.
LEMMA ConfigureRejects ==
  ASSUME Answering, Configure, answer' = "invalid"
  PROVE  RejectionIsActionable'
  <1>1. request \in Requests(class) /\ class \in Classes /\ answer = "none"
    BY DEF Answering, Configure
  <1>2. HostView.size = Bad <=> BadSize
    BY <1>1, HostRefusesSize, TextsAssumption
  <1>3. BadDelay <=> \/ HostView.delay = Bad
                     \/ HostView.delay[2] < 0 /\ Us(request.delay) # 0
    BY <1>1, HostRefusesDelay, TextsAssumption
  <1>4. UNCHANGED <<class, announced, request>>
    BY DEF Configure
  <1>5. HostView' = HostView /\ FieldFaults' = FieldFaults /\ Unparsed' = Unparsed
    BY <1>4 DEF HostView, FieldFaults, Config, Unparsed
  <1>6. FieldFaults \subseteq Nat \ {0}
    BY <1>1, ClassesAssumption DEF FieldFaults
  <1>7. /\ Size \notin FieldFaults /\ Delay \notin FieldFaults /\ Root \notin FieldFaults
        /\ Size # Delay /\ Size # Root /\ Delay # Root
    BY <1>6 DEF Size, Delay, Root
  <1>8. /\ BatchFaults \subseteq {Size, Delay}
        /\ Size \in BatchFaults <=> BadSize
        /\ Delay \in BatchFaults <=> BadDelay
    BY <1>7 DEF BatchFaults
  <1>9. \/ named' = BatchFaults /\ BatchFaults # {}
        \/ BatchFaults = {} /\ Unparsed # {} /\ named' = {Root}
        \/ BatchFaults = {} /\ Unparsed = {} /\ FieldFaults # {} /\ named' = FieldFaults
    BY <1>1 DEF Configure, Rejected
  <1>10. /\ named' # {}
         /\ named' \ {Size, Delay, Root} \subseteq FieldFaults
         /\ Size \in named' <=> BadSize
         /\ Delay \in named' <=> BadDelay
         /\ named' \intersect {Size, Delay} = {} /\ Unparsed = {} => named' = FieldFaults
         /\ Root \in named' => Unparsed # {}
    BY <1>7, <1>8, <1>9
  <1> QED
    BY <1>2, <1>3, <1>4, <1>5, <1>10 DEF RejectionIsActionable

\* A refusal names at least one key, and only keys at fault: the batch keys by
\* themselves, then the root when a text does not parse, then every field that
\* does not validate.
THEOREM ConfigurationRejectsActionably == Spec => []RejectionIsActionable
  <1>1. Init => RejectionIsActionable
    BY DEF Init, RejectionIsActionable
  <1>2. Answering /\ RejectionIsActionable /\ [Next]_vars => RejectionIsActionable'
    <2> SUFFICES ASSUME Answering, RejectionIsActionable, [Next]_vars, answer' = "invalid"
                 PROVE  RejectionIsActionable'
      BY DEF RejectionIsActionable
    <2>1. CASE BuildServer
      BY <2>1 DEF BuildServer, Answering
    <2>2. CASE Send \/ ConfigureEnds
      BY <2>2 DEF Send, ConfigureEnds
    <2>3. CASE Configure
      BY <2>3, ConfigureRejects
    <2>4. CASE UNCHANGED vars
      <3>1. UNCHANGED <<class, announced, request, named>> /\ answer = "invalid"
        BY <2>4 DEF vars
      <3>2. HostView' = HostView /\ FieldFaults' = FieldFaults /\ Unparsed' = Unparsed
        BY <3>1 DEF HostView, FieldFaults, Config, Unparsed
      <3> QED
        BY <3>1, <3>2 DEF RejectionIsActionable
    <2> QED
      BY <2>1, <2>2, <2>3, <2>4 DEF Next
  <1> QED
    BY <1>1, <1>2, AnsweringHolds, PTL DEF Spec

---------------------------------------------------------------------------
(* What is announced is what is enforced.                                  *)

\* The parameters are announced before a config comes, and a config that the
\* connector is given is what Configure made of the request.
Announcing ==
  /\ phase \notin {"start", "failed"} =>
       announced = [i \in DOMAIN class |-> Parameter(class[i])]
  /\ phase = "configuring" =>
       /\ BatchFaults = {} /\ ~TooLong(request.delay) /\ Unparsed = {} /\ FieldFaults = {}
       /\ batch = BatchConfig /\ handed = Config

\* It holds in every behaviour.
LEMMA AnnouncingHolds == Spec => []Announcing
  <1>1. Init => Announcing
    BY DEF Init, Announcing
  <1>2. Announcing /\ [Next]_vars => Announcing'
    <2> SUFFICES ASSUME Announcing, [Next]_vars
                 PROVE  Announcing'
      OBVIOUS
    <2>1. CASE BuildServer
      BY <2>1 DEF BuildServer, Announcing
    <2>2. CASE Send
      BY <2>2 DEF Send, Announcing
    <2>3. CASE Configure
      <3>1. /\ phase = "sent" /\ UNCHANGED <<class, announced, request>>
            /\ phase' \in {"answered", "configuring"}
        BY <2>3 DEF Configure, Rejected
      <3>2. phase' = "configuring" =>
              /\ BatchFaults = {} /\ ~TooLong(request.delay) /\ Unparsed = {} /\ FieldFaults = {}
              /\ batch' = BatchConfig /\ handed' = Config
        BY <2>3 DEF Configure, Rejected
      <3>3. /\ BatchFaults' = BatchFaults /\ TooLong(request.delay)' = TooLong(request.delay)
            /\ Unparsed' = Unparsed /\ FieldFaults' = FieldFaults
            /\ BatchConfig' = BatchConfig /\ Config' = Config
        BY <3>1 DEF BatchFaults, BadSize, BadDelay, Unparsed, FieldFaults, BatchConfig, Config
      <3> QED
        BY <3>1, <3>2, <3>3 DEF Announcing
    <2>4. CASE ConfigureEnds
      BY <2>4 DEF ConfigureEnds, Announcing
    <2>5. CASE UNCHANGED vars
      <3>1. UNCHANGED <<class, announced, phase, request, batch, handed>>
        BY <2>5 DEF vars
      <3>2. /\ BatchFaults' = BatchFaults /\ TooLong(request.delay)' = TooLong(request.delay)
            /\ Unparsed' = Unparsed /\ FieldFaults' = FieldFaults
            /\ BatchConfig' = BatchConfig /\ Config' = Config
        BY <3>1 DEF BatchFaults, BadSize, BadDelay, Unparsed, FieldFaults, BatchConfig, Config
      <3> QED
        BY <3>1, <3>2 DEF Announcing
    <2> QED
      BY <2>1, <2>2, <2>3, <2>4, <2>5 DEF Next
  <1> QED
    BY <1>1, <1>2, PTL DEF Spec

\* The host and extract_batch_config read the batch keys alike.
LEMMA BatchAgrees ==
  ASSUME IsText(request.size), IsText(request.delay), BatchFaults = {}
  PROVE  /\ HostView.size = <<"number", BatchConfig.size>>
         /\ HostView.delay = <<"timedelta", BatchConfig.delay * Micro>> \/ DelayParts
  <1>1. ~BadSize /\ ~BadDelay
    BY DEF BatchFaults, Size, Delay
  <1> DEFINE size == request.size
             delay == request.delay
  <1>2. HostView.size = HostReads(BatchParameters.size, size)
        /\ HostView.delay = HostReads(BatchParameters.delay, delay)
    BY DEF HostView
  <1>3. HostReads(BatchParameters.size, size) = <<"number", BatchConfig.size>>
    <2> DEFINE p == BatchParameters.size
    <2>1. /\ p.type = "int" /\ p.required = FALSE /\ p.inclusion = {}
          /\ p.default = <<"number", 0>> /\ p.validations = {[op |-> "gt", at |-> -1]}
      BY DEF BatchParameters
    <2>2. BatchConfig.size = IF Given(size) THEN size[2] ELSE 0
      BY DEF BatchConfig
    <2> HIDE DEF p
    <2>3. CASE size \in {Absent, Empty}
      <3>1. p.default # Empty /\ Read("int", p.default) = <<"number", 0>>
        BY <2>1 DEF Read, Empty
      <3>2. HostReads(p, size) = <<"number", 0>>
        BY <2>1, <2>3, <3>1 DEF HostReads
      <3> QED
        BY <2>2, <2>3, <3>2 DEF Given, p
    <2>4. CASE size \notin {Absent, Empty}
      <3>1. Given(size) /\ Read("int", size) # Bad /\ ~(size[2] < 0)
        BY <1>1, <2>4 DEF Given, BadSize
      <3>2. size[1] = "number" /\ Read("int", size) = size
        BY <3>1 DEF Read
      <3>3. size = <<"number", size[2]>> /\ size[2] \in Int
        BY <3>2 DEF IsText
      <3>4. \A c \in p.validations : Holds(c, size)
        BY <2>1, <3>1, <3>3, HoldsFacts
      <3>5. HostReads(p, size) = size
        BY <2>1, <2>4, <3>1, <3>2, <3>4 DEF HostReads
      <3> QED
        BY <2>2, <3>1, <3>3, <3>5 DEF p
    <2> QED
      BY <2>3, <2>4
  <1>4. ASSUME ~DelayParts
        PROVE  HostReads(BatchParameters.delay, delay)
                 = <<"timedelta", BatchConfig.delay * Micro>>
    <2> DEFINE p == BatchParameters.delay
    <2>1. /\ p.type = "duration" /\ p.required = FALSE /\ p.inclusion = {}
          /\ p.validations = {} /\ p.default = <<"duration", FormatDuration(0)>>
      BY DEF BatchParameters
    <2>2. BatchConfig.delay = IF Given(delay) THEN Us(delay) ELSE 0
      BY DEF BatchConfig
    <2>3. 0 * Micro = 0
      BY Units
    <2> HIDE DEF p
    <2>4. CASE delay \in {Absent, Empty}
      <3>1. InNs(FormatDuration(0)) = 0
        <4>1. 0 \in Int
          OBVIOUS
        <4> QED
          BY <2>3, <4>1, FormatWorth
      <3>2. HostReads(p, delay) = <<"timedelta", 0>>
        BY <2>1, <2>4, <3>1 DEF HostReads, Read, Empty
      <3>3. BatchConfig.delay = 0
        BY <2>2, <2>4 DEF Given
      <3> QED
        BY <2>3, <3>2, <3>3 DEF p
    <2>5. CASE delay \notin {Absent, Empty}
      <3>1. Given(delay) /\ IsDuration(delay)
        BY <1>1, <2>5 DEF Given, BadDelay
      <3>2. Read("duration", delay) = <<"timedelta", Us(delay) * Micro>>
        <4>1. CASE delay[1] = "duration"
          <5>1. WellFormed(delay[2]) /\ InNs(delay[2]) % Micro = 0
            BY <1>4, <4>1 DEF IsText, DelayParts
          <5>2. ParseDuration(delay[2]) * Micro = InNs(delay[2])
            BY <5>1, WholeMicroseconds
          <5> QED
            BY <4>1, <5>2 DEF Read, Us
        <4>2. CASE delay = <<"number", 0>>
          BY <2>3, <4>2 DEF Read, Us
        <4> QED
          BY <3>1, <4>1, <4>2 DEF IsDuration
      <3>3. HostReads(p, delay) = Read("duration", delay)
        BY <2>1, <2>5 DEF HostReads
      <3> QED
        BY <2>2, <3>1, <3>2, <3>3 DEF p
    <2> QED
      BY <2>4, <2>5
  <1> QED
    BY <1>2, <1>3, <1>4

\* A reason to refuse a config: a key that the host refuses too, or on which the
\* two are known to part.
Refusable ==
  \/ \E i \in DOMAIN class : HostView.fields[i] = Bad \/ PartsFrom(class[i], request.fields[i])
  \/ HostView.size = Bad \/ HostView.delay = Bad \/ DelayParts

\* Configure refuses nothing else.
LEMMA RefusalsAgree ==
  ASSUME Answering, Announcing, phase = "sent",
         \/ TooLong(request.delay) \/ BatchFaults # {} \/ Unparsed # {}
         \/ Unparsed = {} /\ FieldFaults # {}
  PROVE  Refusable
  <1>1. /\ class \in Classes /\ request \in Requests(class)
        /\ announced = [i \in DOMAIN class |-> Parameter(class[i])]
    BY DEF Answering, Announcing
  <1>2. /\ IsText(request.size) /\ IsText(request.delay)
        /\ \A i \in DOMAIN class : IsField(class[i]) /\ IsText(request.fields[i])
    BY <1>1, TextsAssumption, ClassesAssumption
  <1>3. \A i \in DOMAIN class :
          HostView.fields[i] = HostReads(Parameter(class[i]), request.fields[i])
    BY <1>1 DEF HostView
  <1>4. CASE TooLong(request.delay)
    BY <1>4 DEF TooLong, DelayParts, Refusable
  <1>5. CASE BatchFaults # {}
    <2>1. BadSize \/ BadDelay
      BY <1>5 DEF BatchFaults
    <2>2. BadSize => HostView.size = Bad
      BY <1>2, HostRefusesSize
    <2>3. BadDelay => HostView.delay = Bad \/ DelayParts
      <3> SUFFICES ASSUME BadDelay, HostView.delay # Bad
                   PROVE  DelayParts
        OBVIOUS
      <3>1. HostView.delay[2] < 0 /\ Us(request.delay) # 0
        BY <1>2, HostRefusesDelay
      <3>2. request.delay[1] = "duration" /\ request.delay \notin {Absent, Empty}
        BY <3>1 DEF Us, Absent, Empty
      <3>3. HostView.delay = Read("duration", request.delay)
        <4>1. HostView.delay = HostReads(BatchParameters.delay, request.delay)
              /\ BatchParameters.delay.type = "duration"
          BY DEF HostView, BatchParameters
        <4> HIDE DEF HostView
        <4> QED
          BY <3>2, <4>1 DEF HostReads
      <3>4. HostView.delay[2] = InNs(request.delay[2])
        BY <3>2, <3>3 DEF Read
      <3> QED
        BY <3>1, <3>2, <3>4 DEF DelayParts
    <2> QED
      BY <2>1, <2>2, <2>3 DEF Refusable
  <1>6. CASE Unparsed # {}
    <2>1. PICK i \in DOMAIN class :
            /\ class[i].kind = "duration" /\ request.fields[i] # Absent
            /\ ~IsDuration(request.fields[i]) \/ TooLong(request.fields[i])
      BY <1>6 DEF Unparsed
    <2> DEFINE f == class[i]
               text == request.fields[i]
    <2> SUFFICES ASSUME ~PartsFrom(f, text)
                 PROVE  HostReads(Parameter(f), text) = Bad
      BY <1>3 DEF Refusable
    <2>2. IsField(f) /\ f.kind = "duration" /\ text \notin {Absent, Empty}
      BY <1>2, <2>1 DEF PartsFrom
    <2>3. ~TooLong(text)
      BY <2>2 DEF PartsFrom, TooLong
    <2>4. ~IsDuration(text)
      BY <2>1, <2>3
    <2> HIDE DEF f, text
    <2>5. Read("duration", text) = Bad
      BY <2>4 DEF IsDuration, Read
    <2>6. Parameter(f).type = "duration"
      BY <2>2, FieldFacts DEF Parameter
    <2> QED
      BY <2>2, <2>5, <2>6 DEF HostReads
  <1>7. CASE Unparsed = {} /\ FieldFaults # {}
    <2>1. PICK i \in DOMAIN class : Validated(class[i], request.fields[i]) = Bad
      BY <1>7 DEF FieldFaults, Config
    <2>2. Parses(class[i], request.fields[i])
      BY <1>7 DEF Unparsed, Parses
    <2>3. PartsFrom(class[i], request.fields[i])
            \/ HostReads(Parameter(class[i]), request.fields[i]) = Bad
      BY <1>2, <2>1, <2>2, FieldAgrees
    <2> QED
      BY <1>3, <2>3 DEF Refusable
  <1> QED
    BY <1>4, <1>5, <1>6, <1>7

\* What a connector is configured with is what the host reads.
LEMMA AcceptancesAgree ==
  ASSUME Answering, Announcing, phase = "configuring"
  PROVE  /\ \A i \in DOMAIN class :
              handed[i] = HostView.fields[i] \/ PartsFrom(class[i], request.fields[i])
         /\ HostView.size = <<"number", batch.size>>
         /\ HostView.delay = <<"timedelta", batch.delay * Micro>> \/ DelayParts
  <1>1. /\ class \in Classes /\ request \in Requests(class)
        /\ announced = [i \in DOMAIN class |-> Parameter(class[i])]
        /\ BatchFaults = {} /\ Unparsed = {}
        /\ batch = BatchConfig /\ handed = Config
    BY DEF Answering, Announcing
  <1>2. /\ IsText(request.size) /\ IsText(request.delay)
        /\ \A i \in DOMAIN class : IsField(class[i]) /\ IsText(request.fields[i])
    BY <1>1, TextsAssumption, ClassesAssumption
  <1>3. ASSUME NEW i \in DOMAIN class, ~PartsFrom(class[i], request.fields[i])
        PROVE  handed[i] = HostView.fields[i]
    <2>1. HostView.fields[i] = HostReads(Parameter(class[i]), request.fields[i])
      BY <1>1 DEF HostView
    <2>2. handed[i] = Validated(class[i], request.fields[i])
      BY <1>1 DEF Config
    <2>3. Parses(class[i], request.fields[i])
      BY <1>1 DEF Unparsed, Parses
    <2> QED
      BY <1>2, <1>3, <2>1, <2>2, <2>3, FieldAgrees
  <1> QED
    BY <1>1, <1>2, <1>3, BatchAgrees

\* What Specify announces is what Configure enforces, for every config class,
\* every config and floats of every precision: a config that the host finds in
\* order is accepted, one that it does not is refused, and the connector is given
\* what the host reads, save for the texts on which the two are known to part.
THEOREM ConfigurationEnforcesAnnounced == Spec => []AnnouncedIsEnforced
  <1> DEFINE Refused == answer \in {"invalid", "unknown"} => Refusable
  <1>1. Init => Refused
    BY DEF Init
  <1>2. Answering /\ Announcing /\ Refused /\ [Next]_vars => Refused'
    <2> SUFFICES ASSUME Answering, Announcing, Refused, [Next]_vars,
                        answer' \in {"invalid", "unknown"}
                 PROVE  Refusable'
      OBVIOUS
    <2>1. ASSUME UNCHANGED <<class, announced, request>>, Refusable
          PROVE  Refusable'
      BY <2>1 DEF Refusable, HostView, DelayParts
    <2>2. CASE BuildServer
      BY <2>2 DEF BuildServer, Answering
    <2>3. CASE Send \/ ConfigureEnds
      BY <2>3 DEF Send, ConfigureEnds
    <2>4. CASE Configure
      <3>1. phase = "sent" /\ answer = "none" /\ UNCHANGED <<class, announced, request>>
        BY <2>4 DEF Configure, Answering
      <3>2. \/ TooLong(request.delay) \/ BatchFaults # {} \/ Unparsed # {}
            \/ Unparsed = {} /\ FieldFaults # {}
        BY <2>4, <3>1 DEF Configure
      <3> QED
        BY <2>1, <3>1, <3>2, RefusalsAgree
    <2>5. CASE UNCHANGED vars
      BY <2>1, <2>5 DEF vars
    <2> QED
      BY <2>2, <2>3, <2>4, <2>5 DEF Next
  <1>3. Answering /\ Announcing /\ Refused => AnnouncedIsEnforced
    <2> SUFFICES ASSUME Answering, Announcing, Refused
                 PROVE  AnnouncedIsEnforced
      OBVIOUS
    <2>1. answer \in {"invalid", "unknown"} => Refusable
      OBVIOUS
    <2> QED
      BY <2>1, AcceptancesAgree DEF AnnouncedIsEnforced, Refusable
  <1> QED
    BY <1>1, <1>2, <1>3, AnsweringHolds, AnnouncingHolds, PTL DEF Spec
==============================================================================
