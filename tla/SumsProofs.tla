----------------------------- MODULE SumsProofs -----------------------------
(***************************************************************************)
(* Lemmas about Total(f, n) and about truncated quotients.  The induction  *)
(* theorems of the library take an operator as a parameter, so each        *)
(* induction here is an argument on the least counterexample.              *)
(***************************************************************************)
EXTENDS Sums, Integers, WellFoundedInduction, TLAPS

(* A nonempty set of naturals has a least element. *)
LEMMA LeastNatural ==
    ASSUME NEW T \in SUBSET Nat, T # {}
    PROVE  \E x \in T : \A y \in T : x <= y
<1>1. PICK x \in T : \A y \in T : ~ (<<y, x>> \in OpToRel(<, Nat))
  BY NatLessThanWellFounded, WFMin
<1>2. \A y \in T : ~ (y < x)
  BY <1>1 DEF OpToRel
<1> QED BY <1>2

(* A set of naturals that holds 0 and, with every m - 1 it holds, m. *)
LEMMA InductiveInterval ==
    ASSUME NEW n \in Nat, NEW S \in SUBSET (0..n), 0 \in S,
           \A m \in 1..n : m - 1 \in S => m \in S
    PROVE  S = 0..n
<1> DEFINE T == (0..n) \ S
<1>1. SUFFICES ASSUME T # {} PROVE FALSE
  OBVIOUS
<1>2. T \in SUBSET Nat
  OBVIOUS
<1>3. PICK m \in T : \A y \in T : m <= y
  <2> HIDE DEF T
  <2> QED BY <1>1, <1>2, LeastNatural
<1>4. m \in 1..n /\ m - 1 \in 0..n
  BY <1>3
<1>5. m - 1 \in S
  BY <1>3, <1>4
<1> QED BY <1>3, <1>4, <1>5

(* The equation that a prefix-sum function over 0..k satisfies. *)
ArePrefixSums(s, f, k) == s = [i \in 0..k |-> IF i = 0 THEN 0 ELSE s[i - 1] + f[i]]

LEMMA PrefixExists ==
    ASSUME NEW n \in Nat, NEW f \in [1..n -> Int]
    PROVE  \E s \in [0..n -> Int] : ArePrefixSums(s, f, n)
<1> DEFINE S == {k \in 0..n : \E s \in [0..k -> Int] : ArePrefixSums(s, f, k)}
<1>1. 0 \in S
  <2> DEFINE z == [i \in 0..0 |-> 0]
  <2>1. z \in [0..0 -> Int] /\ ArePrefixSums(z, f, 0)
    BY DEF ArePrefixSums
  <2> QED BY <2>1
<1>2. ASSUME NEW m \in 1..n, m - 1 \in S PROVE m \in S
  <2>1. PICK s \in [0..m-1 -> Int] : ArePrefixSums(s, f, m - 1)
    BY <1>2
  <2> DEFINE t == [i \in 0..m |-> IF i = m THEN s[m - 1] + f[m] ELSE s[i]]
  <2>2. t \in [0..m -> Int]
    OBVIOUS
  <2>3. ASSUME NEW i \in 0..m PROVE t[i] = IF i = 0 THEN 0 ELSE t[i - 1] + f[i]
    BY <2>1, <2>3 DEF ArePrefixSums
  <2>4. ArePrefixSums(t, f, m)
    BY <2>2, <2>3 DEF ArePrefixSums
  <2> QED BY <2>2, <2>4
<1>3. S = 0..n
  BY <1>1, <1>2, InductiveInterval
<1> QED BY <1>3

LEMMA PartialSumsDef ==
    ASSUME NEW n \in Nat, NEW f \in [1..n -> Int]
    PROVE  ArePrefixSums(PartialSums(f, n), f, n)
<1>1. PICK s : ArePrefixSums(s, f, n)
  BY PrefixExists
<1>2. PartialSums(f, n) = CHOOSE x : ArePrefixSums(x, f, n)
  BY DEF PartialSums, ArePrefixSums
<1> QED BY <1>1, <1>2

(* Prefix sums of integers are integers, with the expected recursion. *)
LEMMA PartialSumsProperties ==
    ASSUME NEW n \in Nat, NEW f \in [1..n -> Int]
    PROVE  /\ PartialSums(f, n) \in [0..n -> Int]
           /\ PartialSums(f, n)[0] = 0
           /\ \A m \in 1..n : PartialSums(f, n)[m] = PartialSums(f, n)[m - 1] + f[m]
<1> DEFINE s == PartialSums(f, n)
           S == {k \in 0..n : s[k] \in Int}
<1>1. s = [i \in 0..n |-> IF i = 0 THEN 0 ELSE s[i - 1] + f[i]]
  BY PartialSumsDef DEF ArePrefixSums
<1> HIDE DEF s
<1>2. s[0] = 0 /\ \A m \in 1..n : s[m] = s[m - 1] + f[m]
  BY <1>1
<1>3. S = 0..n
  <2>1. 0 \in S
    BY <1>2
  <2>2. ASSUME NEW m \in 1..n, m - 1 \in S PROVE m \in S
    BY <1>2, <2>2
  <2> QED BY <2>1, <2>2, InductiveInterval
<1>4. s \in [0..n -> Int]
  BY <1>1, <1>3
<1> QED BY <1>2, <1>4 DEF s

LEMMA TotalType ==
    ASSUME NEW n \in Nat, NEW f \in [1..n -> Int]
    PROVE  Total(f, n) \in Int
BY PartialSumsProperties DEF Total

(* The sum of zeroes is zero. *)
LEMMA TotalZero ==
    ASSUME NEW n \in Nat
    PROVE  Total([i \in 1..n |-> 0], n) = 0
<1> DEFINE f == [i \in 1..n |-> 0]
           s == PartialSums(f, n)
           S == {k \in 0..n : s[k] = 0}
<1>1. f \in [1..n -> Int] /\ \A m \in 1..n : f[m] = 0
  OBVIOUS
<1> HIDE DEF f
<1>2. s[0] = 0 /\ \A m \in 1..n : s[m] = s[m - 1]
  <2>1. s[0] = 0 /\ \A m \in 1..n : s[m] = s[m - 1] + f[m]
    BY <1>1, PartialSumsProperties
  <2>2. s \in [0..n -> Int]
    BY <1>1, PartialSumsProperties
  <2> HIDE DEF s
  <2> QED BY <1>1, <2>1, <2>2
<1> HIDE DEF s
<1>3. 0 \in S
  BY <1>2
<1>4. ASSUME NEW m \in 1..n, m - 1 \in S PROVE m \in S
  BY <1>2, <1>4
<1>5. S = 0..n
  BY <1>3, <1>4, InductiveInterval
<1>6. s[n] = 0
  BY <1>5
<1> QED BY <1>6 DEF Total, s, f

(* Changing one summand changes the sum by the same amount. *)
LEMMA TotalUpdate ==
    ASSUME NEW n \in Nat, NEW f \in [1..n -> Int], NEW k \in 1..n, NEW v \in Int
    PROVE  Total([f EXCEPT ![k] = v], n) = Total(f, n) - f[k] + v
<1> DEFINE g == [f EXCEPT ![k] = v]
           s == PartialSums(f, n)
           t == PartialSums(g, n)
           S == {m \in 0..n : t[m] = IF m < k THEN s[m] ELSE s[m] - f[k] + v}
<1>1. /\ s \in [0..n -> Int] /\ s[0] = 0
      /\ \A m \in 1..n : s[m] = s[m - 1] + f[m]
  BY PartialSumsProperties
<1>2. g \in [1..n -> Int]
  OBVIOUS
<1>3. /\ t \in [0..n -> Int] /\ t[0] = 0
      /\ \A m \in 1..n : t[m] = t[m - 1] + g[m]
  BY <1>2, PartialSumsProperties
<1> HIDE DEF s, t
<1>4. 0 \in S
  BY <1>1, <1>3
<1>5. ASSUME NEW m \in 1..n, m - 1 \in S PROVE m \in S
  <2>1. t[m] = t[m - 1] + g[m] /\ s[m] = s[m - 1] + f[m]
    BY <1>1, <1>3
  <2>2. t[m - 1] = IF m - 1 < k THEN s[m - 1] ELSE s[m - 1] - f[k] + v
    BY <1>5
  <2>3. m - 1 \in 0..n /\ m \in 0..n /\ s[m - 1] \in Int /\ f[k] \in Int /\ f[m] \in Int
    BY <1>1
  <2>4. CASE m < k
    BY <2>1, <2>2, <2>3, <2>4
  <2>5. CASE m = k
    BY <2>1, <2>2, <2>3, <2>5
  <2>6. CASE m > k
    BY <2>1, <2>2, <2>3, <2>6, SMTT(40)
  <2> QED BY <2>4, <2>5, <2>6
<1>6. S = 0..n
  BY <1>4, <1>5, InductiveInterval
<1>7. t[n] = s[n] - f[k] + v
  BY <1>6
<1> QED BY <1>7 DEF Total, s, t

(* A sum of naturals is a natural and no smaller than any of its summands. *)
LEMMA TotalNat ==
    ASSUME NEW n \in Nat, NEW f \in [1..n -> Nat]
    PROVE  /\ Total(f, n) \in Nat
           /\ \A k \in 1..n : f[k] <= Total(f, n)
<1> DEFINE s == PartialSums(f, n)
           S == {m \in 0..n : s[m] \in Nat /\ \A k \in 1..m : f[k] <= s[m]}
<1>1. f \in [1..n -> Int]
  OBVIOUS
<1>2. s[0] = 0 /\ \A m \in 1..n : s[m] = s[m - 1] + f[m]
  BY <1>1, PartialSumsProperties
<1> HIDE DEF s
<1>3. 0 \in S
  BY <1>2
<1>4. ASSUME NEW m \in 1..n, m - 1 \in S PROVE m \in S
  <2>1. s[m] = s[m - 1] + f[m] /\ s[m - 1] \in Nat /\ f[m] \in Nat
    BY <1>2, <1>4
  <2>2. ASSUME NEW k \in 1..m PROVE f[k] <= s[m]
    <3>1. CASE k = m
      BY <2>1, <3>1
    <3>2. CASE k # m
      <4>1. k \in 1..(m - 1) /\ f[k] \in Nat
        BY <3>2
      <4> QED BY <1>4, <2>1, <4>1
    <3> QED BY <3>1, <3>2
  <2> QED BY <2>1, <2>2
<1>5. S = 0..n
  BY <1>3, <1>4, InductiveInterval
<1>6. s[n] \in Nat /\ \A k \in 1..n : f[k] <= s[n]
  BY <1>5
<1> QED BY <1>6 DEF Total, s

LEMMA PartialSumsStep ==
    ASSUME NEW n \in Nat, NEW f \in [1..n -> Int], NEW m \in 1..n
    PROVE  /\ PartialSums(f, n)[m - 1] \in Int /\ f[m] \in Int
           /\ PartialSums(f, n)[m] = PartialSums(f, n)[m - 1] + f[m]
<1>1. m - 1 \in 0..n
  OBVIOUS
<1> QED BY <1>1, PartialSumsProperties

LEMMA ComparedOnce ==
    ASSUME NEW a \in Int, NEW b \in Int, NEW c \in Int, NEW d \in Int,
           NEW f \in Int, NEW g \in Int, NEW h \in Int, NEW k \in Int,
           NEW F \in Int, NEW G \in Int, NEW H \in Int, NEW K \in Int,
           a * F + b * G <= c * H + d * K, a * f + b * g <= c * h + d * k
    PROVE  a * (F + f) + b * (G + g) <= c * (H + h) + d * (K + k)
BY SMT

(* A weighted inequality of the summands is one of the sums. *)
LEMMA TotalsCompared ==
    ASSUME NEW n \in Nat, NEW f \in [1..n -> Int], NEW g \in [1..n -> Int],
           NEW h \in [1..n -> Int], NEW k \in [1..n -> Int],
           NEW a \in Int, NEW b \in Int, NEW c \in Int, NEW d \in Int
    PROVE  (\A i \in 1..n : a * f[i] + b * g[i] <= c * h[i] + d * k[i])
             => a * Total(f, n) + b * Total(g, n) <= c * Total(h, n) + d * Total(k, n)
<1>0. SUFFICES ASSUME \A i \in 1..n : a * f[i] + b * g[i] <= c * h[i] + d * k[i]
               PROVE  a * Total(f, n) + b * Total(g, n) <= c * Total(h, n) + d * Total(k, n)
  OBVIOUS
<1> DEFINE F == PartialSums(f, n)
           G == PartialSums(g, n)
           H == PartialSums(h, n)
           K == PartialSums(k, n)
           S == {m \in 0..n : a * F[m] + b * G[m] <= c * H[m] + d * K[m]}
<1>1. /\ F \in [0..n -> Int] /\ F[0] = 0 /\ \A m \in 1..n : F[m] = F[m - 1] + f[m]
      /\ G \in [0..n -> Int] /\ G[0] = 0 /\ \A m \in 1..n : G[m] = G[m - 1] + g[m]
      /\ H \in [0..n -> Int] /\ H[0] = 0 /\ \A m \in 1..n : H[m] = H[m - 1] + h[m]
      /\ K \in [0..n -> Int] /\ K[0] = 0 /\ \A m \in 1..n : K[m] = K[m - 1] + k[m]
  BY PartialSumsProperties
<1> HIDE DEF F, G, H, K
<1>2. 0 \in S
  BY <1>1
<1>3. ASSUME NEW m \in 1..n, m - 1 \in S PROVE m \in S
  <2>1. a * F[m - 1] + b * G[m - 1] <= c * H[m - 1] + d * K[m - 1] /\ m \in 0..n
    BY <1>3
  <2> HIDE DEF S
  <2>2. /\ F[m - 1] \in Int /\ f[m] \in Int /\ F[m] = F[m - 1] + f[m]
        /\ G[m - 1] \in Int /\ g[m] \in Int /\ G[m] = G[m - 1] + g[m]
        /\ H[m - 1] \in Int /\ h[m] \in Int /\ H[m] = H[m - 1] + h[m]
        /\ K[m - 1] \in Int /\ k[m] \in Int /\ K[m] = K[m - 1] + k[m]
    BY PartialSumsStep DEF F, G, H, K
  <2>3. a * f[m] + b * g[m] <= c * h[m] + d * k[m]
    BY <1>0
  <2>4. a * (F[m - 1] + f[m]) + b * (G[m - 1] + g[m]) <= c * (H[m - 1] + h[m]) + d * (K[m - 1] + k[m])
    BY <2>1, <2>2, <2>3, ComparedOnce, ZenonT(60)
  <2>5. a * F[m] + b * G[m] <= c * H[m] + d * K[m]
    BY <2>2, <2>4, Zenon
  <2> QED BY <2>1, <2>5 DEF S
<1>4. S = 0..n
  BY <1>2, <1>3, InductiveInterval
<1>5. n \in S
  <2> HIDE DEF S
  <2> QED BY <1>4
<1> QED BY <1>5 DEF Total, F, G, H, K

(* Inserting a summand after the first k adds it to the sum. *)
LEMMA TotalInsert ==
    ASSUME NEW n \in Nat, NEW f \in [1..n -> Int], NEW g \in [1..(n + 1) -> Int],
           NEW k \in 0..n, NEW v \in Int,
           \A i \in 1..k : g[i] = f[i], g[k + 1] = v,
           \A i \in (k + 2)..(n + 1) : g[i] = f[i - 1]
    PROVE  Total(g, n + 1) = Total(f, n) + v
<1> DEFINE s == PartialSums(f, n)
           t == PartialSums(g, n + 1)
           S == {m \in 0..(n + 1) : t[m] = IF m <= k THEN s[m] ELSE s[m - 1] + v}
<1>0. n + 1 \in Nat /\ n + 1 \in 0..(n + 1)
  OBVIOUS
<1>1. s \in [0..n -> Int] /\ s[0] = 0 /\ \A m \in 1..n : s[m] = s[m - 1] + f[m]
  BY PartialSumsProperties
<1>2. t \in [0..(n + 1) -> Int] /\ t[0] = 0 /\ \A m \in 1..(n + 1) : t[m] = t[m - 1] + g[m]
  BY <1>0, PartialSumsProperties
<1>3. 0 \in S
  BY <1>1, <1>2, SMTT(40)
<1> HIDE DEF s, t
<1>4. ASSUME NEW m \in 1..(n + 1), m - 1 \in S PROVE m \in S
  <2>1. t[m] = t[m - 1] + g[m] /\ t[m - 1] = IF m - 1 <= k THEN s[m - 1] ELSE s[m - 2] + v
    BY <1>2, <1>4
  <2>2. CASE m <= k
    BY <2>1, <2>2, <1>1
  <2>3. CASE m = k + 1
    BY <2>1, <2>3, <1>1
  <2>4. CASE m > k + 1
    <3>1. m - 1 \in 1..n /\ g[m] = f[m - 1]
      BY <2>4
    <3>2. s[m - 1] = s[m - 2] + f[m - 1] /\ s[m - 2] \in Int /\ s[m - 1] \in Int
      BY <3>1, <1>1
    <3> QED BY <2>1, <2>4, <3>1, <3>2, SMTT(40)
  <2> QED BY <2>2, <2>3, <2>4
<1>5. S = 0..(n + 1)
  <2> HIDE DEF S
  <2>1. S \in SUBSET (0..(n + 1))
    BY DEF S
  <2> QED BY <2>1, <1>0, <1>3, <1>4, InductiveInterval
<1>6. t[n + 1] = s[n] + v
  <2>1. n + 1 \in S
    BY <1>0, <1>5
  <2>2. (n + 1) - 1 = n /\ ~ (n + 1 <= k)
    OBVIOUS
  <2>3. t[n + 1] = s[(n + 1) - 1] + v
    BY <2>1, <2>2
  <2> QED BY <2>2, <2>3
<1> QED
  BY <1>6 DEF Total, s, t

-----------------------------------------------------------------------------
(* Quotients *)

(* A truncated quotient is a natural number, and is no larger than the exact one. *)
LEMMA Quotient ==
    ASSUME NEW a \in Nat, NEW b \in Nat \ {0}
    PROVE  a \div b \in Nat /\ (a \div b) * b <= a
BY SMT

(* A truncated quotient by b of at most c * b is at most c. *)
LEMMA QuotientBound ==
    ASSUME NEW a \in Nat, NEW b \in Nat \ {0}, NEW c \in Nat, a <= c * b
    PROVE  a \div b <= c
BY SMT

LEMMA Product ==
    ASSUME NEW a \in Nat, NEW b \in Nat
    PROVE  a * b \in Nat
BY SMT

\* The smallest quotient that a bound allows.
LEMMA QuotientAtLeast ==
    ASSUME NEW a \in Nat, NEW b \in Nat \ {0}, NEW c \in Nat, c * b <= a
    PROVE  c <= a \div b
BY SMT

LEMMA QuotientGrows ==
    ASSUME NEW a \in Nat, NEW b \in Nat, NEW d \in Nat \ {0}, a <= b
    PROVE  a \div d <= b \div d
<1> DEFINE q == a \div d
<1>1. q \in Nat /\ q * d <= a
  BY Quotient
<1> HIDE DEF q
<1>2. q * d \in Nat
  BY <1>1, Product
<1>3. q * d <= b
  BY <1>1, <1>2
<1> QED BY <1>1, <1>3, QuotientAtLeast DEF q

(* Truncating two parts loses at most one unit more than truncating the whole. *)
LEMMA QuotientSplit ==
    ASSUME NEW a \in Nat, NEW b \in Nat, NEW d \in Nat \ {0}
    PROVE  (a + b) \div d <= (a \div d) + (b \div d) + 1
<1> DEFINE q == a \div d
           r == b \div d
           s == (a + b) \div d
<1>1. /\ q \in Nat /\ r \in Nat /\ s \in Nat
      /\ a < (q + 1) * d /\ b < (r + 1) * d /\ s * d <= a + b
  BY SMT
<1> HIDE DEF q, r, s
<1>2. (q + 1) * d + (r + 1) * d = (q + r + 2) * d
  BY <1>1, SMT
<1>3. s * d < (q + r + 2) * d
  <2>1. (q + 1) * d \in Nat /\ (r + 1) * d \in Nat /\ s * d \in Nat
    BY <1>1, Product
  <2> QED BY <1>1, <1>2, <2>1
<1>4. s <= q + r + 1
  <2> SUFFICES ASSUME s >= q + r + 2 PROVE FALSE
    BY <1>1
  <2>1. s * d >= (q + r + 2) * d
    BY <1>1, SMT
  <2>2. s * d \in Nat /\ (q + r + 2) * d \in Nat
    BY <1>1, Product
  <2> QED BY <1>3, <2>1, <2>2
<1> QED BY <1>4 DEF q, r, s

=============================================================================
