---------------------- MODULE RewardsDistributorProofs ----------------------
(***************************************************************************)
(* The invariants of RewardsDistributor.tla for any number of accounts and *)
(* markets, any holdings, speeds, amounts and any DoubleScale: everyone    *)
(* gets his part of the speeds, and all together no more than was emitted, *)
(* but for what the indices, the settlements and the markets truncate.     *)
(***************************************************************************)
EXTENDS RewardsDistributor, SumsProofs, TLAPS

-----------------------------------------------------------------------------
(* An index update against what it stands for *)

LEMMA CancelScale ==
    ASSUME NEW a \in Nat, NEW b \in Nat, NEW t \in Nat \ {0}, a * t <= b * t
    PROVE  a <= b
<1> SUFFICES ASSUME b < a PROVE FALSE
  OBVIOUS
<1>1. (b + 1) * t <= a * t
  BY SMT
<1>2. (b + 1) * t = b * t + t /\ b * t \in Nat /\ a * t \in Nat
  BY SMT
<1> QED BY <1>1, <1>2

LEMMA Distributed ==
    ASSUME NEW d \in Int, NEW a \in Int, NEW b \in Int
    PROVE  d * (a + b) = d * a + d * b /\ d * a \in Int
BY SMT

LEMMA RoundedUp ==
    ASSUME NEW y \in Nat, NEW t \in Nat \ {0}
    PROVE  ((y + t - 1) \div t) \in Nat /\ y <= ((y + t - 1) \div t) * t
BY SMT

LEMMA Remainder ==
    ASSUME NEW a \in Nat, NEW b \in Nat \ {0}
    PROVE  a \div b \in Nat /\ a % b \in Nat /\ a = (a \div b) * b + (a % b)
BY SMT

\* A holding of h in t with speed x gets, for k slots in one update over p that is at most o
\* more than t, at least k parts of one slot, each rounded down, but for the rounding of the
\* ratio and its product with o.
LEMMA UpdateGivesLeast ==
    ASSUME NEW h \in Nat, NEW k \in Nat, NEW x \in Nat, NEW t \in Nat \ {0}, NEW p \in Nat \ {0},
           NEW o \in Nat, h <= t, p <= t + o
    PROVE  /\ ((k * x + p - 1) \div p) \in Nat
           /\ k * ((x * h) \div t) <= h * ((k * x + p - 1) \div p) + ((k * x + p - 1) \div p) * o
<1> DEFINE l == (x * h) \div t
           c == (k * x + p - 1) \div p
<1>1. x * h \in Nat /\ k * x \in Nat
  BY Product
<1>2. l \in Nat /\ l * t <= x * h
  BY <1>1, Quotient
<1>3. c \in Nat /\ k * x <= c * p
  BY <1>1, RoundedUp
<1> HIDE DEF l, c
<1>4. k * (l * t) <= k * (x * h) /\ k * (x * h) = h * (k * x) /\ (k * l) * t = k * (l * t)
  BY <1>1, <1>2, SMT
<1>5. h * (k * x) <= h * (c * p) /\ c * p <= c * (t + o)
  BY <1>1, <1>3, SMT
<1>6. c * p \in Nat /\ c * (t + o) \in Nat /\ h * (c * p) <= h * (c * (t + o))
  <2>1. c * p \in Nat /\ t + o \in Nat /\ c * (t + o) \in Nat
    BY <1>3, Product
  <2> DEFINE y == c * p
             z == c * (t + o)
  <2> HIDE DEF y, z
  <2>2. y \in Nat /\ z \in Nat /\ y <= z
    BY <1>5, <2>1 DEF y, z
  <2>3. h * y <= h * z
    BY <2>2, SMT
  <2> QED BY <2>1, <2>3 DEF y, z
<1>7. h * (c * (t + o)) = (h * c) * t + h * (c * o)
  <2>1. c * (t + o) = c * t + c * o /\ c * t \in Nat /\ c * o \in Nat
    BY <1>3, SMT
  <2>2. h * (c * t + c * o) = h * (c * t) + h * (c * o)
    BY <2>1, Distributed
  <2>3. h * (c * t) = (h * c) * t
    BY <1>3, SMT
  <2> QED BY <2>1, <2>2, <2>3
<1>8. h * (c * o) <= (c * o) * t /\ c * o \in Nat
  <2> DEFINE y == c * o
  <2>1. y \in Nat
    BY <1>3, Product
  <2> HIDE DEF y
  <2>2. h * y <= y * t
    BY <2>1, SMT
  <2> QED BY <2>1, <2>2 DEF y
<1>9. k * l \in Nat /\ h * c \in Nat /\ (h * c + c * o) * t = (h * c) * t + (c * o) * t
  <2>1. k * l \in Nat /\ h * c \in Nat
    BY <1>2, <1>3, Product
  <2> DEFINE y == c * o
             z == h * c
  <2>2. y \in Nat /\ z \in Nat
    BY <1>8, <2>1
  <2> HIDE DEF y, z
  <2>3. (z + y) * t = z * t + y * t
    BY <2>2, SMT
  <2> QED BY <2>1, <2>3 DEF y, z
<1>10. (k * l) * t <= (h * c + c * o) * t
  <2>1. /\ k * (l * t) \in Nat /\ k * (x * h) \in Nat /\ h * (k * x) \in Nat /\ h * (c * p) \in Nat
        /\ h * (c * (t + o)) \in Nat /\ (h * c) * t \in Nat /\ h * (c * o) \in Nat /\ (c * o) * t \in Nat
    <3>1. l * t \in Nat
      BY <1>2, Product
    <3> QED BY <1>1, <1>6, <1>8, <1>9, <3>1, Product
  <2> QED BY <2>1, <1>4, <1>5, <1>6, <1>7, <1>8, <1>9
<1>11. h * c + c * o \in Nat
  BY <1>8, <1>9
<1>12. k * l <= h * c + c * o
  BY <1>9, <1>10, <1>11, CancelScale
<1> QED BY <1>3, <1>12 DEF l, c

\* And at most k parts of one slot, each rounded up, but for what the ratio r gives t beyond
\* k slots.
LEMMA UpdateGivesMost ==
    ASSUME NEW h \in Nat, NEW k \in Nat, NEW x \in Nat, NEW t \in Nat \ {0}, NEW r \in Nat, NEW e \in Nat,
           h <= t, r * t <= k * x + e
    PROVE  h * r <= k * ((x * h + t - 1) \div t) + e
<1> DEFINE c == (x * h + t - 1) \div t
<1>1. x * h \in Nat /\ k * x \in Nat /\ r * t \in Nat
  BY Product
<1>2. c \in Nat /\ x * h <= c * t
  BY <1>1, RoundedUp
<1> HIDE DEF c
<1>3. h * (r * t) <= h * (k * x + e)
  <2> DEFINE y == r * t
             z == k * x + e
  <2>1. y \in Nat /\ z \in Nat /\ y <= z
    BY <1>1
  <2> HIDE DEF y, z
  <2>2. h * y <= h * z
    BY <2>1, SMT
  <2> QED BY <2>2 DEF y, z
<1>4. h * (k * x + e) = h * (k * x) + h * e
  BY <1>1, Distributed
<1>5. h * (k * x) = k * (x * h) /\ k * (x * h) <= k * (c * t) /\ k * (c * t) = (k * c) * t
  BY <1>1, <1>2, SMT
<1>6. h * e <= e * t
  BY SMT
<1>7. h * r \in Nat /\ k * c \in Nat /\ (h * r) * t = h * (r * t)
  <2>1. (h * r) * t = h * (r * t)
    BY SMT
  <2> QED BY <1>2, <2>1, Product
<1>8. (k * c + e) * t = (k * c) * t + e * t
  <2> DEFINE y == k * c
  <2>1. y \in Nat
    BY <1>7
  <2> HIDE DEF y
  <2>2. (y + e) * t = y * t + e * t
    BY <2>1, SMT
  <2> QED BY <2>2 DEF y
<1>9. (h * r) * t <= (k * c + e) * t
  <2>1. /\ h * (r * t) \in Nat /\ h * (k * x) \in Nat /\ h * e \in Nat /\ e * t \in Nat
        /\ k * (x * h) \in Nat /\ (k * c) * t \in Nat
    <3>1. /\ h * (r * t) \in Nat /\ h * (k * x) \in Nat /\ h * e \in Nat /\ e * t \in Nat
      BY <1>1, Product
    <3>2. k * (x * h) \in Nat
      BY <1>1, Product
    <3>3. (k * c) * t \in Nat
      BY <1>7, Product
    <3> QED BY <3>1, <3>2, <3>3
  <2>2. (h * r) * t <= k * (x * h) + h * e
    BY <1>3, <1>4, <1>5, <1>7, Zenon
  <2>3. k * (x * h) <= (k * c) * t
    BY <1>5, Zenon
  <2> DEFINE a == (h * r) * t
             b == k * (x * h)
             f == h * e
             g == (k * c) * t
             i == e * t
  <2>4. a \in Int
    BY <1>7, SMT
  <2>5. b \in Nat /\ f \in Nat /\ g \in Nat /\ i \in Nat /\ a <= b + f /\ b <= g /\ f <= i /\ (k * c + e) * t = g + i
    BY <2>1, <2>2, <2>3, <1>6, <1>8
  <2> HIDE DEF a, b, f, g, i
  <2>6. a <= g + i
    BY <2>4, <2>5
  <2> QED BY <2>5, <2>6, Zenon DEF a
<1>10. k * c + e \in Nat
  BY <1>7
<1>11. h * r <= k * c + e
  BY <1>7, <1>9, <1>10, CancelScale
<1> QED BY <1>11 DEF c

\* A part of the speed grows when somebody else's holding goes.
LEMMA PartGrows ==
    ASSUME NEW y \in Nat, NEW t \in Nat \ {0}, NEW s \in Nat \ {0}, s <= t
    PROVE  (y \div t) \in Nat /\ (y \div t) <= (y \div s)
<1> DEFINE q == y \div t
<1>1. q \in Nat /\ q * t <= y
  BY Quotient
<1> HIDE DEF q
<1>2. q * s <= q * t /\ q * s \in Nat /\ q * t \in Nat
  BY <1>1, SMT
<1>3. q <= y \div s
  BY <1>1, <1>2, QuotientAtLeast
<1> QED BY <1>1, <1>3 DEF q


-----------------------------------------------------------------------------
(* Sums over the sides of the markets *)

LEMMA SidesAre ==
    /\ \A m \in Markets : SupplyOf(m) \in Sides /\ BorrowOf(m) \in Sides
    /\ \A s \in Sides : \E m \in Markets : s = SupplyOf(m) \/ s = BorrowOf(m)
BY DEF Sides, SupplyOf, BorrowOf

\* The summands of SumOverSides
PerMarket(f) == [m \in Markets |-> f[SupplyOf(m)] + f[BorrowOf(m)]]

LEMMA PerMarketType ==
    ASSUME NEW f \in [Sides -> Int]
    PROVE  /\ PerMarket(f) \in [1 .. MarketCount -> Int]
           /\ MarketCount \in Nat /\ SumOverSides(f) = Total(PerMarket(f), MarketCount)
           /\ SumOverSides(f) \in Int
           /\ \A m \in Markets : /\ f[SupplyOf(m)] \in Int /\ f[BorrowOf(m)] \in Int
                                 /\ PerMarket(f)[m] = f[SupplyOf(m)] + f[BorrowOf(m)]
<1>1. \A m \in Markets : f[SupplyOf(m)] \in Int /\ f[BorrowOf(m)] \in Int
  BY SidesAre
<1>2. PerMarket(f) \in [1 .. MarketCount -> Int] /\ MarketCount \in Nat
  BY <1>1, AccountsAssumption DEF PerMarket, Markets
<1>3. SumOverSides(f) = Total(PerMarket(f), MarketCount)
  BY DEF SumOverSides, PerMarket
<1>4. Total(PerMarket(f), MarketCount) \in Int
  BY <1>2, TotalType
<1> QED BY <1>1, <1>2, <1>3, <1>4 DEF PerMarket

LEMMA SidesNat ==
    ASSUME NEW f \in [Sides -> Nat]
    PROVE  SumOverSides(f) \in Nat
<1>1. f \in [Sides -> Int]
  OBVIOUS
<1>2. \A m \in Markets : f[SupplyOf(m)] + f[BorrowOf(m)] \in Nat
  BY SidesAre
<1>3. PerMarket(f) \in [1 .. MarketCount -> Nat] /\ MarketCount \in Nat
  BY <1>2, AccountsAssumption DEF PerMarket, Markets
<1> QED BY <1>1, <1>3, PerMarketType, TotalNat

LEMMA SidesCompared ==
    ASSUME NEW f \in [Sides -> Int], NEW g \in [Sides -> Int],
           NEW h \in [Sides -> Int], NEW k \in [Sides -> Int],
           NEW a \in Int, NEW b \in Int, NEW c \in Int, NEW d \in Int,
           \A s \in Sides : a * f[s] + b * g[s] <= c * h[s] + d * k[s]
    PROVE  a * SumOverSides(f) + b * SumOverSides(g) <= c * SumOverSides(h) + d * SumOverSides(k)
<1>1. ASSUME NEW m \in Markets
      PROVE  a * PerMarket(f)[m] + b * PerMarket(g)[m] <= c * PerMarket(h)[m] + d * PerMarket(k)[m]
  <2>1. /\ a * f[SupplyOf(m)] + b * g[SupplyOf(m)] <= c * h[SupplyOf(m)] + d * k[SupplyOf(m)]
        /\ a * f[BorrowOf(m)] + b * g[BorrowOf(m)] <= c * h[BorrowOf(m)] + d * k[BorrowOf(m)]
    BY SidesAre
  <2>2. /\ f[SupplyOf(m)] \in Int /\ f[BorrowOf(m)] \in Int /\ PerMarket(f)[m] = f[SupplyOf(m)] + f[BorrowOf(m)]
        /\ g[SupplyOf(m)] \in Int /\ g[BorrowOf(m)] \in Int /\ PerMarket(g)[m] = g[SupplyOf(m)] + g[BorrowOf(m)]
        /\ h[SupplyOf(m)] \in Int /\ h[BorrowOf(m)] \in Int /\ PerMarket(h)[m] = h[SupplyOf(m)] + h[BorrowOf(m)]
        /\ k[SupplyOf(m)] \in Int /\ k[BorrowOf(m)] \in Int /\ PerMarket(k)[m] = k[SupplyOf(m)] + k[BorrowOf(m)]
    BY PerMarketType
  <2>3. a * (f[SupplyOf(m)] + f[BorrowOf(m)]) + b * (g[SupplyOf(m)] + g[BorrowOf(m)])
          <= c * (h[SupplyOf(m)] + h[BorrowOf(m)]) + d * (k[SupplyOf(m)] + k[BorrowOf(m)])
    BY <2>1, <2>2, ComparedOnce, ZenonT(60)
  <2> QED BY <2>2, <2>3, Zenon
<1>2. /\ PerMarket(f) \in [1 .. MarketCount -> Int] /\ PerMarket(g) \in [1 .. MarketCount -> Int]
      /\ PerMarket(h) \in [1 .. MarketCount -> Int] /\ PerMarket(k) \in [1 .. MarketCount -> Int]
      /\ MarketCount \in Nat
  BY PerMarketType
<1>3. \A i \in 1 .. MarketCount : a * PerMarket(f)[i] + b * PerMarket(g)[i] <= c * PerMarket(h)[i] + d * PerMarket(k)[i]
  BY <1>1 DEF Markets
<1>4. a * Total(PerMarket(f), MarketCount) + b * Total(PerMarket(g), MarketCount)
        <= c * Total(PerMarket(h), MarketCount) + d * Total(PerMarket(k), MarketCount)
  BY <1>2, <1>3, TotalsCompared
<1> QED BY <1>4, PerMarketType

\* The sum of two functions is the sum of their sums.
LEMMA SidesAdded ==
    ASSUME NEW f \in [Sides -> Int], NEW g \in [Sides -> Int], NEW h \in [Sides -> Int],
           \A s \in Sides : h[s] = f[s] + g[s]
    PROVE  SumOverSides(h) = SumOverSides(f) + SumOverSides(g)
<1>1. \A s \in Sides : f[s] \in Int /\ g[s] \in Int /\ h[s] \in Int
  OBVIOUS
<1>2. PICK i \in Int, o \in Int : i = 1 /\ o = 0
  OBVIOUS
<1>3. \A s \in Sides : i * h[s] + o * h[s] <= i * f[s] + i * g[s]
  BY <1>1, <1>2
<1>4. \A s \in Sides : i * f[s] + i * g[s] <= i * h[s] + o * h[s]
  BY <1>1, <1>2
<1>5. SumOverSides(f) \in Int /\ SumOverSides(g) \in Int /\ SumOverSides(h) \in Int
  BY PerMarketType
<1>6. i * SumOverSides(h) + o * SumOverSides(h) <= i * SumOverSides(f) + i * SumOverSides(g)
  BY <1>3, SidesCompared
<1>7. i * SumOverSides(f) + i * SumOverSides(g) <= i * SumOverSides(h) + o * SumOverSides(h)
  BY <1>4, SidesCompared
<1> QED BY <1>2, <1>5, <1>6, <1>7

LEMMA SidesZero ==
    ASSUME NEW f \in [Sides -> Int], \A s \in Sides : f[s] = 0
    PROVE  SumOverSides(f) = 0
<1> DEFINE x == SumOverSides(f)
<1>1. \A s \in Sides : f[s] = f[s] + f[s]
  OBVIOUS
<1>2. x = x + x /\ x \in Int
  BY <1>1, SidesAdded, PerMarketType
<1> HIDE DEF x
<1>3. x = 0
  BY <1>2
<1> QED BY <1>3 DEF x

Transposed(g) == [u \in Accounts |-> SumOverSides([s \in Sides |-> g[s][u]])]
Totals(g) == [s \in Sides |-> Total(g[s], AccountCount)]

\* Everybody's sums over the sides add up to the sum of the sides' totals.
LEMMA SumsExchanged ==
    ASSUME NEW g \in [Sides -> [Accounts -> Int]]
    PROVE  /\ Transposed(g) \in [1 .. AccountCount -> Int] /\ Totals(g) \in [Sides -> Int]
           /\ Total(Transposed(g), AccountCount) = SumOverSides(Totals(g))
<1> DEFINE n == AccountCount
           row(u) == [s \in Sides |-> g[s][u]]
           upTo(k) == [s \in Sides |-> PartialSums(g[s], n)[k]]
           p == PartialSums(Transposed(g), n)
           S == {k \in 0 .. n : p[k] = SumOverSides(upTo(k))}
<1>1. n \in Nat /\ \A s \in Sides : g[s] \in [1 .. n -> Int]
  BY AccountsAssumption DEF Accounts
<1>2. \A u \in 1 .. n : row(u) \in [Sides -> Int] /\ SumOverSides(row(u)) \in Int
  BY <1>1, PerMarketType
<1>3. Transposed(g) \in [1 .. n -> Int] /\ \A u \in 1 .. n : Transposed(g)[u] = SumOverSides(row(u))
  BY <1>2 DEF Transposed, Accounts
<1>4. /\ p[0] = 0 /\ \A k \in 0 .. n : p[k] \in Int
      /\ \A k \in 1 .. n : p[k] = p[k - 1] + Transposed(g)[k]
  <2> HIDE DEF row, upTo, S
  <2> QED BY <1>1, <1>3, PartialSumsProperties
<1>5. \A s \in Sides :
        /\ PartialSums(g[s], n)[0] = 0 /\ \A k \in 0 .. n : PartialSums(g[s], n)[k] \in Int
        /\ \A k \in 1 .. n : PartialSums(g[s], n)[k] = PartialSums(g[s], n)[k - 1] + g[s][k]
  <2> HIDE DEF p, row, upTo, S
  <2> QED BY <1>1, PartialSumsProperties
<1>6. \A k \in 0 .. n : upTo(k) \in [Sides -> Int]
  BY <1>5
<1>7. 0 \in S
  <2>1. \A s \in Sides : upTo(0)[s] = 0
    BY <1>5
  <2>2. upTo(0) \in [Sides -> Int] /\ 0 \in 0 .. n
    BY <1>1, <1>6
  <2>4. SumOverSides(upTo(0)) = 0
    <3> HIDE DEF upTo
    <3> QED BY <2>1, <2>2, SidesZero
  <2> QED BY <1>4, <2>2, <2>4
<1>8. ASSUME NEW k \in 1 .. n, k - 1 \in S
      PROVE  k \in S
  <2>1. k - 1 \in 0 .. n /\ k \in 0 .. n
    BY <1>1
  <2>2. upTo(k - 1) \in [Sides -> Int] /\ upTo(k) \in [Sides -> Int]
    BY <1>6, <2>1
  <2>3. \A s \in Sides : upTo(k)[s] = upTo(k - 1)[s] + row(k)[s]
    BY <1>5
  <2>4. SumOverSides(upTo(k)) = SumOverSides(upTo(k - 1)) + SumOverSides(row(k))
    <3> HIDE DEF upTo, row
    <3> QED BY <1>2, <2>2, <2>3, SidesAdded
  <2>5. p[k - 1] = SumOverSides(upTo(k - 1))
    BY <1>8
  <2>6. p[k] = SumOverSides(upTo(k))
    <3> HIDE DEF upTo, row, p
    <3> QED BY <1>3, <1>4, <2>4, <2>5
  <2> QED BY <2>1, <2>6
<1>9. S = 0 .. n
  <2>1. S \in SUBSET (0 .. n)
    BY Zenon
  <2> HIDE DEF S
  <2> QED BY <1>1, <1>7, <1>8, <2>1, InductiveInterval
<1>10. p[n] = SumOverSides(upTo(n))
  <2>1. n \in S
    <3> HIDE DEF S
    <3> QED BY <1>1, <1>9
  <2> QED BY <2>1
<1>11. upTo(n) = Totals(g) /\ p[n] = Total(Transposed(g), n)
  BY DEF Totals, Total
<1>12. Totals(g) \in [Sides -> Int]
  <2>1. n \in 0 .. n
    BY <1>1
  <2> QED BY <1>6, <1>11, <2>1
<1> HIDE DEF p, upTo
<1> QED BY <1>3, <1>10, <1>11, <1>12


-----------------------------------------------------------------------------
(* The inductive invariant *)

RewardState == [index : Nat, block : Nat, lastRewardingBlock : Nat, speed : Nat]
Contributor == [speed : Nat, lastBlock : Nat]
Loan == [principal : Nat, interestIndex : Nat]
MarketState == [borrowIndex : Nat, totalBorrows : Nat, accrualBlockNumber : Nat]

\* Borrow indices start at 1 and grow, and a debt remembers one.
Lent ==
  /\ tokens \in [Markets -> [Accounts -> Nat]]
  /\ loans \in [Markets -> [Accounts -> Loan]]
  /\ market \in [Markets -> MarketState]
  /\ \A m \in Markets : market[m].borrowIndex >= EXP_SCALE
  /\ \A m \in Markets : \A u \in Accounts : loans[m][u].principal # 0 => loans[m][u].interestIndex # 0

Typed ==
  /\ slot \in Nat \ {0}
  /\ rewardState \in [Sides -> RewardState]
  /\ userIndex \in [Sides -> [Accounts -> Nat]]
  /\ accrued \in [Accounts -> Nat] /\ paid \in [Accounts -> Nat]
  /\ contributors \in [Accounts -> Contributor]
  /\ Lent /\ holding \in [Sides -> [Accounts -> Nat]]
  /\ least \in [Accounts -> Nat] /\ most \in [Accounts -> Nat] /\ dust \in [Accounts -> Nat]
  /\ emitted \in Nat /\ surplus \in Nat

\* An index runs neither past the present nor past the last rewarding block, and nobody
\* was settled at an index that is yet to come.
Timely ==
  /\ \A s \in Sides :
       LET r == rewardState[s] IN
       /\ r.index >= InitialIndex /\ r.block <= slot
       /\ r.lastRewardingBlock > 0 => r.block <= r.lastRewardingBlock
       /\ \A u \in Accounts : userIndex[s][u] <= r.index
  /\ \A u \in Accounts : contributors[u].lastBlock <= slot

Booked(u) == paid[u] + accrued[u] + ContributorDue(u)

\* What u has gained up to the last update of the index and not been settled with,
From(s, u) == IF userIndex[s][u] = 0 THEN InitialIndex ELSE userIndex[s][u]
Gained(s, u) == holding[s][u] * (rewardState[s].index - From(s, u))
\* his part of the speed per slot since then, rounded down and up,
Elapsed(s) == StopSlot(s) - rewardState[s].block
Speed(s) == rewardState[s].speed * DoubleScale
LeastShare(s, u) == IF TotalHeld(s) = 0 THEN 0 ELSE (Speed(s) * holding[s][u]) \div TotalHeld(s)
MostShare(s, u) ==
  IF TotalHeld(s) = 0 THEN 0 ELSE (Speed(s) * holding[s][u] + TotalHeld(s) - 1) \div TotalHeld(s)
LeastDue(s, u) == Gained(s, u) + Elapsed(s) * LeastShare(s, u)
MostDue(s, u) == Gained(s, u) + Elapsed(s) * MostShare(s, u)
\* and what is due on a side to all together.
SideDue(s) ==
  Total([u \in Accounts |-> Gained(s, u)], AccountCount) + (IF TotalHeld(s) = 0 THEN 0 ELSE Unspent(s))

NobodyShort ==
  \A u \in Accounts : u \notin healed =>
    least[u] <= DoubleScale * Booked(u) + dust[u] + SumOverSides([s \in Sides |-> LeastDue(s, u)])
NobodyAhead ==
  healed = {} => \A u \in Accounts :
    DoubleScale * Booked(u) + SumOverSides([s \in Sides |-> MostDue(s, u)]) <= most[u] + surplus
AllCovered ==
  DoubleScale * Total([u \in Accounts |-> Booked(u)], AccountCount) + SumOverSides([s \in Sides |-> SideDue(s)])
    <= DoubleScale * emitted + surplus

IInv == Typed /\ Timely /\ NobodyShort /\ NobodyAhead /\ AllCovered


-----------------------------------------------------------------------------
(* What is held and what is reported *)

\* A debt of p at index i is worth p / i units.  Read as a balance at index j it is that many,
\* or one less.
LEMMA ReadTruncated ==
    ASSUME NEW p \in Nat, NEW i \in Nat \ {0}, NEW j \in Nat \ {0}, NEW z \in Nat, z <= j
    PROVE  LET q == (p * z) \div i
               b == (p * j) \div i
               h == (b * z) \div j
           IN  q \in Nat /\ b \in Nat /\ h \in Nat /\ h <= q /\ q <= h + 1
<1> DEFINE q == (p * z) \div i
           b == (p * j) \div i
           h == (b * z) \div j
<1>1. p * z \in Nat /\ p * j \in Nat
  BY Product
<1>2. q \in Nat /\ q * i <= p * z /\ p * z <= q * i + i
  <2> DEFINE y == p * z
  <2> HIDE DEF y
  <2>1. y \in Nat => (y \div i) \in Nat /\ (y \div i) * i <= y /\ y <= (y \div i) * i + i
    BY SMT
  <2> QED BY <1>1, <2>1 DEF y
<1>3. b \in Nat /\ b * i <= p * j /\ p * j + 1 <= b * i + i
  <2> DEFINE y == p * j
  <2> HIDE DEF y
  <2>1. y \in Nat => (y \div i) \in Nat /\ (y \div i) * i <= y /\ y + 1 <= (y \div i) * i + i
    BY SMT
  <2> QED BY <1>1, <2>1 DEF y
<1> HIDE DEF b
<1>4. b * z \in Nat
  BY <1>3, Product
<1>5. h \in Nat /\ h * j <= b * z
  BY <1>4, Quotient
<1> HIDE DEF q, h
<1>6. h <= q
  <2>1. (h * j) * i <= (b * z) * i /\ (b * z) * i = z * (b * i)
    <3> DEFINE y == h * j
               w == b * z
    <3>1. y \in Nat /\ w \in Nat /\ y <= w
      BY <1>4, <1>5, Product
    <3> HIDE DEF y, w
    <3>2. y * i <= w * i
      BY <3>1, SMT
    <3>3. (b * z) * i = z * (b * i)
      BY <1>3, SMT
    <3> QED BY <3>2, <3>3 DEF y, w
  <2>2. z * (b * i) <= z * (p * j) /\ z * (p * j) = (p * z) * j
    <3> DEFINE y == b * i
               w == p * j
    <3>1. y \in Nat /\ w \in Nat /\ y <= w
      BY <1>1, <1>3, Product
    <3> HIDE DEF y, w
    <3>2. z * y <= z * w
      BY <3>1, SMT
    <3>3. z * (p * j) = (p * z) * j
      BY SMT
    <3> QED BY <3>2, <3>3 DEF y, w
  <2>3. (h * j) * i = (h * i) * j
    BY <1>5, SMT
  <2>4. /\ (h * i) * j \in Nat /\ (p * z) * j \in Nat /\ h * i \in Nat
        /\ (b * z) * i \in Nat /\ z * (b * i) \in Nat /\ z * (p * j) \in Nat
    <3>1. h * i \in Nat /\ b * i \in Nat
      BY <1>3, <1>5, Product
    <3> QED BY <1>1, <1>4, <3>1, Product
  <2>5. (h * i) * j <= (p * z) * j
    BY <2>1, <2>2, <2>3, <2>4
  <2>6. h * i <= p * z
    BY <1>1, <2>4, <2>5, CancelScale
  <2> QED BY <1>1, <1>5, <2>6, QuotientAtLeast DEF q
<1>7. q <= h + 1
  <2>1. CASE q = 0
    BY <1>5, <2>1
  <2>2. CASE q # 0
    <3> DEFINE r == q - 1
    <3>1. r \in Nat /\ q = r + 1
      BY <1>2, <2>2
    <3> HIDE DEF r
    \* (q * j) * i <= z * (p * j) < (b * z + z) * i
    <3>2. (q * i) * j <= (p * z) * j /\ (q * i) * j = (q * j) * i /\ (p * z) * j = z * (p * j)
      <4> DEFINE y == q * i
                 w == p * z
      <4>1. y \in Nat /\ w \in Nat /\ y <= w
        BY <1>1, <1>2, Product
      <4> HIDE DEF y, w
      <4>2. y * j <= w * j
        BY <4>1, SMT
      <4>3. (q * i) * j = (q * j) * i /\ (p * z) * j = z * (p * j)
        BY <1>2, SMT
      <4> QED BY <4>2, <4>3 DEF y, w
    <3>3. z * (p * j) <= z * (b * i + i) /\ z * (b * i + i) = (b * z + z) * i
      <4> DEFINE y == p * j
                 w == b * i + i
      <4>1. y \in Nat /\ w \in Nat /\ y <= w
        <5>1. b * i \in Nat
          BY <1>3, Product
        <5> QED BY <1>1, <1>3, <5>1
      <4> HIDE DEF y, w
      <4>2. z * y <= z * w
        BY <4>1, SMT
      <4>3. z * (b * i + i) = (b * z + z) * i
        BY <1>3, SMT
      <4> QED BY <4>2, <4>3 DEF y, w
    <3>4. (q * j) \in Nat /\ b * z + z \in Nat /\ (q * j) * i <= (b * z + z) * i
      <4>1. q * j \in Nat /\ q * i \in Nat /\ b * z + z \in Nat /\ b * i + i \in Nat
        <5>1. b * i \in Nat
          BY <1>3, Product
        <5> QED BY <1>2, <1>4, <5>1, Product
      <4>2. /\ (q * j) * i \in Nat /\ z * (p * j) \in Nat /\ (b * z + z) * i \in Nat
        BY <1>1, <4>1, Product
      <4> QED BY <3>2, <3>3, <4>1, <4>2
    <3>5. q * j <= b * z + z
      BY <3>4, CancelScale
    <3>6. q * j = r * j + j /\ r * j \in Nat
      BY <3>1, SMT
    <3>7. r * j <= b * z
      BY <1>4, <3>4, <3>5, <3>6
    <3>8. r <= h
      BY <1>4, <3>1, <3>7, QuotientAtLeast DEF h
    <3> QED BY <1>5, <3>1, <3>8
  <2> QED BY <2>1, <2>2
<1> QED BY <1>2, <1>3, <1>5, <1>6, <1>7 DEF q, b, h

LEMMA Reports ==
    ASSUME Lent, NEW s \in Sides
    PROVE  /\ holding[s] \in [Accounts -> Nat] /\ Reported(s) \in Nat
           /\ \A u \in Accounts : Share(s, u) \in Nat /\ Share(s, u) <= holding[s][u] /\ holding[s][u] <= Share(s, u) + 1
<1>1. PICK m \in Markets : s = SupplyOf(m) \/ s = BorrowOf(m)
  BY SidesAre
<1>2. CASE s = SupplyOf(m)
  <2>1. s[1] = m /\ s[2] = "supply"
    BY <1>2 DEF SupplyOf
  <2>2. \A u \in Accounts : tokens[m][u] \in Nat
    BY DEF Lent
  <2>3. \A u \in Accounts : holding[s][u] = tokens[m][u] /\ Share(s, u) = tokens[m][u]
    BY <2>1 DEF holding, Share
  <2>4. holding[s] \in [Accounts -> Nat]
    BY <2>1, <2>2 DEF holding
  <2>5. Reported(s) = TotalHeld(s)
    BY <2>1 DEF Reported
  <2>6. TotalHeld(s) \in Nat
    BY <2>4, AccountsAssumption, TotalNat DEF TotalHeld, Accounts
  <2> QED BY <2>2, <2>3, <2>4, <2>5, <2>6
<1>3. CASE s = BorrowOf(m)
  <2>1. s[1] = m /\ s[2] = "borrow" /\ s[2] # "supply"
    BY <1>3 DEF BorrowOf
  <2> DEFINE j == market[m].borrowIndex
             z == EXP_SCALE
  <2>2. j \in Nat \ {0} /\ z \in Nat /\ z <= j /\ market[m].totalBorrows \in Nat
    BY ExpScaleAssumption DEF Lent, MarketState
  <2>3. ASSUME NEW u \in Accounts
        PROVE  /\ Units(m, u) \in Nat /\ Share(s, u) \in Nat
               /\ Share(s, u) <= Units(m, u) /\ Units(m, u) <= Share(s, u) + 1
    <3> DEFINE p == loans[m][u].principal
               i == loans[m][u].interestIndex
    <3>1. p \in Nat /\ i \in Nat /\ (p # 0 => i # 0)
      BY DEF Lent, Loan
    <3>2. /\ Share(s, u) = ((IF p = 0 THEN 0 ELSE (p * j) \div i) * z) \div j
          /\ Units(m, u) = IF p = 0 THEN 0 ELSE (p * z) \div i
      BY <2>1 DEF Share, Units, Owed, DivExp
    <3> HIDE DEF p, i, j, z
    <3>3. CASE p = 0
      <4>1. 0 * z = 0 /\ 0 \div j = 0
        BY <2>2
      <4> QED BY <3>2, <3>3, <4>1
    <3>4. CASE p # 0
      <4>1. i \in Nat \ {0} /\ Share(s, u) = (((p * j) \div i) * z) \div j /\ Units(m, u) = (p * z) \div i
        BY <3>1, <3>2, <3>4
      <4>2. /\ (p * z) \div i \in Nat /\ (((p * j) \div i) * z) \div j \in Nat
            /\ (((p * j) \div i) * z) \div j <= (p * z) \div i
            /\ (p * z) \div i <= (((p * j) \div i) * z) \div j + 1
        BY <2>2, <3>1, <4>1, ReadTruncated, ZenonT(60)
      <4> QED BY <4>1, <4>2, Zenon
    <3> QED BY <3>3, <3>4
  <2>4. \A u \in Accounts : holding[s][u] = Units(m, u)
    BY <2>1 DEF holding
  <2>5. holding[s] \in [Accounts -> Nat]
    BY <2>1, <2>3 DEF holding
  <2>6. Reported(s) \in Nat
    <3>1. Reported(s) = (market[m].totalBorrows * z) \div j
      BY <2>1 DEF Reported, DivExp
    <3> DEFINE y == market[m].totalBorrows * z
    <3>2. y \in Nat
      BY <2>2, Product
    <3> HIDE DEF y, z, j
    <3>3. y \div j \in Nat
      BY <2>2, <3>2, Quotient
    <3> QED BY <3>1, <3>3 DEF y
  <2> QED BY <2>3, <2>4, <2>5, <2>6
<1> QED BY <1>1, <1>2, <1>3

LEMMA LentHolds == Lent => holding \in [Sides -> [Accounts -> Nat]]
<1> SUFFICES ASSUME Lent PROVE holding \in [Sides -> [Accounts -> Nat]]
  OBVIOUS
<1>1. \A s \in Sides : holding[s] \in [Accounts -> Nat]
  BY Reports
<1>2. holding = [s \in Sides |-> holding[s]]
  BY DEF holding
<1> QED BY <1>1, <1>2

HoldsTyped == holding \in [Sides -> [Accounts -> Nat]]

LEMMA LentHoldsNext == Lent' => holding' \in [Sides -> [Accounts -> Nat]]
<1>1. Lent => HoldsTyped
  BY LentHolds DEF HoldsTyped
<1>2. Lent' => HoldsTyped'
  BY <1>1, PTL
<1> QED BY <1>2 DEF HoldsTyped

\* What leaves the markets alone leaves what is held.
LEMMA LedgerKept == UNCHANGED ledger => (Lent => Lent') /\ holding' = holding
BY DEF ledger, Lent, holding, Units

LEMMA OwedNat ==
    ASSUME Lent, NEW m \in Markets, NEW u \in Accounts
    PROVE  Owed(m, u) \in Nat /\ market[m] \in MarketState
<1> DEFINE p == loans[m][u].principal
           i == loans[m][u].interestIndex
           j == market[m].borrowIndex
<1>1. p \in Nat /\ i \in Nat /\ (p # 0 => i # 0) /\ j \in Nat /\ market[m] \in MarketState
  BY DEF Lent, Loan, MarketState
<1>2. Owed(m, u) = IF p = 0 THEN 0 ELSE (p * j) \div i
  BY DEF Owed
<1> HIDE DEF p, i, j
<1>3. p # 0 => (p * j) \div i \in Nat
  BY <1>1, Product, Quotient
<1> QED BY <1>1, <1>2, <1>3

\* A change of vTokens changes holdings on the supply side, a debt on the borrow side.
LEMMA SuppliedHolds ==
    ASSUME Lent, NEW m \in Markets, NEW accounts,
           tokens' \in [Markets -> [Accounts -> Nat]], UNCHANGED <<loans, market>>,
           \A k \in Markets : \A v \in Accounts : k # m \/ v \notin accounts => tokens'[k][v] = tokens[k][v]
    PROVE  /\ Lent'
           /\ \A r \in Sides : \A v \in Accounts : r # SupplyOf(m) \/ v \notin accounts => holding'[r][v] = holding[r][v]
<1>1. Lent'
  BY DEF Lent
<1>2. ASSUME NEW r \in Sides, NEW v \in Accounts, r # SupplyOf(m) \/ v \notin accounts
      PROVE  holding'[r][v] = holding[r][v]
  <2>1. PICK k \in Markets : r = SupplyOf(k) \/ r = BorrowOf(k)
    BY SidesAre
  <2>2. CASE r = SupplyOf(k)
    <3>1. r[1] = k /\ r[2] = "supply" /\ (k # m \/ v \notin accounts)
      BY <1>2, <2>2 DEF SupplyOf
    <3>2. holding'[r][v] = tokens'[k][v] /\ holding[r][v] = tokens[k][v]
      BY <3>1 DEF holding
    <3> QED BY <3>1, <3>2
  <2>3. CASE r = BorrowOf(k)
    <3>1. r[1] = k /\ r[2] # "supply"
      BY <2>3 DEF BorrowOf
    <3>2. holding'[r][v] = Units(k, v)' /\ holding[r][v] = Units(k, v)
      BY <3>1 DEF holding
    <3> QED BY <3>2 DEF Units
  <2> QED BY <2>1, <2>2, <2>3
<1> QED BY <1>1, <1>2

LEMMA OwingHolds ==
    ASSUME Lent, NEW m \in Markets, NEW u \in Accounts, NEW owed \in Nat, NEW total \in Nat,
           Owing(m, u, owed, total)
    PROVE  /\ Lent'
           /\ \A r \in Sides : \A v \in Accounts : r # BorrowOf(m) \/ v \notin {u} => holding'[r][v] = holding[r][v]
           /\ owed = 0 => holding'[BorrowOf(m)][u] = 0
<1> DEFINE j == market[m].borrowIndex
           loan == [principal |-> owed, interestIndex |-> j]
<1>1. /\ loans' = [loans EXCEPT ![m][u] = loan] /\ market' = [market EXCEPT ![m].totalBorrows = total]
      /\ tokens' = tokens
  BY DEF Owing
<1>2. j \in Nat \ {0} /\ market[m] \in MarketState
  BY ExpScaleAssumption DEF Lent, MarketState
<1>3. loan \in Loan /\ loan.principal = owed /\ loan.interestIndex = j
  BY <1>2 DEF Loan
<1> HIDE DEF loan, j
<1>4. /\ loans \in [Markets -> [Accounts -> Loan]] /\ market \in [Markets -> MarketState]
  BY DEF Lent
<1>5. /\ loans' \in [Markets -> [Accounts -> Loan]] /\ loans'[m][u] = loan
      /\ \A k \in Markets : \A v \in Accounts : k # m \/ v # u => loans'[k][v] = loans[k][v]
  BY <1>1, <1>3, <1>4
<1>6. /\ market' \in [Markets -> MarketState]
      /\ \A k \in Markets : market'[k].borrowIndex = market[k].borrowIndex
  BY <1>1, <1>4 DEF MarketState
<1>7. Lent'
  <2>1. \A k \in Markets : \A v \in Accounts : loans'[k][v].principal # 0 => loans'[k][v].interestIndex # 0
    <3> SUFFICES ASSUME NEW k \in Markets, NEW v \in Accounts, loans'[k][v].principal # 0
                 PROVE  loans'[k][v].interestIndex # 0
      OBVIOUS
    <3>1. CASE k = m /\ v = u
      BY <1>2, <1>3, <1>5, <3>1
    <3>2. CASE k # m \/ v # u
      BY <1>5, <3>2 DEF Lent
    <3> QED BY <3>1, <3>2
  <2> QED BY <1>1, <1>5, <1>6, <2>1 DEF Lent
<1>8. ASSUME NEW r \in Sides, NEW v \in Accounts, r # BorrowOf(m) \/ v \notin {u}
      PROVE  holding'[r][v] = holding[r][v]
  <2>1. PICK k \in Markets : r = SupplyOf(k) \/ r = BorrowOf(k)
    BY SidesAre
  <2>2. CASE r = SupplyOf(k)
    <3>1. r[1] = k /\ r[2] = "supply"
      BY <2>2 DEF SupplyOf
    <3> QED BY <1>1, <3>1 DEF holding
  <2>3. CASE r = BorrowOf(k)
    <3>1. r[1] = k /\ r[2] # "supply" /\ (k # m \/ v # u)
      BY <1>8, <2>3 DEF BorrowOf
    <3>2. holding'[r][v] = Units(k, v)' /\ holding[r][v] = Units(k, v)
      BY <3>1 DEF holding
    <3>3. loans'[k][v] = loans[k][v]
      BY <1>5, <3>1
    <3> QED BY <3>2, <3>3 DEF Units
  <2> QED BY <2>1, <2>2, <2>3
<1>9. ASSUME owed = 0 PROVE holding'[BorrowOf(m)][u] = 0
  <2>1. BorrowOf(m)[1] = m /\ BorrowOf(m)[2] # "supply" /\ BorrowOf(m) \in Sides
    BY SidesAre DEF BorrowOf
  <2>2. holding'[BorrowOf(m)][u] = Units(m, u)'
    BY <2>1 DEF holding
  <2> QED BY <1>3, <1>5, <1>9, <2>2 DEF Units
<1> QED BY <1>7, <1>8, <1>9


-----------------------------------------------------------------------------
(* What the invariant says of a side and an account *)

LEMMA SideFacts ==
    ASSUME Typed, Timely, NEW s \in Sides
    PROVE  /\ rewardState[s] \in RewardState /\ holding[s] \in [Accounts -> Nat]
           /\ TotalHeld(s) \in Nat /\ \A u \in Accounts : holding[s][u] <= TotalHeld(s)
           /\ StopSlot(s) \in Nat /\ rewardState[s].block <= StopSlot(s) /\ StopSlot(s) <= slot
           /\ rewardState[s].lastRewardingBlock > 0 => StopSlot(s) <= rewardState[s].lastRewardingBlock
           /\ Elapsed(s) \in Nat /\ Speed(s) \in Nat /\ Unspent(s) \in Nat
           /\ Unspent(s) = Elapsed(s) * Speed(s)
           /\ CanUpdate(s)
<1>1. rewardState[s] \in RewardState /\ holding[s] \in [1 .. AccountCount -> Nat] /\ AccountCount \in Nat
  BY AccountsAssumption DEF Typed, Accounts
<1>2. TotalHeld(s) \in Nat /\ \A u \in Accounts : holding[s][u] <= TotalHeld(s)
  BY <1>1, TotalNat DEF TotalHeld, Accounts
<1>3. /\ rewardState[s].block \in Nat /\ rewardState[s].lastRewardingBlock \in Nat /\ rewardState[s].speed \in Nat
      /\ slot \in Nat /\ rewardState[s].block <= slot
      /\ rewardState[s].lastRewardingBlock > 0 => rewardState[s].block <= rewardState[s].lastRewardingBlock
  BY <1>1 DEF Typed, Timely, RewardState
<1>4. /\ StopSlot(s) \in Nat /\ rewardState[s].block <= StopSlot(s) /\ StopSlot(s) <= slot
      /\ rewardState[s].lastRewardingBlock > 0 => StopSlot(s) <= rewardState[s].lastRewardingBlock
  BY <1>3 DEF StopSlot
<1>5. Elapsed(s) \in Nat
  BY <1>3, <1>4 DEF Elapsed
<1>6. Speed(s) \in Nat
  BY <1>3, BoundsAssumption, Product DEF Speed
<1>7. Unspent(s) = Elapsed(s) * Speed(s)
  <2> DEFINE k == Elapsed(s)
             v == rewardState[s].speed
  <2>1. k \in Nat /\ v \in Nat /\ DoubleScale \in Nat /\ k = StopSlot(s) - rewardState[s].block
    BY <1>3, <1>5, BoundsAssumption DEF Elapsed
  <2>2. Unspent(s) = (StopSlot(s) - rewardState[s].block) * v * DoubleScale /\ Speed(s) = v * DoubleScale
    BY DEF Unspent, Speed
  <2> HIDE DEF k, v
  <2>3. k * v * DoubleScale = k * (v * DoubleScale)
    BY <2>1, SMT
  <2> QED BY <2>1, <2>2, <2>3 DEF k
<1>8. Unspent(s) \in Nat
  BY <1>5, <1>6, <1>7, Product
<1>9. CanUpdate(s)
  BY <1>3, <1>4 DEF CanUpdate
<1> QED BY <1>1, <1>2, <1>4, <1>5, <1>6, <1>7, <1>8, <1>9 DEF Accounts

\* The update adds a ratio to the index that gives everyone at least his share of each
\* slot, but for the loss, at most his share, but for the gain, and all together no more
\* than what was unspent and the gain.
LEMMA RatioFacts ==
    ASSUME Typed, Timely, NEW s \in Sides
    PROVE  /\ Ratio(s) \in Nat /\ UpdateGain(s) \in Nat
           /\ IndexUpdated(s) = [rewardState[s] EXCEPT !.index = @ + Ratio(s), !.block = StopSlot(s)]
           /\ Ratio(s) * TotalHeld(s) <= (IF TotalHeld(s) = 0 THEN 0 ELSE Unspent(s)) + UpdateGain(s)
           /\ \A u \in Accounts :
                 /\ LeastShare(s, u) \in Nat /\ MostShare(s, u) \in Nat /\ UpdateLoss(s, u) \in Nat
                 /\ Elapsed(s) * LeastShare(s, u) <= holding[s][u] * Ratio(s) + UpdateLoss(s, u)
                 /\ holding[s][u] * Ratio(s) <= Elapsed(s) * MostShare(s, u) + UpdateGain(s)
<1> DEFINE t == TotalHeld(s)
           k == Elapsed(s)
           x == Speed(s)
           p == Reported(s)
           r == Ratio(s)
           e == UpdateGain(s)
           n == NotReported(s)
           o == HeldByNobody(s)
           c == RatioUp(s)
<1>1. /\ t \in Nat /\ k \in Nat /\ x \in Nat /\ Unspent(s) = k * x
      /\ holding[s] \in [Accounts -> Nat] /\ Unspent(s) \in Nat
      /\ \A u \in Accounts : holding[s][u] <= t
  BY SideFacts
<1>2. IndexUpdated(s) = [rewardState[s] EXCEPT !.index = @ + Ratio(s), !.block = StopSlot(s)]
  BY DEF IndexUpdated
<1>3. p \in Nat /\ Lent
  BY Reports DEF Typed
<1>4. /\ r = (IF p = 0 THEN 0 ELSE (k * x) \div p) /\ e = r * n
      /\ n = (IF t > p THEN t - p ELSE 0) /\ o = (IF p > t THEN p - t ELSE 0)
      /\ p # 0 => c = (k * x + p - 1) \div p
  BY <1>1 DEF Ratio, UpdateGain, NotReported, HeldByNobody, RatioUp
<1> HIDE DEF t, k, x, p, r, e, n, o, c
<1>5. n \in Nat /\ o \in Nat /\ t <= p + n /\ p <= t + o
  BY <1>1, <1>3, <1>4
<1>6. r \in Nat /\ r * p <= k * x /\ r * p \in Nat
  <2>1. CASE p = 0
    <3>1. r = 0 /\ 0 * p = 0
      BY <1>4, <2>1
    <3> QED BY <1>1, <3>1
  <2>2. CASE p # 0
    <3>1. r \in Nat /\ r * p <= k * x
      BY <1>1, <1>3, <1>4, <2>2, Quotient
    <3> QED BY <1>3, <3>1, Product
  <2> QED BY <2>1, <2>2
<1>7. e \in Nat
  BY <1>4, <1>5, <1>6, Product
<1>8. r * t <= k * x + e /\ r * t \in Nat
  <2>1. r * t <= r * (p + n) /\ r * (p + n) = r * p + r * n
    <3> DEFINE y == p + n
    <3>1. y \in Nat /\ t <= y
      BY <1>1, <1>3, <1>5
    <3> HIDE DEF y
    <3>2. r * t <= r * y
      BY <1>1, <1>6, <3>1, SMT
    <3>3. r * (p + n) = r * p + r * n
      BY <1>3, <1>5, <1>6, Distributed
    <3> QED BY <3>2, <3>3 DEF y
  <2>2. r * t \in Nat
    BY <1>1, <1>6, Product
  <2> QED BY <1>1, <1>4, <1>6, <1>7, <2>1, <2>2
<1>9. CASE t = 0
  <2>1. r * t = 0
    BY <1>6, <1>9
  <2>2. ASSUME NEW u \in Accounts
        PROVE  LeastShare(s, u) = 0 /\ MostShare(s, u) = 0 /\ UpdateLoss(s, u) = 0 /\ holding[s][u] = 0
    <3>1. holding[s][u] = 0
      BY <1>1, <1>9
    <3> QED BY <1>9, <3>1 DEF LeastShare, MostShare, UpdateLoss, t
  <2>3. k * 0 = 0 /\ 0 * r = 0
    BY <1>1, <1>6
  <2>4. ASSUME NEW u \in Accounts
        PROVE  /\ LeastShare(s, u) \in Nat /\ MostShare(s, u) \in Nat /\ UpdateLoss(s, u) \in Nat
               /\ k * LeastShare(s, u) <= holding[s][u] * r + UpdateLoss(s, u)
               /\ holding[s][u] * r <= k * MostShare(s, u) + e
    BY <1>7, <2>2, <2>3
  <2>5. r * t <= (IF t = 0 THEN 0 ELSE Unspent(s)) + e
    BY <1>7, <1>9, <2>1
  <2> QED BY <1>2, <1>6, <1>7, <2>4, <2>5, Zenon DEF t, k, r, e
<1>10. CASE t # 0
  <2>1. ASSUME NEW u \in Accounts
        PROVE  /\ LeastShare(s, u) \in Nat /\ MostShare(s, u) \in Nat /\ UpdateLoss(s, u) \in Nat
               /\ k * LeastShare(s, u) <= holding[s][u] * r + UpdateLoss(s, u)
               /\ holding[s][u] * r <= k * MostShare(s, u) + e
    <3> DEFINE h == holding[s][u]
               l == LeastShare(s, u)
               loss == UpdateLoss(s, u)
    <3>1. /\ l = (x * h) \div t /\ MostShare(s, u) = (x * h + t - 1) \div t
      BY <1>1, <1>10 DEF LeastShare, MostShare, t, x
    <3>2. loss = IF h = 0 THEN 0 ELSE IF p = 0 THEN k * x ELSE h * (c - r) + c * o
      BY <1>1 DEF UpdateLoss, p, c, r, o
    <3>3. h \in Nat /\ h <= t
      BY <1>1
    <3> HIDE DEF h, l, loss
    <3>4. x * h \in Nat
      BY <1>1, <3>3, Product
    <3>5. l \in Nat /\ l * t <= x * h
      BY <1>1, <1>10, <3>1, <3>4, Quotient
    <3>6. MostShare(s, u) \in Nat
      BY <1>1, <1>10, <3>1, <3>4, RoundedUp
    <3>7. h * r <= k * MostShare(s, u) + e
      BY <1>1, <1>6, <1>7, <1>8, <1>10, <3>1, <3>3, UpdateGivesMost
    <3>8. loss \in Nat /\ k * l <= h * r + loss
      <4>0. h * r \in Nat /\ k * l \in Nat
        BY <1>1, <1>6, <3>3, <3>5, Product
      <4>1. CASE h = 0
        <5>1. x * h = 0
          BY <1>1, <4>1
        <5>2. l = 0
          BY <1>1, <1>10, <3>1, <5>1
        <5>3. k * l = 0
          BY <1>1, <5>2
        <5> QED BY <3>2, <4>0, <4>1, <5>3
      <4>2. CASE h # 0 /\ p = 0
        <5>1. x * h <= x * t
          BY <1>1, <3>3, SMT
        <5>2. x * t \in Nat /\ l * t \in Nat /\ l * t <= x * t
          BY <1>1, <3>4, <3>5, <5>1, Product
        <5>3. l <= x
          BY <1>1, <1>10, <3>5, <5>2, CancelScale
        <5>4. k * l <= k * x /\ k * x \in Nat
          BY <1>1, <3>5, <5>3, SMT
        <5> QED BY <3>2, <4>0, <4>2, <5>4
      <4>3. CASE h # 0 /\ p # 0
        <5>1. c = (k * x + p - 1) \div p /\ p \in Nat \ {0} /\ t \in Nat \ {0}
          BY <1>1, <1>3, <1>4, <1>10, <4>3
        <5>2. c \in Nat /\ k * l <= h * c + c * o
          BY <1>1, <1>5, <3>1, <3>3, <5>1, UpdateGivesLeast
        <5>3. r <= c
          <6>1. k * x \in Nat /\ k * x <= c * p
            BY <1>1, <5>1, RoundedUp
          <6>2. r * p <= c * p
            BY <1>3, <1>6, <5>2, <6>1, Product
          <6> QED BY <1>6, <5>1, <5>2, <6>2, CancelScale
        <5>4. h * c = h * r + h * (c - r) /\ h * (c - r) \in Nat /\ c * o \in Nat
          <6>1. PICK d \in Nat : d = c - r /\ c = r + d
            BY <1>6, <5>2, <5>3
          <6>2. h * (r + d) = h * r + h * d /\ h * d \in Nat
            BY <1>6, <3>3, <6>1, SMT
          <6> QED BY <1>5, <5>2, <6>1, <6>2, Product
        <5> QED BY <3>2, <4>0, <4>3, <5>2, <5>4
      <4> QED BY <4>1, <4>2, <4>3
    <3> QED BY <3>5, <3>6, <3>7, <3>8 DEF h, l, loss
  <2> QED BY <1>1, <1>2, <1>6, <1>7, <1>8, <1>10, <2>1 DEF t, k, r, e
<1> QED BY <1>9, <1>10

\* What an account's units have gained when the index is updated
HeldUnits(s, u) == Gained(s, u) + holding[s][u] * Ratio(s)

LEMMA GainedFacts ==
    ASSUME Typed, Timely, NEW s \in Sides, NEW u \in Accounts
    PROVE  /\ holding[s][u] \in Nat /\ rewardState[s].index \in Nat
           /\ From(s, u) \in Nat /\ From(s, u) <= rewardState[s].index
           /\ Gained(s, u) \in Nat
           /\ SettledAt(s, u) = From(s, u)
           /\ IndexUpdated(s).index = rewardState[s].index + Ratio(s)
           /\ holding[s][u] * Ratio(s) \in Nat /\ HeldUnits(s, u) \in Nat
           /\ HeldUnits(s, u) = holding[s][u] * IndexGain(s, u)
           /\ EarnedUnits(s, u) \in Nat /\ ReadingLoss(s, u) \in Nat
           /\ EarnedUnits(s, u) <= HeldUnits(s, u) /\ HeldUnits(s, u) <= EarnedUnits(s, u) + ReadingLoss(s, u)
           /\ Delta(s, u) \in Nat /\ EarnedUnits(s, u) % DoubleScale \in Nat
           /\ EarnedUnits(s, u) = DoubleScale * Delta(s, u) + (EarnedUnits(s, u) % DoubleScale)
<1> DEFINE h == holding[s][u]
           i == rewardState[s].index
           f == From(s, u)
           r == Ratio(s)
           e == EarnedUnits(s, u)
           w == Share(s, u)
           g == IndexGain(s, u)
<1>1. h \in Nat /\ i \in Nat /\ InitialIndex \in Nat /\ i >= InitialIndex
  BY BoundsAssumption DEF Typed, Timely, RewardState, InitialIndex
<1>2. userIndex[s][u] \in Nat /\ userIndex[s][u] <= i
  BY DEF Typed, Timely
<1>3. f \in Nat /\ f <= i
  BY <1>1, <1>2 DEF From
<1>4. r \in Nat /\ IndexUpdated(s) = [rewardState[s] EXCEPT !.index = @ + Ratio(s), !.block = StopSlot(s)]
  BY RatioFacts, Zenon
<1>5. IndexUpdated(s).index = i + r
  BY <1>4 DEF Typed, RewardState
<1>6. SettledAt(s, u) = f
  BY <1>1, <1>4, <1>5 DEF SettledAt, From
<1>7. g = (i - f) + r /\ i - f \in Nat /\ g \in Nat
  <2>1. g = IndexUpdated(s).index - SettledAt(s, u)
    BY DEF IndexGain
  <2> HIDE DEF h, i, f, r, e, g
  <2>2. r \in Nat
    BY <1>4 DEF r
  <2> QED BY <1>1, <1>3, <1>5, <1>6, <2>1, <2>2
<1>8. /\ Gained(s, u) = h * (i - f) /\ e = w * g
      /\ ReadingLoss(s, u) = (IF w = h THEN 0 ELSE g) /\ HeldUnits(s, u) = Gained(s, u) + h * r
  BY DEF Gained, EarnedUnits, ReadingLoss, HeldUnits
<1>9. w \in Nat /\ w <= h /\ h <= w + 1
  BY Reports DEF Typed
<1> HIDE DEF h, i, f, r, e, w, g
<1>10. r \in Nat
  BY <1>4 DEF r
<1>11. h * g = h * (i - f) + h * r /\ h * (i - f) \in Nat /\ h * r \in Nat
  <2> DEFINE a == i - f
  <2> HIDE DEF a
  <2>1. a \in Nat /\ g = a + r
    BY <1>7 DEF a
  <2>2. h * (a + r) = h * a + h * r /\ h * a \in Nat /\ h * r \in Nat
    BY <1>1, <1>10, <2>1, SMT
  <2> QED BY <2>1, <2>2 DEF a
<1>12. e \in Nat /\ ReadingLoss(s, u) \in Nat /\ e <= h * g /\ h * g <= e + ReadingLoss(s, u)
  <2>1. CASE w = h
    <3>1. h * g \in Nat
      BY <1>1, <1>7, Product
    <3> QED BY <1>8, <2>1, <3>1
  <2>2. CASE w # h
    <3>1. h = w + 1
      BY <1>1, <1>9, <2>2
    <3>2. (w + 1) * g = w * g + g /\ w * g \in Nat
      BY <1>7, <1>9, SMT
    <3> QED BY <1>7, <1>8, <2>2, <3>1, <3>2
  <2> QED BY <2>1, <2>2
<1>13. /\ e \div DoubleScale \in Nat /\ e % DoubleScale \in Nat
       /\ e = DoubleScale * (e \div DoubleScale) + (e % DoubleScale)
  <2> DEFINE d == DoubleScale
  <2>1. d \in Nat \ {0}
    BY BoundsAssumption
  <2> HIDE DEF d
  <2>2. e \div d \in Nat /\ e % d \in Nat /\ e = (e \div d) * d + (e % d)
    BY <1>12, <2>1, Remainder
  <2>3. (e \div d) * d = d * (e \div d)
    BY <2>1, <2>2, SMT
  <2> QED BY <2>2, <2>3 DEF d
<1>14. HeldUnits(s, u) = h * g /\ HeldUnits(s, u) \in Nat /\ Gained(s, u) \in Nat
  BY <1>8, <1>11
<1>15. Delta(s, u) = e \div DoubleScale
  BY DEF Delta, e
<1> QED BY <1>1, <1>3, <1>5, <1>6, <1>11, <1>12, <1>13, <1>14, <1>15 DEF h, i, f, r, e, g

LEMMA DueFacts ==
    ASSUME Typed, Timely, NEW s \in Sides, NEW u \in Accounts
    PROVE  /\ LeastDue(s, u) \in Nat /\ MostDue(s, u) \in Nat
           /\ LeastDue(s, u) <= HeldUnits(s, u) + UpdateLoss(s, u)
           /\ HeldUnits(s, u) <= MostDue(s, u) + UpdateGain(s)
           /\ UpdateLoss(s, u) \in Nat /\ UpdateGain(s) \in Nat
<1>1. /\ Gained(s, u) \in Nat /\ HeldUnits(s, u) = Gained(s, u) + holding[s][u] * Ratio(s)
      /\ holding[s][u] * Ratio(s) \in Nat
  BY GainedFacts DEF HeldUnits
<1>2. /\ LeastShare(s, u) \in Nat /\ MostShare(s, u) \in Nat /\ UpdateLoss(s, u) \in Nat
      /\ Elapsed(s) * LeastShare(s, u) <= holding[s][u] * Ratio(s) + UpdateLoss(s, u)
      /\ holding[s][u] * Ratio(s) <= Elapsed(s) * MostShare(s, u) + UpdateGain(s)
  BY RatioFacts, Zenon
<1>3. UpdateGain(s) \in Nat
  BY RatioFacts, Zenon
<1>4. Elapsed(s) * LeastShare(s, u) \in Nat /\ Elapsed(s) * MostShare(s, u) \in Nat
  BY <1>2, SideFacts, Product
<1> QED BY <1>1, <1>2, <1>3, <1>4 DEF LeastDue, MostDue


-----------------------------------------------------------------------------
(* A step that settles keeps what is due *)

LEMMA TotalAdded ==
    ASSUME NEW n \in Nat, NEW f \in [1 .. n -> Int], NEW g \in [1 .. n -> Int], NEW h \in [1 .. n -> Int],
           \A i \in 1 .. n : h[i] = f[i] + g[i]
    PROVE  Total(h, n) = Total(f, n) + Total(g, n)
<1>1. \A j \in 1 .. n : f[j] \in Int /\ g[j] \in Int /\ h[j] \in Int
  OBVIOUS
<1>2. PICK i \in Int, o \in Int : i = 1 /\ o = 0
  OBVIOUS
<1>3. \A j \in 1 .. n : i * h[j] + o * h[j] <= i * f[j] + i * g[j]
  BY <1>1, <1>2
<1>4. \A j \in 1 .. n : i * f[j] + i * g[j] <= i * h[j] + o * h[j]
  BY <1>1, <1>2
<1>5. Total(f, n) \in Int /\ Total(g, n) \in Int /\ Total(h, n) \in Int
  BY TotalType
<1>6. i * Total(h, n) + o * Total(h, n) <= i * Total(f, n) + i * Total(g, n)
  BY <1>3, TotalsCompared
<1>7. i * Total(f, n) + i * Total(g, n) <= i * Total(h, n) + o * Total(h, n)
  BY <1>4, TotalsCompared
<1> DEFINE F == Total(f, n)
           G == Total(g, n)
           H == Total(h, n)
<1> HIDE DEF F, G, H
<1>8. F \in Int /\ G \in Int /\ H \in Int
  BY <1>5 DEF F, G, H
<1>9. i * H + o * H <= i * F + i * G /\ i * F + i * G <= i * H + o * H
  BY <1>6, <1>7 DEF F, G, H
<1>10. H = F + G
  BY <1>2, <1>8, <1>9
<1> QED BY <1>10 DEF F, G, H

\* Pointwise d * f + g <= h, and so for the sums.
LEMMA SidesBounded ==
    ASSUME NEW d \in Int, NEW f \in [Sides -> Int], NEW g \in [Sides -> Int], NEW h \in [Sides -> Int],
           \A s \in Sides : d * f[s] + g[s] <= h[s]
    PROVE  d * SumOverSides(f) + SumOverSides(g) <= SumOverSides(h)
<1>1. \A s \in Sides : f[s] \in Int /\ g[s] \in Int /\ h[s] \in Int
  OBVIOUS
<1>2. PICK i \in Int, o \in Int : i = 1 /\ o = 0
  OBVIOUS
<1>3. \A s \in Sides : d * f[s] + i * g[s] <= i * h[s] + o * h[s]
  BY <1>1, <1>2
<1>4. SumOverSides(f) \in Int /\ SumOverSides(g) \in Int /\ SumOverSides(h) \in Int
  BY PerMarketType
<1>5. d * SumOverSides(f) + i * SumOverSides(g) <= i * SumOverSides(h) + o * SumOverSides(h)
  BY <1>3, SidesCompared
<1> QED BY <1>2, <1>4, <1>5

LEMMA SidesCovered ==
    ASSUME NEW d \in Int, NEW f \in [Sides -> Int], NEW g \in [Sides -> Int], NEW h \in [Sides -> Int],
           \A s \in Sides : h[s] <= d * f[s] + g[s]
    PROVE  SumOverSides(h) <= d * SumOverSides(f) + SumOverSides(g)
<1>1. \A s \in Sides : f[s] \in Int /\ g[s] \in Int /\ h[s] \in Int
  OBVIOUS
<1>2. PICK i \in Int, o \in Int : i = 1 /\ o = 0
  OBVIOUS
<1>3. \A s \in Sides : i * h[s] + o * h[s] <= d * f[s] + i * g[s]
  BY <1>1, <1>2
<1>4. SumOverSides(f) \in Int /\ SumOverSides(g) \in Int /\ SumOverSides(h) \in Int
  BY PerMarketType
<1>5. i * SumOverSides(h) + o * SumOverSides(h) <= d * SumOverSides(f) + i * SumOverSides(g)
  BY <1>3, SidesCompared
<1> QED BY <1>2, <1>4, <1>5

\* What is due moves from the sides to the books, as bounds from below and from above.
LEMMA SumsShort ==
    ASSUME NEW d \in Int, NEW delta \in [Sides -> Int], NEW loss \in [Sides -> Int],
           NEW old \in [Sides -> Int], NEW new \in [Sides -> Int],
           \A s \in Sides : old[s] <= d * delta[s] + (loss[s] + new[s]),
           NEW l \in Int, NEW b \in Int, NEW c \in Int, l <= d * b + c + SumOverSides(old)
    PROVE  l <= d * (b + SumOverSides(delta)) + (c + SumOverSides(loss)) + SumOverSides(new)
<1> DEFINE both == [s \in Sides |-> loss[s] + new[s]]
<1>1. both \in [Sides -> Int] /\ \A s \in Sides : both[s] = loss[s] + new[s] /\ old[s] <= d * delta[s] + both[s]
  OBVIOUS
<1> HIDE DEF both
<1>2. SumOverSides(both) = SumOverSides(loss) + SumOverSides(new)
  BY <1>1, SidesAdded
<1>3. SumOverSides(old) <= d * SumOverSides(delta) + SumOverSides(both)
  BY <1>1, SidesCovered
<1>4. /\ SumOverSides(delta) \in Int /\ SumOverSides(loss) \in Int /\ SumOverSides(old) \in Int
      /\ SumOverSides(new) \in Int
  BY PerMarketType
<1>5. /\ d * (b + SumOverSides(delta)) = d * b + d * SumOverSides(delta)
      /\ d * b \in Int /\ d * SumOverSides(delta) \in Int
  BY <1>4, Distributed
<1> QED BY <1>2, <1>3, <1>4, <1>5

LEMMA SumsAhead ==
    ASSUME NEW d \in Int, NEW delta \in [Sides -> Int], NEW gain \in [Sides -> Int],
           NEW old \in [Sides -> Int], NEW new \in [Sides -> Int],
           \A s \in Sides : d * delta[s] + new[s] <= old[s] + gain[s],
           NEW m \in Int, NEW c \in Int, NEW b \in Int, d * b + SumOverSides(old) <= m + c
    PROVE  d * (b + SumOverSides(delta)) + SumOverSides(new) <= m + (c + SumOverSides(gain))
<1> DEFINE both == [s \in Sides |-> old[s] + gain[s]]
<1>0. both \in [Sides -> Int] /\ \A s \in Sides : both[s] = old[s] + gain[s] /\ d * delta[s] + new[s] <= both[s]
  OBVIOUS
<1> HIDE DEF both
<1>1. d * SumOverSides(delta) + SumOverSides(new) <= SumOverSides(both)
  BY <1>0, SidesBounded
<1>2. SumOverSides(both) = SumOverSides(old) + SumOverSides(gain)
  BY <1>0, SidesAdded
<1>3. /\ SumOverSides(delta) \in Int /\ SumOverSides(old) \in Int /\ SumOverSides(new) \in Int
      /\ SumOverSides(gain) \in Int
  BY PerMarketType
<1>4. /\ d * (b + SumOverSides(delta)) = d * b + d * SumOverSides(delta)
      /\ d * b \in Int /\ d * SumOverSides(delta) \in Int
  BY <1>3, Distributed
<1> QED BY <1>1, <1>2, <1>3, <1>4

LEMMA BookedNat ==
    ASSUME Typed, Timely, NEW u \in Accounts
    PROVE  ContributorDue(u) \in Nat /\ Booked(u) \in Nat
<1>1. /\ contributors[u].speed \in Nat /\ contributors[u].lastBlock \in Nat /\ contributors[u].lastBlock <= slot
      /\ slot \in Nat /\ paid[u] \in Nat /\ accrued[u] \in Nat
  BY DEF Typed, Timely, Contributor
<1>2. slot - contributors[u].lastBlock \in Nat
  BY <1>1
<1>3. ContributorDue(u) \in Nat
  BY <1>1, <1>2, Product DEF ContributorDue
<1> QED BY <1>1, <1>3 DEF Booked

LEMMA SideDueNat ==
    ASSUME Typed, Timely, NEW s \in Sides
    PROVE  /\ [u \in Accounts |-> Gained(s, u)] \in [1 .. AccountCount -> Nat]
           /\ Total([u \in Accounts |-> Gained(s, u)], AccountCount) \in Nat
           /\ SideDue(s) \in Nat
<1>1. [u \in Accounts |-> Gained(s, u)] \in [1 .. AccountCount -> Nat] /\ AccountCount \in Nat
  BY GainedFacts, AccountsAssumption DEF Accounts
<1>2. Total([u \in Accounts |-> Gained(s, u)], AccountCount) \in Nat
  BY <1>1, TotalNat
<1>3. Unspent(s) \in Nat
  BY SideFacts
<1> QED BY <1>1, <1>2, <1>3 DEF SideDue

AmountsNat ==
  /\ \A u \in Accounts : Booked(u) \in Nat
  /\ \A s \in Sides : \A u \in Accounts : LeastDue(s, u) \in Nat /\ MostDue(s, u) \in Nat
  /\ \A s \in Sides : SideDue(s) \in Nat
  /\ \A s \in Sides : \A u \in Accounts : LeastShare(s, u) \in Nat /\ MostShare(s, u) \in Nat /\ Gained(s, u) \in Nat
  /\ \A s \in Sides :
       /\ Elapsed(s) \in Nat /\ Speed(s) \in Nat /\ Unspent(s) = Elapsed(s) * Speed(s)
       /\ TotalHeld(s) \in Nat /\ \A u \in Accounts : holding[s][u] \in Nat /\ holding[s][u] <= TotalHeld(s)

LEMMA AmountsAreNat == Typed /\ Timely => AmountsNat
<1> SUFFICES ASSUME Typed, Timely PROVE AmountsNat
  OBVIOUS
<1>1. \A u \in Accounts : Booked(u) \in Nat
  BY BookedNat
<1>2. \A s \in Sides : \A u \in Accounts : LeastDue(s, u) \in Nat /\ MostDue(s, u) \in Nat
  BY DueFacts
<1>3. \A s \in Sides : SideDue(s) \in Nat
  BY SideDueNat
<1>4. \A s \in Sides : \A u \in Accounts : LeastShare(s, u) \in Nat /\ MostShare(s, u) \in Nat /\ Gained(s, u) \in Nat
  BY RatioFacts, GainedFacts, Zenon
<1>5. \A s \in Sides :
        /\ Elapsed(s) \in Nat /\ Speed(s) \in Nat /\ Unspent(s) = Elapsed(s) * Speed(s)
        /\ TotalHeld(s) \in Nat /\ \A u \in Accounts : holding[s][u] \in Nat /\ holding[s][u] <= TotalHeld(s)
  BY SideFacts
<1> QED BY <1>1, <1>2, <1>3, <1>4, <1>5 DEF AmountsNat

LEMMA AmountsNext == Typed' /\ Timely' => AmountsNat'
BY AmountsAreNat, PTL

\* delta is what each account is settled with on each side, loss what it may lose to
\* truncation, gain what a side gives beyond its speed.
LEMMA StepKeeps ==
    ASSUME IInv, Typed', Timely',
           NEW delta \in [Sides -> [Accounts -> Nat]], NEW loss \in [Sides -> [Accounts -> Nat]],
           NEW gain \in [Sides -> Nat], surplus' = surplus + SumOverSides(gain),
           UNCHANGED parts, healed \subseteq healed',
           \A u \in Accounts : Booked(u)' = Booked(u) + SumOverSides([s \in Sides |-> delta[s][u]]),
           \A u \in Accounts : dust'[u] = dust[u] + SumOverSides([s \in Sides |-> loss[s][u]]),
           \A s \in Sides : \A u \in Accounts :
             u \notin healed' => LeastDue(s, u) <= DoubleScale * delta[s][u] + (loss[s][u] + LeastDue(s, u)'),
           healed' = {} => \A s \in Sides : \A u \in Accounts :
             DoubleScale * delta[s][u] + MostDue(s, u)' <= MostDue(s, u) + gain[s],
           \A s \in Sides : DoubleScale * Total(delta[s], AccountCount) + SideDue(s)' <= SideDue(s) + gain[s]
    PROVE  IInv'
<1>0. Typed /\ Timely /\ DoubleScale \in Nat /\ UNCHANGED <<least, most, emitted>>
  BY BoundsAssumption DEF IInv, parts
<1>1. /\ \A u \in Accounts : Booked(u) \in Nat
      /\ \A s \in Sides : \A u \in Accounts : LeastDue(s, u) \in Nat /\ MostDue(s, u) \in Nat
      /\ \A s \in Sides : SideDue(s) \in Nat
  BY <1>0, AmountsAreNat DEF AmountsNat
<1>2. /\ \A u \in Accounts : Booked(u)' \in Nat
      /\ \A s \in Sides : \A u \in Accounts : LeastDue(s, u)' \in Nat /\ MostDue(s, u)' \in Nat
      /\ \A s \in Sides : SideDue(s)' \in Nat
  BY AmountsNext DEF AmountsNat
<1> DEFINE more == SumOverSides(gain)
<1>g. surplus' = surplus + more /\ surplus \in Nat /\ gain \in [Sides -> Int]
  BY <1>0 DEF Typed
<1>3. NobodyShort'
  <2> SUFFICES ASSUME NEW u \in Accounts, u \notin healed'
               PROVE  least'[u] <= DoubleScale * Booked(u)' + dust'[u] + SumOverSides([s \in Sides |-> LeastDue(s, u)'])
    BY DEF NobodyShort
  <2> DEFINE d == [s \in Sides |-> delta[s][u]]
             l == [s \in Sides |-> loss[s][u]]
             old == [s \in Sides |-> LeastDue(s, u)]
             new == [s \in Sides |-> LeastDue(s, u)']
  <2>1. d \in [Sides -> Int] /\ l \in [Sides -> Int] /\ old \in [Sides -> Int] /\ new \in [Sides -> Int]
    BY <1>1, <1>2
  <2>2. \A s \in Sides : old[s] <= DoubleScale * d[s] + (l[s] + new[s])
    OBVIOUS
  <2>3. /\ least[u] <= DoubleScale * Booked(u) + dust[u] + SumOverSides(old)
        /\ least[u] \in Int /\ dust[u] \in Int /\ Booked(u) \in Int /\ DoubleScale \in Int
    BY <1>0, <1>1 DEF IInv, NobodyShort, Typed
  <2>4. Booked(u)' = Booked(u) + SumOverSides(d) /\ dust'[u] = dust[u] + SumOverSides(l) /\ least'[u] = least[u]
    BY <1>0
  <2> HIDE DEF d, l, old, new
  <2>5. least[u] <= DoubleScale * (Booked(u) + SumOverSides(d)) + (dust[u] + SumOverSides(l)) + SumOverSides(new)
    BY <2>1, <2>2, <2>3, SumsShort, ZenonT(60)
  <2> QED BY <2>4, <2>5, Zenon DEF new
<1>4. NobodyAhead'
  <2> SUFFICES ASSUME healed' = {}, NEW u \in Accounts
               PROVE  DoubleScale * Booked(u)' + SumOverSides([s \in Sides |-> MostDue(s, u)']) <= most'[u] + surplus'
    BY DEF NobodyAhead
  <2> DEFINE d == [s \in Sides |-> delta[s][u]]
             old == [s \in Sides |-> MostDue(s, u)]
             new == [s \in Sides |-> MostDue(s, u)']
  <2>1. d \in [Sides -> Int] /\ old \in [Sides -> Int] /\ new \in [Sides -> Int]
    BY <1>1, <1>2
  <2>2. \A s \in Sides : DoubleScale * d[s] + new[s] <= old[s] + gain[s]
    OBVIOUS
  <2>3. /\ DoubleScale * Booked(u) + SumOverSides(old) <= most[u] + surplus
        /\ most[u] \in Int /\ Booked(u) \in Int /\ DoubleScale \in Int
    BY <1>0, <1>1 DEF IInv, NobodyAhead, Typed
  <2>4. Booked(u)' = Booked(u) + SumOverSides(d) /\ most'[u] = most[u]
    BY <1>0
  <2> HIDE DEF d, old, new
  <2>5. DoubleScale * (Booked(u) + SumOverSides(d)) + SumOverSides(new) <= most[u] + (surplus + more)
    <3>1. surplus \in Int
      BY <1>g
    <3> QED BY <1>g, <2>1, <2>2, <2>3, <3>1, SumsAhead, ZenonT(60)
  <2> QED BY <1>g, <2>4, <2>5, Zenon DEF new
<1>5. AllCovered'
  <2> DEFINE n == AccountCount
             b == [u \in Accounts |-> Booked(u)]
             c == [u \in Accounts |-> Booked(u)']
             d == Transposed(delta)
             e == Totals(delta)
             old == [s \in Sides |-> SideDue(s)]
             new == [s \in Sides |-> SideDue(s)']
  <2>1. /\ b \in [1 .. n -> Int] /\ c \in [1 .. n -> Int] /\ n \in Nat
        /\ old \in [Sides -> Int] /\ new \in [Sides -> Int]
    BY <1>1, <1>2, AccountsAssumption DEF Accounts
  <2>2. delta \in [Sides -> [Accounts -> Int]]
    OBVIOUS
  <2>3. d \in [1 .. n -> Int] /\ e \in [Sides -> Int] /\ Total(d, n) = SumOverSides(e)
    BY <2>2, SumsExchanged
  <2>4. \A u \in 1 .. n : c[u] = b[u] + d[u]
    BY DEF Transposed, Accounts
  <2>5. \A s \in Sides : DoubleScale * e[s] + new[s] <= old[s] + gain[s]
    BY DEF Totals
  <2>6. DoubleScale * Total(b, n) + SumOverSides(old) <= DoubleScale * emitted + surplus /\ emitted' = emitted
    BY <1>0 DEF IInv, AllCovered
  <2>7. DoubleScale * emitted \in Int /\ DoubleScale \in Int
    BY <1>0, Product DEF Typed
  <2> HIDE DEF b, c, d, e, old, new
  <2>8. Total(c, n) = Total(b, n) + Total(d, n) /\ Total(b, n) \in Int
    BY <2>1, <2>3, <2>4, TotalAdded, TotalType, ZenonT(60)
  <2>9. DoubleScale * (Total(b, n) + SumOverSides(e)) + SumOverSides(new) <= DoubleScale * emitted + (surplus + more)
    <3>1. surplus \in Int
      BY <1>g
    <3> QED BY <1>g, <2>1, <2>3, <2>5, <2>6, <2>7, <2>8, <3>1, SumsAhead, ZenonT(60)
  <2>10. DoubleScale * Total(c, n) + SumOverSides(new) <= DoubleScale * emitted' + surplus'
    BY <1>g, <2>3, <2>6, <2>8, <2>9, Zenon
  <2> QED BY <2>10, Zenon DEF AllCovered, c, new
<1> QED BY <1>3, <1>4, <1>5 DEF IInv


-----------------------------------------------------------------------------
(* Settling accounts with one side *)

SideUpdated(s) ==
  /\ rewardState'[s].index = rewardState[s].index + Ratio(s)
  /\ rewardState'[s].block = StopSlot(s)
  /\ rewardState'[s].lastRewardingBlock = rewardState[s].lastRewardingBlock

SideKept(s) ==
  /\ rewardState'[s].index = rewardState[s].index /\ rewardState'[s].block = rewardState[s].block
  /\ rewardState'[s].speed = rewardState[s].speed /\ StopSlot(s)' = StopSlot(s)
  /\ holding'[s] = holding[s] /\ userIndex'[s] = userIndex[s]

\* What the accounts of a set are settled with, and what anyone may lose by it.
DeltaOf(s, settled) == [u \in Accounts |-> IF u \in settled THEN Delta(s, u) ELSE 0]
LossOf(s, settled) ==
  [u \in Accounts |-> UpdateLoss(s, u)
     + (IF u \in settled THEN ReadingLoss(s, u) + (EarnedUnits(s, u) % DoubleScale) ELSE 0)]

LEMMA SettledAccount ==
    ASSUME Typed, Timely, Typed', Timely', NEW s \in Sides, SideUpdated(s), NEW settled, NEW u \in Accounts,
           u \in settled => userIndex'[s][u] = rewardState'[s].index,
           u \notin settled => userIndex'[s][u] = userIndex[s][u] /\ holding'[s][u] = holding[s][u]
    PROVE  /\ DeltaOf(s, settled)[u] \in Nat /\ LossOf(s, settled)[u] \in Nat
           /\ DoubleScale * DeltaOf(s, settled)[u] + Gained(s, u)' <= HeldUnits(s, u)
           /\ HeldUnits(s, u) + UpdateLoss(s, u)
                <= DoubleScale * DeltaOf(s, settled)[u] + (LossOf(s, settled)[u] + Gained(s, u)')
<1>1. /\ Delta(s, u) \in Nat /\ EarnedUnits(s, u) % DoubleScale \in Nat /\ EarnedUnits(s, u) \in Nat
      /\ EarnedUnits(s, u) = DoubleScale * Delta(s, u) + (EarnedUnits(s, u) % DoubleScale)
      /\ HeldUnits(s, u) \in Nat /\ ReadingLoss(s, u) \in Nat
      /\ EarnedUnits(s, u) <= HeldUnits(s, u) /\ HeldUnits(s, u) <= EarnedUnits(s, u) + ReadingLoss(s, u)
      /\ HeldUnits(s, u) = holding[s][u] * IndexGain(s, u)
      /\ SettledAt(s, u) = From(s, u) /\ From(s, u) \in Nat
      /\ IndexUpdated(s).index = rewardState[s].index + Ratio(s)
  BY GainedFacts
<1>2. UpdateLoss(s, u) \in Nat /\ DoubleScale \in Nat \ {0}
  BY RatioFacts, BoundsAssumption, Zenon
<1>3. /\ rewardState'[s].index \in Nat /\ rewardState'[s].index >= InitialIndex
      /\ userIndex'[s][u] \in Nat /\ holding'[s][u] \in Nat
  BY DEF Typed, Timely, RewardState
<1>4. CASE u \in settled
  <2>1. From(s, u)' = rewardState'[s].index
    BY <1>2, <1>3, <1>4 DEF From, InitialIndex
  <2>2. Gained(s, u)' = 0
    BY <1>3, <2>1, SMT DEF Gained
  <2>3. /\ DeltaOf(s, settled)[u] = Delta(s, u)
        /\ LossOf(s, settled)[u] = UpdateLoss(s, u) + (ReadingLoss(s, u) + (EarnedUnits(s, u) % DoubleScale))
    BY <1>4 DEF DeltaOf, LossOf
  <2>4. DoubleScale * Delta(s, u) \in Nat
    BY <1>1, <1>2, Product
  <2> QED BY <1>1, <1>2, <2>2, <2>3, <2>4
<1>5. CASE u \notin settled
  <2>1. From(s, u)' = From(s, u)
    BY <1>5 DEF From
  <2>2. Gained(s, u)' = holding[s][u] * (rewardState'[s].index - From(s, u))
    BY <1>5, <2>1 DEF Gained
  <2>3. rewardState'[s].index = IndexUpdated(s).index
    BY <1>1 DEF SideUpdated
  <2>4. Gained(s, u)' = HeldUnits(s, u)
    BY <1>1, <2>2, <2>3 DEF IndexGain
  <2>5. DeltaOf(s, settled)[u] = 0 /\ LossOf(s, settled)[u] = UpdateLoss(s, u)
    BY <1>2, <1>5 DEF DeltaOf, LossOf
  <2> QED BY <1>1, <1>2, <2>4, <2>5
<1> QED BY <1>4, <1>5

LEMMA SettledSide ==
    ASSUME Typed, Timely, Typed', Timely', slot' = slot, NEW s \in Sides, SideUpdated(s), NEW settled,
           \A u \in Accounts :
             /\ u \in settled => userIndex'[s][u] = rewardState'[s].index
             /\ u \notin settled => userIndex'[s][u] = userIndex[s][u] /\ holding'[s][u] = holding[s][u]
    PROVE  /\ DeltaOf(s, settled) \in [Accounts -> Nat] /\ LossOf(s, settled) \in [Accounts -> Nat]
           /\ \A u \in Accounts :
                /\ LeastDue(s, u) <= DoubleScale * DeltaOf(s, settled)[u] + (LossOf(s, settled)[u] + LeastDue(s, u)')
                /\ DoubleScale * DeltaOf(s, settled)[u] + MostDue(s, u)' <= MostDue(s, u) + UpdateGain(s)
           /\ DoubleScale * Total(DeltaOf(s, settled), AccountCount) + SideDue(s)' <= SideDue(s) + UpdateGain(s)
<1>0. AmountsNat'
  BY AmountsNext
<1>1. \A u \in Accounts :
        /\ DeltaOf(s, settled)[u] \in Nat /\ LossOf(s, settled)[u] \in Nat
        /\ DoubleScale * DeltaOf(s, settled)[u] + Gained(s, u)' <= HeldUnits(s, u)
        /\ HeldUnits(s, u) + UpdateLoss(s, u)
             <= DoubleScale * DeltaOf(s, settled)[u] + (LossOf(s, settled)[u] + Gained(s, u)')
  BY SettledAccount
<1>2. DeltaOf(s, settled) \in [Accounts -> Nat] /\ LossOf(s, settled) \in [Accounts -> Nat]
  BY <1>1 DEF DeltaOf, LossOf
<1>3. Elapsed(s)' = 0
  <2>1. StopSlot(s)' = StopSlot(s) /\ StopSlot(s) \in Nat
    BY SideFacts DEF StopSlot, SideUpdated
  <2> QED BY <2>1 DEF Elapsed, SideUpdated
<1>4. Unspent(s)' = 0
  BY <1>0, <1>3, SMT DEF AmountsNat
<1>5. \A u \in Accounts : LeastDue(s, u)' = Gained(s, u)' /\ MostDue(s, u)' = Gained(s, u)' /\ Gained(s, u)' \in Nat
  <2> SUFFICES ASSUME NEW u \in Accounts
               PROVE  LeastDue(s, u)' = Gained(s, u)' /\ MostDue(s, u)' = Gained(s, u)' /\ Gained(s, u)' \in Nat
    OBVIOUS
  <2>1. LeastShare(s, u)' \in Nat /\ MostShare(s, u)' \in Nat /\ Gained(s, u)' \in Nat
    BY <1>0 DEF AmountsNat
  <2>2. LeastDue(s, u)' = Gained(s, u)' + 0 * LeastShare(s, u)' /\ MostDue(s, u)' = Gained(s, u)' + 0 * MostShare(s, u)'
    BY <1>3 DEF LeastDue, MostDue
  <2> QED BY <2>1, <2>2
<1>6. ASSUME NEW u \in Accounts
      PROVE  /\ LeastDue(s, u) <= DoubleScale * DeltaOf(s, settled)[u] + (LossOf(s, settled)[u] + LeastDue(s, u)')
             /\ DoubleScale * DeltaOf(s, settled)[u] + MostDue(s, u)' <= MostDue(s, u) + UpdateGain(s)
  <2>1. /\ LeastDue(s, u) \in Nat /\ MostDue(s, u) \in Nat /\ UpdateLoss(s, u) \in Nat
        /\ LeastDue(s, u) <= HeldUnits(s, u) + UpdateLoss(s, u)
        /\ HeldUnits(s, u) <= MostDue(s, u) + UpdateGain(s) /\ UpdateGain(s) \in Nat
    BY DueFacts
  <2>2. HeldUnits(s, u) \in Nat /\ DoubleScale * DeltaOf(s, settled)[u] \in Nat
    BY <1>1, GainedFacts, BoundsAssumption, Product
  <2> QED BY <1>1, <1>5, <2>1, <2>2
<1>7. DoubleScale * Total(DeltaOf(s, settled), AccountCount) + SideDue(s)' <= SideDue(s) + UpdateGain(s)
  <2> DEFINE n == AccountCount
             d == DeltaOf(s, settled)
             g == [u \in Accounts |-> Gained(s, u)]
             new == [u \in Accounts |-> Gained(s, u)']
  <2>1. /\ n \in Nat /\ d \in [1 .. n -> Int] /\ g \in [1 .. n -> Int] /\ new \in [1 .. n -> Int]
        /\ holding[s] \in [1 .. n -> Int]
    <3>1. n \in Nat /\ g \in [1 .. n -> Nat]
      BY SideDueNat, AccountsAssumption
    <3>2. d \in [Accounts -> Nat] /\ new \in [Accounts -> Nat] /\ holding[s] \in [Accounts -> Nat]
      BY <1>2, <1>5 DEF Typed
    <3> HIDE DEF d, g, new
    <3> QED BY <3>1, <3>2 DEF Accounts
  <2>2. \A u \in 1 .. n : DoubleScale * d[u] + 1 * new[u] <= 1 * g[u] + Ratio(s) * holding[s][u]
    <3> SUFFICES ASSUME NEW u \in Accounts
                 PROVE  DoubleScale * d[u] + 1 * new[u] <= 1 * g[u] + Ratio(s) * holding[s][u]
      BY DEF Accounts
    <3>1. /\ Gained(s, u) \in Nat /\ HeldUnits(s, u) = Gained(s, u) + holding[s][u] * Ratio(s)
          /\ holding[s][u] \in Nat
      BY GainedFacts DEF HeldUnits
    <3>2. Ratio(s) \in Nat
      BY RatioFacts, Zenon
    <3>3. holding[s][u] * Ratio(s) = Ratio(s) * holding[s][u]
      BY <3>1, <3>2
    <3>4. DoubleScale * d[u] + Gained(s, u)' <= Gained(s, u) + Ratio(s) * holding[s][u]
      BY <1>1, <3>1, <3>3
    <3> QED BY <1>5, <3>1, <3>4
  <2>3. Ratio(s) \in Int /\ DoubleScale \in Int
    <3>1. Ratio(s) \in Nat
      BY RatioFacts, Zenon
    <3> QED BY <3>1, BoundsAssumption
  <2>4. PICK i \in Int : i = 1
    OBVIOUS
  <2>5. \A u \in 1 .. n : DoubleScale * d[u] + i * new[u] <= i * g[u] + Ratio(s) * holding[s][u]
    BY <2>2, <2>4
  <2> HIDE DEF d, g, new
  <2>6. DoubleScale * Total(d, n) + i * Total(new, n) <= i * Total(g, n) + Ratio(s) * Total(holding[s], n)
    BY <2>1, <2>3, <2>5, TotalsCompared, ZenonT(60)
  <2>7. /\ Total(d, n) \in Int /\ Total(new, n) \in Int /\ Total(g, n) \in Int /\ Total(holding[s], n) \in Int
    BY <2>1, TotalType
  <2>8. /\ Ratio(s) * TotalHeld(s) <= (IF TotalHeld(s) = 0 THEN 0 ELSE Unspent(s)) + UpdateGain(s)
        /\ UpdateGain(s) \in Nat /\ TotalHeld(s) = Total(holding[s], n) /\ Unspent(s) \in Nat
    BY RatioFacts, SideFacts, Zenon DEF TotalHeld
  <2>9. SideDue(s) = Total(g, n) + (IF TotalHeld(s) = 0 THEN 0 ELSE Unspent(s))
    BY DEF SideDue, g
  <2>10. SideDue(s)' = Total(new, n) + 0
    BY <1>4 DEF SideDue, new
  <2>11. DoubleScale * Total(d, n) \in Int /\ Ratio(s) * Total(holding[s], n) \in Int
    BY <2>3, <2>7, Distributed
  <2>12. i * Total(new, n) = Total(new, n) /\ i * Total(g, n) = Total(g, n)
    BY <2>4, <2>7
  <2>13. DoubleScale * Total(d, n) + SideDue(s)' <= SideDue(s) + UpdateGain(s)
    BY <2>6, <2>7, <2>8, <2>9, <2>10, <2>11, <2>12
  <2> QED BY <2>13 DEF d
<1> QED BY <1>2, <1>6, <1>7

LEMMA KeptSide ==
    ASSUME Typed, Timely, NEW s \in Sides, SideKept(s)
    PROVE  /\ \A u \in Accounts : LeastDue(s, u)' = LeastDue(s, u) /\ MostDue(s, u)' = MostDue(s, u)
           /\ SideDue(s)' = SideDue(s)
<1>1. TotalHeld(s)' = TotalHeld(s) /\ Unspent(s)' = Unspent(s) /\ Elapsed(s)' = Elapsed(s) /\ Speed(s)' = Speed(s)
  BY DEF SideKept, TotalHeld, Unspent, Elapsed, Speed
<1>2. \A u \in Accounts : Gained(s, u)' = Gained(s, u)
  BY DEF SideKept, Gained, From
<1>3. \A u \in Accounts : LeastShare(s, u)' = LeastShare(s, u) /\ MostShare(s, u)' = MostShare(s, u)
  BY <1>1 DEF SideKept, LeastShare, MostShare
<1>4. \A u \in Accounts : LeastDue(s, u)' = LeastDue(s, u) /\ MostDue(s, u)' = MostDue(s, u)
  BY <1>1, <1>2, <1>3 DEF LeastDue, MostDue
<1>5. [u \in Accounts |-> Gained(s, u)'] = [u \in Accounts |-> Gained(s, u)]
  BY <1>2
<1>6. SideDue(s)' = SideDue(s)
  BY <1>1, <1>5 DEF SideDue
<1> QED BY <1>4, <1>6


-----------------------------------------------------------------------------
(* Steps that settle, and steps that do not *)

\* The accounts that are settled with s.
Of(pairs, s) == {u \in Accounts : <<s, u>> \in pairs}

LEMMA StepSettles ==
    ASSUME IInv, Typed', Timely', slot' = slot, UNCHANGED <<parts, healed>>,
           NEW sides \in SUBSET Sides, NEW pairs \in SUBSET (sides \X Accounts),
           \A s \in sides :
             /\ SideUpdated(s)
             /\ \A u \in Accounts :
                  /\ <<s, u>> \in pairs => userIndex'[s][u] = rewardState'[s].index
                  /\ <<s, u>> \notin pairs => userIndex'[s][u] = userIndex[s][u] /\ holding'[s][u] = holding[s][u],
           \A s \in Sides \ sides : SideKept(s),
           \A u \in Accounts : dust'[u] = dust[u] + SumOverSides([s \in Sides |->
             (IF s \in sides THEN UpdateLoss(s, u) ELSE 0)
               + (IF <<s, u>> \in pairs THEN ReadingLoss(s, u) + (EarnedUnits(s, u) % DoubleScale) ELSE 0)]),
           surplus' = surplus + SumOverSides([s \in Sides |-> IF s \in sides THEN UpdateGain(s) ELSE 0]),
           \A u \in Accounts : Booked(u)' = Booked(u)
             + SumOverSides([s \in Sides |-> IF <<s, u>> \in pairs THEN Delta(s, u) ELSE 0])
    PROVE  IInv'
<1> DEFINE delta == [s \in Sides |-> IF s \in sides THEN DeltaOf(s, Of(pairs, s)) ELSE [u \in Accounts |-> 0]]
           loss == [s \in Sides |-> IF s \in sides THEN LossOf(s, Of(pairs, s)) ELSE [u \in Accounts |-> 0]]
           gain == [s \in Sides |-> IF s \in sides THEN UpdateGain(s) ELSE 0]
<1>0. Typed /\ Timely /\ DoubleScale \in Nat /\ AccountCount \in Nat
  BY BoundsAssumption, AccountsAssumption DEF IInv
<1>1. ASSUME NEW s \in sides
      PROVE  /\ DeltaOf(s, Of(pairs, s)) \in [Accounts -> Nat] /\ LossOf(s, Of(pairs, s)) \in [Accounts -> Nat]
             /\ \A u \in Accounts :
                  /\ LeastDue(s, u) <= DoubleScale * DeltaOf(s, Of(pairs, s))[u] + (LossOf(s, Of(pairs, s))[u] + LeastDue(s, u)')
                  /\ DoubleScale * DeltaOf(s, Of(pairs, s))[u] + MostDue(s, u)' <= MostDue(s, u) + gain[s]
             /\ DoubleScale * Total(DeltaOf(s, Of(pairs, s)), AccountCount) + SideDue(s)' <= SideDue(s) + gain[s]
             /\ gain[s] \in Nat
  <2>1. \A u \in Accounts : u \in Of(pairs, s) <=> <<s, u>> \in pairs
    BY DEF Of
  <2>2. s \in Sides /\ SideUpdated(s)
    OBVIOUS
  <2>3. \A u \in Accounts :
          /\ u \in Of(pairs, s) => userIndex'[s][u] = rewardState'[s].index
          /\ u \notin Of(pairs, s) => userIndex'[s][u] = userIndex[s][u] /\ holding'[s][u] = holding[s][u]
    BY <2>1
  <2>4. gain[s] = UpdateGain(s) /\ UpdateGain(s) \in Nat
    BY <1>0, RatioFacts
  <2> HIDE DEF gain
  <2> QED BY <1>0, <2>2, <2>3, <2>4, SettledSide
<1>2. delta \in [Sides -> [Accounts -> Nat]] /\ loss \in [Sides -> [Accounts -> Nat]]
  BY <1>1
<1>g. gain \in [Sides -> Nat] /\ \A s \in Sides \ sides : gain[s] = 0
  <2>1. \A s \in sides : UpdateGain(s) \in Nat
    BY <1>0, RatioFacts
  <2> QED BY <2>1
<1> HIDE DEF gain
<1>3. \A s \in Sides : \A u \in Accounts :
        /\ delta[s][u] = IF <<s, u>> \in pairs THEN Delta(s, u) ELSE 0
        /\ loss[s][u] = (IF s \in sides THEN UpdateLoss(s, u) ELSE 0)
                          + (IF <<s, u>> \in pairs THEN ReadingLoss(s, u) + (EarnedUnits(s, u) % DoubleScale) ELSE 0)
  <2> SUFFICES ASSUME NEW s \in Sides, NEW u \in Accounts
               PROVE  /\ delta[s][u] = IF <<s, u>> \in pairs THEN Delta(s, u) ELSE 0
                      /\ loss[s][u] = (IF s \in sides THEN UpdateLoss(s, u) ELSE 0)
                                        + (IF <<s, u>> \in pairs THEN ReadingLoss(s, u) + (EarnedUnits(s, u) % DoubleScale) ELSE 0)
    BY Zenon
  <2>1. CASE s \in sides
    BY <2>1 DEF DeltaOf, LossOf, Of
  <2>2. CASE s \notin sides
    BY <2>2
  <2> QED BY <2>1, <2>2
<1>4. \A u \in Accounts :
        /\ [s \in Sides |-> delta[s][u]] = [s \in Sides |-> IF <<s, u>> \in pairs THEN Delta(s, u) ELSE 0]
        /\ [s \in Sides |-> loss[s][u]] = [s \in Sides |-> (IF s \in sides THEN UpdateLoss(s, u) ELSE 0)
             + (IF <<s, u>> \in pairs THEN ReadingLoss(s, u) + (EarnedUnits(s, u) % DoubleScale) ELSE 0)]
  <2> HIDE DEF delta, loss
  <2> QED BY <1>3
<1>5. \A s \in Sides : \A u \in Accounts :
        /\ LeastDue(s, u) <= DoubleScale * delta[s][u] + (loss[s][u] + LeastDue(s, u)')
        /\ DoubleScale * delta[s][u] + MostDue(s, u)' <= MostDue(s, u) + gain[s]
  <2> SUFFICES ASSUME NEW s \in Sides, NEW u \in Accounts
               PROVE  /\ LeastDue(s, u) <= DoubleScale * delta[s][u] + (loss[s][u] + LeastDue(s, u)')
                      /\ DoubleScale * delta[s][u] + MostDue(s, u)' <= MostDue(s, u) + gain[s]
    OBVIOUS
  <2>1. CASE s \in sides
    BY <1>1, <2>1
  <2>2. CASE s \notin sides
    <3>1. LeastDue(s, u)' = LeastDue(s, u) /\ MostDue(s, u)' = MostDue(s, u)
      BY <1>0, <2>2, KeptSide
    <3>2. LeastDue(s, u) \in Nat /\ MostDue(s, u) \in Nat
      BY <1>0, DueFacts
    <3>3. delta[s][u] = 0 /\ loss[s][u] = 0
      BY <2>2
    <3> HIDE DEF delta, loss
    <3>4. gain[s] = 0
      BY <1>g, <2>2
    <3> QED BY <1>0, <3>1, <3>2, <3>3, <3>4
  <2> QED BY <2>1, <2>2
<1>6. ASSUME NEW s \in Sides
      PROVE  DoubleScale * Total(delta[s], AccountCount) + SideDue(s)' <= SideDue(s) + gain[s]
  <2>1. CASE s \in sides
    BY <1>1, <2>1
  <2>2. CASE s \notin sides
    <3>1. delta[s] = [u \in 1 .. AccountCount |-> 0]
      BY <2>2 DEF Accounts
    <3>2. Total(delta[s], AccountCount) = 0
      BY <1>0, <3>1, TotalZero
    <3>3. SideDue(s)' = SideDue(s) /\ SideDue(s) \in Nat
      BY <1>0, <2>2, KeptSide, SideDueNat
    <3> HIDE DEF delta
    <3>4. gain[s] = 0
      BY <1>g, <2>2
    <3> QED BY <1>0, <3>2, <3>3, <3>4
  <2> QED BY <2>1, <2>2
<1> HIDE DEF delta, loss
<1>7. \A u \in Accounts : Booked(u)' = Booked(u) + SumOverSides([s \in Sides |-> delta[s][u]])
  BY <1>4
<1>8. \A u \in Accounts : dust'[u] = dust[u] + SumOverSides([s \in Sides |-> loss[s][u]])
  BY <1>4
<1>9. surplus' = surplus + SumOverSides(gain)
  BY DEF gain
<1> QED BY <1>2, <1>5, <1>6, <1>7, <1>8, <1>9, <1>g, StepKeeps

\* Nothing is settled, nothing is booked and no part of a side changes but by healing.
LEMMA StepBooksNothing ==
    ASSUME IInv, Typed', Timely', UNCHANGED <<parts, dust, surplus>>, healed \subseteq healed',
           \A u \in Accounts : Booked(u)' = Booked(u),
           \A s \in Sides : \A u \in Accounts : u \notin healed' => LeastDue(s, u) <= LeastDue(s, u)',
           healed' = {} => \A s \in Sides : \A u \in Accounts : MostDue(s, u)' <= MostDue(s, u),
           \A s \in Sides : SideDue(s)' <= SideDue(s)
    PROVE  IInv'
<1> DEFINE none == [s \in Sides |-> [u \in Accounts |-> 0]]
           zero == [s \in Sides |-> 0]
<1>0. Typed /\ Timely /\ DoubleScale \in Nat /\ AccountCount \in Nat
  BY BoundsAssumption, AccountsAssumption DEF IInv
<1>1. none \in [Sides -> [Accounts -> Nat]]
  OBVIOUS
<1>2. \A s \in Sides : \A u \in Accounts : none[s][u] = 0
  OBVIOUS
<1>3. \A u \in Accounts : SumOverSides([s \in Sides |-> none[s][u]]) = 0
  <2>1. \A u \in Accounts : [s \in Sides |-> none[s][u]] = zero
    OBVIOUS
  <2>2. zero \in [Sides -> Int] /\ \A s \in Sides : zero[s] = 0
    OBVIOUS
  <2> HIDE DEF zero, none
  <2>3. SumOverSides(zero) = 0
    BY <2>2, SidesZero
  <2> QED BY <2>1, <2>3
<1>z. zero \in [Sides -> Nat] /\ (\A s \in Sides : zero[s] = 0) /\ surplus' = surplus + SumOverSides(zero)
  <2>1. zero \in [Sides -> Int] /\ zero \in [Sides -> Nat] /\ \A s \in Sides : zero[s] = 0
    OBVIOUS
  <2> HIDE DEF zero
  <2>2. SumOverSides(zero) = 0 /\ surplus \in Nat
    BY <1>0, <2>1, SidesZero DEF Typed
  <2> QED BY <2>1, <2>2
<1>4. \A s \in Sides : Total(none[s], AccountCount) = 0
  <2>1. \A s \in Sides : none[s] = [i \in 1 .. AccountCount |-> 0]
    BY DEF Accounts
  <2> HIDE DEF none
  <2> QED BY <1>0, <2>1, TotalZero
<1> HIDE DEF none, zero
<1>5. AmountsNat /\ AmountsNat'
  BY <1>0, AmountsAreNat, AmountsNext
<1>6. /\ \A u \in Accounts : Booked(u) \in Nat /\ dust[u] \in Nat
      /\ \A s \in Sides : SideDue(s) \in Nat /\ SideDue(s)' \in Nat
      /\ \A s \in Sides : \A u \in Accounts : /\ LeastDue(s, u) \in Nat /\ LeastDue(s, u)' \in Nat
                                              /\ MostDue(s, u) \in Nat /\ MostDue(s, u)' \in Nat
  BY <1>0, <1>5 DEF AmountsNat, Typed
<1>7. \A u \in Accounts : Booked(u)' = Booked(u) + SumOverSides([s \in Sides |-> none[s][u]])
  BY <1>3, <1>6
<1>8. \A u \in Accounts : dust'[u] = dust[u] + SumOverSides([s \in Sides |-> none[s][u]])
  BY <1>3, <1>6
<1>9. DoubleScale * 0 = 0
  BY <1>0
<1>10. \A s \in Sides : \A u \in Accounts :
         u \notin healed' => LeastDue(s, u) <= DoubleScale * none[s][u] + (none[s][u] + LeastDue(s, u)')
  BY <1>2, <1>6, <1>9
<1>11. healed' = {} => \A s \in Sides : \A u \in Accounts : DoubleScale * none[s][u] + MostDue(s, u)' <= MostDue(s, u) + zero[s]
  BY <1>2, <1>6, <1>9, <1>z
<1>12. \A s \in Sides : DoubleScale * Total(none[s], AccountCount) + SideDue(s)' <= SideDue(s) + zero[s]
  BY <1>4, <1>6, <1>9, <1>z
<1> QED BY <1>1, <1>7, <1>8, <1>10, <1>11, <1>12, <1>z, StepKeeps

LEMMA StepKeepsSides ==
    ASSUME IInv, Typed', Timely', UNCHANGED <<parts, dust, surplus, healed>>,
           \A u \in Accounts : Booked(u)' = Booked(u), \A s \in Sides : SideKept(s)
    PROVE  IInv'
<1>0. Typed /\ Timely
  BY DEF IInv
<1>1. \A s \in Sides : /\ \A u \in Accounts : LeastDue(s, u)' = LeastDue(s, u) /\ MostDue(s, u)' = MostDue(s, u)
                       /\ SideDue(s)' = SideDue(s)
  BY <1>0, KeptSide
<1>2. /\ \A s \in Sides : SideDue(s) \in Nat
      /\ \A s \in Sides : \A u \in Accounts : LeastDue(s, u) \in Nat /\ MostDue(s, u) \in Nat
  BY <1>0, AmountsAreNat DEF AmountsNat
<1>3. /\ \A s \in Sides : SideDue(s)' <= SideDue(s)
      /\ \A s \in Sides : \A u \in Accounts : LeastDue(s, u) <= LeastDue(s, u)' /\ MostDue(s, u)' <= MostDue(s, u)
  BY <1>1, <1>2
<1> QED BY <1>3, StepBooksNothing


LEMMA UpdatedIndex ==
    ASSUME Typed, Timely, NEW s \in Sides
    PROVE  /\ IndexUpdated(s) \in RewardState
           /\ IndexUpdated(s).index = rewardState[s].index + Ratio(s)
           /\ IndexUpdated(s).block = StopSlot(s)
           /\ IndexUpdated(s).lastRewardingBlock = rewardState[s].lastRewardingBlock
           /\ IndexUpdated(s).speed = rewardState[s].speed
<1>1. /\ Ratio(s) \in Nat
      /\ IndexUpdated(s) = [rewardState[s] EXCEPT !.index = @ + Ratio(s), !.block = StopSlot(s)]
  BY RatioFacts, Zenon
<1>2. /\ rewardState[s] \in RewardState /\ StopSlot(s) \in Nat
      /\ rewardState[s].index \in Nat
  BY SideFacts DEF RewardState
<1> DEFINE r == rewardState[s]
           i == rewardState[s].index + Ratio(s)
           b == StopSlot(s)
<1>3. r \in RewardState /\ i \in Nat /\ b \in Nat
  BY <1>1, <1>2
<1>4. IndexUpdated(s) = [r EXCEPT !.index = i, !.block = b]
  BY <1>1
<1> HIDE DEF r, i, b
<1>5. /\ IndexUpdated(s) \in RewardState
      /\ IndexUpdated(s).index = i /\ IndexUpdated(s).block = b
      /\ IndexUpdated(s).lastRewardingBlock = r.lastRewardingBlock /\ IndexUpdated(s).speed = r.speed
  BY <1>3, <1>4 DEF RewardState
<1> QED BY <1>5 DEF r, i, b

\* The settlement leaves indices and accounts in time.
LEMMA SettleTypes ==
    ASSUME Typed, Timely, NEW sides \in SUBSET Sides, NEW pairs \in SUBSET (sides \X Accounts),
           Settle(sides, pairs)
    PROVE  /\ Updated(sides) \in [Sides -> RewardState] /\ Accrued(pairs) \in [Accounts -> Nat]
           /\ userIndex' \in [Sides -> [Accounts -> Nat]] /\ dust' \in [Accounts -> Nat] /\ surplus' \in Nat
           /\ \A s \in Sides :
                LET r == Updated(sides)[s] IN
                /\ r.index >= InitialIndex /\ r.block <= slot
                /\ r.lastRewardingBlock > 0 => r.block <= r.lastRewardingBlock
                /\ \A u \in Accounts : userIndex'[s][u] <= r.index
<1>1. \A s \in Sides : IndexUpdated(s) \in RewardState /\ rewardState[s] \in RewardState
  BY UpdatedIndex DEF Typed
<1>2. Updated(sides) \in [Sides -> RewardState]
  BY <1>1 DEF Updated
<1>3. Accrued(pairs) \in [Accounts -> Nat]
  <2>1. ASSUME NEW u \in Accounts
        PROVE  accrued[u] + SumOverSides([s \in Sides |-> IF <<s, u>> \in pairs THEN Delta(s, u) ELSE 0]) \in Nat
    <3> DEFINE f == [s \in Sides |-> IF <<s, u>> \in pairs THEN Delta(s, u) ELSE 0]
    <3>1. f \in [Sides -> Nat]
      BY GainedFacts
    <3> HIDE DEF f
    <3>2. SumOverSides(f) \in Nat /\ accrued[u] \in Nat
      BY <3>1, SidesNat DEF Typed
    <3> QED BY <3>2 DEF f
  <2> QED BY <2>1 DEF Accrued
<1>4. dust' \in [Accounts -> Nat]
  <2>1. ASSUME NEW u \in Accounts
        PROVE  dust[u] + SumOverSides([s \in Sides |-> (IF s \in sides THEN UpdateLoss(s, u) ELSE 0)
                           + (IF <<s, u>> \in pairs THEN ReadingLoss(s, u) + (EarnedUnits(s, u) % DoubleScale) ELSE 0)]) \in Nat
    <3> DEFINE f == [s \in Sides |-> (IF s \in sides THEN UpdateLoss(s, u) ELSE 0)
                           + (IF <<s, u>> \in pairs THEN ReadingLoss(s, u) + (EarnedUnits(s, u) % DoubleScale) ELSE 0)]
    <3>0. \A s \in Sides : UpdateLoss(s, u) \in Nat /\ ReadingLoss(s, u) \in Nat /\ EarnedUnits(s, u) % DoubleScale \in Nat
      BY RatioFacts, GainedFacts, Zenon
    <3>1. f \in [Sides -> Nat]
      BY <3>0
    <3> HIDE DEF f
    <3>2. SumOverSides(f) \in Nat /\ dust[u] \in Nat
      BY <3>1, SidesNat DEF Typed
    <3> QED BY <3>2 DEF f
  <2> QED BY <2>1 DEF Settle
<1>g. surplus' \in Nat
  <2> DEFINE f == [s \in Sides |-> IF s \in sides THEN UpdateGain(s) ELSE 0]
  <2>1. f \in [Sides -> Nat]
    BY RatioFacts
  <2>2. surplus' = surplus + SumOverSides(f) /\ surplus \in Nat
    BY DEF Settle, Typed
  <2> HIDE DEF f
  <2> QED BY <2>1, <2>2, SidesNat
<1>5. \A s \in Sides :
        /\ rewardState[s].index \in Nat /\ rewardState[s].index >= InitialIndex /\ Ratio(s) \in Nat
        /\ rewardState[s].block \in Nat /\ rewardState[s].lastRewardingBlock \in Nat
        /\ rewardState[s].block <= slot
        /\ rewardState[s].lastRewardingBlock > 0 => rewardState[s].block <= rewardState[s].lastRewardingBlock
        /\ \A u \in Accounts : userIndex[s][u] \in Nat /\ userIndex[s][u] <= rewardState[s].index
  <2>1. \A s \in Sides : Ratio(s) \in Nat
    BY RatioFacts, Zenon
  <2> QED BY <2>1 DEF Typed, Timely, RewardState
<1>6. userIndex' \in [Sides -> [Accounts -> Nat]]
  <2>1. \A s \in Sides : IndexUpdated(s).index \in Nat
    BY <1>1 DEF RewardState
  <2>2. \A s \in Sides : \A u \in Accounts : (IF <<s, u>> \in pairs THEN IndexUpdated(s).index ELSE userIndex[s][u]) \in Nat
    BY <1>5, <2>1
  <2> QED BY <2>2 DEF Settle
<1>7. ASSUME NEW s \in Sides
      PROVE  LET r == Updated(sides)[s] IN
             /\ r.index >= InitialIndex /\ r.block <= slot
             /\ r.lastRewardingBlock > 0 => r.block <= r.lastRewardingBlock
             /\ \A u \in Accounts : userIndex'[s][u] <= r.index
  <2>1. CASE s \in sides
    <3>1. Updated(sides)[s] = IndexUpdated(s)
      BY <2>1 DEF Updated
    <3>2. /\ IndexUpdated(s).index = rewardState[s].index + Ratio(s) /\ IndexUpdated(s).block = StopSlot(s)
          /\ IndexUpdated(s).lastRewardingBlock = rewardState[s].lastRewardingBlock
      BY UpdatedIndex
    <3>3. /\ StopSlot(s) <= slot
          /\ rewardState[s].lastRewardingBlock > 0 => StopSlot(s) <= rewardState[s].lastRewardingBlock
      BY SideFacts
    <3>4. \A u \in Accounts : userIndex'[s][u] = IF <<s, u>> \in pairs THEN IndexUpdated(s).index ELSE userIndex[s][u]
      BY DEF Settle
    <3>5. InitialIndex \in Nat
      BY BoundsAssumption DEF InitialIndex
    <3>6. ASSUME NEW u \in Accounts PROVE userIndex'[s][u] <= rewardState[s].index + Ratio(s)
      <4> DEFINE i == rewardState[s].index
                 r == Ratio(s)
                 x == userIndex[s][u]
      <4>1. i \in Nat /\ r \in Nat /\ x \in Nat /\ x <= i
        BY <1>5
      <4>2. userIndex'[s][u] = IF <<s, u>> \in pairs THEN i + r ELSE x
        BY <3>2, <3>4
      <4> HIDE DEF i, r, x
      <4>3. i + r <= i + r /\ x <= i + r
        BY <4>1
      <4> QED BY <4>2, <4>3, Zenon DEF i, r
    <3>7. rewardState[s].index + Ratio(s) >= InitialIndex
      BY <1>5, <3>5
    <3> QED BY <3>1, <3>2, <3>3, <3>6, <3>7
  <2>2. CASE s \notin sides
    <3>1. Updated(sides)[s] = rewardState[s]
      BY <2>2 DEF Updated
    <3>2. \A u \in Accounts : userIndex'[s][u] = userIndex[s][u]
      BY <2>2 DEF Settle
    <3> QED BY <1>5, <3>1, <3>2
  <2> QED BY <2>1, <2>2
<1> QED BY <1>2, <1>3, <1>4, <1>6, <1>7, <1>g

\* Every step that settles: the hooks, a claim and new speeds.
LEMMA SettlementKeeps ==
    ASSUME IInv, NEW sides \in SUBSET Sides, NEW pairs \in SUBSET (sides \X Accounts), Settle(sides, pairs),
           UNCHANGED <<slot, contributors, parts, healed>>,
           rewardState' \in [Sides -> RewardState],
           \A s \in Sides : /\ rewardState'[s].index = Updated(sides)[s].index
                            /\ rewardState'[s].block = Updated(sides)[s].block
                            /\ rewardState'[s].lastRewardingBlock = Updated(sides)[s].lastRewardingBlock,
           \A s \in Sides \ sides : rewardState'[s].speed = rewardState[s].speed,
           Lent',
           \A s \in Sides : \A u \in Accounts : <<s, u>> \notin pairs => holding'[s][u] = holding[s][u],
           accrued' \in [Accounts -> Nat], paid' \in [Accounts -> Nat],
           \A u \in Accounts : paid'[u] + accrued'[u] = paid[u] + Accrued(pairs)[u]
    PROVE  IInv'
<1>0. Typed /\ Timely
  BY DEF IInv
<1>1. /\ Accrued(pairs) \in [Accounts -> Nat]
      /\ userIndex' \in [Sides -> [Accounts -> Nat]] /\ dust' \in [Accounts -> Nat] /\ surplus' \in Nat
      /\ \A s \in Sides :
           LET r == Updated(sides)[s] IN
           /\ r.index >= InitialIndex /\ r.block <= slot
           /\ r.lastRewardingBlock > 0 => r.block <= r.lastRewardingBlock
           /\ \A u \in Accounts : userIndex'[s][u] <= r.index
  BY <1>0, SettleTypes
<1>2. Typed'
  BY <1>0, <1>1, LentHoldsNext DEF Typed, parts
<1>3. Timely'
  <2>1. \A s \in Sides :
          /\ rewardState'[s].index >= InitialIndex' /\ rewardState'[s].block <= slot'
          /\ rewardState'[s].lastRewardingBlock > 0 => rewardState'[s].block <= rewardState'[s].lastRewardingBlock
          /\ \A u \in Accounts : userIndex'[s][u] <= rewardState'[s].index
    BY <1>1 DEF InitialIndex
  <2>2. \A u \in Accounts : contributors'[u].lastBlock <= slot'
    BY <1>0 DEF Timely
  <2> QED BY <2>1, <2>2 DEF Timely
<1>4. ASSUME NEW s \in sides
      PROVE  /\ SideUpdated(s)
             /\ \A u \in Accounts :
                  /\ <<s, u>> \in pairs => userIndex'[s][u] = rewardState'[s].index
                  /\ <<s, u>> \notin pairs => userIndex'[s][u] = userIndex[s][u] /\ holding'[s][u] = holding[s][u]
  <2>1. Updated(sides)[s] = IndexUpdated(s)
    BY DEF Updated
  <2>2. SideUpdated(s)
    BY <1>0, <2>1, UpdatedIndex DEF SideUpdated
  <2>3. \A u \in Accounts : userIndex'[s][u] = IF <<s, u>> \in pairs THEN IndexUpdated(s).index ELSE userIndex[s][u]
    BY DEF Settle
  <2> QED BY <2>1, <2>2, <2>3
<1>5. ASSUME NEW s \in Sides \ sides
      PROVE  SideKept(s)
  <2>1. Updated(sides)[s] = rewardState[s]
    BY DEF Updated
  <2>2. \A u \in Accounts : <<s, u>> \notin pairs
    OBVIOUS
  <2>3. holding'[s] = holding[s]
    <3>1. holding'[s] \in [Accounts -> Nat] /\ holding[s] \in [Accounts -> Nat]
      BY <1>0, <1>2 DEF Typed
    <3>2. \A u \in Accounts : holding'[s][u] = holding[s][u]
      BY <2>2
    <3> QED BY <3>1, <3>2
  <2>4. userIndex'[s] = userIndex[s]
    <3>1. \A u \in Accounts : userIndex'[s][u] = userIndex[s][u]
      BY <2>2 DEF Settle
    <3> QED BY <1>0, <1>1, <3>1 DEF Typed
  <2>5. StopSlot(s)' = StopSlot(s)
    BY <2>1 DEF StopSlot
  <2> QED BY <2>1, <2>3, <2>4, <2>5 DEF SideKept
<1>6. ASSUME NEW u \in Accounts
      PROVE  Booked(u)' = Booked(u) + SumOverSides([s \in Sides |-> IF <<s, u>> \in pairs THEN Delta(s, u) ELSE 0])
  <2> DEFINE f == [s \in Sides |-> IF <<s, u>> \in pairs THEN Delta(s, u) ELSE 0]
  <2>1. f \in [Sides -> Nat]
    BY <1>0, GainedFacts
  <2>2. Accrued(pairs)[u] = accrued[u] + SumOverSides(f)
    BY DEF Accrued
  <2> HIDE DEF f
  <2>3. SumOverSides(f) \in Nat
    BY <2>1, SidesNat
  <2>4. ContributorDue(u)' = ContributorDue(u) /\ ContributorDue(u) \in Nat
    BY <1>0, BookedNat DEF ContributorDue
  <2>5. /\ paid[u] \in Nat /\ accrued[u] \in Nat /\ paid'[u] \in Nat /\ accrued'[u] \in Nat
        /\ paid'[u] + accrued'[u] = paid[u] + (accrued[u] + SumOverSides(f))
    BY <1>0, <2>2 DEF Typed
  <2>6. Booked(u)' = Booked(u) + SumOverSides(f)
    BY <2>3, <2>4, <2>5 DEF Booked
  <2> QED BY <2>6 DEF f
<1>7. \A u \in Accounts : dust'[u] = dust[u] + SumOverSides([s \in Sides |->
        (IF s \in sides THEN UpdateLoss(s, u) ELSE 0)
          + (IF <<s, u>> \in pairs THEN ReadingLoss(s, u) + (EarnedUnits(s, u) % DoubleScale) ELSE 0)])
  BY DEF Settle
<1>8. surplus' = surplus + SumOverSides([s \in Sides |-> IF s \in sides THEN UpdateGain(s) ELSE 0])
  BY DEF Settle
<1> QED BY <1>2, <1>3, <1>4, <1>5, <1>6, <1>7, <1>8, StepSettles


-----------------------------------------------------------------------------
(* The calls on the markets *)

LEMMA HookKeeps ==
    ASSUME IInv, NEW s \in Sides, NEW accounts \in SUBSET Accounts, Distribute(s, accounts),
           UNCHANGED <<slot, funds, contributors, parts, healed>>, Lent',
           \A r \in Sides : \A u \in Accounts : r # s \/ u \notin accounts => holding'[r][u] = holding[r][u]
    PROVE  IInv'
<1> DEFINE sides == {s}
           pairs == {s} \X accounts
<1>0. Typed /\ Timely
  BY DEF IInv
<1>1. sides \in SUBSET Sides /\ pairs \in SUBSET (sides \X Accounts)
  OBVIOUS
<1>2. Settle(sides, pairs) /\ rewardState' = Updated(sides) /\ accrued' = Accrued(pairs)
  BY DEF Distribute
<1>3. \A r \in Sides : \A u \in Accounts : <<r, u>> \notin pairs => holding'[r][u] = holding[r][u]
  OBVIOUS
<1>4. \A r \in Sides \ sides : Updated(sides)[r] = rewardState[r]
  BY DEF Updated
<1> HIDE DEF sides, pairs
<1>5. Updated(sides) \in [Sides -> RewardState] /\ Accrued(pairs) \in [Accounts -> Nat]
  BY <1>0, <1>1, <1>2, SettleTypes
<1>6. paid' = paid /\ paid \in [Accounts -> Nat]
  BY <1>0 DEF funds, Typed
<1>7. UNCHANGED <<slot, contributors, parts, healed>>
  OBVIOUS
<1>8. /\ rewardState' \in [Sides -> RewardState]
      /\ \A r \in Sides : /\ rewardState'[r].index = Updated(sides)[r].index
                          /\ rewardState'[r].block = Updated(sides)[r].block
                          /\ rewardState'[r].lastRewardingBlock = Updated(sides)[r].lastRewardingBlock
      /\ \A r \in Sides \ sides : rewardState'[r].speed = rewardState[r].speed
  BY <1>2, <1>4, <1>5
<1>9. /\ accrued' \in [Accounts -> Nat] /\ paid' \in [Accounts -> Nat]
      /\ \A u \in Accounts : paid'[u] + accrued'[u] = paid[u] + Accrued(pairs)[u]
  BY <1>2, <1>5, <1>6
<1> QED BY <1>1, <1>2, <1>3, <1>7, <1>8, <1>9, SettlementKeeps

\* Minting and redeeming, borrowing and repaying change one holding behind its hook.
LEMMA SuppliedKeeps ==
    ASSUME IInv, NEW m \in Markets, NEW u \in Accounts, NEW n \in Nat,
           Distribute(SupplyOf(m), {u}), Supplied(m, u, n), Elsewhere, UNCHANGED healed
    PROVE  IInv'
<1>1. Lent /\ SupplyOf(m) \in Sides /\ {u} \in SUBSET Accounts
  BY SidesAre DEF IInv, Typed
<1>2. tokens \in [Markets -> [Accounts -> Nat]]
  BY <1>1 DEF Lent
<1>3. tokens' = [tokens EXCEPT ![m][u] = n] /\ UNCHANGED <<loans, market>>
  BY DEF Supplied
<1> DEFINE moved == {u}
<1>4. /\ tokens' \in [Markets -> [Accounts -> Nat]]
      /\ \A k \in Markets : \A v \in Accounts : k # m \/ v \notin moved => tokens'[k][v] = tokens[k][v]
  BY <1>2, <1>3
<1> HIDE DEF moved
<1>5. /\ Lent'
      /\ \A r \in Sides : \A v \in Accounts : r # SupplyOf(m) \/ v \notin moved => holding'[r][v] = holding[r][v]
  BY <1>1, <1>3, <1>4, SuppliedHolds
<1> USE DEF moved
<1> QED BY <1>1, <1>5, HookKeeps DEF Elsewhere

LEMMA OwingKeeps ==
    ASSUME IInv, NEW m \in Markets, NEW u \in Accounts, NEW owed \in Nat, NEW total \in Nat,
           Distribute(BorrowOf(m), {u}), Owing(m, u, owed, total), Elsewhere, UNCHANGED healed
    PROVE  IInv'
<1>1. Lent /\ BorrowOf(m) \in Sides /\ {u} \in SUBSET Accounts
  BY SidesAre DEF IInv, Typed
<1>2. /\ Lent'
      /\ \A r \in Sides : \A v \in Accounts : r # BorrowOf(m) \/ v \notin {u} => holding'[r][v] = holding[r][v]
  BY <1>1, OwingHolds
<1> QED BY <1>1, <1>2, HookKeeps DEF Elsewhere

LEMMA MoveKeeps ==
    ASSUME IInv, NEW m \in Markets, NEW src \in Accounts, NEW dst \in Accounts, NEW n \in Nat, NEW burnt \in Nat,
           Move(m, src, dst, n, burnt)
    PROVE  IInv'
<1>1. Lent /\ SupplyOf(m) \in Sides /\ {src, dst} \in SUBSET Accounts
  BY SidesAre DEF IInv, Typed
<1>2. /\ src # dst /\ n <= tokens[m][src] /\ burnt <= n
      /\ Distribute(SupplyOf(m), {src, dst}) /\ Elsewhere /\ UNCHANGED healed
      /\ tokens' = [tokens EXCEPT ![m][src] = @ - n, ![m][dst] = @ + n - burnt]
      /\ UNCHANGED <<loans, market>>
  BY DEF Move, SettledParties
<1>3. tokens \in [Markets -> [Accounts -> Nat]]
  BY <1>1 DEF Lent
<1> DEFINE moved == {src, dst}
<1>4. /\ tokens' \in [Markets -> [Accounts -> Nat]]
      /\ \A k \in Markets : \A v \in Accounts : k # m \/ v \notin moved => tokens'[k][v] = tokens[k][v]
  <2> DEFINE x == tokens[m][src] - n
             y == tokens[m][dst] + n - burnt
  <2>1. x \in Nat /\ y \in Nat
    BY <1>2, <1>3
  <2>2. tokens' = [tokens EXCEPT ![m][src] = x, ![m][dst] = y]
    BY <1>2, <1>3
  <2> HIDE DEF x, y
  <2> QED BY <1>3, <2>1, <2>2
<1> HIDE DEF moved
<1>5. /\ Lent'
      /\ \A r \in Sides : \A v \in Accounts : r # SupplyOf(m) \/ v \notin moved => holding'[r][v] = holding[r][v]
  <2>1. UNCHANGED <<loans, market>> /\ Lent
    BY <1>1, <1>2
  <2> QED BY <1>4, <2>1, SuppliedHolds
<1> USE DEF moved
<1> QED BY <1>1, <1>2, <1>5, HookKeeps DEF Elsewhere

\* Interest moves the index and the total, and no holding.
LEMMA AccrueInterestKeeps ==
    ASSUME IInv, NEW m \in Markets, NEW factor \in Factors, AccrueInterest(m, factor)
    PROVE  IInv'
<1> DEFINE j == market[m].borrowIndex
           b == market[m].totalBorrows
           new == [borrowIndex |-> (factor * j) \div EXP_SCALE + j,
                   totalBorrows |-> (factor * b) \div EXP_SCALE + b, accrualBlockNumber |-> slot]
<1>0. Typed /\ Timely /\ Lent /\ slot \in Nat /\ factor \in Nat /\ EXP_SCALE \in Nat \ {0}
  BY InputsAssumption, ExpScaleAssumption DEF IInv, Typed
<1>1. /\ market' = [market EXCEPT ![m] = new]
      /\ UNCHANGED <<slot, rewardState, userIndex, accrued, dust, surplus, paid, contributors, tokens, loans, parts, healed>>
  BY DEF AccrueInterest, MulScalarTruncate, MulScalarTruncateAdd, distribution, funds
<1>2. market \in [Markets -> MarketState] /\ j \in Nat /\ b \in Nat /\ j >= EXP_SCALE
  BY <1>0 DEF Lent, MarketState
<1>3. new \in MarketState /\ new.borrowIndex >= EXP_SCALE
  <2> DEFINE x == (factor * j) \div EXP_SCALE
             y == (factor * b) \div EXP_SCALE
  <2>1. x \in Nat /\ y \in Nat
    BY <1>0, <1>2, Product, Quotient
  <2>2. new = [borrowIndex |-> x + j, totalBorrows |-> y + b, accrualBlockNumber |-> slot]
    OBVIOUS
  <2> HIDE DEF x, y, j, b, new
  <2> QED BY <1>0, <1>2, <2>1, <2>2 DEF MarketState
<1> HIDE DEF new
<1>4. Lent'
  <2>1. market' \in [Markets -> MarketState] /\ \A k \in Markets : market'[k].borrowIndex >= EXP_SCALE
    BY <1>0, <1>1, <1>2, <1>3 DEF Lent
  <2> QED BY <1>0, <1>1, <2>1 DEF Lent
<1>5. holding' = holding
  BY <1>1 DEF holding, Units
<1>6. Typed'
  BY <1>0, <1>1, <1>4, <1>5 DEF Typed, parts
<1>7. Timely'
  BY <1>0, <1>1 DEF Timely, InitialIndex
<1>8. \A u \in Accounts : Booked(u)' = Booked(u)
  BY <1>1 DEF Booked, ContributorDue
<1>9. \A s \in Sides : SideKept(s)
  BY <1>1, <1>5 DEF SideKept, StopSlot
<1>10. UNCHANGED <<parts, dust, surplus, healed>>
  BY <1>1
<1> QED BY <1>6, <1>7, <1>8, <1>9, <1>10, StepKeepsSides

\* Who is healed without a payment loses what was not settled; the others' parts of the
\* side grow.
LEMMA HealBorrowKeeps ==
    ASSUME IInv, NEW m \in Markets, NEW borrower \in Accounts, HealBorrow(m, borrower)
    PROVE  IInv'
<1> DEFINE s == BorrowOf(m)
           n == AccountCount
<1>0. Typed /\ Timely /\ s \in Sides /\ n \in Nat
  BY SidesAre, AccountsAssumption DEF IInv
<1>a. /\ healed' = healed \cup {borrower}
      /\ UNCHANGED <<slot, rewardState, userIndex, accrued, dust, surplus, paid, contributors, parts>>
      /\ Owed(m, borrower) <= market[m].totalBorrows
      /\ Owing(m, borrower, 0, market[m].totalBorrows - Owed(m, borrower))
  BY DEF HealBorrow, Elsewhere, distribution, funds
<1>2. /\ Lent' /\ holding' \in [Sides -> [Accounts -> Nat]] /\ holding'[s][borrower] = 0
      /\ \A r \in Sides : \A v \in Accounts : r # s \/ v \notin {borrower} => holding'[r][v] = holding[r][v]
  <2>1. Lent
    BY <1>0 DEF Typed
  <2>2. PICK total \in Nat : total = market[m].totalBorrows - Owed(m, borrower)
    BY <1>a, <2>1, OwedNat DEF MarketState
  <2>3. Owing(m, borrower, 0, total) /\ 0 \in Nat
    BY <1>a, <2>2
  <2> QED BY <2>1, <2>3, OwingHolds, LentHoldsNext
<1> HIDE DEF s
<1>1. /\ holding' = [holding EXCEPT ![s][borrower] = 0]
      /\ healed' = healed \cup {borrower}
      /\ UNCHANGED <<slot, rewardState, userIndex, accrued, dust, surplus, paid, contributors, parts>>
  <2> DEFINE new == [holding EXCEPT ![s][borrower] = 0]
  <2>1. new \in [Sides -> [Accounts -> Nat]]
    BY <1>0 DEF Typed
  <2>2. \A r \in Sides : \A v \in Accounts : new[r][v] = IF r = s /\ v = borrower THEN 0 ELSE holding[r][v]
    BY <1>0 DEF Typed
  <2> HIDE DEF new
  <2>3. \A r \in Sides : \A v \in Accounts : holding'[r][v] = new[r][v]
    BY <1>2, <2>2
  <2>4. \A r \in Sides : holding'[r] = new[r]
    <3> SUFFICES ASSUME NEW r \in Sides PROVE holding'[r] = new[r]
      OBVIOUS
    <3>1. holding'[r] \in [Accounts -> Nat] /\ new[r] \in [Accounts -> Nat]
      BY <1>2, <2>1
    <3> QED BY <2>3, <3>1
  <2>5. holding' = new
    BY <1>2, <2>1, <2>4
  <2> QED BY <1>a, <2>5 DEF new
<1>3. Typed'
  BY <1>0, <1>1, <1>2 DEF Typed, parts
<1>4. Timely'
  BY <1>0, <1>1 DEF Timely, InitialIndex
<1>5. \A u \in Accounts : Booked(u)' = Booked(u)
  BY <1>1 DEF Booked, ContributorDue
<1>6. AmountsNat /\ AmountsNat'
  BY <1>0, <1>3, <1>4, AmountsAreNat, AmountsNext
<1>7. /\ \A r \in Sides : Elapsed(r)' = Elapsed(r) /\ Speed(r)' = Speed(r) /\ Unspent(r)' = Unspent(r)
      /\ \A r \in Sides : \A u \in Accounts : From(r, u)' = From(r, u)
  BY <1>1 DEF Elapsed, Speed, Unspent, StopSlot, From, InitialIndex
<1>8. \A u \in Accounts : u # borrower => holding'[s][u] = holding[s][u]
  BY <1>0, <1>1 DEF Typed
<1>9. TotalHeld(s)' <= TotalHeld(s)
  <2>0. holding \in [Sides -> [1 .. n -> Nat]] /\ borrower \in 1 .. n
    BY <1>0 DEF Typed, Accounts
  <2>1. holding[s] \in [1 .. n -> Nat] /\ holding[s] \in [1 .. n -> Int]
    BY <1>0, <2>0
  <2>2. holding'[s] = [holding[s] EXCEPT ![borrower] = 0]
    BY <1>0, <1>1, <2>0
  <2>3. Total(holding'[s], n) = Total(holding[s], n) - holding[s][borrower] + 0 /\ Total(holding[s], n) \in Int
    <3> DEFINE f == holding[s]
    <3> HIDE DEF f
    <3>1. PICK z \in Int : z = 0
      OBVIOUS
    <3>2. f \in [1 .. n -> Int] /\ holding'[s] = [f EXCEPT ![borrower] = z]
      BY <2>1, <2>2, <3>1 DEF f
    <3>3. Total([f EXCEPT ![borrower] = z], n) = Total(f, n) - f[borrower] + z
      <4>1. n \in Nat /\ f \in [1 .. n -> Int] /\ borrower \in 1 .. n
        BY <1>0, <2>0, <3>2
      <4> QED BY <3>1, <4>1, TotalUpdate, Zenon
    <3>4. Total(f, n) \in Int
      BY <1>0, <3>2, TotalType
    <3> QED BY <3>1, <3>2, <3>3, <3>4 DEF f
  <2>4. holding[s][borrower] \in Nat
    BY <2>0, <2>1
  <2> QED BY <2>3, <2>4 DEF TotalHeld
<1>10. ASSUME NEW r \in Sides, r # s
       PROVE  SideKept(r)
  <2>1. holding'[r] = holding[r]
    BY <1>0, <1>1, <1>10 DEF Typed
  <2> QED BY <1>1, <2>1 DEF SideKept, StopSlot
<1>11. ASSUME NEW r \in Sides, NEW u \in Accounts, u \notin healed'
       PROVE  LeastDue(r, u) <= LeastDue(r, u)'
  <2>1. CASE r # s
    <3>1. LeastDue(r, u)' = LeastDue(r, u) /\ LeastDue(r, u) \in Nat
      BY <1>0, <1>10, <2>1, KeptSide, DueFacts
    <3> QED BY <3>1
  <2>2. CASE r = s
    <3>1. u # borrower /\ holding'[s][u] = holding[s][u]
      BY <1>1, <1>8, <1>11
    <3>2. Gained(s, u)' = Gained(s, u) /\ Gained(s, u) \in Nat
      <4>1. Gained(s, u) \in Nat /\ From(s, u)' = From(s, u)
        BY <1>0, <1>6, <1>7 DEF AmountsNat
      <4>2. Gained(s, u)' = holding'[s][u] * (rewardState'[s].index - From(s, u)')
        BY DEF Gained
      <4>3. Gained(s, u)' = Gained(s, u)
        BY <1>1, <3>1, <4>1, <4>2 DEF Gained
      <4> QED BY <4>1, <4>3
    <3>3. LeastShare(s, u) <= LeastShare(s, u)'
      <4> DEFINE y == Speed(s) * holding[s][u]
                 t == TotalHeld(s)
                 v == TotalHeld(s)'
      <4>1. /\ t \in Nat /\ v \in Nat /\ v <= t /\ Speed(s) \in Nat
            /\ holding[s][u] \in Nat /\ holding[s][u] <= t /\ holding[s][u] <= v
            /\ LeastShare(s, u) \in Nat /\ LeastShare(s, u)' \in Nat
        BY <1>0, <1>6, <1>9, <3>1 DEF AmountsNat
      <4>2. y \in Nat
        BY <4>1, Product
      <4>3. /\ LeastShare(s, u) = IF t = 0 THEN 0 ELSE y \div t
            /\ LeastShare(s, u)' = IF v = 0 THEN 0 ELSE y \div v
        BY <1>0, <1>7, <3>1 DEF LeastShare
      <4>4. v = 0 => holding[s][u] = 0
        BY <4>1
      <4>5. v = 0 => y = 0
        BY <4>1, <4>4
      <4> HIDE DEF y, t, v
      <4>6. CASE v = 0
        <5>1. t # 0 => 0 \div t = 0
          BY <4>1
        <5> QED BY <4>1, <4>3, <4>5, <4>6, <5>1
      <4>7. CASE v # 0
        <5>1. t \in Nat \ {0} /\ v \in Nat \ {0}
          BY <4>1, <4>7
        <5> QED BY <4>1, <4>2, <4>3, <5>1, PartGrows
      <4> QED BY <4>6, <4>7
    <3>4. Elapsed(s) * LeastShare(s, u) <= Elapsed(s) * LeastShare(s, u)'
      <4> DEFINE k == Elapsed(s)
                 l == LeastShare(s, u)
                 w == LeastShare(s, u)'
      <4>1. k \in Nat /\ l \in Nat /\ w \in Nat /\ l <= w
        BY <1>0, <1>6, <3>3 DEF AmountsNat
      <4> HIDE DEF k, l, w
      <4>2. k * l <= k * w
        BY <4>1, SMT
      <4> QED BY <4>2 DEF k, l, w
    <3>5. Elapsed(s) * LeastShare(s, u) \in Nat /\ Elapsed(s) * LeastShare(s, u)' \in Nat
      BY <1>0, <1>6, Product DEF AmountsNat
    <3>6. LeastDue(s, u)' = Gained(s, u) + Elapsed(s) * LeastShare(s, u)'
      BY <1>0, <1>7, <3>2 DEF LeastDue
    <3> QED BY <2>2, <3>2, <3>4, <3>5, <3>6 DEF LeastDue
  <2> QED BY <2>1, <2>2
<1>12. healed' = {} => \A r \in Sides : \A u \in Accounts : MostDue(r, u)' <= MostDue(r, u)
  BY <1>1
<1>13. ASSUME NEW r \in Sides
       PROVE  SideDue(r)' <= SideDue(r)
  <2>1. CASE r # s
    <3>1. SideDue(r)' = SideDue(r) /\ SideDue(r) \in Nat
      BY <1>0, <1>10, <2>1, KeptSide, SideDueNat
    <3> QED BY <3>1
  <2>2. CASE r = s
    <3> DEFINE g == [u \in Accounts |-> Gained(s, u)]
               new == [u \in Accounts |-> Gained(s, u)']
    <3>1. \A u \in Accounts : Gained(s, u) \in Nat /\ Gained(s, u)' \in Nat
      BY <1>0, <1>6 DEF AmountsNat
    <3>2. g \in [1 .. n -> Int] /\ new \in [1 .. n -> Int] /\ borrower \in 1 .. n
      BY <3>1 DEF Accounts
    <3>3. \A u \in Accounts : u # borrower => Gained(s, u)' = Gained(s, u)
      BY <1>1, <1>7, <1>8, <1>0 DEF Gained
    <3>4. new = [g EXCEPT ![borrower] = new[borrower]]
      BY <3>3
    <3>5. Gained(s, borrower)' = 0
      <4>1. holding'[s][borrower] = 0 /\ rewardState'[s].index \in Nat /\ From(s, borrower)' \in Nat
        BY <1>0, <1>1, <1>3, <1>7, GainedFacts DEF Typed, RewardState
      <4>2. Gained(s, borrower)' = 0 * (rewardState'[s].index - From(s, borrower)')
        BY <4>1 DEF Gained
      <4> QED BY <4>1, <4>2
    <3>6. g[borrower] \in Nat /\ new[borrower] = 0
      BY <3>1, <3>5
    <3> HIDE DEF g, new
    <3>7. Total(new, n) = Total(g, n) - g[borrower] + new[borrower] /\ Total(g, n) \in Int
      BY <1>0, <3>2, <3>4, <3>6, TotalUpdate, TotalType, SMTT(40)
    <3>8. /\ SideDue(s) = Total(g, n) + (IF TotalHeld(s) = 0 THEN 0 ELSE Unspent(s))
          /\ SideDue(s)' = Total(new, n) + (IF TotalHeld(s)' = 0 THEN 0 ELSE Unspent(s))
      BY <1>0, <1>7 DEF SideDue, g, new
    <3>9. TotalHeld(s) \in Nat /\ TotalHeld(s)' \in Nat /\ Unspent(s) \in Nat
      BY <1>0, <1>6, SideFacts DEF AmountsNat
    <3> QED BY <1>9, <2>2, <3>6, <3>7, <3>8, <3>9
  <2> QED BY <2>1, <2>2
<1>14. UNCHANGED <<parts, dust, surplus>> /\ healed \subseteq healed'
  BY <1>1
<1> QED BY <1>3, <1>4, <1>5, <1>11, <1>12, <1>13, <1>14, StepBooksNothing


-----------------------------------------------------------------------------
(* Claims, settings and contributors *)

LEMMA ClaimKeeps ==
    ASSUME IInv, NEW u \in Accounts, NEW ms \in SUBSET Markets, ClaimRewardToken(u, ms)
    PROVE  IInv'
<1> DEFINE sides == {s \in Sides : s[1] \in ms}
           pairs == sides \X {u}
           settled == Accrued(pairs)
<1>0. Typed /\ Timely
  BY DEF IInv
<1>1. sides \in SUBSET Sides /\ pairs \in SUBSET (sides \X Accounts)
  OBVIOUS
<1>2. /\ Settle(sides, pairs) /\ rewardState' = Updated(sides)
      /\ UNCHANGED <<slot, contributors, ledger, parts, healed>>
  BY DEF ClaimRewardToken
<1>3. \/ /\ paid' = [paid EXCEPT ![u] = @ + settled[u]]
         /\ accrued' = [settled EXCEPT ![u] = 0]
      \/ paid' = paid /\ accrued' = settled
  BY DEF ClaimRewardToken, Pays, funds
<1>4. \A r \in Sides \ sides : Updated(sides)[r] = rewardState[r]
  BY DEF Updated
<1> HIDE DEF sides, pairs
<1>5. Updated(sides) \in [Sides -> RewardState] /\ settled \in [Accounts -> Nat]
  BY <1>0, <1>1, <1>2, SettleTypes
<1>6. /\ accrued' \in [Accounts -> Nat] /\ paid' \in [Accounts -> Nat]
      /\ \A v \in Accounts : paid'[v] + accrued'[v] = paid[v] + settled[v]
  <2> HIDE DEF settled
  <2>1. paid \in [Accounts -> Nat]
    BY <1>0 DEF Typed
  <2>2. paid[u] \in Nat /\ settled[u] \in Nat
    BY <1>5, <2>1
  <2>3. CASE paid' = [paid EXCEPT ![u] = @ + settled[u]] /\ accrued' = [settled EXCEPT ![u] = 0]
    <3>1. accrued' \in [Accounts -> Nat] /\ paid' \in [Accounts -> Nat]
      BY <1>5, <2>1, <2>2, <2>3
    <3>2. ASSUME NEW v \in Accounts PROVE paid'[v] + accrued'[v] = paid[v] + settled[v]
      <4>1. CASE v = u
        <5>1. paid'[u] = paid[u] + settled[u] /\ accrued'[u] = 0
          BY <1>5, <2>1, <2>3
        <5> QED BY <2>2, <4>1, <5>1
      <4>2. CASE v # u
        BY <1>5, <2>1, <2>3, <4>2
      <4> QED BY <4>1, <4>2
    <3> QED BY <3>1, <3>2
  <2>4. CASE paid' = paid /\ accrued' = settled
    BY <1>5, <2>1, <2>4
  <2> QED BY <1>3, <2>3, <2>4
<1>7. \A s \in Sides : \A v \in Accounts : <<s, v>> \notin pairs => holding'[s][v] = holding[s][v]
  BY <1>2, LedgerKept
<1>8. /\ rewardState' \in [Sides -> RewardState]
      /\ \A r \in Sides : /\ rewardState'[r].index = Updated(sides)[r].index
                          /\ rewardState'[r].block = Updated(sides)[r].block
                          /\ rewardState'[r].lastRewardingBlock = Updated(sides)[r].lastRewardingBlock
      /\ \A r \in Sides \ sides : rewardState'[r].speed = rewardState[r].speed
  BY <1>2, <1>4, <1>5
<1>9. Lent' /\ UNCHANGED <<slot, contributors, parts, healed>>
  BY <1>0, <1>2, LedgerKept DEF Typed
<1> QED BY <1>1, <1>2, <1>6, <1>7, <1>8, <1>9, SettlementKeeps

LEMMA SetSpeedsKeeps ==
    ASSUME IInv, NEW m \in Markets, NEW x \in Speeds, NEW y \in Speeds, SetRewardTokenSpeeds(m, x, y)
    PROVE  IInv'
<1> DEFINE speed == [s \in Sides |-> IF s = SupplyOf(m) THEN x ELSE IF s = BorrowOf(m) THEN y ELSE rewardState[s].speed]
           sides == {s \in Sides : speed[s] # rewardState[s].speed}
           pairs == {}
<1>0. Typed /\ Timely
  BY DEF IInv
<1>1. sides \in SUBSET Sides /\ pairs \in SUBSET (sides \X Accounts)
  OBVIOUS
<1>2. /\ Settle(sides, pairs)
      /\ rewardState' = [s \in Sides |-> [Updated(sides)[s] EXCEPT !.speed = speed[s]]]
      /\ UNCHANGED <<slot, paid, contributors, parts, accrued, ledger, healed>>
  BY DEF SetRewardTokenSpeeds, Elsewhere, funds
<1>3. \A s \in Sides : speed[s] \in Nat
  <2>1. \A s \in Sides : rewardState[s].speed \in Nat
    BY <1>0 DEF Typed, RewardState
  <2>2. x \in Nat /\ y \in Nat
    BY InputsAssumption
  <2> QED BY <2>1, <2>2
<1>4. \A s \in Sides \ sides : speed[s] = rewardState[s].speed
  OBVIOUS
<1> HIDE DEF sides, pairs, speed
<1>5. Updated(sides) \in [Sides -> RewardState]
  BY <1>0, <1>1, <1>2, SettleTypes
<1>6. /\ rewardState' \in [Sides -> RewardState]
      /\ \A s \in Sides : /\ rewardState'[s].index = Updated(sides)[s].index
                          /\ rewardState'[s].block = Updated(sides)[s].block
                          /\ rewardState'[s].lastRewardingBlock = Updated(sides)[s].lastRewardingBlock
                          /\ rewardState'[s].speed = speed[s]
  <2>1. ASSUME NEW s \in Sides
        PROVE  /\ [Updated(sides)[s] EXCEPT !.speed = speed[s]] \in RewardState
               /\ [Updated(sides)[s] EXCEPT !.speed = speed[s]].index = Updated(sides)[s].index
               /\ [Updated(sides)[s] EXCEPT !.speed = speed[s]].block = Updated(sides)[s].block
               /\ [Updated(sides)[s] EXCEPT !.speed = speed[s]].lastRewardingBlock = Updated(sides)[s].lastRewardingBlock
               /\ [Updated(sides)[s] EXCEPT !.speed = speed[s]].speed = speed[s]
    <3> DEFINE r == Updated(sides)[s]
               v == speed[s]
    <3>1. r \in RewardState /\ v \in Nat
      BY <1>3, <1>5
    <3> HIDE DEF r, v
    <3>2. /\ [r EXCEPT !.speed = v] \in RewardState
          /\ [r EXCEPT !.speed = v].index = r.index /\ [r EXCEPT !.speed = v].block = r.block
          /\ [r EXCEPT !.speed = v].lastRewardingBlock = r.lastRewardingBlock /\ [r EXCEPT !.speed = v].speed = v
      BY <3>1 DEF RewardState
    <3> QED BY <3>2 DEF r, v
  <2> QED BY <1>2, <2>1, Zenon
<1>7. \A s \in Sides \ sides : rewardState'[s].speed = rewardState[s].speed
  BY <1>4, <1>6
<1>8. Accrued(pairs) = accrued
  <2>1. ASSUME NEW u \in Accounts
        PROVE  accrued[u] + SumOverSides([s \in Sides |-> IF <<s, u>> \in pairs THEN Delta(s, u) ELSE 0]) = accrued[u]
    <3> DEFINE f == [s \in Sides |-> IF <<s, u>> \in pairs THEN Delta(s, u) ELSE 0]
    <3>1. f \in [Sides -> Int] /\ \A s \in Sides : f[s] = 0
      BY DEF pairs
    <3> HIDE DEF f
    <3>2. SumOverSides(f) = 0 /\ accrued[u] \in Nat
      BY <1>0, <3>1, SidesZero DEF Typed
    <3> QED BY <3>2 DEF f
  <2>2. accrued = [u \in Accounts |-> accrued[u]]
    BY <1>0 DEF Typed
  <2> QED BY <2>1, <2>2 DEF Accrued
<1>9. /\ accrued' \in [Accounts -> Nat] /\ paid' \in [Accounts -> Nat]
      /\ \A u \in Accounts : paid'[u] + accrued'[u] = paid[u] + Accrued(pairs)[u]
      /\ Lent'
  BY <1>0, <1>2, <1>8, LedgerKept DEF Typed
<1>10. \A s \in Sides : \A u \in Accounts : <<s, u>> \notin pairs => holding'[s][u] = holding[s][u]
  BY <1>2, LedgerKept
<1>11. UNCHANGED <<slot, contributors, parts, healed>>
  BY <1>2
<1>12. \A s \in Sides : /\ rewardState'[s].index = Updated(sides)[s].index
                       /\ rewardState'[s].block = Updated(sides)[s].block
                       /\ rewardState'[s].lastRewardingBlock = Updated(sides)[s].lastRewardingBlock
  BY <1>6
<1>13. rewardState' \in [Sides -> RewardState] /\ Settle(sides, pairs)
  BY <1>2, <1>6
<1> QED BY ONLY IInv, <1>1, <1>7, <1>9, <1>10, <1>11, <1>12, <1>13, SettlementKeeps

LEMMA SetLastRewardingKeeps ==
    ASSUME IInv, NEW m \in Markets, NEW x \in 1 .. MaxSlot, NEW y \in 1 .. MaxSlot, SetLastRewarding(m, x, y)
    PROVE  IInv'
<1> DEFINE p == SupplyOf(m)
           q == BorrowOf(m)
<1>0. /\ Typed /\ Timely /\ p \in Sides /\ q \in Sides /\ p # q /\ slot \in Nat
      /\ x \in Nat /\ y \in Nat /\ x > slot /\ y > slot
  BY SidesAre DEF IInv, Typed, SetLastRewarding, SupplyOf, BorrowOf
<1>1. /\ UNCHANGED <<slot, paid, contributors, parts, userIndex, accrued, dust, surplus, ledger, healed>>
      /\ rewardState' = [rewardState EXCEPT ![p].lastRewardingBlock = x, ![q].lastRewardingBlock = y]
      /\ rewardState[p].lastRewardingBlock = 0 \/ rewardState[p].lastRewardingBlock > slot
      /\ rewardState[q].lastRewardingBlock = 0 \/ rewardState[q].lastRewardingBlock > slot
  BY DEF SetLastRewarding, Elsewhere, funds
<1> HIDE DEF p, q
<1>2. rewardState \in [Sides -> RewardState]
  BY <1>0 DEF Typed
<1>3. ASSUME NEW s \in Sides
      PROVE  /\ rewardState'[s] \in RewardState
             /\ rewardState'[s].index = rewardState[s].index /\ rewardState'[s].block = rewardState[s].block
             /\ rewardState'[s].speed = rewardState[s].speed
             /\ rewardState'[s].lastRewardingBlock
                  = IF s = p THEN x ELSE IF s = q THEN y ELSE rewardState[s].lastRewardingBlock
  <2>1. rewardState'[s] = IF s = p THEN [rewardState[s] EXCEPT !.lastRewardingBlock = x]
                          ELSE IF s = q THEN [rewardState[s] EXCEPT !.lastRewardingBlock = y]
                          ELSE rewardState[s]
    BY <1>0, <1>1, <1>2
  <2> DEFINE r == rewardState[s]
  <2>2. r \in RewardState
    BY <1>2
  <2>3. rewardState'[s] = IF s = p THEN [r EXCEPT !.lastRewardingBlock = x]
                          ELSE IF s = q THEN [r EXCEPT !.lastRewardingBlock = y] ELSE r
    BY <2>1
  <2> HIDE DEF r
  <2>4. \A z \in Nat : /\ [r EXCEPT !.lastRewardingBlock = z] \in RewardState
                       /\ [r EXCEPT !.lastRewardingBlock = z].index = r.index
                       /\ [r EXCEPT !.lastRewardingBlock = z].block = r.block
                       /\ [r EXCEPT !.lastRewardingBlock = z].speed = r.speed
                       /\ [r EXCEPT !.lastRewardingBlock = z].lastRewardingBlock = z
    BY <2>2 DEF RewardState
  <2>5. CASE s = p
    BY <1>0, <2>3, <2>4, <2>5 DEF r
  <2>6. CASE s # p /\ s = q
    BY <1>0, <2>3, <2>4, <2>6 DEF r
  <2>7. CASE s # p /\ s # q
    BY <2>2, <2>3, <2>7 DEF r
  <2> QED BY <2>5, <2>6, <2>7
<1>4. rewardState' \in [Sides -> RewardState]
  <2>1. rewardState' = [s \in Sides |-> rewardState'[s]]
    BY <1>1, <1>2
  <2> QED BY <1>3, <2>1
<1>h. holding' = holding /\ Lent'
  BY <1>0, <1>1, LedgerKept DEF Typed
<1>5. Typed'
  BY <1>0, <1>1, <1>4, <1>h DEF Typed, parts
<1>6. Timely'
  <2>1. ASSUME NEW s \in Sides
        PROVE  rewardState'[s].lastRewardingBlock > 0 => rewardState'[s].block <= rewardState'[s].lastRewardingBlock
    <3>1. /\ rewardState[s].block \in Nat /\ rewardState[s].block <= slot
          /\ rewardState[s].lastRewardingBlock > 0 => rewardState[s].block <= rewardState[s].lastRewardingBlock
      BY <1>0 DEF Typed, Timely, RewardState
    <3> QED BY <1>0, <1>3, <3>1
  <2> QED BY <1>0, <1>1, <1>3, <2>1 DEF Timely, InitialIndex
<1>7. ASSUME NEW s \in Sides
      PROVE  SideKept(s)
  <2>1. StopSlot(s)' = StopSlot(s)
    <3>1. rewardState[s].lastRewardingBlock \in Nat
      BY <1>2 DEF RewardState
    <3>2. CASE s = p \/ s = q
      <4>1. rewardState'[s].lastRewardingBlock > slot /\ rewardState'[s].lastRewardingBlock \in Nat
        BY <1>0, <1>3, <3>2
      <4>2. ~ (slot > rewardState'[s].lastRewardingBlock)
        BY <1>0, <4>1
      <4>3. ~ (rewardState[s].lastRewardingBlock > 0 /\ slot > rewardState[s].lastRewardingBlock)
        BY <1>0, <1>1, <3>1, <3>2
      <4> QED BY <1>1, <4>2, <4>3 DEF StopSlot
    <3>3. CASE s # p /\ s # q
      BY <1>1, <1>3, <3>3, ZenonT(60) DEF StopSlot
    <3> QED BY <3>2, <3>3
  <2> QED BY <1>1, <1>3, <1>h, <2>1 DEF SideKept
<1>8. \A u \in Accounts : Booked(u)' = Booked(u)
  BY <1>1 DEF Booked, ContributorDue
<1>9. UNCHANGED <<parts, dust, surplus, healed>>
  BY <1>1
<1> QED BY <1>5, <1>6, <1>7, <1>8, <1>9, StepKeepsSides

\* What moves no side and books nothing anew: funding, grants and contributors.
LEMMA OffSidesKeeps ==
    ASSUME IInv, UNCHANGED <<slot, rewardState, userIndex, dust, surplus, ledger, parts, healed>>,
           accrued' \in [Accounts -> Nat], paid' \in [Accounts -> Nat],
           contributors' \in [Accounts -> Contributor], \A u \in Accounts : contributors'[u].lastBlock <= slot,
           \A u \in Accounts : Booked(u)' = Booked(u)
    PROVE  IInv'
<1>0. Typed /\ Timely
  BY DEF IInv
<1>h. holding' = holding /\ Lent'
  BY <1>0, LedgerKept DEF Typed
<1>1. Typed'
  BY <1>0, <1>h DEF Typed, parts
<1>2. Timely'
  BY <1>0 DEF Timely, InitialIndex
<1>3. \A s \in Sides : SideKept(s)
  BY <1>h DEF SideKept, StopSlot
<1>4. UNCHANGED <<parts, dust, surplus, healed>>
  OBVIOUS
<1> QED BY <1>1, <1>2, <1>3, <1>4, StepKeepsSides

LEMMA FundsKeep ==
    ASSUME IInv, UNCHANGED <<slot, distribution, paid, contributors, ledger, parts, healed>>
    PROVE  IInv'
<1>1. UNCHANGED <<slot, rewardState, userIndex, accrued, dust, surplus, ledger, parts, healed, paid, contributors>>
  BY DEF distribution
<1>2. /\ accrued' \in [Accounts -> Nat] /\ paid' \in [Accounts -> Nat]
      /\ contributors' \in [Accounts -> Contributor] /\ \A u \in Accounts : contributors'[u].lastBlock <= slot
  BY <1>1 DEF IInv, Typed, Timely
<1>3. \A u \in Accounts : Booked(u)' = Booked(u)
  BY <1>1 DEF Booked, ContributorDue
<1> QED BY <1>1, <1>2, <1>3, OffSidesKeeps

\* A contributor is booked what is due to him, and from then on with the new speed.
LEMMA ContributorKeeps ==
    ASSUME IInv, NEW u \in Accounts, NEW speed \in Nat, NEW last \in Nat, last <= slot,
           speed = 0 \/ last = slot,
           accrued' = [accrued EXCEPT ![u] = @ + ContributorDue(u)],
           contributors' = [contributors EXCEPT ![u] = [speed |-> speed, lastBlock |-> last]],
           UNCHANGED <<slot, rewardState, userIndex, dust, surplus, funds, ledger, parts, healed>>
    PROVE  IInv'
<1>0. Typed /\ Timely /\ paid' = paid
  BY DEF IInv, funds
<1>1. \A v \in Accounts : ContributorDue(v) \in Nat /\ paid[v] \in Nat /\ accrued[v] \in Nat
  BY <1>0, BookedNat DEF Typed
<1>2. accrued' \in [Accounts -> Nat] /\ paid' \in [Accounts -> Nat]
  BY <1>0, <1>1 DEF Typed
<1>3. contributors' \in [Accounts -> Contributor] /\ contributors'[u] = [speed |-> speed, lastBlock |-> last]
  BY <1>0 DEF Typed, Contributor
<1>4. \A v \in Accounts : v # u => contributors'[v] = contributors[v] /\ accrued'[v] = accrued[v]
  BY <1>0 DEF Typed
<1>5. \A v \in Accounts : contributors'[v].lastBlock <= slot
  BY <1>0, <1>3, <1>4 DEF Timely
<1>6. ContributorDue(u)' = 0
  <2>1. ContributorDue(u)' = (slot - last) * speed /\ slot \in Nat
    BY <1>0, <1>3 DEF ContributorDue, Typed
  <2>2. CASE speed = 0
    <3>1. slot - last \in Int
      BY <2>1
    <3> QED BY <2>1, <2>2, <3>1
  <2>3. CASE last = slot
    <3>1. slot - last = 0
      BY <2>1, <2>3
    <3> QED BY <2>1, <3>1
  <2> QED BY <2>2, <2>3
<1>7. ASSUME NEW v \in Accounts
      PROVE  Booked(v)' = Booked(v)
  <2>1. CASE v = u
    <3>1. accrued'[u] = accrued[u] + ContributorDue(u)
      BY <1>0 DEF Typed
    <3>2. Booked(u)' = paid[u] + (accrued[u] + ContributorDue(u)) + 0
      BY <1>0, <1>6, <3>1 DEF Booked
    <3> QED BY <1>1, <2>1, <3>2 DEF Booked
  <2>2. CASE v # u
    BY <1>0, <1>4, <2>2 DEF Booked, ContributorDue
  <2> QED BY <2>1, <2>2
<1> QED BY <1>2, <1>3, <1>5, <1>7, OffSidesKeeps

LEMMA UpdateContributorKeeps ==
    ASSUME IInv, NEW u \in Accounts, UpdateContributorRewards(u)
    PROVE  IInv'
<1>1. contributors \in [Accounts -> Contributor] /\ slot \in Nat
  BY DEF IInv, Typed
<1> DEFINE c == contributors[u]
<1>2. c \in Contributor /\ c.speed \in Nat
  BY <1>1 DEF Contributor
<1>3. [c EXCEPT !.lastBlock = slot] = [speed |-> c.speed, lastBlock |-> slot]
  <2> HIDE DEF c
  <2> QED BY <1>2 DEF Contributor
<1>4. contributors' = [contributors EXCEPT ![u] = [c EXCEPT !.lastBlock = slot]]
  BY <1>1 DEF UpdateContributorRewards
<1>5. contributors' = [contributors EXCEPT ![u] = [speed |-> c.speed, lastBlock |-> slot]]
  BY <1>3, <1>4
<1>6. /\ accrued' = [accrued EXCEPT ![u] = @ + ContributorDue(u)]
      /\ UNCHANGED <<slot, rewardState, userIndex, dust, surplus, funds, ledger, parts, healed>>
  BY DEF UpdateContributorRewards
<1> DEFINE v == c.speed
<1>7. v \in Nat /\ slot <= slot /\ (v = 0 \/ slot = slot) /\ slot \in Nat
  BY <1>1, <1>2
<1>8. contributors' = [contributors EXCEPT ![u] = [speed |-> v, lastBlock |-> slot]]
  BY <1>5
<1> HIDE DEF c, v
<1> QED BY <1>6, <1>7, <1>8, ContributorKeeps

LEMMA SetContributorKeeps ==
    ASSUME IInv, NEW u \in Accounts, NEW speed \in Speeds, SetContributorRewardTokenSpeed(u, speed)
    PROVE  IInv'
<1> DEFINE last == IF speed = 0 THEN 0 ELSE slot
<1>1. speed \in Nat /\ slot \in Nat
  BY InputsAssumption DEF IInv, Typed
<1>2. last \in Nat /\ last <= slot /\ (speed = 0 \/ last = slot)
  BY <1>1
<1>3. /\ accrued' = [accrued EXCEPT ![u] = @ + ContributorDue(u)]
      /\ contributors' = [contributors EXCEPT ![u] = [speed |-> speed, lastBlock |-> last]]
      /\ UNCHANGED <<slot, rewardState, userIndex, dust, surplus, funds, ledger, parts, healed>>
  BY DEF SetContributorRewardTokenSpeed
<1> HIDE DEF last
<1> QED BY <1>1, <1>2, <1>3, ContributorKeeps


-----------------------------------------------------------------------------
(* A slot passes *)

Rate(s) == IF Rewarding(s) THEN rewardState[s].speed ELSE 0

\* In a slot a side earns its speed, and everyone there at least his least part and at
\* most his most part of it.
LEMMA TickSide ==
    ASSUME Typed, Timely, slot' = slot + 1, UNCHANGED <<rewardState, userIndex, holding>>, NEW s \in Sides
    PROVE  /\ Rate(s) \in Nat
           /\ SideDue(s)' = DoubleScale * Rate(s) + SideDue(s)
           /\ \A u \in Accounts :
                /\ LeastPart(s, u) \in Nat /\ MostPart(s, u) \in Nat
                /\ LeastDue(s, u)' = LeastDue(s, u) + LeastPart(s, u)
                /\ MostDue(s, u)' = MostDue(s, u) + MostPart(s, u)
<1> DEFINE last == rewardState[s].lastRewardingBlock
           open == ~ (last > 0 /\ slot >= last)
           k == Elapsed(s)
           j == IF open THEN k + 1 ELSE k
           t == TotalHeld(s)
<1>1. /\ slot \in Nat /\ last \in Nat /\ rewardState[s].block \in Nat /\ rewardState[s].speed \in Nat
      /\ DoubleScale \in Nat /\ k \in Nat /\ t \in Nat /\ Speed(s) \in Nat /\ Unspent(s) \in Nat
      /\ Unspent(s) = k * Speed(s)
  BY SideFacts, BoundsAssumption DEF Typed, RewardState
<1>2. Elapsed(s)' = j
  <2>1. StopSlot(s) = (IF last > 0 /\ slot > last THEN last ELSE slot)
    BY DEF StopSlot
  <2>2. StopSlot(s)' = (IF last > 0 /\ slot + 1 > last THEN last ELSE slot + 1)
    BY DEF StopSlot
  <2>3. StopSlot(s)' = IF open THEN StopSlot(s) + 1 ELSE StopSlot(s)
    <3> DEFINE a == StopSlot(s)
               b == StopSlot(s)'
    <3> HIDE DEF a, b, last
    <3>1. a = (IF last > 0 /\ slot > last THEN last ELSE slot) /\ b = (IF last > 0 /\ slot + 1 > last THEN last ELSE slot + 1)
      BY <2>1, <2>2 DEF a, b, last
    <3>2. slot \in Nat /\ last \in Nat
      BY <1>1 DEF last
    <3>3. b = IF open THEN a + 1 ELSE a
      BY <3>1, <3>2
    <3> QED BY <3>3 DEF a, b, last
  <2>4. StopSlot(s) \in Nat
    BY SideFacts
  <2>5. Elapsed(s)' = StopSlot(s)' - rewardState[s].block
    BY DEF Elapsed
  <2> HIDE DEF open
  <2> QED BY <1>1, <2>3, <2>4, <2>5 DEF Elapsed
<1>3. TotalHeld(s)' = t /\ Speed(s)' = Speed(s)
  BY DEF TotalHeld, Speed
<1>4. \A u \in Accounts : Gained(s, u)' = Gained(s, u) /\ Gained(s, u) \in Nat
  BY GainedFacts DEF Gained, From, InitialIndex
<1>5. \A u \in Accounts :
        /\ LeastShare(s, u)' = LeastShare(s, u) /\ LeastShare(s, u) \in Nat
        /\ MostShare(s, u)' = MostShare(s, u) /\ MostShare(s, u) \in Nat
  <2>1. \A u \in Accounts : LeastShare(s, u) \in Nat /\ MostShare(s, u) \in Nat
    BY RatioFacts, Zenon
  <2>2. \A u \in Accounts : LeastShare(s, u)' = LeastShare(s, u) /\ MostShare(s, u)' = MostShare(s, u)
    BY <1>3 DEF LeastShare, MostShare
  <2> QED BY <2>1, <2>2
<1>6. Rewarding(s) <=> (t # 0 /\ open)
  BY DEF Rewarding
<1>7. \A u \in Accounts :
        /\ LeastPart(s, u) = IF open THEN LeastShare(s, u) ELSE 0
        /\ MostPart(s, u) = IF open THEN MostShare(s, u) ELSE 0
  BY <1>6 DEF LeastPart, MostPart, LeastShare, MostShare, Speed
<1>8. Rate(s) = (IF t # 0 /\ open THEN rewardState[s].speed ELSE 0) /\ Rate(s) \in Nat
  BY <1>1, <1>6 DEF Rate
<1> HIDE DEF open, t
<1>9. ASSUME NEW u \in Accounts
      PROVE  /\ LeastPart(s, u) \in Nat /\ MostPart(s, u) \in Nat
             /\ LeastDue(s, u)' = LeastDue(s, u) + LeastPart(s, u)
             /\ MostDue(s, u)' = MostDue(s, u) + MostPart(s, u)
  <2> DEFINE l == LeastShare(s, u)
             x == MostShare(s, u)
             g == Gained(s, u)
  <2>1. k \in Nat /\ l \in Nat /\ x \in Nat /\ g \in Nat
    BY <1>1, <1>4, <1>5
  <2>2. /\ LeastDue(s, u)' = g + j * l /\ MostDue(s, u)' = g + j * x
        /\ LeastDue(s, u) = g + k * l /\ MostDue(s, u) = g + k * x
    BY <1>2, <1>4, <1>5 DEF LeastDue, MostDue
  <2>3. LeastPart(s, u) = (IF open THEN l ELSE 0) /\ MostPart(s, u) = (IF open THEN x ELSE 0)
    BY <1>7
  <2> HIDE DEF k, l, x, g
  <2>4. (k + 1) * l = k * l + l /\ (k + 1) * x = k * x + x /\ k * l \in Nat /\ k * x \in Nat
    BY <2>1, SMT
  <2> QED BY <2>1, <2>2, <2>3, <2>4
<1>10. SideDue(s)' = DoubleScale * Rate(s) + SideDue(s)
  <2> DEFINE T == Total([u \in Accounts |-> Gained(s, u)], AccountCount)
             v == rewardState[s].speed
  <2>1. T \in Nat
    BY SideDueNat
  <2>2. [u \in Accounts |-> Gained(s, u)'] = [u \in Accounts |-> Gained(s, u)]
    BY <1>4
  <2>3. SideDue(s)' = T + (IF t = 0 THEN 0 ELSE Unspent(s)') /\ SideDue(s) = T + (IF t = 0 THEN 0 ELSE Unspent(s))
    BY <1>3, <2>2 DEF SideDue, t
  <2>4. Unspent(s)' = j * Speed(s) /\ Speed(s) = v * DoubleScale
    <3>1. Unspent(s)' = Elapsed(s)' * rewardState[s].speed * DoubleScale
      BY DEF Unspent, Elapsed
    <3>2. j \in Nat /\ v \in Nat
      BY <1>1
    <3> DEFINE i == j
    <3>3. Unspent(s)' = i * v * DoubleScale /\ i \in Nat /\ Speed(s) = v * DoubleScale
      BY <1>2, <3>1, <3>2 DEF Speed
    <3> HIDE DEF i, v
    <3>4. i * v * DoubleScale = i * (v * DoubleScale)
      BY <1>1, <3>2, <3>3, SMT
    <3> QED BY <3>3, <3>4 DEF i
  <2> HIDE DEF T, k, v
  <2>5. (k + 1) * Speed(s) = k * Speed(s) + Speed(s) /\ k * Speed(s) \in Nat
    BY <1>1, SMT
  <2>6. v \in Nat /\ DoubleScale * v = v * DoubleScale /\ DoubleScale * 0 = 0
    BY <1>1 DEF v
  <2>7. Rate(s) = IF t # 0 /\ open THEN v ELSE 0
    BY <1>8 DEF v
  <2> DEFINE w == Speed(s)
             un == Unspent(s)
  <2>8. w \in Nat /\ un \in Nat /\ un = k * w
    BY <1>1
  <2>9. /\ SideDue(s)' = T + (IF t = 0 THEN 0 ELSE IF open THEN un + w ELSE un)
        /\ SideDue(s) = T + (IF t = 0 THEN 0 ELSE un)
        /\ DoubleScale * Rate(s) = IF t # 0 /\ open THEN w ELSE 0
    BY <2>3, <2>4, <2>5, <2>6, <2>7, <2>8
  <2> HIDE DEF w, un
  <2> QED BY <2>1, <2>8, <2>9
<1> QED BY <1>8, <1>9, <1>10

LEMMA TickKeeps ==
    ASSUME IInv, Tick
    PROVE  IInv'
<1> DEFINE n == AccountCount
           cs(u) == contributors[u].speed
           leastSum(u) == SumOverSides([s \in Sides |-> LeastPart(s, u)])
           mostSum(u) == SumOverSides([s \in Sides |-> MostPart(s, u)])
           csAll == [u \in Accounts |-> contributors[u].speed]
           rates == [s \in Sides |-> Rate(s)]
<1>0. Typed /\ Timely /\ DoubleScale \in Nat /\ n \in Nat /\ slot \in Nat
  BY BoundsAssumption, AccountsAssumption DEF IInv, Typed
<1>1. /\ slot' = slot + 1
      /\ UNCHANGED <<rewardState, userIndex, accrued, dust, surplus, balance, paid, contributors, ledger, holding, healed>>
  BY LedgerKept DEF Tick, distribution, funds
<1>2. /\ least' = [u \in Accounts |-> least[u] + cs(u) * DoubleScale + leastSum(u)]
      /\ most' = [u \in Accounts |-> most[u] + cs(u) * DoubleScale + mostSum(u)]
      /\ emitted' = emitted + Total(csAll, n) + SumOverSides(rates)
  BY DEF Tick, Rate
<1>3. \A s \in Sides :
        /\ Rate(s) \in Nat
        /\ SideDue(s)' = DoubleScale * Rate(s) + SideDue(s)
        /\ \A u \in Accounts :
             /\ LeastPart(s, u) \in Nat /\ MostPart(s, u) \in Nat
             /\ LeastDue(s, u)' = LeastDue(s, u) + LeastPart(s, u)
             /\ MostDue(s, u)' = MostDue(s, u) + MostPart(s, u)
  BY <1>0, <1>1, TickSide
<1>4. \A u \in Accounts : cs(u) \in Nat
  BY <1>0 DEF Typed, Contributor
<1>5. \A u \in Accounts : leastSum(u) \in Nat /\ mostSum(u) \in Nat
  <2> SUFFICES ASSUME NEW u \in Accounts PROVE leastSum(u) \in Nat /\ mostSum(u) \in Nat
    OBVIOUS
  <2> DEFINE f == [s \in Sides |-> LeastPart(s, u)]
             g == [s \in Sides |-> MostPart(s, u)]
  <2>1. f \in [Sides -> Nat] /\ g \in [Sides -> Nat]
    BY <1>3
  <2> HIDE DEF f, g
  <2>2. SumOverSides(f) \in Nat /\ SumOverSides(g) \in Nat
    BY <2>1, SidesNat
  <2> QED BY <2>2 DEF f, g
<1>6. csAll \in [1 .. n -> Nat] /\ rates \in [Sides -> Nat]
  BY <1>3, <1>4 DEF Accounts
<1> HIDE DEF cs, leastSum, mostSum, csAll, rates
<1>7. Total(csAll, n) \in Nat /\ SumOverSides(rates) \in Nat
  BY <1>0, <1>6, TotalNat, SidesNat
<1>8. \A u \in Accounts :
        /\ least[u] \in Nat /\ most[u] \in Nat /\ cs(u) * DoubleScale \in Nat
        /\ DoubleScale * cs(u) = cs(u) * DoubleScale
  BY <1>0, <1>4, Product DEF Typed
<1>9. Typed'
  <2>1. \A u \in Accounts : /\ least[u] + cs(u) * DoubleScale + leastSum(u) \in Nat
                            /\ most[u] + cs(u) * DoubleScale + mostSum(u) \in Nat
    BY <1>5, <1>8
  <2>2. least' \in [Accounts -> Nat] /\ most' \in [Accounts -> Nat]
    BY <1>2, <2>1
  <2>3. emitted' \in Nat
    BY <1>0, <1>2, <1>7 DEF Typed
  <2>4. slot' \in Nat \ {0}
    BY <1>0, <1>1
  <2>5. Lent'
    BY <1>0, <1>1, LedgerKept DEF Typed
  <2> QED BY <1>0, <1>1, <2>2, <2>3, <2>4, <2>5 DEF Typed
<1>10. Timely'
  <2>1. \A s \in Sides : rewardState[s].block \in Nat /\ rewardState[s].block <= slot
    BY <1>0 DEF Typed, Timely, RewardState
  <2>2. \A u \in Accounts : contributors[u].lastBlock \in Nat /\ contributors[u].lastBlock <= slot
    BY <1>0 DEF Typed, Timely, Contributor
  <2>3. \A s \in Sides : rewardState'[s].block <= slot'
    BY <1>0, <1>1, <2>1
  <2>4. \A u \in Accounts : contributors'[u].lastBlock <= slot'
    BY <1>0, <1>1, <2>2
  <2> QED BY <1>0, <1>1, <2>3, <2>4 DEF Timely, InitialIndex
<1>11. ASSUME NEW u \in Accounts
       PROVE  Booked(u)' = Booked(u) + cs(u) /\ Booked(u) \in Nat /\ Booked(u)' \in Nat
  <2> DEFINE e == slot - contributors[u].lastBlock
  <2>1. contributors[u].lastBlock \in Nat /\ contributors[u].lastBlock <= slot
    BY <1>0 DEF Typed, Timely, Contributor
  <2>2. e \in Nat /\ (slot + 1) - contributors[u].lastBlock = e + 1
    BY <1>0, <2>1
  <2>3. ContributorDue(u)' = (e + 1) * cs(u) /\ ContributorDue(u) = e * cs(u)
    BY <1>1, <2>2 DEF ContributorDue, cs
  <2> HIDE DEF e
  <2>4. cs(u) \in Nat
    BY <1>4
  <2>5. (e + 1) * cs(u) = e * cs(u) + cs(u) /\ e * cs(u) \in Nat
    <3> DEFINE c == cs(u)
    <3> HIDE DEF c
    <3>1. c \in Nat
      BY <2>4 DEF c
    <3>2. (e + 1) * c = e * c + c /\ e * c \in Nat
      BY <2>2, <3>1, SMT
    <3> QED BY <3>2 DEF c
  <2>6. paid[u] \in Nat /\ accrued[u] \in Nat
    BY <1>0 DEF Typed
  <2> QED BY <1>1, <2>3, <2>4, <2>5, <2>6 DEF Booked
<1>12. AmountsNat /\ AmountsNat'
  BY <1>0, <1>9, <1>10, AmountsAreNat, AmountsNext
<1>13. ASSUME NEW u \in Accounts
       PROVE  DoubleScale * Booked(u)' = DoubleScale * Booked(u) + cs(u) * DoubleScale /\ DoubleScale * Booked(u) \in Nat
  <2>1. Booked(u)' = Booked(u) + cs(u) /\ Booked(u) \in Int /\ cs(u) \in Int /\ DoubleScale \in Int /\ Booked(u) \in Nat
    BY <1>0, <1>4, <1>11
  <2>2. DoubleScale * (Booked(u) + cs(u)) = DoubleScale * Booked(u) + DoubleScale * cs(u)
    BY <2>1, Distributed, Zenon
  <2> QED BY <1>0, <1>8, <2>1, <2>2, Product
<1>14. NobodyShort'
  <2> SUFFICES ASSUME NEW u \in Accounts, u \notin healed'
               PROVE  least'[u] <= DoubleScale * Booked(u)' + dust'[u] + SumOverSides([s \in Sides |-> LeastDue(s, u)'])
    BY DEF NobodyShort
  <2> DEFINE old == [s \in Sides |-> LeastDue(s, u)]
             part == [s \in Sides |-> LeastPart(s, u)]
             new == [s \in Sides |-> LeastDue(s, u)']
  <2>1. old \in [Sides -> Int] /\ part \in [Sides -> Int] /\ new \in [Sides -> Int]
    BY <1>3, <1>12 DEF AmountsNat
  <2>2. \A s \in Sides : new[s] = old[s] + part[s]
    BY <1>3
  <2>3. least[u] <= DoubleScale * Booked(u) + dust[u] + SumOverSides(old) /\ dust[u] \in Nat
    BY <1>0, <1>1 DEF IInv, NobodyShort, Typed
  <2>4. leastSum(u) = SumOverSides(part)
    BY DEF leastSum
  <2> HIDE DEF old, part, new
  <2>5. SumOverSides(new) = SumOverSides(old) + SumOverSides(part) /\ SumOverSides(old) \in Int
    BY <2>1, <2>2, SidesAdded, PerMarketType
  <2>6. least'[u] = least[u] + cs(u) * DoubleScale + leastSum(u) /\ dust'[u] = dust[u]
    BY <1>1, <1>2
  <2>7. least'[u] <= DoubleScale * Booked(u)' + dust'[u] + SumOverSides(new)
    BY <1>5, <1>8, <1>13, <2>3, <2>4, <2>5, <2>6
  <2> QED BY <2>7 DEF new
<1>15. NobodyAhead'
  <2> SUFFICES ASSUME healed' = {}, NEW u \in Accounts
               PROVE  DoubleScale * Booked(u)' + SumOverSides([s \in Sides |-> MostDue(s, u)']) <= most'[u] + surplus'
    BY DEF NobodyAhead
  <2> DEFINE old == [s \in Sides |-> MostDue(s, u)]
             part == [s \in Sides |-> MostPart(s, u)]
             new == [s \in Sides |-> MostDue(s, u)']
  <2>1. old \in [Sides -> Int] /\ part \in [Sides -> Int] /\ new \in [Sides -> Int]
    BY <1>3, <1>12 DEF AmountsNat
  <2>2. \A s \in Sides : new[s] = old[s] + part[s]
    BY <1>3
  <2>3. DoubleScale * Booked(u) + SumOverSides(old) <= most[u] + surplus /\ surplus \in Nat
    BY <1>0, <1>1 DEF IInv, NobodyAhead, Typed
  <2>4. mostSum(u) = SumOverSides(part)
    BY DEF mostSum
  <2> HIDE DEF old, part, new
  <2>5. SumOverSides(new) = SumOverSides(old) + SumOverSides(part) /\ SumOverSides(old) \in Int
    BY <2>1, <2>2, SidesAdded, PerMarketType
  <2>6. most'[u] = most[u] + cs(u) * DoubleScale + mostSum(u) /\ surplus' = surplus
    BY <1>1, <1>2
  <2>7. DoubleScale * Booked(u)' + SumOverSides(new) <= most'[u] + surplus'
    BY <1>5, <1>8, <1>13, <2>3, <2>4, <2>5, <2>6
  <2> QED BY <2>7 DEF new
<1>16. AllCovered'
  <2> DEFINE b == [u \in Accounts |-> Booked(u)]
             c == [u \in Accounts |-> Booked(u)']
             old == [s \in Sides |-> SideDue(s)]
             new == [s \in Sides |-> SideDue(s)']
  <2>1. /\ b \in [1 .. n -> Int] /\ c \in [1 .. n -> Int] /\ csAll \in [1 .. n -> Int]
        /\ old \in [Sides -> Int] /\ new \in [Sides -> Int] /\ rates \in [Sides -> Int]
    BY <1>6, <1>11, <1>12 DEF AmountsNat, Accounts
  <2>2. \A u \in 1 .. n : c[u] = b[u] + csAll[u]
    BY <1>11 DEF csAll, cs, Accounts
  <2>3. \A s \in Sides : new[s] <= DoubleScale * rates[s] + old[s]
    <3> SUFFICES ASSUME NEW s \in Sides PROVE new[s] <= DoubleScale * rates[s] + old[s]
      OBVIOUS
    <3>1. SideDue(s)' = DoubleScale * rates[s] + SideDue(s) /\ SideDue(s)' \in Nat
      BY <1>3, <1>12 DEF rates, AmountsNat
    <3> QED BY <3>1
  <2>4. /\ DoubleScale * Total(b, n) + SumOverSides(old) <= DoubleScale * emitted + surplus
        /\ emitted \in Nat /\ surplus \in Nat /\ surplus' = surplus
    BY <1>0, <1>1 DEF IInv, AllCovered, Typed
  <2> HIDE DEF b, c, old, new
  <2>5. Total(c, n) = Total(b, n) + Total(csAll, n) /\ Total(b, n) \in Int
    BY <1>0, <2>1, <2>2, TotalAdded, TotalType, ZenonT(60)
  <2>6. SumOverSides(new) <= DoubleScale * SumOverSides(rates) + SumOverSides(old)
    <3>1. DoubleScale \in Int
      BY <1>0
    <3> QED BY <2>1, <2>3, <3>1, SidesCovered, ZenonT(60)
  <2>7. SumOverSides(new) \in Int /\ SumOverSides(old) \in Int
    BY <2>1, PerMarketType
  <2> DEFINE d == DoubleScale
             B == Total(b, n)
             C == Total(csAll, n)
             R == SumOverSides(rates)
             E == emitted
  <2>8. d \in Nat /\ B \in Int /\ C \in Nat /\ R \in Nat /\ E \in Nat
    BY <1>0, <1>7, <2>4, <2>5
  <2> HIDE DEF d, B, C, R, E
  <2>9. d * (B + C) = d * B + d * C /\ d * (E + C + R) = d * E + d * C + d * R
    BY <2>8, SMT
  <2>10. d * B \in Int /\ d * C \in Int /\ d * R \in Int /\ d * E \in Int
    BY <2>8, SMT
  <2>11. d * B + SumOverSides(old) <= d * E + surplus /\ SumOverSides(new) <= d * R + SumOverSides(old)
    BY <2>4, <2>6 DEF d, B, R, E
  <2>12. d * (B + C) + SumOverSides(new) <= d * (E + C + R) + surplus
    BY <2>4, <2>7, <2>9, <2>10, <2>11
  <2>13. DoubleScale * Total(c, n) + SumOverSides(new) <= DoubleScale * emitted' + surplus'
    BY <1>2, <2>4, <2>5, <2>12, Zenon DEF d, B, C, R, E
  <2> QED BY <2>13, Zenon DEF AllCovered, c, new
<1> QED BY <1>9, <1>10, <1>14, <1>15, <1>16 DEF IInv


-----------------------------------------------------------------------------
(* The theorems *)

LEMMA InitIInv == Init => IInv
<1> SUFFICES ASSUME Init PROVE IInv
  OBVIOUS
<1> DEFINE n == AccountCount
<1>0. n \in Nat /\ FirstHolding \in [Sides -> [Accounts -> Nat]] /\ DoubleScale \in Nat \ {0}
  BY AccountsAssumption, BoundsAssumption
<1>1. /\ slot = 1 /\ emitted = 0 /\ healed = {} /\ surplus = 0
      /\ rewardState = [s \in Sides |-> [index |-> DoubleScale, block |-> 1, lastRewardingBlock |-> 0, speed |-> 0]]
      /\ userIndex = [s \in Sides |-> [u \in Accounts |-> 0]]
      /\ contributors = [u \in Accounts |-> [speed |-> 0, lastBlock |-> 0]]
      /\ accrued = [u \in Accounts |-> 0] /\ paid = [u \in Accounts |-> 0] /\ dust = [u \in Accounts |-> 0]
      /\ least = [u \in Accounts |-> 0] /\ most = [u \in Accounts |-> 0]
  BY DEF Init, ForEach, InitialIndex
<1>l. Lent
  <2>1. /\ tokens = [m \in Markets |-> FirstHolding[SupplyOf(m)]]
        /\ loans = [m \in Markets |-> [u \in Accounts |->
             [principal |-> FirstHolding[BorrowOf(m)][u],
              interestIndex |-> IF FirstHolding[BorrowOf(m)][u] = 0 THEN 0 ELSE EXP_SCALE]]]
        /\ market = [m \in Markets |->
             [borrowIndex |-> EXP_SCALE, totalBorrows |-> Total(FirstHolding[BorrowOf(m)], n), accrualBlockNumber |-> 1]]
    BY DEF Init
  <2>2. \A m \in Markets : FirstHolding[SupplyOf(m)] \in [Accounts -> Nat] /\ FirstHolding[BorrowOf(m)] \in [Accounts -> Nat]
    BY <1>0, SidesAre
  <2>3. \A m \in Markets : Total(FirstHolding[BorrowOf(m)], n) \in Nat
    BY <1>0, <2>2, TotalNat DEF Accounts
  <2>4. EXP_SCALE \in Nat \ {0}
    BY ExpScaleAssumption
  <2>5. tokens \in [Markets -> [Accounts -> Nat]]
    BY <2>1, <2>2
  <2>6. loans \in [Markets -> [Accounts -> Loan]]
    BY <2>1, <2>2, <2>4 DEF Loan
  <2>7. market \in [Markets -> MarketState] /\ \A m \in Markets : market[m].borrowIndex >= EXP_SCALE
    BY <2>1, <2>3, <2>4 DEF MarketState
  <2>8. \A m \in Markets : \A u \in Accounts : loans[m][u].principal # 0 => loans[m][u].interestIndex # 0
    BY <2>1, <2>4
  <2> QED BY <2>5, <2>6, <2>7, <2>8 DEF Lent
<1>2. Typed
  BY <1>0, <1>1, <1>l, LentHolds DEF Typed, RewardState, Contributor
<1>3. Timely
  BY <1>0, <1>1 DEF Timely, InitialIndex
<1>4. AmountsNat
  BY <1>2, <1>3, AmountsAreNat
<1>5. \A u \in Accounts : Booked(u) = 0
  <2>1. \A u \in Accounts : ContributorDue(u) = (1 - 0) * 0
    BY <1>1 DEF ContributorDue
  <2> QED BY <1>1, <2>1 DEF Booked
<1>6. \A s \in Sides : Elapsed(s) = 0
  BY <1>1 DEF Elapsed, StopSlot
<1>7. \A s \in Sides : \A u \in Accounts : Gained(s, u) = 0
  <2>1. \A s \in Sides : \A u \in Accounts : From(s, u) = DoubleScale /\ rewardState[s].index = DoubleScale
    BY <1>1 DEF From, InitialIndex
  <2>2. \A s \in Sides : \A u \in Accounts : Gained(s, u) = holding[s][u] * (DoubleScale - DoubleScale) /\ holding[s][u] \in Nat
    BY <1>4, <2>1 DEF Gained, AmountsNat
  <2>3. DoubleScale - DoubleScale = 0
    BY <1>0
  <2> QED BY <2>2, <2>3
<1>8. \A s \in Sides : \A u \in Accounts : LeastDue(s, u) = 0 /\ MostDue(s, u) = 0
  <2>1. \A s \in Sides : \A u \in Accounts : LeastShare(s, u) \in Nat /\ MostShare(s, u) \in Nat
    BY <1>4 DEF AmountsNat
  <2>2. \A s \in Sides : \A u \in Accounts : LeastDue(s, u) = 0 + 0 * LeastShare(s, u) /\ MostDue(s, u) = 0 + 0 * MostShare(s, u)
    BY <1>6, <1>7 DEF LeastDue, MostDue
  <2> QED BY <2>1, <2>2
<1>9. \A s \in Sides : SideDue(s) = 0
  <2> SUFFICES ASSUME NEW s \in Sides PROVE SideDue(s) = 0
    OBVIOUS
  <2>1. [u \in Accounts |-> Gained(s, u)] = [i \in 1 .. n |-> 0]
    BY <1>7 DEF Accounts
  <2>2. Total([u \in Accounts |-> Gained(s, u)], n) = 0
    BY <1>0, <2>1, TotalZero
  <2>3. Unspent(s) = 0
    <3>1. Unspent(s) = Elapsed(s) * Speed(s) /\ Speed(s) \in Nat
      BY <1>4 DEF AmountsNat
    <3> QED BY <1>6, <3>1
  <2> QED BY <2>2, <2>3 DEF SideDue
<1> DEFINE zero == [s \in Sides |-> 0]
<1>10. SumOverSides(zero) = 0
  <2>1. zero \in [Sides -> Int] /\ \A s \in Sides : zero[s] = 0
    OBVIOUS
  <2> HIDE DEF zero
  <2> QED BY <2>1, SidesZero
<1>11. /\ \A u \in Accounts : [s \in Sides |-> LeastDue(s, u)] = zero /\ [s \in Sides |-> MostDue(s, u)] = zero
       /\ [s \in Sides |-> SideDue(s)] = zero
  BY <1>8, <1>9
<1> HIDE DEF zero
<1>12. Total([u \in Accounts |-> Booked(u)], AccountCount) = 0
  <2>1. [u \in Accounts |-> Booked(u)] = [i \in 1 .. n |-> 0]
    BY <1>5 DEF Accounts
  <2> QED BY <1>0, <2>1, TotalZero
<1>13. DoubleScale * 0 = 0
  BY <1>0
<1>14. NobodyShort
  BY <1>1, <1>5, <1>10, <1>11, <1>13 DEF NobodyShort
<1>15. NobodyAhead
  BY <1>1, <1>5, <1>10, <1>11, <1>13 DEF NobodyAhead
<1>16. AllCovered
  BY <1>1, <1>10, <1>11, <1>12, <1>13 DEF AllCovered
<1> QED BY <1>2, <1>3, <1>14, <1>15, <1>16 DEF IInv

LEMMA NextIInv == IInv /\ [Next]_vars => IInv'
<1> SUFFICES ASSUME IInv, [Next]_vars PROVE IInv'
  OBVIOUS
<1>1. CASE Next
  <2>1. ASSUME NEW m \in Markets, OnMarket(m) PROVE IInv'
    <3>0. /\ \A u \in Accounts : tokens[m][u] \in Nat /\ Owed(m, u) \in Nat
          /\ market[m].totalBorrows \in Nat /\ Amounts \subseteq Nat
      BY InputsAssumption, OwedNat DEF IInv, Typed, Lent, MarketState
    <3>1. ASSUME NEW u \in Accounts, NEW n \in Amounts, Mint(m, u, n) \/ Redeem(m, u, n) \/ Borrow(m, u, n)
          PROVE  IInv'
      <4>1. n \in Nat
        BY <3>0
      <4>2. CASE Mint(m, u, n)
        <5>1. tokens[m][u] + n \in Nat
          BY <3>0, <4>1
        <5> QED BY <4>2, <5>1, SuppliedKeeps DEF Mint
      <4>3. CASE Redeem(m, u, n)
        <5>1. tokens[m][u] - n \in Nat
          BY <3>0, <4>1, <4>3 DEF Redeem
        <5> QED BY <4>3, <5>1, SuppliedKeeps DEF Redeem
      <4>4. CASE Borrow(m, u, n)
        <5>1. Owed(m, u) + n \in Nat /\ market[m].totalBorrows + n \in Nat
          BY <3>0, <4>1
        <5> QED BY <4>4, <5>1, OwingKeeps DEF Borrow
      <4> QED BY <3>1, <4>2, <4>3, <4>4
    <3>7. ASSUME NEW u \in Accounts, NEW n \in Amounts \cup {Owed(m, u)}, RepayBorrow(m, u, n)
          PROVE  IInv'
      <4>1. n \in Nat
        BY <3>0
      <4>2. Owed(m, u) - n \in Nat /\ market[m].totalBorrows - n \in Nat
        BY <3>0, <3>7, <4>1 DEF RepayBorrow
      <4> QED BY <3>7, <4>2, OwingKeeps DEF RepayBorrow
    <3>8. ASSUME NEW factor \in Factors, AccrueInterest(m, factor) PROVE IInv'
      BY <3>8, AccrueInterestKeeps
    <3>2. ASSUME NEW u \in Accounts, NEW v \in Accounts, NEW n \in Amounts, Transfer(m, u, v, n)
          PROVE  IInv'
      <4>1. n \in Nat /\ 0 \in Nat /\ Move(m, u, v, n, 0)
        BY <3>2, InputsAssumption DEF Transfer
      <4> QED BY <4>1, MoveKeeps
    <3>3. ASSUME NEW u \in Accounts, NEW v \in Accounts, NEW n \in Amounts, NEW burnt \in Amounts,
                 Seize(m, u, v, n, burnt)
          PROVE  IInv'
      <4>1. n \in Nat /\ burnt \in Nat /\ Move(m, u, v, n, burnt)
        BY <3>3, InputsAssumption DEF Seize
      <4> QED BY <4>1, MoveKeeps
    <3>4. ASSUME NEW u \in Accounts, HealBorrow(m, u) PROVE IInv'
      BY <3>4, HealBorrowKeeps
    <3>5. ASSUME NEW x \in Speeds, NEW y \in Speeds, SetRewardTokenSpeeds(m, x, y) PROVE IInv'
      BY <3>5, SetSpeedsKeeps
    <3>6. ASSUME NEW x \in 1 .. MaxSlot, NEW y \in 1 .. MaxSlot, SetLastRewarding(m, x, y) PROVE IInv'
      BY <3>6, SetLastRewardingKeeps
    <3> QED BY <2>1, <3>1, <3>2, <3>3, <3>4, <3>5, <3>6, <3>7, <3>8, Zenon DEF OnMarket
  <2>2. ASSUME NEW u \in Accounts, NEW ms \in SUBSET Markets, ClaimRewardToken(u, ms) PROVE IInv'
    BY <2>2, ClaimKeeps
  <2>3. ASSUME NEW u \in Accounts, UpdateContributorRewards(u) PROVE IInv'
    BY <2>3, UpdateContributorKeeps
  <2>4. ASSUME NEW u \in Accounts, NEW speed \in Speeds, SetContributorRewardTokenSpeed(u, speed) PROVE IInv'
    BY <2>4, SetContributorKeeps
  <2>5. ASSUME NEW amount \in Fundings, Fund(amount) \/ GrantRewardToken(amount) PROVE IInv'
    <3>1. UNCHANGED <<slot, distribution, paid, contributors, ledger, parts, healed>>
      BY <2>5 DEF Fund, GrantRewardToken
    <3> QED BY <3>1, FundsKeep
  <2>6. ASSUME Tick PROVE IInv'
    BY <2>6, TickKeeps
  <2> QED BY <1>1, <2>1, <2>2, <2>3, <2>4, <2>5, <2>6, Zenon DEF Next
<1>2. CASE UNCHANGED vars
  <2>1. UNCHANGED <<slot, distribution, paid, contributors, ledger, parts, healed>>
    BY <1>2 DEF vars, funds
  <2> QED BY <2>1, FundsKeep
<1> QED BY <1>1, <1>2

THEOREM SpecIInv == Spec => []IInv
BY InitIInv, NextIInv, PTL DEF Spec

\* No hook ever reverts for the order in which it is called, and whoever holds gets his part
\* of the speeds: less only by what indices, ratios and shares are truncated, and more only
\* where the markets owe more than they report (RewardsDistributor.sol's indices:
\* updateRewardTokenSupplyIndex to distributeBorrowerRewardToken).
THEOREM SpecRewardsFollowHoldings == Spec => []RewardsFollowHoldings
<1>1. IInv => RewardsFollowHoldings
  <2> SUFFICES ASSUME IInv PROVE RewardsFollowHoldings
    OBVIOUS
  <2>0. Typed /\ Timely /\ NobodyShort /\ NobodyAhead /\ DoubleScale \in Nat
    BY BoundsAssumption DEF IInv
  <2>1. \A s \in Sides : CanUpdate(s)
    BY <2>0, SideFacts
  <2>2. ASSUME NEW u \in Accounts
        PROVE  Rewarded(u) = DoubleScale * Booked(u) + SumOverSides([s \in Sides |-> EarnedUnits(s, u)])
    <3>1. Booked(u) \in Nat
      BY <2>0, BookedNat
    <3>2. Booked(u) * DoubleScale = DoubleScale * Booked(u)
      BY <2>0, <3>1
    <3> QED BY <3>2 DEF Rewarded, Booked
  <2>3. ASSUME NEW u \in Accounts
        PROVE  \A s \in Sides : /\ LeastDue(s, u) \in Nat /\ MostDue(s, u) \in Nat
                                /\ EarnedUnits(s, u) \in Nat /\ UpdateLoss(s, u) + ReadingLoss(s, u) \in Nat
                                /\ LeastDue(s, u) <= EarnedUnits(s, u) + (UpdateLoss(s, u) + ReadingLoss(s, u))
                                /\ EarnedUnits(s, u) <= MostDue(s, u) + UpdateGain(s) /\ UpdateGain(s) \in Nat
    <3> SUFFICES ASSUME NEW s \in Sides
                 PROVE  /\ LeastDue(s, u) \in Nat /\ MostDue(s, u) \in Nat
                        /\ EarnedUnits(s, u) \in Nat /\ UpdateLoss(s, u) + ReadingLoss(s, u) \in Nat
                        /\ LeastDue(s, u) <= EarnedUnits(s, u) + (UpdateLoss(s, u) + ReadingLoss(s, u))
                        /\ EarnedUnits(s, u) <= MostDue(s, u) + UpdateGain(s) /\ UpdateGain(s) \in Nat
      OBVIOUS
    <3>1. /\ LeastDue(s, u) \in Nat /\ MostDue(s, u) \in Nat
          /\ LeastDue(s, u) <= HeldUnits(s, u) + UpdateLoss(s, u)
          /\ HeldUnits(s, u) <= MostDue(s, u) + UpdateGain(s)
          /\ UpdateLoss(s, u) \in Nat /\ UpdateGain(s) \in Nat
      BY <2>0, DueFacts
    <3>2. /\ EarnedUnits(s, u) \in Nat /\ HeldUnits(s, u) \in Nat /\ ReadingLoss(s, u) \in Nat
          /\ EarnedUnits(s, u) <= HeldUnits(s, u) /\ HeldUnits(s, u) <= EarnedUnits(s, u) + ReadingLoss(s, u)
      BY <2>0, GainedFacts
    <3> QED BY <3>1, <3>2
  <2>4. ASSUME NEW u \in Accounts, u \notin healed
        PROVE  least[u] <= Rewarded(u) + dust[u] + SumOverSides([s \in Sides |-> UpdateLoss(s, u) + ReadingLoss(s, u)])
    <3> DEFINE f == [s \in Sides |-> LeastDue(s, u)]
               g == [s \in Sides |-> EarnedUnits(s, u)]
               h == [s \in Sides |-> UpdateLoss(s, u) + ReadingLoss(s, u)]
    <3>1. /\ f \in [Sides -> Int] /\ g \in [Sides -> Int] /\ h \in [Sides -> Int]
      BY <2>3
    <3>2. PICK i \in Int : i = 1
      OBVIOUS
    <3>3. \A s \in Sides : f[s] <= i * g[s] + h[s]
      BY <2>3, <3>2
    <3>4. /\ least[u] <= DoubleScale * Booked(u) + dust[u] + SumOverSides(f)
          /\ least[u] \in Nat /\ dust[u] \in Nat
      BY <2>0, <2>4 DEF NobodyShort, Typed
    <3>5. DoubleScale * Booked(u) \in Nat
      BY <2>0, BookedNat, Product
    <3>6. Rewarded(u) = DoubleScale * Booked(u) + SumOverSides(g)
      BY <2>2
    <3> HIDE DEF f, g, h
    <3>7. SumOverSides(f) <= i * SumOverSides(g) + SumOverSides(h)
      BY <3>1, <3>3, SidesCovered
    <3>8. SumOverSides(f) \in Int /\ SumOverSides(g) \in Int /\ SumOverSides(h) \in Int
      BY <3>1, PerMarketType
    <3>9. least[u] <= Rewarded(u) + dust[u] + SumOverSides(h)
      BY <3>2, <3>4, <3>5, <3>6, <3>7, <3>8
    <3> QED BY <3>9 DEF h
  <2>5. ASSUME healed = {}, NEW u \in Accounts
        PROVE  Rewarded(u) <= most[u] + Surplus
    <3> DEFINE f == [s \in Sides |-> MostDue(s, u)]
               g == [s \in Sides |-> EarnedUnits(s, u)]
               o == [s \in Sides |-> UpdateGain(s)]
    <3>1. f \in [Sides -> Int] /\ g \in [Sides -> Int] /\ o \in [Sides -> Int]
      BY <2>3
    <3>2. PICK i \in Int : i = 1
      OBVIOUS
    <3>3. \A s \in Sides : g[s] <= i * f[s] + o[s]
      BY <2>3, <3>2
    <3>4. DoubleScale * Booked(u) + SumOverSides(f) <= most[u] + surplus /\ most[u] \in Nat /\ surplus \in Nat
      BY <2>0, <2>5 DEF NobodyAhead, Typed
    <3>5. DoubleScale * Booked(u) \in Nat
      BY <2>0, BookedNat, Product
    <3>6. Rewarded(u) = DoubleScale * Booked(u) + SumOverSides(g) /\ Surplus = surplus + SumOverSides(o)
      BY <2>2 DEF Surplus
    <3> HIDE DEF f, g, o
    <3>7. SumOverSides(g) <= i * SumOverSides(f) + SumOverSides(o)
      BY <3>1, <3>3, SidesCovered
    <3>8. SumOverSides(f) \in Int /\ SumOverSides(g) \in Int /\ SumOverSides(o) \in Int
      BY <3>1, PerMarketType
    <3> QED BY <3>2, <3>4, <3>5, <3>6, <3>7, <3>8
  <2> QED BY <2>1, <2>4, <2>5 DEF RewardsFollowHoldings
<1> QED BY <1>1, SpecIInv, PTL

\* Whatever is truncated, healed, granted or left unpaid, nobody's rewards come out of what
\* another has earned: together they exceed what the speeds have emitted by no more than the
\* updates gave on debts missing from the total (RewardsDistributor.sol:653).
THEOREM SpecRewardsWithinEmission == Spec => []RewardsWithinEmission
<1>1. IInv => RewardsWithinEmission
  <2> SUFFICES ASSUME IInv PROVE RewardsWithinEmission
    OBVIOUS
  <2> DEFINE n == AccountCount
             g == [s \in Sides |-> [u \in Accounts |-> EarnedUnits(s, u)]]
             b == [u \in Accounts |-> Booked(u)]
             r == [u \in Accounts |-> Rewarded(u)]
             e == Transposed(g)
             side == [s \in Sides |-> SideDue(s)]
             o == [s \in Sides |-> UpdateGain(s)]
  <2>0. /\ Typed /\ Timely /\ AllCovered /\ DoubleScale \in Nat /\ n \in Nat /\ emitted \in Nat /\ surplus \in Nat
    BY BoundsAssumption, AccountsAssumption DEF IInv, Typed
  <2>1. \A s \in Sides : \A u \in Accounts :
          /\ EarnedUnits(s, u) \in Nat /\ Gained(s, u) \in Nat /\ holding[s][u] \in Nat
          /\ EarnedUnits(s, u) <= Gained(s, u) + holding[s][u] * Ratio(s)
    BY <2>0, GainedFacts DEF HeldUnits
  <2>2. g \in [Sides -> [Accounts -> Int]]
    BY <2>1
  <2>3. /\ e \in [1 .. n -> Int] /\ Totals(g) \in [Sides -> Int]
        /\ Total(e, n) = SumOverSides(Totals(g))
    <3> HIDE DEF g
    <3> QED BY <2>2, SumsExchanged
  <2>4. \A u \in Accounts : Booked(u) \in Nat
    BY <2>0, BookedNat
  <2>5. b \in [1 .. n -> Int]
    BY <2>4 DEF Accounts
  <2>6. \A u \in Accounts : r[u] = DoubleScale * b[u] + e[u]
    <3> SUFFICES ASSUME NEW u \in Accounts PROVE r[u] = DoubleScale * b[u] + e[u]
      OBVIOUS
    <3>1. e[u] = SumOverSides([s \in Sides |-> g[s][u]])
      BY DEF Transposed
    <3>2. [s \in Sides |-> g[s][u]] = [s \in Sides |-> EarnedUnits(s, u)]
      OBVIOUS
    <3>3. Booked(u) * DoubleScale = DoubleScale * Booked(u)
      BY <2>0, <2>4
    <3>4. r[u] = Booked(u) * DoubleScale + SumOverSides([s \in Sides |-> EarnedUnits(s, u)])
      BY DEF Rewarded, Booked
    <3> HIDE DEF g, e, r
    <3> QED BY <3>1, <3>2, <3>3, <3>4
  <2>7. ASSUME NEW s \in Sides
        PROVE  Totals(g)[s] <= SideDue(s) + UpdateGain(s) /\ SideDue(s) \in Nat /\ UpdateGain(s) \in Nat
    <3> DEFINE E == [u \in Accounts |-> EarnedUnits(s, u)]
               G == [u \in Accounts |-> Gained(s, u)]
               H == holding[s]
    <3>1. Totals(g)[s] = Total(E, n)
      BY DEF Totals
    <3>2. E \in [1 .. n -> Int] /\ G \in [1 .. n -> Int] /\ H \in [1 .. n -> Int]
      BY <2>0, <2>1 DEF Accounts, Typed
    <3>3. /\ Ratio(s) \in Nat /\ UpdateGain(s) \in Nat
          /\ Ratio(s) * TotalHeld(s) <= (IF TotalHeld(s) = 0 THEN 0 ELSE Unspent(s)) + UpdateGain(s)
      BY <2>0, RatioFacts, Zenon
    <3>4. PICK i \in Int, z \in Int : i = 1 /\ z = 0
      OBVIOUS
    <3>5. \A u \in 1 .. n : i * E[u] + z * E[u] <= i * G[u] + Ratio(s) * H[u]
      <4> SUFFICES ASSUME NEW u \in Accounts PROVE i * E[u] + z * E[u] <= i * G[u] + Ratio(s) * H[u]
        BY DEF Accounts
      <4>1. E[u] <= G[u] + H[u] * Ratio(s) /\ E[u] \in Nat /\ G[u] \in Nat /\ H[u] \in Nat
        BY <2>1
      <4>2. H[u] * Ratio(s) = Ratio(s) * H[u] /\ Ratio(s) * H[u] \in Nat
        BY <3>3, <4>1, Product
      <4> HIDE DEF E, G, H
      <4> QED BY <3>4, <4>1, <4>2
    <3>6. /\ SideDue(s) = Total(G, n) + (IF TotalHeld(s) = 0 THEN 0 ELSE Unspent(s))
          /\ TotalHeld(s) = Total(H, n) /\ Unspent(s) \in Nat /\ SideDue(s) \in Nat
      BY <2>0, SideFacts, SideDueNat DEF SideDue, TotalHeld
    <3> HIDE DEF E, G, H
    <3>7. i * Total(E, n) + z * Total(E, n) <= i * Total(G, n) + Ratio(s) * Total(H, n)
      <4>1. Ratio(s) \in Int
        BY <3>3
      <4> QED BY <2>0, <3>2, <3>4, <3>5, <4>1, TotalsCompared, ZenonT(60)
    <3>8. Total(E, n) \in Int /\ Total(G, n) \in Int /\ Total(H, n) \in Int
      BY <2>0, <3>2, TotalType
    <3>9. Ratio(s) * Total(H, n) \in Int
      BY <3>3, <3>8
    <3>10. i * Total(E, n) + z * Total(E, n) = Total(E, n) /\ i * Total(G, n) = Total(G, n)
      BY <3>4, <3>8
    <3>11. Total(E, n) <= Total(G, n) + Ratio(s) * TotalHeld(s)
      BY <3>6, <3>7, <3>8, <3>9, <3>10
    <3>12. Total(E, n) <= SideDue(s) + UpdateGain(s)
      BY <3>3, <3>6, <3>8, <3>9, <3>11
    <3> QED BY <3>1, <3>3, <3>6, <3>12
  <2>8. side \in [Sides -> Int] /\ o \in [Sides -> Int]
    <3>1. \A s \in Sides : SideDue(s) \in Nat /\ UpdateGain(s) \in Nat
      BY <2>7
    <3> QED BY ONLY <3>1
  <2>9. DoubleScale * Total(b, n) + SumOverSides(side) <= DoubleScale * emitted + surplus
    BY <2>0 DEF AllCovered
  <2>10. /\ \A s \in Sides : side[s] = SideDue(s) /\ o[s] = UpdateGain(s)
         /\ Surplus = surplus + SumOverSides(o)
    BY DEF Surplus
  <2> HIDE DEF g, b, e, side, o
  <2>11. SumOverSides(Totals(g)) <= SumOverSides(side) + SumOverSides(o)
    <3>1. PICK i \in Int : i = 1
      OBVIOUS
    <3>2. \A s \in Sides : Totals(g)[s] \in Int /\ Totals(g)[s] <= side[s] + o[s] /\ side[s] \in Int /\ o[s] \in Int
      BY <2>3, <2>7, <2>8, <2>10
    <3>3. \A s \in Sides : Totals(g)[s] <= i * side[s] + o[s]
      BY <3>1, <3>2
    <3>4. SumOverSides(Totals(g)) <= i * SumOverSides(side) + SumOverSides(o)
      BY <2>3, <2>8, <3>1, <3>3, SidesCovered
    <3>5. SumOverSides(side) \in Int
      BY <2>8, PerMarketType
    <3> QED BY <3>1, <3>4, <3>5
  <2>12. r \in [1 .. n -> Int] /\ \A u \in 1 .. n : r[u] = DoubleScale * b[u] + e[u] /\ b[u] \in Int /\ e[u] \in Int
    <3>1. \A u \in Accounts : b[u] \in Int /\ e[u] \in Int /\ r[u] = Rewarded(u)
      BY <2>3, <2>5 DEF Accounts
    <3>2. \A u \in Accounts : DoubleScale * b[u] \in Int
      BY <2>0, <3>1
    <3>3. \A u \in Accounts : r[u] \in Int
      BY <2>6, <3>1, <3>2
    <3> QED BY <2>6, <3>1, <3>3 DEF Accounts
  <2> HIDE DEF r
  <2>13. Total(r, n) <= DoubleScale * Total(b, n) + Total(e, n)
    <3>1. PICK i \in Int, z \in Int : i = 1 /\ z = 0
      OBVIOUS
    <3>2. \A u \in 1 .. n : i * r[u] + z * r[u] <= DoubleScale * b[u] + i * e[u]
      <4> SUFFICES ASSUME NEW u \in 1 .. n PROVE i * r[u] + z * r[u] <= DoubleScale * b[u] + i * e[u]
        OBVIOUS
      <4>1. r[u] = DoubleScale * b[u] + e[u] /\ b[u] \in Int /\ e[u] \in Int /\ r[u] \in Int
        BY <2>12
      <4> QED BY <3>1, <4>1
    <3>3. DoubleScale \in Int
      BY <2>0
    <3>4. i * Total(r, n) + z * Total(r, n) <= DoubleScale * Total(b, n) + i * Total(e, n)
      BY <2>0, <2>3, <2>5, <2>12, <3>1, <3>2, <3>3, TotalsCompared, ZenonT(60)
    <3>5. Total(r, n) \in Int /\ Total(b, n) \in Int /\ Total(e, n) \in Int
      BY <2>0, <2>3, <2>5, <2>12, TotalType
    <3>6. DoubleScale * Total(b, n) \in Int
      BY <3>3, <3>5
    <3> QED BY <3>1, <3>4, <3>5, <3>6
  <2>14. /\ Total(r, n) \in Int /\ Total(b, n) \in Int /\ Total(e, n) \in Int
         /\ SumOverSides(side) \in Int /\ SumOverSides(o) \in Int
    BY <2>0, <2>3, <2>5, <2>8, <2>12, TotalType, PerMarketType
  <2>15. DoubleScale * Total(b, n) \in Int /\ DoubleScale * emitted = emitted * DoubleScale /\ DoubleScale * emitted \in Int
    BY <2>0, <2>14
  <2>16. Total(r, n) <= DoubleScale * Total(b, n) + SumOverSides(side) + SumOverSides(o)
    BY <2>3, <2>11, <2>13, <2>14, <2>15
  <2>17. Total(r, n) <= emitted * DoubleScale + Surplus
    <3>1. Surplus = surplus + SumOverSides(o) /\ surplus \in Nat
      BY <2>0, <2>10
    <3> QED BY <2>9, <2>14, <2>15, <2>16, <3>1
  <2> QED BY <2>17 DEF RewardsWithinEmission, r
<1> QED BY <1>1, SpecIInv, PTL
=============================================================================
