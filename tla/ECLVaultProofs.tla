---------------------------- MODULE ECLVaultProofs ----------------------------
(***************************************************************************)
(* The invariants of ECLVault.tla that bind its books together, for any    *)
(* accounts, tokens, pools, inputs and bounds: the stakes and what backs   *)
(* them, the rewards against what was emitted, and the votes that the      *)
(* checkpoints remember.                                                   *)
(***************************************************************************)
EXTENDS ECLVault, SumsProofs, SequenceTheorems, TLAPS

-----------------------------------------------------------------------------
(* The inductive invariant *)

Request == [amount : Nat, lockedUntil : Nat]
Position == [amount : Nat, rewardDebt : Int, pendingWithdrawals : Nat, requests : Seq(Request)]
PoolInfo == [token : Tokens, allocPoint : Nat, lastReward : Nat, accRewardPerShare : Int, lockPeriod : Nat]
Checkpoint == [from : Nat, votes : Int]

\* The total of allocation points is what rewards are divided by.
PoolsTyped ==
  /\ now \in Nat
  /\ pools \in [RewardTokens -> Seq(PoolInfo)]
  /\ totalAllocPoints \in [RewardTokens -> Nat] /\ rewardRate \in [RewardTokens -> Nat]
  /\ \A r \in RewardTokens : Len(pools[r]) <= MaxPools /\ (pools[r] # << >> => totalAllocPoints[r] > 0)

StakesTyped ==
  /\ positions \in [RewardTokens -> [Pids -> [Accounts -> Position]]]
  /\ totalPendingWithdrawals \in [RewardTokens -> [Pids -> Int]]
  /\ balance \in [Tokens -> Int]

VotesTyped ==
  /\ delegates \in [Accounts -> Accounts \cup {Nobody}]
  /\ checkpoints \in [Accounts -> Seq(Checkpoint)]

RewardsTyped ==
  /\ store \in [RewardTokens -> Int] /\ granted \in [RewardTokens -> Int] /\ funded \in [RewardTokens -> Int]
  /\ pendingRewardTransfers \in [RewardTokens -> [Accounts -> Int]]

\* Requests are sorted, add up to what is pending, and that is within the stake.
Sorted(requests) == \A i, j \in DOMAIN requests : i < j => requests[i].lockedUntil >= requests[j].lockedUntil
SoundPosition(p) ==
  /\ Sorted(p.requests)
  /\ p.pendingWithdrawals = SumAmounts(p.requests)
  /\ p.pendingWithdrawals <= p.amount
AllSound == \A r \in RewardTokens, pid \in Pids, u \in Accounts : SoundPosition(positions[r][pid][u])

\* Nothing is staked in pools that are not there yet.
Untouched ==
  \A r \in RewardTokens : \A pid \in Pids \ DOMAIN pools[r] :
    totalPendingWithdrawals[r][pid] = 0 /\ \A u \in Accounts : positions[r][pid][u] = NoPosition

\* A token is staked in one pool at most, and the vault has none of the others.
PooledIn(t, r, pid) == pid \in DOMAIN pools[r] /\ pools[r][pid].token = t
PooledOnce ==
  \A t \in Tokens, r, s \in RewardTokens, pid, qid \in Pids :
    PooledIn(t, r, pid) /\ PooledIn(t, s, qid) => r = s /\ pid = qid
OthersAbsent ==
  \A t \in Tokens : (\A r \in RewardTokens, pid \in Pids : ~ PooledIn(t, r, pid)) => balance[t] = 0

AmountsOf(ps) == [u \in Accounts |-> ps[u].amount]
StakesOf(ps) == [u \in Accounts |-> Stake(ps[u])]

\* The vault holds exactly what its stakers put in, whether asked back or not.
DepositsBacked ==
  \A r \in RewardTokens : \A pid \in DOMAIN pools[r] :
    balance[pools[r][pid].token] = Total(AmountsOf(positions[r][pid]), AccountCount)

\* Rewards are shared among exactly the stakes not asked back.
SharedAmongStakes ==
  \A r \in RewardTokens : \A pid \in DOMAIN pools[r] :
    balance[pools[r][pid].token] - totalPendingWithdrawals[r][pid] = Total(StakesOf(positions[r][pid]), AccountCount)

EclApart == \A r \in RewardTokens : \A pid \in DOMAIN pools[r] : pools[r][pid].token = Ecl => r = Ecl
VotesFrom(d) == [u \in Accounts |-> IF delegates[u] = d THEN GetStakeAmount(u) ELSE 0]
VotesFollow == EclApart => \A d \in Accounts : CurrentVotes(d) = Total(VotesFrom(d), AccountCount)

Books == PooledOnce /\ OthersAbsent /\ Untouched /\ DepositsBacked /\ SharedAmongStakes
IInv ==
  /\ PoolsTyped /\ StakesTyped /\ VotesTyped /\ RewardsTyped
  /\ AllSound /\ Books /\ ShortfallOwed /\ VotesFollow

-----------------------------------------------------------------------------
(* Requests *)

LEMMA LastLockedProperties ==
    ASSUME NEW requests \in Seq(Request), NEW t \in Nat
    PROVE  /\ LastLocked(requests, t) \in 0 .. Len(requests)
           /\ LastLocked(requests, t) > 0 => requests[LastLocked(requests, t)].lockedUntil > t
           /\ \A j \in LastLocked(requests, t) + 1 .. Len(requests) : requests[j].lockedUntil <= t
<1> DEFINE n == Len(requests)
           locked == {i \in DOMAIN requests : requests[i].lockedUntil > t}
           T == {n - i : i \in locked}
<1>0. n \in Nat /\ DOMAIN requests = 1 .. n /\ \A i \in 1 .. n : requests[i] \in Request
  OBVIOUS
<1>1. n \in Nat /\ DOMAIN requests = 1 .. n /\ \A i \in 1 .. n : requests[i].lockedUntil \in Nat
  BY <1>0 DEF Request
<1>2. CASE locked = {}
  <2>1. LastLocked(requests, t) = 0
    BY <1>2 DEF LastLocked
  <2>2. \A j \in 1 .. n : ~ (requests[j].lockedUntil > t)
    BY <1>1, <1>2
  <2> QED BY <1>1, <2>1, <2>2
<1>3. CASE locked # {}
  <2>1. T \in SUBSET Nat /\ T # {}
    BY <1>1, <1>3
  <2> HIDE DEF T
  <2>2. PICK x \in T : \A y \in T : x <= y
    BY <2>1, LeastNatural
  <2>3. PICK k \in locked : x = n - k
    BY <2>2 DEF T
  <2>4. \A j \in locked : j <= k
    <3>1. TAKE j \in locked
    <3>2. n - j \in T
      BY DEF T
    <3> QED BY <2>2, <2>3, <3>2, <1>1
  <2>5. PICK c : c = CHOOSE i \in locked : \A j \in locked : j <= i
    OBVIOUS
  <2>6. c \in locked /\ \A j \in locked : j <= c
    BY <2>4, <2>5
  <2>7. LastLocked(requests, t) = c
    BY <1>3, <2>5 DEF LastLocked
  <2>8. \A j \in c + 1 .. n : j \in 1 .. n /\ j \notin locked
    BY <2>6, <1>1, SMTT(40)
  <2>9. \A j \in c + 1 .. n : ~ (requests[j].lockedUntil > t)
    BY <2>8, <1>1
  <2> QED BY <2>6, <2>7, <2>8, <2>9, <1>1
<1> QED BY <1>2, <1>3

LEMMA SumAmountsType ==
    ASSUME NEW requests \in Seq(Request)
    PROVE  SumAmounts(requests) \in Nat
<1>0. Len(requests) \in Nat /\ \A i \in 1 .. Len(requests) : requests[i] \in Request
  OBVIOUS
<1>1. [i \in 1 .. Len(requests) |-> requests[i].amount] \in [1 .. Len(requests) -> Nat]
  BY <1>0 DEF Request
<1> QED BY <1>0, <1>1, TotalNat DEF SumAmounts

LEMMA KeptProperties ==
    ASSUME NEW requests \in Seq(Request), Sorted(requests), now \in Nat
    PROVE  Kept(requests) \in Seq(Request) /\ Sorted(Kept(requests))
<1> DEFINE k == LastLocked(requests, now)
<1>1. k \in 0 .. Len(requests)
  BY LastLockedProperties
<1> HIDE DEF k
<1>2. /\ SubSeq(requests, 1, k) \in Seq(Request) /\ DOMAIN SubSeq(requests, 1, k) = 1 .. k
      /\ \A i \in 1 .. k : SubSeq(requests, 1, k)[i] = requests[i]
  BY <1>1
<1>3. Sorted(SubSeq(requests, 1, k))
  BY <1>1, <1>2 DEF Sorted
<1> QED BY <1>2, <1>3 DEF Kept, k

InsertedAt(s, k, e) == SubSeq(s, 1, k) \o <<e>> \o SubSeq(s, k + 1, Len(s))

LEMMA Inserted ==
    ASSUME NEW s \in Seq(Request), NEW e \in Request, NEW k \in 0 .. Len(s)
    PROVE  /\ InsertedAt(s, k, e) \in Seq(Request) /\ Len(InsertedAt(s, k, e)) = Len(s) + 1
           /\ \A i \in 1 .. k : InsertedAt(s, k, e)[i] = s[i]
           /\ InsertedAt(s, k, e)[k + 1] = e
           /\ \A i \in k + 2 .. Len(s) + 1 : InsertedAt(s, k, e)[i] = s[i - 1]
<1> DEFINE n == Len(s)
           w == InsertedAt(s, k, e)
           a == SubSeq(s, 1, k)
           b == SubSeq(s, k + 1, n)
           h == a \o <<e>>
<1>1. n \in Nat /\ k \in Int /\ k + 1 \in Int /\ \A i \in 1 .. n : s[i] \in Request
  OBVIOUS
<1>2. (\A i \in 1 .. k : s[i] \in Request) /\ (\A i \in k + 1 .. n : s[i] \in Request)
  BY <1>1
<1>3. a \in Seq(Request) /\ Len(a) = k /\ \A i \in 1 .. k : a[i] = s[i]
  <2>1. /\ a \in Seq(Request) /\ Len(a) = IF 1 <= k THEN k - 1 + 1 ELSE 0
        /\ \A i \in 1 .. k - 1 + 1 : a[i] = s[1 + i - 1]
    <3> HIDE DEF n
    <3> QED BY <1>1, <1>2, SubSeqProperties
  <2>2. k - 1 + 1 = k /\ \A i \in 1 .. k : 1 + i - 1 = i
    OBVIOUS
  <2> HIDE DEF a
  <2> QED BY <2>1, <2>2
<1>4. b \in Seq(Request) /\ Len(b) = n - k /\ \A i \in 1 .. n - k : b[i] = s[k + i]
  <2>1. /\ b \in Seq(Request) /\ Len(b) = IF k + 1 <= n THEN n - (k + 1) + 1 ELSE 0
        /\ \A i \in 1 .. n - (k + 1) + 1 : b[i] = s[(k + 1) + i - 1]
    <3> HIDE DEF n
    <3> QED BY <1>1, <1>2, SubSeqProperties
  <2>2. n - (k + 1) + 1 = n - k /\ \A i \in 1 .. n - k : (k + 1) + i - 1 = k + i
    OBVIOUS
  <2>3. (IF k + 1 <= n THEN n - (k + 1) + 1 ELSE 0) = n - k
    OBVIOUS
  <2> HIDE DEF b, n
  <2>4. \A i \in 1 .. n - k : b[i] = s[k + i]
    BY <2>1, <2>2
  <2> QED BY <2>1, <2>3, <2>4
<1> HIDE DEF a, b, n
<1>5. <<e>> \in Seq(Request) /\ Len(<<e>>) = 1 /\ <<e>>[1] = e
  OBVIOUS
<1>6. /\ h \in Seq(Request) /\ Len(h) = k + 1
      /\ \A i \in 1 .. k + 1 : h[i] = IF i <= k THEN a[i] ELSE <<e>>[i - k]
  BY <1>3, <1>5, ConcatProperties
<1> HIDE DEF h
<1>7. /\ h \o b \in Seq(Request) /\ Len(h \o b) = (k + 1) + (n - k)
      /\ \A i \in 1 .. (k + 1) + (n - k) : (h \o b)[i] = IF i <= k + 1 THEN h[i] ELSE b[i - (k + 1)]
  <2>1. /\ h \o b \in Seq(Request) /\ Len(h \o b) = Len(h) + Len(b)
        /\ \A i \in 1 .. Len(h) + Len(b) : (h \o b)[i] = IF i <= Len(h) THEN h[i] ELSE b[i - Len(h)]
    BY <1>4, <1>6, ConcatProperties
  <2> QED BY <2>1, <1>4, <1>6
<1>8. w = h \o b /\ (k + 1) + (n - k) = n + 1 /\ k \in 0 .. n
  BY <1>1 DEF a, b, h, n, w, InsertedAt
<1> HIDE DEF w
<1>9. \A i \in 1 .. k : w[i] = s[i]
  <2>1. TAKE i \in 1 .. k
  <2>2. i \in 1 .. n + 1 /\ i \in 1 .. k + 1 /\ i <= k + 1 /\ i <= k
    BY <1>1, <1>8
  <2>3. (h \o b)[i] = h[i]
    BY <1>7, <1>8, <2>2
  <2>4. h[i] = a[i]
    BY <1>6, <2>2
  <2> QED BY <1>3, <1>8, <2>3, <2>4
<1>10. w[k + 1] = e
  <2>1. k + 1 \in 1 .. k + 1 /\ k + 1 \in 1 .. n + 1 /\ ~ (k + 1 <= k) /\ (k + 1) - k = 1
    BY <1>1, <1>8
  <2>2. (h \o b)[k + 1] = h[k + 1]
    BY <1>7, <1>8, <2>1
  <2>3. h[k + 1] = <<e>>[(k + 1) - k]
    BY <1>6, <2>1
  <2> QED BY <1>5, <1>8, <2>1, <2>2, <2>3
<1>11. ASSUME NEW i \in k + 2 .. n + 1 PROVE w[i] = s[i - 1]
  <2>1. i - (k + 1) \in 1 .. n - k /\ i \in 1 .. n + 1 /\ ~ (i <= k + 1) /\ k + (i - (k + 1)) = i - 1
    BY <1>1, <1>8
  <2>2. w[i] = b[i - (k + 1)]
    BY <1>7, <1>8, <2>1
  <2>3. b[i - (k + 1)] = s[k + (i - (k + 1))]
    BY <1>4, <2>1
  <2> QED BY <2>1, <2>2, <2>3
<1> QED BY <1>1, <1>7, <1>8, <1>9, <1>10, <1>11 DEF n, w

\* A request goes behind those that unlock later, and adds its amount.
LEMMA WithRequestProperties ==
    ASSUME NEW requests \in Seq(Request), Sorted(requests), NEW amount \in Nat, NEW until \in Nat
    PROVE  /\ WithRequest(requests, amount, until) \in Seq(Request)
           /\ Sorted(WithRequest(requests, amount, until))
           /\ SumAmounts(WithRequest(requests, amount, until)) = SumAmounts(requests) + amount
<1> DEFINE n == Len(requests)
           k == LastLocked(requests, until)
           new == [amount |-> amount, lockedUntil |-> until]
           w == WithRequest(requests, amount, until)
           f == [i \in 1 .. n |-> requests[i].amount]
           g == [i \in 1 .. n + 1 |-> w[i].amount]
<1>1. n \in Nat /\ DOMAIN requests = 1 .. n /\ \A i \in 1 .. n : requests[i] \in Request
  OBVIOUS
<1>2. /\ k \in 0 .. n /\ (k > 0 => requests[k].lockedUntil > until)
      /\ \A j \in k + 1 .. n : requests[j].lockedUntil <= until
  BY LastLockedProperties
<1>3. w = SubSeq(requests, 1, k) \o <<new>> \o SubSeq(requests, k + 1, n)
  BY DEF WithRequest
<1>4. new \in Request
  BY DEF Request
<1> HIDE DEF k, w, new
<1>5. /\ w \in Seq(Request) /\ Len(w) = Len(requests) + 1
      /\ \A i \in 1 .. k : w[i] = requests[i]
      /\ w[k + 1] = new
      /\ \A i \in k + 2 .. Len(requests) + 1 : w[i] = requests[i - 1]
  <2>1. k \in 0 .. Len(requests)
    BY <1>2
  <2>2. w = InsertedAt(requests, k, new)
    BY <1>3 DEF InsertedAt
  <2>3. /\ InsertedAt(requests, k, new) \in Seq(Request) /\ Len(InsertedAt(requests, k, new)) = Len(requests) + 1
        /\ \A i \in 1 .. k : InsertedAt(requests, k, new)[i] = requests[i]
        /\ InsertedAt(requests, k, new)[k + 1] = new
        /\ \A i \in k + 2 .. Len(requests) + 1 : InsertedAt(requests, k, new)[i] = requests[i - 1]
    BY <2>1, <1>4, Inserted
  <2> QED BY <2>2, <2>3
<1>6. w \in Seq(Request) /\ Len(w) = n + 1
  BY <1>5
<1>7. /\ \A i \in 1 .. k : w[i] = requests[i]
      /\ w[k + 1] = new
      /\ \A i \in k + 2 .. n + 1 : w[i] = requests[i - 1]
  BY <1>5
<1>8. Sorted(w)
  <2>1. SUFFICES ASSUME NEW i \in 1 .. n + 1, NEW j \in 1 .. n + 1, i < j
                 PROVE  w[i].lockedUntil >= w[j].lockedUntil
    BY <1>6 DEF Sorted
  <2>2. \A a \in 1 .. n : requests[a].lockedUntil \in Nat
    BY <1>1 DEF Request
  <2>3. \A a, b \in 1 .. n : a < b => requests[a].lockedUntil >= requests[b].lockedUntil
    BY <1>1 DEF Sorted
  <2>4. new.lockedUntil = until
    BY DEF new
  <2>5. CASE j <= k
    BY <2>1, <2>3, <2>5, <1>2, <1>7
  <2>6. CASE j = k + 1
    <3>1. i \in 1 .. k /\ k \in 1 .. n /\ w[i] = requests[i] /\ w[j] = new
      BY <2>1, <2>6, <1>2, <1>7
    <3>2. requests[i].lockedUntil >= requests[k].lockedUntil
      BY <3>1, <2>2, <2>3
    <3> QED BY <3>1, <3>2, <2>2, <2>4, <1>2
  <2>7. CASE j > k + 1
    <3>1. j \in k + 2 .. n + 1 /\ j - 1 \in k + 1 .. n /\ j - 1 \in 1 .. n /\ w[j] = requests[j - 1]
      BY <2>1, <2>7, <1>2, <1>7
    <3>2. requests[j - 1].lockedUntil <= until
      BY <3>1, <1>2
    <3>3. CASE i <= k
      <4>1. i \in 1 .. k /\ i \in 1 .. n /\ i < j - 1 /\ w[i] = requests[i]
        BY <2>1, <3>3, <3>1, <1>2, <1>7
      <4> QED BY <4>1, <3>1, <2>3
    <3>4. CASE i = k + 1
      BY <3>1, <3>2, <3>4, <2>4, <1>7
    <3>5. CASE i > k + 1
      <4>1. i \in k + 2 .. n + 1 /\ i - 1 \in 1 .. n /\ i - 1 < j - 1 /\ w[i] = requests[i - 1]
        BY <2>1, <3>5, <1>2, <1>7
      <4> QED BY <4>1, <3>1, <2>3
    <3> QED BY <3>3, <3>4, <3>5, <1>2
  <2> QED BY <2>5, <2>6, <2>7, <1>2
<1>9. Total(g, n + 1) = Total(f, n) + amount
  <2>1. f \in [1 .. n -> Int] /\ g \in [1 .. n + 1 -> Int]
    <3>1. \A i \in 1 .. n : requests[i].amount \in Int
      BY <1>1 DEF Request
    <3>2. \A i \in 1 .. n + 1 : w[i] \in Request
      BY <1>6
    <3>3. \A i \in 1 .. n + 1 : w[i].amount \in Int
      BY <3>2 DEF Request
    <3> QED BY <3>1, <3>3
  <2>2. \A i \in 1 .. k : g[i] = f[i]
    BY <1>2, <1>7
  <2>4. g[k + 1] = amount
    BY <1>2, <1>7 DEF new
  <2>5. n \in Nat /\ k \in 0 .. n /\ amount \in Int
    BY <1>1, <1>2
  <2>3. \A i \in k + 2 .. n + 1 : g[i] = f[i - 1]
    BY <1>2, <1>7
  <2> HIDE DEF f, g, n
  <2> QED BY <2>1, <2>2, <2>3, <2>4, <2>5, TotalInsert
<1>10. SumAmounts(w) = Total(f, n) + amount
  BY <1>6, <1>9 DEF SumAmounts
<1> QED BY <1>6, <1>8, <1>10 DEF SumAmounts, w

-----------------------------------------------------------------------------
(* Stakes and supplies *)

LEMMA PoolAt ==
    ASSUME PoolsTyped, NEW r \in RewardTokens, NEW pid \in DOMAIN pools[r]
    PROVE  /\ pools[r] \in Seq(PoolInfo) /\ Len(pools[r]) \in Nat /\ DOMAIN pools[r] = 1 .. Len(pools[r])
           /\ pid \in Pids /\ pools[r][pid] \in PoolInfo /\ pools[r][pid].token \in Tokens
           /\ totalAllocPoints[r] \in Nat \ {0}
<1>1. /\ pools[r] \in Seq(PoolInfo) /\ Len(pools[r]) <= MaxPools
      /\ totalAllocPoints[r] \in Nat /\ (pools[r] # << >> => totalAllocPoints[r] > 0)
  BY DEF PoolsTyped
<1>2. Len(pools[r]) \in Nat /\ DOMAIN pools[r] = 1 .. Len(pools[r])
  BY <1>1
<1>3. pools[r] # << >>
  BY <1>2
<1>4. pools[r][pid] \in PoolInfo
  BY <1>1, <1>2
<1>5. pid \in Pids
  BY <1>1, <1>2, BoundsAssumption DEF Pids
<1>6. pools[r][pid].token \in Tokens
  BY <1>4 DEF PoolInfo
<1>7. totalAllocPoints[r] \in Nat \ {0}
  BY <1>1, <1>3
<1> QED BY <1>1, <1>2, <1>4, <1>5, <1>6, <1>7, Zenon

LEMMA PositionAt ==
    ASSUME StakesTyped, NEW r \in RewardTokens, NEW pid \in Pids
    PROVE  /\ positions[r][pid] \in [Accounts -> Position]
           /\ \A u \in Accounts : positions[r][pid][u] \in Position
           /\ totalPendingWithdrawals[r][pid] \in Int
BY DEF StakesTyped

LEMMA StakeType ==
    ASSUME NEW p \in Position
    PROVE  /\ Stake(p) \in Int
           /\ SoundPosition(p) => Stake(p) \in Nat
BY DEF Stake, Position, SoundPosition

LEMMA SumTypes ==
    ASSUME StakesTyped, NEW r \in RewardTokens, NEW pid \in Pids
    PROVE  /\ AmountsOf(positions[r][pid]) \in [1 .. AccountCount -> Int]
           /\ StakesOf(positions[r][pid]) \in [1 .. AccountCount -> Int]
           /\ AllSound => StakesOf(positions[r][pid]) \in [1 .. AccountCount -> Nat]
<1>1. \A u \in Accounts : positions[r][pid][u] \in Position
  BY PositionAt
<1>2. \A u \in Accounts : positions[r][pid][u].amount \in Int
  BY <1>1 DEF Position
<1>3. \A u \in Accounts : Stake(positions[r][pid][u]) \in Int
  BY <1>1, StakeType
<1>4. AllSound => \A u \in Accounts : Stake(positions[r][pid][u]) \in Nat
  BY <1>1, StakeType DEF AllSound
<1> QED BY <1>2, <1>3, <1>4 DEF AmountsOf, StakesOf, Accounts

\* What rewards are divided among is not negative.
LEMMA SupplyType ==
    ASSUME PoolsTyped, StakesTyped, AllSound, SharedAmongStakes,
           NEW r \in RewardTokens, NEW pid \in DOMAIN pools[r]
    PROVE  balance[pools[r][pid].token] - totalPendingWithdrawals[r][pid] \in Nat
<1>1. pid \in Pids
  BY PoolAt
<1>2. Total(StakesOf(positions[r][pid]), AccountCount) \in Nat
  BY <1>1, SumTypes, TotalNat, AccountsAssumption
<1> QED BY <1>2 DEF SharedAmongStakes

LEMMA UpdatedType ==
    ASSUME PoolsTyped, StakesTyped, AllSound, SharedAmongStakes,
           NEW r \in RewardTokens, NEW pid \in DOMAIN pools[r]
    PROVE  /\ Updated(r, pid) \in PoolInfo
           /\ Updated(r, pid).token = pools[r][pid].token
           /\ Updated(r, pid).lockPeriod \in Nat
<1> DEFINE pool == pools[r][pid]
           supply == balance[pool.token] - totalPendingWithdrawals[r][pid]
           reward == ((now - pool.lastReward) * rewardRate[r] * pool.allocPoint) \div totalAllocPoints[r]
           acc == IF now > pool.lastReward /\ supply # 0
                  THEN pool.accRewardPerShare + (reward * AccScale) \div supply ELSE pool.accRewardPerShare
<1>1. pool \in PoolInfo /\ totalAllocPoints[r] \in Nat \ {0}
  BY PoolAt
<1>2. supply \in Nat
  BY SupplyType
<1>3. now \in Nat /\ rewardRate[r] \in Nat
  BY DEF PoolsTyped
<1>4. pool.lastReward \in Nat /\ pool.allocPoint \in Nat /\ pool.accRewardPerShare \in Int
  BY <1>1 DEF PoolInfo
<1>5. reward \in Int
  <2> HIDE DEF pool
  <2>1. (now - pool.lastReward) * rewardRate[r] * pool.allocPoint \in Int
    BY <1>3, <1>4
  <2> QED BY <2>1, <1>1
<1> HIDE DEF reward, supply
<1>6. acc \in Int
  <2>1. AccScale \in Nat
    BY BoundsAssumption
  <2>2. reward * AccScale \in Int
    BY <1>5, <2>1
  <2> HIDE DEF pool
  <2>3. CASE supply = 0
    BY <2>3, <1>4
  <2>4. CASE supply # 0
    <3>1. (reward * AccScale) \div supply \in Int
      BY <2>2, <2>4, <1>2
    <3> QED BY <3>1, <1>4
  <2> QED BY <2>3, <2>4
<1>7. Updated(r, pid) = [pool EXCEPT !.lastReward = now, !.accRewardPerShare = acc]
  BY DEF Updated, reward, supply
<1> HIDE DEF acc, pool
<1> QED BY <1>1, <1>3, <1>6, <1>7 DEF PoolInfo, pool

LEMMA PendingType ==
    ASSUME NEW p \in Position, NEW pool \in PoolInfo
    PROVE  Cumulative(p, pool) \in Int /\ Pending(p, pool) \in Int
<1>1. Stake(p) \in Int /\ pool.accRewardPerShare \in Int /\ p.rewardDebt \in Int
  BY StakeType DEF PoolInfo, Position
<1>2. AccScale \in Nat \ {0}
  BY BoundsAssumption
<1>3. Stake(p) * pool.accRewardPerShare \in Int
  BY <1>1
<1>4. (Stake(p) * pool.accRewardPerShare) \div AccScale \in Int
  BY <1>2, <1>3
<1> QED BY <1>1, <1>4 DEF Cumulative, Pending

-----------------------------------------------------------------------------
(* Pools that keep their tokens *)

SameTokens ==
  \A r \in RewardTokens :
    /\ DOMAIN pools'[r] = DOMAIN pools[r]
    /\ \A pid \in DOMAIN pools[r] : pools'[r][pid].token = pools[r][pid].token

\* A function on the first n numbers is a sequence.
LEMMA SequenceOf ==
    ASSUME NEW S, NEW n \in Nat, NEW g \in [1 .. n -> S]
    PROVE  g \in Seq(S)
<1>1. Seq(S) = UNION {[1 .. k -> S] : k \in Nat}
  BY SeqDef, Zenon
<1>2. g \in UNION {[1 .. k -> S] : k \in Nat}
  BY Zenon
<1> QED BY <1>1, <1>2, Zenon

\* Every pool of r gets a record with the token it had.
LEMMA PoolsRewritten ==
    ASSUME PoolsTyped, NEW r \in RewardTokens, NEW f \in [DOMAIN pools[r] -> PoolInfo],
           \A pid \in DOMAIN pools[r] : f[pid].token = pools[r][pid].token,
           pools' = [pools EXCEPT ![r] = f], now' \in Nat,
           totalAllocPoints' \in [RewardTokens -> Nat], rewardRate' \in [RewardTokens -> Nat],
           \A s \in RewardTokens : totalAllocPoints'[s] = totalAllocPoints[s] \/ totalAllocPoints'[s] > 0
    PROVE  PoolsTyped' /\ SameTokens
<1>1. pools \in [RewardTokens -> Seq(PoolInfo)]
  BY DEF PoolsTyped
<1>2. DOMAIN f = DOMAIN pools[r] /\ DOMAIN pools[r] = 1 .. Len(pools[r]) /\ Len(pools[r]) \in Nat
  BY <1>1
<1>3. f \in Seq(PoolInfo) /\ Len(f) = Len(pools[r])
  <2>1. f \in [1 .. Len(pools[r]) -> PoolInfo]
    BY <1>2
  <2>2. f \in Seq(PoolInfo)
    BY <2>1, <1>2, SequenceOf, Zenon
  <2>3. Len(f) \in Nat /\ 1 .. Len(f) = 1 .. Len(pools[r])
    BY <2>2, <1>2, LenProperties
  <2>4. ~ (Len(f) < Len(pools[r])) /\ ~ (Len(pools[r]) < Len(f))
    <3>1. Len(pools[r]) > 0 => Len(pools[r]) \in 1 .. Len(f)
      BY <2>3, <1>2
    <3>2. Len(f) > 0 => Len(f) \in 1 .. Len(pools[r])
      BY <2>3
    <3> QED BY <3>1, <3>2, <2>3, <1>2
  <2> QED BY <2>2, <2>3, <2>4, <1>2
<1>4. pools'[r] = f /\ \A s \in RewardTokens \ {r} : pools'[s] = pools[s]
  BY <1>1
<1>5. pools' \in [RewardTokens -> Seq(PoolInfo)]
  BY <1>1, <1>3
<1>6. SameTokens
  BY <1>2, <1>4 DEF SameTokens
<1>7. ASSUME NEW s \in RewardTokens
      PROVE  Len(pools'[s]) <= MaxPools /\ (pools'[s] # << >> => totalAllocPoints'[s] > 0)
  <2>1. Len(pools[s]) <= MaxPools /\ (pools[s] # << >> => totalAllocPoints[s] > 0)
    BY DEF PoolsTyped
  <2>2. Len(pools'[s]) = Len(pools[s])
    BY <1>3, <1>4
  <2>3. pools'[s] # << >> => pools[s] # << >>
    BY <2>2, <1>1, <1>5
  <2> QED BY <2>1, <2>2, <2>3
<1> QED BY <1>5, <1>6, <1>7 DEF PoolsTyped

LEMMA OnePoolRewritten ==
    ASSUME PoolsTyped, NEW r \in RewardTokens, NEW pid \in DOMAIN pools[r], NEW pool \in PoolInfo,
           pool.token = pools[r][pid].token, pools' = [pools EXCEPT ![r][pid] = pool],
           UNCHANGED <<now, totalAllocPoints, rewardRate>>
    PROVE  PoolsTyped' /\ SameTokens
<1> DEFINE f == [pools[r] EXCEPT ![pid] = pool]
<1>1. pools \in [RewardTokens -> Seq(PoolInfo)] /\ totalAllocPoints \in [RewardTokens -> Nat]
      /\ rewardRate \in [RewardTokens -> Nat] /\ now \in Nat
  BY DEF PoolsTyped
<1>2. f \in [DOMAIN pools[r] -> PoolInfo]
  <2>1. pools[r] \in [DOMAIN pools[r] -> PoolInfo]
    BY <1>1
  <2> QED BY <2>1
<1>3. \A i \in DOMAIN pools[r] : f[i].token = pools[r][i].token
  BY <1>1
<1>4. pools' = [pools EXCEPT ![r] = f]
  BY <1>1
<1> HIDE DEF f
<1> QED BY <1>1, <1>2, <1>3, <1>4, PoolsRewritten

LEMMA SamePooled ==
    ASSUME SameTokens
    PROVE  /\ \A t \in Tokens, r \in RewardTokens, pid \in Pids : PooledIn(t, r, pid)' <=> PooledIn(t, r, pid)
           /\ PooledOnce => PooledOnce'
BY DEF SameTokens, PooledIn, PooledOnce

LEMMA BooksKept ==
    ASSUME PoolsTyped, Books, AllSound, StakesTyped, SameTokens,
           UNCHANGED <<positions, totalPendingWithdrawals, balance>>
    PROVE  StakesTyped' /\ AllSound' /\ Books'
<1>1. StakesTyped' /\ AllSound'
  BY DEF StakesTyped, AllSound
<1>2. PooledOnce' /\ OthersAbsent'
  BY SamePooled DEF Books, OthersAbsent
<1>3. Untouched'
  BY DEF Books, Untouched, SameTokens
<1>4. DepositsBacked'
  BY DEF Books, DepositsBacked, SameTokens
<1>5. SharedAmongStakes'
  BY DEF Books, SharedAmongStakes, SameTokens
<1> QED BY <1>1, <1>2, <1>3, <1>4, <1>5 DEF Books

\* A staker's position changes, and the books with it.
Rebooked(r, pid, u, q) ==
  /\ positions' = [positions EXCEPT ![r][pid][u] = q]
  /\ balance' \in [Tokens -> Int]
  /\ balance'[pools[r][pid].token] = balance[pools[r][pid].token] + q.amount - positions[r][pid][u].amount
  /\ \A t \in Tokens \ {pools[r][pid].token} : balance'[t] = balance[t]
  /\ totalPendingWithdrawals' \in [RewardTokens -> [Pids -> Int]]
  /\ totalPendingWithdrawals'[r][pid] =
       totalPendingWithdrawals[r][pid] + q.pendingWithdrawals - positions[r][pid][u].pendingWithdrawals
  /\ \A s \in RewardTokens, i \in Pids : s # r \/ i # pid => totalPendingWithdrawals'[s][i] = totalPendingWithdrawals[s][i]

LEMMA PositionChanged ==
    ASSUME PoolsTyped, Books, AllSound, StakesTyped, SameTokens,
           NEW r \in RewardTokens, NEW pid \in DOMAIN pools[r], NEW u \in Accounts,
           NEW q \in Position, SoundPosition(q), Rebooked(r, pid, u, q)
    PROVE  StakesTyped' /\ AllSound' /\ Books'
<1> DEFINE token == pools[r][pid].token
           p == positions[r][pid][u]
<1> USE DEF Rebooked
<1>1. positions \in [RewardTokens -> [Pids -> [Accounts -> Position]]] /\ pid \in Pids /\ token \in Tokens
  BY PoolAt DEF StakesTyped
<1>2. /\ positions' \in [RewardTokens -> [Pids -> [Accounts -> Position]]]
      /\ positions'[r][pid] = [positions[r][pid] EXCEPT ![u] = q]
      /\ \A s \in RewardTokens, i \in Pids : s # r \/ i # pid => positions'[s][i] = positions[s][i]
  BY <1>1
<1>3. positions'[r][pid][u] = q /\ \A v \in Accounts \ {u} : positions'[r][pid][v] = positions[r][pid][v]
  BY <1>1, <1>2
<1>4. StakesTyped'
  BY <1>2 DEF StakesTyped
<1>5. AllSound'
  <2>1. SUFFICES ASSUME NEW s \in RewardTokens, NEW i \in Pids, NEW v \in Accounts
                 PROVE  SoundPosition(positions'[s][i][v])
    BY DEF AllSound
  <2>2. SoundPosition(positions[s][i][v])
    BY DEF AllSound
  <2>3. positions'[s][i][v] = q \/ positions'[s][i][v] = positions[s][i][v]
    BY <1>2, <1>3
  <2> QED BY <2>2, <2>3
<1>6. PooledOnce'
  BY SamePooled DEF Books
<1>7. PooledIn(token, r, pid)
  BY DEF PooledIn
<1>8. OthersAbsent'
  BY <1>1, <1>7, SamePooled, SMTT(40) DEF Books, OthersAbsent
<1>9. Untouched'
  <2>1. SUFFICES ASSUME NEW s \in RewardTokens, NEW i \in Pids \ DOMAIN pools'[s]
                 PROVE  /\ totalPendingWithdrawals'[s][i] = 0
                        /\ \A v \in Accounts : positions'[s][i][v] = NoPosition
    BY DEF Untouched
  <2>2. i \in Pids \ DOMAIN pools[s] /\ (s # r \/ i # pid)
    BY DEF SameTokens
  <2> QED BY <2>2, <1>2 DEF Books, Untouched
<1>10. /\ AmountsOf(positions'[r][pid]) = [AmountsOf(positions[r][pid]) EXCEPT ![u] = q.amount]
       /\ StakesOf(positions'[r][pid]) = [StakesOf(positions[r][pid]) EXCEPT ![u] = Stake(q)]
  <2>1. \A v \in Accounts : positions'[r][pid][v] = IF v = u THEN q ELSE positions[r][pid][v]
    BY <1>3
  <2>2. \A v \in Accounts : positions'[r][pid][v].amount = (IF v = u THEN q.amount ELSE positions[r][pid][v].amount)
    BY <2>1
  <2>3. \A v \in Accounts : Stake(positions'[r][pid][v]) = (IF v = u THEN Stake(q) ELSE Stake(positions[r][pid][v]))
    BY <2>1
  <2>4. [v \in Accounts |-> positions'[r][pid][v].amount]
          = [[v \in Accounts |-> positions[r][pid][v].amount] EXCEPT ![u] = q.amount]
    BY <2>2
  <2>5. [v \in Accounts |-> Stake(positions'[r][pid][v])]
          = [[v \in Accounts |-> Stake(positions[r][pid][v])] EXCEPT ![u] = Stake(q)]
    BY <2>3
  <2> QED BY <2>4, <2>5 DEF AmountsOf, StakesOf
<1>11. /\ AmountsOf(positions[r][pid]) \in [1 .. AccountCount -> Int]
       /\ StakesOf(positions[r][pid]) \in [1 .. AccountCount -> Int]
       /\ AmountsOf(positions[r][pid])[u] = p.amount /\ StakesOf(positions[r][pid])[u] = Stake(p)
  BY <1>1, SumTypes DEF AmountsOf, StakesOf
<1>12. q.amount \in Int /\ Stake(q) \in Int /\ u \in 1 .. AccountCount /\ AccountCount \in Nat
  BY StakeType, AccountsAssumption DEF Position, Accounts
<1>13. /\ Total(AmountsOf(positions'[r][pid]), AccountCount)
            = Total(AmountsOf(positions[r][pid]), AccountCount) - p.amount + q.amount
       /\ Total(StakesOf(positions'[r][pid]), AccountCount)
            = Total(StakesOf(positions[r][pid]), AccountCount) - Stake(p) + Stake(q)
  <2>1. ASSUME NEW f \in [1 .. AccountCount -> Int], NEW v \in Int
        PROVE  Total([f EXCEPT ![u] = v], AccountCount) = Total(f, AccountCount) - f[u] + v
    BY <1>12, TotalUpdate
  <2> HIDE DEF p
  <2> QED BY <1>10, <1>11, <1>12, <2>1
<1>14. /\ Total(AmountsOf(positions[r][pid]), AccountCount) = balance[token]
       /\ Total(StakesOf(positions[r][pid]), AccountCount) = balance[token] - totalPendingWithdrawals[r][pid]
  BY DEF Books, DepositsBacked, SharedAmongStakes
<1>15. ASSUME NEW s \in RewardTokens, NEW i \in DOMAIN pools[s], s # r \/ i # pid
       PROVE  /\ balance'[pools[s][i].token] = balance[pools[s][i].token]
              /\ positions'[s][i] = positions[s][i]
              /\ totalPendingWithdrawals'[s][i] = totalPendingWithdrawals[s][i]
  <2>1. i \in Pids /\ pools[s][i].token \in Tokens
    BY PoolAt
  <2>2. pools[s][i].token # token
    BY <2>1, <1>1, <1>7, <1>15 DEF Books, PooledOnce, PooledIn
  <2> QED BY <2>1, <2>2, <1>2, <1>15
<1>16. balance[token] \in Int /\ totalPendingWithdrawals[r][pid] \in Int /\ p \in Position
  BY <1>1 DEF StakesTyped
<1>17. /\ balance'[token] = Total(AmountsOf(positions'[r][pid]), AccountCount)
       /\ balance'[token] - totalPendingWithdrawals'[r][pid] = Total(StakesOf(positions'[r][pid]), AccountCount)
  <2>1. p.amount \in Int /\ p.pendingWithdrawals \in Int /\ q.pendingWithdrawals \in Int /\ q.amount \in Int
    BY <1>16 DEF Position
  <2>2. /\ balance'[token] = balance[token] + q.amount - p.amount
        /\ totalPendingWithdrawals'[r][pid] = totalPendingWithdrawals[r][pid] + q.pendingWithdrawals - p.pendingWithdrawals
        /\ Stake(p) = p.amount - p.pendingWithdrawals /\ Stake(q) = q.amount - q.pendingWithdrawals
    BY DEF Stake
  <2> HIDE DEF p, token
  <2> QED BY <2>1, <2>2, <1>13, <1>14, <1>16
<1>18. DepositsBacked'
  <2>1. SUFFICES ASSUME NEW s \in RewardTokens, NEW i \in DOMAIN pools'[s]
                 PROVE  balance'[pools'[s][i].token] = Total(AmountsOf(positions'[s][i]), AccountCount)
    BY DEF DepositsBacked
  <2>4. i \in DOMAIN pools[s] /\ pools'[s][i].token = pools[s][i].token
    BY DEF SameTokens
  <2>2. CASE s = r /\ i = pid
    BY <2>2, <2>4, <1>17
  <2>3. CASE s # r \/ i # pid
    BY <2>3, <2>4, <1>15 DEF Books, DepositsBacked
  <2> QED BY <2>2, <2>3
<1>19. SharedAmongStakes'
  <2>1. SUFFICES ASSUME NEW s \in RewardTokens, NEW i \in DOMAIN pools'[s]
                 PROVE  balance'[pools'[s][i].token] - totalPendingWithdrawals'[s][i] =
                          Total(StakesOf(positions'[s][i]), AccountCount)
    BY DEF SharedAmongStakes
  <2>4. i \in DOMAIN pools[s] /\ pools'[s][i].token = pools[s][i].token
    BY DEF SameTokens
  <2>2. CASE s = r /\ i = pid
    BY <2>2, <2>4, <1>17
  <2>3. CASE s # r \/ i # pid
    BY <2>3, <2>4, <1>15 DEF Books, SharedAmongStakes
  <2> QED BY <2>2, <2>3
<1> QED BY <1>4, <1>5, <1>6, <1>8, <1>9, <1>18, <1>19 DEF Books

-----------------------------------------------------------------------------
(* Votes *)

LEMMA EclPool ==
    ASSUME PoolsTyped, PooledOnce, NEW pid \in DOMAIN pools[Ecl], pools[Ecl][pid].token = Ecl
    PROVE  EclPids = {pid} /\ \A u \in Accounts : GetStakeAmount(u) = Stake(positions[Ecl][pid][u])
<1>1. Ecl \in RewardTokens /\ Ecl \in Tokens
  BY EclAssumption
<1>2. ASSUME NEW i \in EclPids PROVE i = pid
  <2>1. i \in DOMAIN pools[Ecl] /\ pools[Ecl][i].token = Ecl
    BY DEF EclPids
  <2>2. i \in Pids /\ pid \in Pids
    BY <1>1, <2>1, PoolAt
  <2> QED BY <1>1, <2>1, <2>2 DEF PooledOnce, PooledIn
<1>3. EclPids = {pid}
  BY <1>2 DEF EclPids
<1>4. (CHOOSE i \in EclPids : TRUE) = pid
  BY <1>3
<1> QED BY <1>3, <1>4 DEF GetStakeAmount

LEMMA GetStakeType ==
    ASSUME PoolsTyped, StakesTyped, AllSound, PooledOnce, NEW u \in Accounts
    PROVE  GetStakeAmount(u) \in Nat
<1>1. CASE EclPids = {}
  BY <1>1 DEF GetStakeAmount
<1>2. CASE EclPids # {}
  <2>1. PICK pid \in DOMAIN pools[Ecl] : pools[Ecl][pid].token = Ecl
    BY <1>2 DEF EclPids
  <2>2. pid \in Pids /\ Ecl \in RewardTokens
    BY <2>1, EclAssumption, PoolAt
  <2>3. Stake(positions[Ecl][pid][u]) \in Nat
    BY <2>2, PositionAt, StakeType DEF AllSound
  <2> QED BY <2>1, <2>3, EclPool
<1> QED BY <1>1, <1>2

LEMMA VotesFromType ==
    ASSUME PoolsTyped, StakesTyped, AllSound, PooledOnce, NEW d
    PROVE  VotesFrom(d) \in [1 .. AccountCount -> Int]
BY GetStakeType DEF VotesFrom, Accounts

LEMMA WrittenProperties ==
    ASSUME VotesTyped, now \in Nat, NEW d \in Accounts, NEW v \in Int
    PROVE  /\ Written(d, v) \in Seq(Checkpoint)
           /\ Written(d, v) # << >> /\ Written(d, v)[Len(Written(d, v))].votes = v
<1> DEFINE cp == checkpoints[d]
           n == Len(cp)
<1>1. cp \in Seq(Checkpoint) /\ n \in Nat
  BY DEF VotesTyped
<1>2. CASE n > 0 /\ cp[n].from = now
  <2>1. Written(d, v) = [cp EXCEPT ![n].votes = v]
    BY <1>2 DEF Written
  <2> HIDE DEF cp
  <2>2. n \in 1 .. n /\ DOMAIN cp = 1 .. n /\ cp[n] \in Checkpoint
    BY <1>1, <1>2
  <2>3. [cp[n] EXCEPT !.votes = v] \in Checkpoint /\ [cp[n] EXCEPT !.votes = v].votes = v
    BY <2>2 DEF Checkpoint
  <2>4. [cp EXCEPT ![n].votes = v] = [cp EXCEPT ![n] = [cp[n] EXCEPT !.votes = v]]
    BY <2>2
  <2>5. /\ [cp EXCEPT ![n] = [cp[n] EXCEPT !.votes = v]] \in Seq(Checkpoint)
        /\ Len([cp EXCEPT ![n] = [cp[n] EXCEPT !.votes = v]]) = n
        /\ [cp EXCEPT ![n] = [cp[n] EXCEPT !.votes = v]][n] = [cp[n] EXCEPT !.votes = v]
    BY <1>1, <2>2, <2>3, ExceptSeq
  <2> QED BY <1>1, <1>2, <2>1, <2>3, <2>4, <2>5
<1>3. CASE ~ (n > 0 /\ cp[n].from = now)
  <2>1. Written(d, v) = Append(cp, [from |-> now, votes |-> v])
    BY <1>3 DEF Written
  <2>2. [from |-> now, votes |-> v] \in Checkpoint
    BY DEF Checkpoint
  <2> HIDE DEF cp
  <2> QED BY <1>1, <2>1, <2>2
<1> QED BY <1>2, <1>3

\* Votes go from one delegatee to another, and nobody else's change.
LEMMA Moved ==
    ASSUME VotesTyped, now \in Nat, delegates' \in [Accounts -> Accounts \cup {Nobody}],
           NEW src \in Accounts \cup {Nobody}, NEW dst \in Accounts \cup {Nobody}, NEW amount \in Nat,
           MoveDelegates(src, dst, amount)
    PROVE  /\ VotesTyped'
           /\ \A d \in Accounts : CurrentVotes(d) \in Int
           /\ src = dst => \A d \in Accounts : CurrentVotes(d)' = CurrentVotes(d)
           /\ src # dst => \A d \in Accounts :
                CurrentVotes(d)' = CurrentVotes(d) + (IF d = src THEN - amount ELSE IF d = dst THEN amount ELSE 0)
<1>1. ASSUME NEW d \in Accounts PROVE checkpoints[d] \in Seq(Checkpoint) /\ CurrentVotes(d) \in Int
  <2>1. checkpoints[d] \in Seq(Checkpoint)
    BY DEF VotesTyped
  <2>2. checkpoints[d] # << >> => checkpoints[d][Len(checkpoints[d])] \in Checkpoint
    BY <2>1
  <2> QED BY <2>1, <2>2 DEF CurrentVotes, Checkpoint
<1>2. CASE src = dst \/ amount = 0
  <2>1. checkpoints' = checkpoints
    BY <1>2 DEF MoveDelegates
  <2>2. VotesTyped' /\ \A d \in Accounts : CurrentVotes(d)' = CurrentVotes(d)
    BY <2>1 DEF VotesTyped, CurrentVotes
  <2> QED BY <1>1, <1>2, <2>2
<1>3. CASE src # dst /\ amount # 0
  <2> DEFINE by(d) == IF d = src THEN - amount ELSE IF d = dst THEN amount ELSE 0
  <2>1. checkpoints' = [d \in Accounts |->
          IF d = src THEN Written(d, CurrentVotes(d) - amount)
          ELSE IF d = dst THEN Written(d, CurrentVotes(d) + amount)
          ELSE checkpoints[d]]
    BY <1>3 DEF MoveDelegates
  <2>2. ASSUME NEW d \in Accounts
        PROVE  checkpoints'[d] \in Seq(Checkpoint) /\ CurrentVotes(d)' = CurrentVotes(d) + by(d)
    <3>1. CurrentVotes(d) - amount \in Int /\ CurrentVotes(d) + amount \in Int
      BY <1>1
    <3>2. CASE d = src
      <4>1. checkpoints'[d] = Written(d, CurrentVotes(d) - amount)
        BY <2>1, <3>2
      <4>2. checkpoints'[d] \in Seq(Checkpoint) /\ CurrentVotes(d)' = CurrentVotes(d) - amount
        BY <3>1, <4>1, WrittenProperties DEF CurrentVotes
      <4> QED BY <3>2, <4>2, <1>1
    <3>3. CASE d # src /\ d = dst
      <4>1. checkpoints'[d] = Written(d, CurrentVotes(d) + amount)
        BY <2>1, <3>3
      <4>2. checkpoints'[d] \in Seq(Checkpoint) /\ CurrentVotes(d)' = CurrentVotes(d) + amount
        BY <3>1, <4>1, WrittenProperties DEF CurrentVotes
      <4> QED BY <3>3, <4>2, <1>1
    <3>4. CASE d # src /\ d # dst
      <4>1. checkpoints'[d] = checkpoints[d]
        BY <2>1, <3>4
      <4>2. CurrentVotes(d)' = CurrentVotes(d)
        BY <4>1 DEF CurrentVotes
      <4> QED BY <3>4, <4>1, <4>2, <1>1
    <3> QED BY <3>2, <3>3, <3>4
  <2>3. VotesTyped'
    BY <2>1, <2>2 DEF VotesTyped
  <2> QED BY <1>1, <1>3, <2>2, <2>3
<1> QED BY <1>2, <1>3

LEMMA EclKept ==
    ASSUME PoolsTyped, SameTokens
    PROVE  EclPids' = EclPids /\ (EclApart' => EclApart)
<1>1. Ecl \in RewardTokens
  BY EclAssumption
<1> QED BY <1>1 DEF EclPids, EclApart, SameTokens

LEMMA VotesKept ==
    ASSUME EclApart' => EclApart, VotesTyped, VotesFollow, UNCHANGED <<delegates, checkpoints>>,
           \A u \in Accounts : GetStakeAmount(u)' = GetStakeAmount(u)
    PROVE  VotesTyped' /\ VotesFollow'
<1>1. VotesTyped'
  BY DEF VotesTyped
<1>2. ASSUME NEW d \in Accounts PROVE CurrentVotes(d)' = CurrentVotes(d) /\ VotesFrom(d)' = VotesFrom(d)
  <2>1. CurrentVotes(d)' = CurrentVotes(d)
    BY DEF CurrentVotes
  <2>2. \A u \in Accounts : (IF delegates'[u] = d THEN GetStakeAmount(u)' ELSE 0) = (IF delegates[u] = d THEN GetStakeAmount(u) ELSE 0)
    OBVIOUS
  <2>3. VotesFrom(d)' = [u \in Accounts |-> IF delegates'[u] = d THEN GetStakeAmount(u)' ELSE 0]
    BY DEF VotesFrom
  <2> QED BY <2>1, <2>2, <2>3 DEF VotesFrom
<1>3. ASSUME EclApart', NEW d \in Accounts PROVE CurrentVotes(d)' = Total(VotesFrom(d)', AccountCount)
  BY <1>2, <1>3 DEF VotesFollow
<1> QED BY <1>1, <1>3 DEF VotesFollow

LEMMA PoolsChangedVotesKept ==
    ASSUME PoolsTyped, SameTokens, VotesTyped, VotesFollow, UNCHANGED <<positions, delegates, checkpoints>>
    PROVE  VotesTyped' /\ VotesFollow'
<1>1. \A u \in Accounts : GetStakeAmount(u)' = GetStakeAmount(u)
  BY EclKept DEF GetStakeAmount
<1> QED BY <1>1, EclKept, VotesKept

\* A staker's position changes; his delegatee's votes change as the stake does.
LEMMA StakeVoted ==
    ASSUME PoolsTyped, StakesTyped, AllSound, PooledOnce, VotesFollow,
           PoolsTyped', PooledOnce', SameTokens,
           NEW r \in RewardTokens, NEW pid \in DOMAIN pools[r], NEW u \in Accounts, NEW q \in Position,
           positions' = [positions EXCEPT ![r][pid][u] = q], delegates' = delegates,
           \A d \in Accounts : CurrentVotes(d) \in Int,
           pools[r][pid].token = Ecl => \A d \in Accounts :
             CurrentVotes(d)' = CurrentVotes(d) + (IF delegates[u] = d THEN Stake(q) - Stake(positions[r][pid][u]) ELSE 0),
           pools[r][pid].token # Ecl => checkpoints' = checkpoints
    PROVE  VotesFollow'
<1>1. SUFFICES ASSUME EclApart', NEW d \in Accounts PROVE CurrentVotes(d)' = Total(VotesFrom(d)', AccountCount)
  BY DEF VotesFollow
<1>2. /\ EclApart /\ EclPids' = EclPids
      /\ CurrentVotes(d) = Total(VotesFrom(d), AccountCount)
  BY <1>1, EclKept DEF VotesFollow
<1>3. positions \in [RewardTokens -> [Pids -> [Accounts -> Position]]] /\ pid \in Pids
  BY PoolAt DEF StakesTyped
<1>4. /\ positions'[r][pid] = [positions[r][pid] EXCEPT ![u] = q]
      /\ \A s \in RewardTokens, i \in Pids : s # r \/ i # pid => positions'[s][i] = positions[s][i]
  BY <1>3
<1>5. CASE pools[r][pid].token = Ecl
  <2>1. r = Ecl
    BY <1>2, <1>5 DEF EclApart
  <2>2. pid \in DOMAIN pools'[Ecl] /\ pools'[Ecl][pid].token = Ecl
    BY <1>5, <2>1 DEF SameTokens
  <2>3. \A v \in Accounts : GetStakeAmount(v) = Stake(positions[Ecl][pid][v])
    BY <1>5, <2>1, EclPool
  <2>4. EclPids = {pid}
    BY <1>5, <2>1, EclPool
  <2>5. \A v \in Accounts : GetStakeAmount(v)' = Stake(positions'[Ecl][pid][v])
    <3>1. (CHOOSE i \in EclPids' : TRUE) = pid
      BY <1>2, <2>4
    <3> QED BY <1>2, <2>4, <3>1 DEF GetStakeAmount
  <2>6. \A v \in Accounts : positions'[Ecl][pid][v] = IF v = u THEN q ELSE positions[Ecl][pid][v]
    BY <1>3, <1>4, <2>1
  <2> DEFINE e == IF delegates[u] = d THEN Stake(q) ELSE 0
  <2>7. VotesFrom(d)' = [v \in Accounts |-> IF delegates'[v] = d THEN GetStakeAmount(v)' ELSE 0]
    BY DEF VotesFrom
  <2>8. \A v \in Accounts : (IF delegates'[v] = d THEN GetStakeAmount(v)' ELSE 0) = IF v = u THEN e ELSE VotesFrom(d)[v]
    BY <2>3, <2>5, <2>6 DEF VotesFrom
  <2>9. VotesFrom(d)' = [VotesFrom(d) EXCEPT ![u] = e]
    BY <2>7, <2>8 DEF VotesFrom
  <2>10. /\ VotesFrom(d) \in [1 .. AccountCount -> Int] /\ e \in Int
         /\ u \in 1 .. AccountCount /\ AccountCount \in Nat
    BY VotesFromType, StakeType, AccountsAssumption DEF Accounts
  <2> HIDE DEF e
  <2>11. Total([VotesFrom(d) EXCEPT ![u] = e], AccountCount) = Total(VotesFrom(d), AccountCount) - VotesFrom(d)[u] + e
    BY <2>10, TotalUpdate
  <2>12. VotesFrom(d)[u] = IF delegates[u] = d THEN Stake(positions[r][pid][u]) ELSE 0
    BY <2>1, <2>3 DEF VotesFrom
  <2>13. Stake(positions[r][pid][u]) \in Int /\ Stake(q) \in Int
    BY <1>3, PositionAt, StakeType
  <2>14. CurrentVotes(d)' = CurrentVotes(d) + (IF delegates[u] = d THEN Stake(q) - Stake(positions[r][pid][u]) ELSE 0)
    BY <1>5
  <2>15. CurrentVotes(d) \in Int
    OBVIOUS
  <2> QED BY <1>2, <2>9, <2>11, <2>12, <2>13, <2>14, <2>15 DEF e
<1>6. CASE pools[r][pid].token # Ecl
  <2>1. ASSUME NEW v \in Accounts PROVE GetStakeAmount(v)' = GetStakeAmount(v)
    <3>1. CASE EclPids = {}
      BY <3>1, <1>2 DEF GetStakeAmount
    <3>2. CASE EclPids # {}
      <4> DEFINE i == CHOOSE j \in EclPids : TRUE
      <4>1. i \in DOMAIN pools[Ecl] /\ pools[Ecl][i].token = Ecl
        BY <3>2 DEF EclPids
      <4>2. i \in Pids /\ Ecl \in RewardTokens
        BY <4>1, EclAssumption, PoolAt
      <4>3. Ecl # r \/ i # pid
        BY <4>1, <1>6
      <4>4. positions'[Ecl][i] = positions[Ecl][i]
        BY <1>4, <4>2, <4>3
      <4>5. (CHOOSE j \in EclPids' : TRUE) = i
        BY <1>2
      <4> HIDE DEF i
      <4>6. GetStakeAmount(v)' = Stake(positions'[Ecl][i][v])
        BY <3>2, <1>2, <4>5 DEF GetStakeAmount
      <4>7. GetStakeAmount(v) = Stake(positions[Ecl][i][v])
        BY <3>2 DEF GetStakeAmount, i
      <4> QED BY <4>4, <4>6, <4>7
    <3> QED BY <3>1, <3>2
  <2>2. VotesFrom(d)' = [v \in Accounts |-> IF delegates'[v] = d THEN GetStakeAmount(v)' ELSE 0]
    BY DEF VotesFrom
  <2>3. \A v \in Accounts : (IF delegates'[v] = d THEN GetStakeAmount(v)' ELSE 0) = (IF delegates[v] = d THEN GetStakeAmount(v) ELSE 0)
    BY <2>1
  <2>4. VotesFrom(d)' = VotesFrom(d)
    BY <2>2, <2>3 DEF VotesFrom
  <2>5. CurrentVotes(d)' = CurrentVotes(d)
    BY <1>6 DEF CurrentVotes
  <2> QED BY <1>2, <2>4, <2>5
<1> QED BY <1>5, <1>6

-----------------------------------------------------------------------------
(* Rewards *)

LEMMA RewardsKept ==
    ASSUME RewardsTyped, ShortfallOwed, UNCHANGED rewards
    PROVE  RewardsTyped' /\ ShortfallOwed'
BY DEF RewardsTyped, ShortfallOwed, rewards

LEMMA Transferred ==
    ASSUME RewardsTyped, ShortfallOwed, NEW r \in RewardTokens, NEW u \in Accounts, NEW amount \in Int,
           TransferReward(r, u, amount)
    PROVE  RewardsTyped' /\ ShortfallOwed'
<1> DEFINE full == amount + pendingRewardTransfers[r][u]
           paid == IF full <= store[r] THEN full ELSE store[r]
<1>1. /\ store \in [RewardTokens -> Int] /\ granted \in [RewardTokens -> Int] /\ funded \in [RewardTokens -> Int]
      /\ pendingRewardTransfers \in [RewardTokens -> [Accounts -> Int]]
  BY DEF RewardsTyped
<1>2. full \in Int /\ paid \in Int /\ store[r] \in Int /\ granted[r] \in Int /\ funded[r] \in Int
  BY <1>1
<1>3. /\ store' = [store EXCEPT ![r] = @ - paid]
      /\ pendingRewardTransfers' = [pendingRewardTransfers EXCEPT ![r][u] = full - paid]
      /\ granted' = [granted EXCEPT ![r] = @ + amount]
      /\ funded' = funded
  BY DEF TransferReward, OwedWith
<1> HIDE DEF paid
<1>4. pendingRewardTransfers'[r] = [pendingRewardTransfers[r] EXCEPT ![u] = full - paid]
  BY <1>1, <1>3
<1>5. RewardsTyped'
  BY <1>1, <1>2, <1>3 DEF RewardsTyped
<1>6. Total(pendingRewardTransfers'[r], AccountCount)
        = Total(pendingRewardTransfers[r], AccountCount) - pendingRewardTransfers[r][u] + (full - paid)
  <2>1. /\ pendingRewardTransfers[r] \in [1 .. AccountCount -> Int] /\ u \in 1 .. AccountCount
        /\ full - paid \in Int /\ AccountCount \in Nat
    BY <1>1, <1>2, AccountsAssumption DEF Accounts
  <2> HIDE DEF full
  <2> QED BY <1>4, <2>1, TotalUpdate, SMTT(40)
<1>7. Total(pendingRewardTransfers[r], AccountCount) \in Int /\ pendingRewardTransfers[r][u] \in Int
  <2>1. pendingRewardTransfers[r] \in [1 .. AccountCount -> Int] /\ AccountCount \in Nat
    BY <1>1, AccountsAssumption DEF Accounts
  <2> QED BY <2>1, <1>1, TotalType
<1>8. granted[r] = funded[r] - store[r] + Total(pendingRewardTransfers[r], AccountCount)
  BY DEF ShortfallOwed
<1>9. granted'[r] = granted[r] + amount /\ store'[r] = store[r] - paid /\ funded'[r] = funded[r]
  BY <1>1, <1>3
<1>10. granted'[r] = funded'[r] - store'[r] + Total(pendingRewardTransfers'[r], AccountCount)
  BY <1>2, <1>6, <1>7, <1>8, <1>9
<1>11. ASSUME NEW s \in RewardTokens, s # r
       PROVE  granted'[s] = funded'[s] - store'[s] + Total(pendingRewardTransfers'[s], AccountCount)
  <2>1. /\ granted'[s] = granted[s] /\ store'[s] = store[s] /\ funded'[s] = funded[s]
        /\ pendingRewardTransfers'[s] = pendingRewardTransfers[s]
    BY <1>1, <1>3, <1>11
  <2> QED BY <2>1 DEF ShortfallOwed
<1> QED BY <1>5, <1>10, <1>11 DEF ShortfallOwed

-----------------------------------------------------------------------------
(* The pools' operations *)

\* Only pools change, and keep their tokens.
LEMMA PoolsOnly ==
    ASSUME IInv, PoolsTyped', SameTokens,
           UNCHANGED <<positions, totalPendingWithdrawals, balance, votes, rewards>>
    PROVE  IInv'
<1>1. StakesTyped' /\ AllSound' /\ Books'
  BY BooksKept DEF IInv
<1>2. VotesTyped' /\ VotesFollow'
  BY PoolsChangedVotesKept DEF IInv, votes
<1>3. RewardsTyped' /\ ShortfallOwed'
  BY RewardsKept DEF IInv
<1> QED BY <1>1, <1>2, <1>3 DEF IInv

LEMMA MassUpdatedType ==
    ASSUME PoolsTyped, StakesTyped, AllSound, SharedAmongStakes, NEW r \in RewardTokens
    PROVE  /\ MassUpdated(r) \in [DOMAIN pools[r] -> PoolInfo]
           /\ \A pid \in DOMAIN pools[r] : MassUpdated(r)[pid].token = pools[r][pid].token
BY UpdatedType DEF MassUpdated

LEMMA AddStep ==
    ASSUME IInv, NEW r \in RewardTokens, NEW alloc \in AllocPoints, NEW token \in Tokens, NEW rate \in Rates,
           NEW lock \in LockPeriods, Add(r, alloc, token, rate, lock)
    PROVE  IInv'
<1> DEFINE n == Len(pools[r])
           m == MassUpdated(r)
           new == NewPool(token, alloc, lock)
<1>1. /\ PoolsTyped /\ StakesTyped /\ AllSound /\ Books
      /\ pools \in [RewardTokens -> Seq(PoolInfo)] /\ now \in Nat
      /\ totalAllocPoints \in [RewardTokens -> Nat] /\ rewardRate \in [RewardTokens -> Nat]
  BY DEF IInv, PoolsTyped
<1>2. /\ alloc > 0 /\ n < MaxPools /\ pools' = [pools EXCEPT ![r] = Append(m, new)]
      /\ \A s \in RewardTokens : \A pid \in DOMAIN pools[s] : pools[s][pid].token # token
      /\ totalAllocPoints' = [totalAllocPoints EXCEPT ![r] = @ + alloc]
      /\ rewardRate' = [rewardRate EXCEPT ![r] = rate]
      /\ UNCHANGED <<now, positions, totalPendingWithdrawals, balance, delegates, checkpoints, rewards>>
  BY DEF Add, votes
<1>3. alloc \in Nat /\ rate \in Nat /\ lock \in Nat
  BY InputsAssumption
<1>4. new \in PoolInfo /\ new.token = token
  BY <1>1, <1>3 DEF NewPool, PoolInfo
<1>5. pools[r] \in Seq(PoolInfo) /\ n \in Nat /\ DOMAIN pools[r] = 1 .. n
  BY <1>1
<1>6. /\ m \in [1 .. n -> PoolInfo]
      /\ \A pid \in 1 .. n : m[pid].token = pools[r][pid].token
  BY <1>1, <1>5, MassUpdatedType DEF Books
<1> HIDE DEF m, new, n
<1>7. m \in Seq(PoolInfo) /\ Len(m) = n
  <2>1. m \in Seq(PoolInfo)
    BY <1>5, <1>6, SequenceOf, Zenon
  <2>2. Len(m) \in Nat /\ 1 .. Len(m) = 1 .. n
    BY <2>1, <1>6, LenProperties
  <2>3. (n > 0 => n \in 1 .. Len(m)) /\ (Len(m) > 0 => Len(m) \in 1 .. n)
    BY <2>2, <1>5
  <2> QED BY <2>1, <2>2, <2>3, <1>5
<1>8. /\ Append(m, new) \in Seq(PoolInfo) /\ Len(Append(m, new)) = n + 1
      /\ Append(m, new)[n + 1] = new /\ \A pid \in 1 .. n : Append(m, new)[pid] = m[pid]
  BY <1>4, <1>5, <1>7
<1>9. /\ pools' \in [RewardTokens -> Seq(PoolInfo)]
      /\ Len(pools'[r]) = n + 1 /\ DOMAIN pools'[r] = 1 .. n + 1
      /\ pools'[r][n + 1].token = token
      /\ \A pid \in 1 .. n : pools'[r][pid].token = pools[r][pid].token
      /\ \A s \in RewardTokens : s # r => pools'[s] = pools[s]
  BY <1>1, <1>2, <1>4, <1>5, <1>6, <1>8
<1>10. PoolsTyped'
  <2>1. ASSUME NEW s \in RewardTokens
        PROVE  Len(pools'[s]) <= MaxPools /\ (pools'[s] # << >> => totalAllocPoints'[s] > 0)
    <3>1. CASE s = r
      BY <3>1, <1>1, <1>2, <1>3, <1>5, <1>9, BoundsAssumption
    <3>2. CASE s # r
      <4>1. pools'[s] = pools[s] /\ totalAllocPoints'[s] = totalAllocPoints[s]
        BY <3>2, <1>1, <1>2, <1>9
      <4> QED BY <4>1, <1>1 DEF PoolsTyped
    <3> QED BY <3>1, <3>2
  <2>2. totalAllocPoints' \in [RewardTokens -> Nat] /\ rewardRate' \in [RewardTokens -> Nat] /\ now' \in Nat
    BY <1>1, <1>2, <1>3
  <2> QED BY <2>1, <2>2, <1>9 DEF PoolsTyped
<1>11. StakesTyped' /\ AllSound'
  BY <1>1, <1>2 DEF StakesTyped, AllSound
<1>12. n + 1 \in Pids
  BY <1>2, <1>5, BoundsAssumption DEF Pids
<1>13. ASSUME NEW s \in RewardTokens, NEW pid
       PROVE  /\ pid \in DOMAIN pools'[s] <=> pid \in DOMAIN pools[s] \/ (s = r /\ pid = n + 1)
              /\ pid \in DOMAIN pools[s] => pools'[s][pid].token = pools[s][pid].token /\ pools[s][pid].token # token
              /\ s = r /\ pid = n + 1 => pools'[s][pid].token = token
  <2>1. CASE s = r
    BY <2>1, <1>2, <1>5, <1>9
  <2>2. CASE s # r
    BY <2>2, <1>2, <1>9
  <2> QED BY <2>1, <2>2
<1>14. n + 1 \notin DOMAIN pools[r]
  BY <1>5
<1>15. ASSUME NEW t \in Tokens, NEW s \in RewardTokens, NEW pid \in Pids
       PROVE  /\ PooledIn(t, s, pid)' <=> PooledIn(t, s, pid) \/ (t = token /\ s = r /\ pid = n + 1)
              /\ ~ PooledIn(token, s, pid)
  BY <1>13 DEF PooledIn
<1>16. PooledOnce' /\ OthersAbsent'
  <2>1. PooledOnce'
    <3>1. SUFFICES ASSUME NEW t \in Tokens, NEW s1 \in RewardTokens, NEW s2 \in RewardTokens, NEW i \in Pids, NEW j \in Pids,
                          PooledIn(t, s1, i)', PooledIn(t, s2, j)'
                   PROVE  s1 = s2 /\ i = j
      BY DEF PooledOnce
    <3>2. PooledIn(t, s1, i) \/ (t = token /\ s1 = r /\ i = n + 1)
      BY <3>1, <1>15
    <3>3. PooledIn(t, s2, j) \/ (t = token /\ s2 = r /\ j = n + 1)
      BY <3>1, <1>15
    <3>4. ~ PooledIn(token, s1, i) /\ ~ PooledIn(token, s2, j)
      BY <1>15
    <3>5. PooledIn(t, s1, i) /\ PooledIn(t, s2, j) => s1 = s2 /\ i = j
      BY <1>1 DEF Books, PooledOnce
    <3> QED BY <3>2, <3>3, <3>4, <3>5
  <2>2. OthersAbsent'
    <3>1. SUFFICES ASSUME NEW t \in Tokens, \A s \in RewardTokens, pid \in Pids : ~ PooledIn(t, s, pid)'
                   PROVE  balance'[t] = 0
      BY DEF OthersAbsent
    <3>2. \A s \in RewardTokens, pid \in Pids : ~ PooledIn(t, s, pid)
      BY <3>1, <1>15
    <3> QED BY <3>2, <1>1, <1>2 DEF Books, OthersAbsent
  <2> QED BY <2>1, <2>2
<1>17. Untouched'
  <2>1. SUFFICES ASSUME NEW s \in RewardTokens, NEW i \in Pids \ DOMAIN pools'[s]
                 PROVE  /\ totalPendingWithdrawals'[s][i] = 0
                        /\ \A v \in Accounts : positions'[s][i][v] = NoPosition
    BY DEF Untouched
  <2>2. i \in Pids \ DOMAIN pools[s]
    BY <1>13
  <2> QED BY <2>2, <1>1, <1>2 DEF Books, Untouched
<1>18. /\ totalPendingWithdrawals[r][n + 1] = 0 /\ \A u \in Accounts : positions[r][n + 1][u] = NoPosition
       /\ balance[token] = 0
  <2>1. totalPendingWithdrawals[r][n + 1] = 0 /\ \A u \in Accounts : positions[r][n + 1][u] = NoPosition
    BY <1>1, <1>12, <1>14 DEF Books, Untouched
  <2>2. balance[token] = 0
    BY <1>1, <1>15 DEF Books, OthersAbsent
  <2> QED BY <2>1, <2>2
<1>19. /\ Total(AmountsOf(positions[r][n + 1]), AccountCount) = 0
       /\ Total(StakesOf(positions[r][n + 1]), AccountCount) = 0
  <2>1. NoPosition.amount = 0 /\ Stake(NoPosition) = 0
    BY DEF NoPosition, Stake
  <2>2. /\ AmountsOf(positions[r][n + 1]) = [i \in 1 .. AccountCount |-> 0]
        /\ StakesOf(positions[r][n + 1]) = [i \in 1 .. AccountCount |-> 0]
    BY <2>1, <1>18 DEF AmountsOf, StakesOf, Accounts
  <2> QED BY <2>2, TotalZero, AccountsAssumption
<1>20. DepositsBacked' /\ SharedAmongStakes'
  <2>1. SUFFICES ASSUME NEW s \in RewardTokens, NEW i \in DOMAIN pools'[s]
                 PROVE  /\ balance'[pools'[s][i].token] = Total(AmountsOf(positions'[s][i]), AccountCount)
                        /\ balance'[pools'[s][i].token] - totalPendingWithdrawals'[s][i] =
                             Total(StakesOf(positions'[s][i]), AccountCount)
    BY DEF DepositsBacked, SharedAmongStakes
  <2>2. CASE s = r /\ i = n + 1
    BY <2>2, <1>2, <1>13, <1>18, <1>19
  <2>3. CASE i \in DOMAIN pools[s]
    BY <2>3, <1>1, <1>2, <1>13 DEF Books, DepositsBacked, SharedAmongStakes
  <2> QED BY <2>2, <2>3, <1>13
<1>21. Books'
  BY <1>16, <1>17, <1>20 DEF Books
<1>22. Ecl \in RewardTokens /\ Ecl \in Tokens
  BY EclAssumption
<1>23. \A u \in Accounts : GetStakeAmount(u)' = GetStakeAmount(u)
  <2>1. CASE token = Ecl /\ r = Ecl
    <3>1. EclPids = {}
      BY <2>1, <1>2 DEF EclPids
    <3>2. EclPids' = {n + 1}
      BY <2>1, <1>13 DEF EclPids
    <3>3. (CHOOSE i \in EclPids' : TRUE) = n + 1
      BY <3>2
    <3>4. \A u \in Accounts : GetStakeAmount(u)' = Stake(positions'[Ecl][n + 1][u])
      BY <3>2, <3>3 DEF GetStakeAmount
    <3>5. Stake(NoPosition) = 0
      BY DEF NoPosition, Stake
    <3>6. \A u \in Accounts : GetStakeAmount(u) = 0
      BY <3>1 DEF GetStakeAmount
    <3>7. \A u \in Accounts : positions'[Ecl][n + 1][u] = NoPosition
      BY <2>1, <1>2, <1>18
    <3> QED BY <3>4, <3>5, <3>6, <3>7
  <2>2. CASE ~ (token = Ecl /\ r = Ecl)
    <3>1. EclPids' = EclPids
      BY <2>2, <1>13, <1>22 DEF EclPids
    <3> QED BY <3>1, <1>2 DEF GetStakeAmount
  <2> QED BY <2>1, <2>2
<1>24. EclApart' => EclApart
  BY <1>13 DEF EclApart
<1>25. VotesTyped' /\ VotesFollow'
  BY <1>2, <1>23, <1>24, VotesKept DEF IInv
<1>26. RewardsTyped' /\ ShortfallOwed'
  BY <1>2, RewardsKept DEF IInv
<1> QED BY <1>10, <1>11, <1>21, <1>25, <1>26 DEF IInv

LEMMA SetStep ==
    ASSUME IInv, NEW r \in RewardTokens, NEW pid \in DOMAIN pools[r], NEW alloc \in AllocPoints, Set(r, pid, alloc)
    PROVE  IInv'
<1> DEFINE m == MassUpdated(r)
           f == [m EXCEPT ![pid].allocPoint = alloc]
           total == totalAllocPoints[r] - pools[r][pid].allocPoint + alloc
<1>1. /\ PoolsTyped /\ now \in Nat
      /\ totalAllocPoints \in [RewardTokens -> Nat] /\ rewardRate \in [RewardTokens -> Nat]
  BY DEF IInv, PoolsTyped
<1>2. /\ total > 0 /\ pools' = [pools EXCEPT ![r] = f] /\ totalAllocPoints' = [totalAllocPoints EXCEPT ![r] = total]
      /\ UNCHANGED <<now, rewardRate, positions, totalPendingWithdrawals, balance, votes, rewards>>
  BY DEF Set
<1>3. alloc \in Nat /\ total \in Int
  <2>1. pools[r][pid] \in PoolInfo /\ totalAllocPoints[r] \in Nat
    BY <1>1, PoolAt
  <2> QED BY <2>1, InputsAssumption DEF PoolInfo
<1>4. m \in [DOMAIN pools[r] -> PoolInfo] /\ \A i \in DOMAIN pools[r] : m[i].token = pools[r][i].token
  BY MassUpdatedType DEF IInv, Books
<1> HIDE DEF m, total
<1>5. [m[pid] EXCEPT !.allocPoint = alloc] \in PoolInfo /\ [m[pid] EXCEPT !.allocPoint = alloc].token = m[pid].token
  BY <1>3, <1>4 DEF PoolInfo
<1>6. f \in [DOMAIN pools[r] -> PoolInfo] /\ \A i \in DOMAIN pools[r] : f[i].token = pools[r][i].token
  BY <1>4, <1>5
<1> HIDE DEF f
<1>7. /\ totalAllocPoints' \in [RewardTokens -> Nat]
      /\ \A s \in RewardTokens : totalAllocPoints'[s] = totalAllocPoints[s] \/ totalAllocPoints'[s] > 0
  BY <1>1, <1>2, <1>3
<1>8. now' \in Nat /\ rewardRate' \in [RewardTokens -> Nat]
  BY <1>1, <1>2
<1>9. PoolsTyped' /\ SameTokens
  BY <1>1, <1>2, <1>6, <1>7, <1>8, PoolsRewritten
<1> QED BY <1>2, <1>9, PoolsOnly

LEMMA SetRewardAmountStep ==
    ASSUME IInv, NEW r \in RewardTokens, NEW rate \in Rates, SetRewardAmountPerBlockOrSecond(r, rate)
    PROVE  IInv'
<1> DEFINE m == MassUpdated(r)
<1>1. /\ PoolsTyped /\ now \in Nat
      /\ totalAllocPoints \in [RewardTokens -> Nat] /\ rewardRate \in [RewardTokens -> Nat]
  BY DEF IInv, PoolsTyped
<1>2. /\ pools' = [pools EXCEPT ![r] = m] /\ rewardRate' = [rewardRate EXCEPT ![r] = rate]
      /\ UNCHANGED <<now, totalAllocPoints, positions, totalPendingWithdrawals, balance, votes, rewards>>
  BY DEF SetRewardAmountPerBlockOrSecond
<1>3. m \in [DOMAIN pools[r] -> PoolInfo] /\ \A i \in DOMAIN pools[r] : m[i].token = pools[r][i].token
  BY MassUpdatedType DEF IInv, Books
<1> HIDE DEF m
<1>4. /\ rewardRate' \in [RewardTokens -> Nat] /\ now' \in Nat /\ totalAllocPoints' \in [RewardTokens -> Nat]
      /\ \A s \in RewardTokens : totalAllocPoints'[s] = totalAllocPoints[s] \/ totalAllocPoints'[s] > 0
  BY <1>1, <1>2, InputsAssumption
<1>5. PoolsTyped' /\ SameTokens
  BY <1>1, <1>2, <1>3, <1>4, PoolsRewritten
<1> QED BY <1>2, <1>5, PoolsOnly

LEMMA SetLockingStep ==
    ASSUME IInv, NEW r \in RewardTokens, NEW pid \in DOMAIN pools[r], NEW period \in LockPeriods,
           SetWithdrawalLockingPeriod(r, pid, period)
    PROVE  IInv'
<1> DEFINE pool == [pools[r][pid] EXCEPT !.lockPeriod = period]
<1>1. PoolsTyped /\ pools[r][pid] \in PoolInfo /\ pools \in [RewardTokens -> Seq(PoolInfo)]
  BY PoolAt DEF IInv, PoolsTyped
<1>2. pool \in PoolInfo /\ pool.token = pools[r][pid].token
  BY <1>1, InputsAssumption DEF PoolInfo
<1>3. /\ pools' = [pools EXCEPT ![r][pid] = pool]
      /\ UNCHANGED <<now, totalAllocPoints, rewardRate, positions, totalPendingWithdrawals, balance, votes, rewards>>
  BY DEF SetWithdrawalLockingPeriod
<1> HIDE DEF pool
<1>4. PoolsTyped' /\ SameTokens
  BY <1>1, <1>2, <1>3, OnePoolRewritten
<1> QED BY <1>3, <1>4, PoolsOnly

\* The first thing every operation of a staker does.
LEMMA PoolUpdated ==
    ASSUME IInv, NEW r \in RewardTokens, NEW pid \in DOMAIN pools[r],
           pools' = [pools EXCEPT ![r][pid] = Updated(r, pid)],
           UNCHANGED <<now, totalAllocPoints, rewardRate>>
    PROVE  PoolsTyped' /\ SameTokens
<1>1. PoolsTyped /\ Updated(r, pid) \in PoolInfo /\ Updated(r, pid).token = pools[r][pid].token
  BY UpdatedType DEF IInv, Books
<1> QED BY <1>1, OnePoolRewritten

LEMMA UpdatePoolStep ==
    ASSUME IInv, NEW r \in RewardTokens, NEW pid \in DOMAIN pools[r], UpdatePool(r, pid)
    PROVE  IInv'
<1>1. /\ pools' = [pools EXCEPT ![r][pid] = Updated(r, pid)]
      /\ UNCHANGED <<now, totalAllocPoints, rewardRate, positions, totalPendingWithdrawals, balance, votes, rewards>>
  BY DEF UpdatePool, settings
<1> QED BY <1>1, PoolUpdated, PoolsOnly

\* Time passes, or nothing that the books are about changes.
LEMMA Unmoved ==
    ASSUME IInv, UNCHANGED <<stakes, votes, rewards, totalAllocPoints, rewardRate>>, now' \in Nat
    PROVE  IInv'
<1>1. UNCHANGED <<pools, positions, totalPendingWithdrawals, balance>>
  BY DEF stakes
<1>2. PoolsTyped'
  BY <1>1 DEF IInv, PoolsTyped
<1>3. SameTokens
  BY <1>1 DEF SameTokens
<1> QED BY <1>1, <1>2, <1>3, PoolsOnly

LEMMA FundStep ==
    ASSUME IInv, NEW r \in RewardTokens, NEW amount \in Fundings, Fund(r, amount)
    PROVE  IInv'
<1>1. /\ store' = [store EXCEPT ![r] = @ + amount] /\ funded' = [funded EXCEPT ![r] = @ + amount]
      /\ UNCHANGED <<now, pools, positions, totalPendingWithdrawals, balance, delegates, checkpoints>>
      /\ UNCHANGED <<totalAllocPoints, rewardRate, granted, pendingRewardTransfers>>
  BY DEF Fund, stakes, votes
<1>2. amount \in Nat
  BY InputsAssumption
<1>3. RewardsTyped'
  BY <1>1, <1>2 DEF IInv, RewardsTyped
<1>4. ShortfallOwed'
  <2>1. SUFFICES ASSUME NEW s \in RewardTokens
                 PROVE  granted'[s] = funded'[s] - store'[s] + Total(pendingRewardTransfers'[s], AccountCount)
    BY DEF ShortfallOwed
  <2>2. granted[s] = funded[s] - store[s] + Total(pendingRewardTransfers[s], AccountCount)
    BY DEF IInv, ShortfallOwed
  <2>3. store[s] \in Int /\ funded[s] \in Int /\ store \in [RewardTokens -> Int] /\ funded \in [RewardTokens -> Int]
    BY DEF IInv, RewardsTyped
  <2>4. funded'[s] - store'[s] = funded[s] - store[s]
    BY <2>3, <1>1, <1>2
  <2> QED BY <2>2, <2>4, <1>1
<1>5. PoolsTyped' /\ SameTokens
  BY <1>1 DEF IInv, PoolsTyped, SameTokens
<1>6. StakesTyped' /\ AllSound' /\ Books'
  BY <1>1, <1>5, BooksKept DEF IInv
<1>7. VotesTyped' /\ VotesFollow'
  BY <1>1, <1>5, PoolsChangedVotesKept DEF IInv
<1> QED BY <1>3, <1>4, <1>5, <1>6, <1>7 DEF IInv

-----------------------------------------------------------------------------
(* The stakers' operations *)

\* The one case of all four: a position changes, the votes by as much as its stake.
LEMMA StakerStep ==
    ASSUME IInv, PoolsTyped', SameTokens,
           NEW r \in RewardTokens, NEW pid \in DOMAIN pools[r], NEW u \in Accounts,
           NEW q \in Position, SoundPosition(q),
           positions' = [positions EXCEPT ![r][pid][u] = q],
           balance' = [balance EXCEPT ![pools[r][pid].token] = @ + (q.amount - positions[r][pid][u].amount)],
           totalPendingWithdrawals' = [totalPendingWithdrawals EXCEPT ![r][pid] =
             @ + (q.pendingWithdrawals - positions[r][pid][u].pendingWithdrawals)],
           delegates' = delegates, VotesTyped', \A d \in Accounts : CurrentVotes(d) \in Int,
           pools[r][pid].token = Ecl => \A d \in Accounts :
             CurrentVotes(d)' = CurrentVotes(d) + (IF delegates[u] = d THEN Stake(q) - Stake(positions[r][pid][u]) ELSE 0),
           pools[r][pid].token # Ecl => checkpoints' = checkpoints,
           RewardsTyped', ShortfallOwed'
    PROVE  IInv'
<1>1. /\ PoolsTyped /\ StakesTyped /\ AllSound /\ Books /\ VotesFollow /\ PooledOnce
      /\ balance \in [Tokens -> Int] /\ totalPendingWithdrawals \in [RewardTokens -> [Pids -> Int]]
  BY DEF IInv, Books, StakesTyped
<1>2. pid \in Pids /\ pools[r][pid].token \in Tokens /\ positions[r][pid][u] \in Position
  BY <1>1, PoolAt, PositionAt
<1>3. q.amount \in Int /\ q.pendingWithdrawals \in Int /\ positions[r][pid][u].amount \in Int
      /\ positions[r][pid][u].pendingWithdrawals \in Int
  BY <1>2 DEF Position
<1>4. /\ balance' \in [Tokens -> Int]
      /\ balance'[pools[r][pid].token] = balance[pools[r][pid].token] + q.amount - positions[r][pid][u].amount
      /\ \A t \in Tokens \ {pools[r][pid].token} : balance'[t] = balance[t]
  BY <1>1, <1>2, <1>3
<1>5. /\ totalPendingWithdrawals' \in [RewardTokens -> [Pids -> Int]]
      /\ totalPendingWithdrawals'[r][pid] =
           totalPendingWithdrawals[r][pid] + q.pendingWithdrawals - positions[r][pid][u].pendingWithdrawals
      /\ \A s \in RewardTokens, i \in Pids : s # r \/ i # pid => totalPendingWithdrawals'[s][i] = totalPendingWithdrawals[s][i]
  BY <1>1, <1>2, <1>3
<1>6. StakesTyped' /\ AllSound' /\ Books'
  <2>1. Rebooked(r, pid, u, q)
    BY <1>4, <1>5 DEF Rebooked
  <2> QED BY <2>1, <1>1, PositionChanged, SMTT(40)
<1>7. VotesFollow'
  <2>1. PooledOnce'
    BY <1>6 DEF Books
  <2> QED BY <2>1, <1>1, StakeVoted
<1> QED BY <1>6, <1>7 DEF IInv

\* Votes of the delegatee follow a deposit or a request of a staker.
LEMMA DelegateeMoved ==
    ASSUME IInv, NEW u \in Accounts, NEW amount \in Nat, delegates' = delegates
    PROVE  /\ \A d \in Accounts : CurrentVotes(d) \in Int
           /\ UNCHANGED checkpoints => VotesTyped'
           /\ MoveDelegates(Nobody, delegates[u], amount) =>
                VotesTyped' /\ \A d \in Accounts : CurrentVotes(d)' = CurrentVotes(d) + (IF delegates[u] = d THEN amount ELSE 0)
           /\ MoveDelegates(delegates[u], Nobody, amount) =>
                VotesTyped' /\ \A d \in Accounts : CurrentVotes(d)' = CurrentVotes(d) + (IF delegates[u] = d THEN - amount ELSE 0)
           /\ UNCHANGED checkpoints => \A d \in Accounts : CurrentVotes(d)' = CurrentVotes(d)
<1>1. VotesTyped /\ now \in Nat
  BY DEF IInv, PoolsTyped
<1>2. /\ delegates \in [Accounts -> Accounts \cup {Nobody}] /\ delegates[u] \in Accounts \cup {Nobody}
      /\ delegates' \in [Accounts -> Accounts \cup {Nobody}] /\ Nobody \notin Accounts
  BY <1>1, AccountsAssumption DEF VotesTyped, Nobody, Accounts
<1>3. ASSUME NEW d \in Accounts PROVE CurrentVotes(d) \in Int
  <2>1. checkpoints[d] \in Seq(Checkpoint)
    BY <1>1 DEF VotesTyped
  <2>2. checkpoints[d] # << >> => checkpoints[d][Len(checkpoints[d])] \in Checkpoint
    BY <2>1
  <2> QED BY <2>1, <2>2 DEF CurrentVotes, Checkpoint
<1>4. ASSUME UNCHANGED checkpoints PROVE VotesTyped' /\ \A d \in Accounts : CurrentVotes(d)' = CurrentVotes(d)
  BY <1>1, <1>4 DEF VotesTyped, CurrentVotes
<1>5. ASSUME MoveDelegates(Nobody, delegates[u], amount)
      PROVE  VotesTyped' /\ \A d \in Accounts : CurrentVotes(d)' = CurrentVotes(d) + (IF delegates[u] = d THEN amount ELSE 0)
  <2>1. /\ VotesTyped'
        /\ Nobody = delegates[u] => \A d \in Accounts : CurrentVotes(d)' = CurrentVotes(d)
        /\ Nobody # delegates[u] => \A d \in Accounts : CurrentVotes(d)' =
             CurrentVotes(d) + (IF d = Nobody THEN - amount ELSE IF d = delegates[u] THEN amount ELSE 0)
    BY <1>1, <1>2, <1>5, Moved
  <2> QED BY <2>1, <1>2, <1>3
<1>6. ASSUME MoveDelegates(delegates[u], Nobody, amount)
      PROVE  VotesTyped' /\ \A d \in Accounts : CurrentVotes(d)' = CurrentVotes(d) + (IF delegates[u] = d THEN - amount ELSE 0)
  <2>1. /\ VotesTyped'
        /\ delegates[u] = Nobody => \A d \in Accounts : CurrentVotes(d)' = CurrentVotes(d)
        /\ delegates[u] # Nobody => \A d \in Accounts : CurrentVotes(d)' =
             CurrentVotes(d) + (IF d = delegates[u] THEN - amount ELSE IF d = Nobody THEN amount ELSE 0)
    BY <1>1, <1>2, <1>6, Moved
  <2> QED BY <2>1, <1>2, <1>3
<1> QED BY <1>3, <1>4, <1>5, <1>6

\* What the stakers' operations begin with.
LEMMA StakerFacts ==
    ASSUME IInv, NEW r \in RewardTokens, NEW pid \in DOMAIN pools[r], NEW u \in Accounts
    PROVE  /\ positions[r][pid][u] \in Position /\ SoundPosition(positions[r][pid][u])
           /\ Updated(r, pid) \in PoolInfo /\ Updated(r, pid).token = pools[r][pid].token
           /\ Updated(r, pid).lockPeriod \in Nat /\ pools[r][pid].token \in Tokens /\ pid \in Pids
           /\ Pending(positions[r][pid][u], Updated(r, pid)) \in Int
           /\ balance \in [Tokens -> Int] /\ totalPendingWithdrawals \in [RewardTokens -> [Pids -> Int]]
           /\ positions \in [RewardTokens -> [Pids -> [Accounts -> Position]]]
           /\ delegates[u] \in Accounts \cup {Nobody}
<1>1. PoolsTyped /\ StakesTyped /\ AllSound /\ SharedAmongStakes /\ VotesTyped
  BY DEF IInv, Books
<1>2. pid \in Pids /\ pools[r][pid].token \in Tokens
  BY <1>1, PoolAt
<1>3. positions[r][pid][u] \in Position /\ SoundPosition(positions[r][pid][u])
  BY <1>1, <1>2, PositionAt DEF AllSound
<1>4. /\ Updated(r, pid) \in PoolInfo /\ Updated(r, pid).token = pools[r][pid].token
      /\ Updated(r, pid).lockPeriod \in Nat
  BY <1>1, UpdatedType
<1>5. Pending(positions[r][pid][u], Updated(r, pid)) \in Int
  BY <1>3, <1>4, PendingType, SMTT(40)
<1> QED BY <1>1, <1>2, <1>3, <1>4, <1>5 DEF StakesTyped, VotesTyped

LEMMA DepositStep ==
    ASSUME IInv, NEW r \in RewardTokens, NEW pid \in DOMAIN pools[r], NEW u \in Accounts, NEW amount \in Amounts,
           Deposit(u, r, pid, amount)
    PROVE  IInv'
<1> DEFINE pool == Updated(r, pid)
           token == pools[r][pid].token
           p == positions[r][pid][u]
           staked == [p EXCEPT !.amount = @ + amount]
           q == [staked EXCEPT !.rewardDebt = Cumulative(staked, pool)]
<1>1. /\ p \in Position /\ SoundPosition(p) /\ pool \in PoolInfo /\ pool.token = token /\ token \in Tokens
      /\ pid \in Pids /\ Pending(p, pool) \in Int /\ balance \in [Tokens -> Int]
      /\ totalPendingWithdrawals \in [RewardTokens -> [Pids -> Int]]
  BY StakerFacts
<1>2. /\ pools' = [pools EXCEPT ![r][pid] = pool]
      /\ IF p.amount > 0 /\ Pending(p, pool) # 0
           THEN Pending(p, pool) > 0 /\ TransferReward(r, u, Pending(p, pool)) ELSE UNCHANGED rewards
      /\ positions' = [positions EXCEPT ![r][pid][u] = q]
      /\ balance' = [balance EXCEPT ![token] = @ + amount]
      /\ IF token = Ecl THEN MoveDelegates(Nobody, delegates[u], amount) ELSE UNCHANGED checkpoints
      /\ UNCHANGED <<now, totalPendingWithdrawals, delegates, totalAllocPoints, rewardRate>>
  BY <1>1 DEF Deposit, settings
<1>3. amount \in Nat
  BY InputsAssumption
<1> HIDE DEF pool, p, token
<1>4. staked \in Position /\ staked.amount = p.amount + amount /\ staked.requests = p.requests
      /\ staked.pendingWithdrawals = p.pendingWithdrawals
  <2>1. p.amount + amount \in Nat
    BY <1>1, <1>3 DEF Position
  <2>2. staked = [p EXCEPT !.amount = p.amount + amount]
    BY <1>1 DEF Position
  <2> HIDE DEF staked
  <2> QED BY <1>1, <2>1, <2>2 DEF Position
<1> HIDE DEF staked
<1>5. Cumulative(staked, pool) \in Int
  BY <1>1, <1>4, PendingType
<1>6. q \in Position /\ q.amount = p.amount + amount /\ q.pendingWithdrawals = p.pendingWithdrawals /\ q.requests = p.requests
  BY <1>4, <1>5 DEF Position
<1> HIDE DEF q
<1>7. p.amount \in Nat /\ p.pendingWithdrawals \in Nat
  BY <1>1 DEF Position
<1>8. SoundPosition(q) /\ Stake(q) - Stake(p) = amount /\ q.amount - p.amount = amount
      /\ q.pendingWithdrawals - p.pendingWithdrawals = 0
  BY <1>1, <1>3, <1>6, <1>7 DEF SoundPosition, Stake
<1>9. balance' = [balance EXCEPT ![token] = @ + (q.amount - p.amount)]
  BY <1>2, <1>8
<1>10. totalPendingWithdrawals' = [totalPendingWithdrawals EXCEPT ![r][pid] = @ + (q.pendingWithdrawals - p.pendingWithdrawals)]
  <2>1. totalPendingWithdrawals[r][pid] + (q.pendingWithdrawals - p.pendingWithdrawals) = totalPendingWithdrawals[r][pid]
    BY <1>1, <1>8
  <2> QED BY <2>1, <1>1, <1>2
<1>11. PoolsTyped' /\ SameTokens
  BY <1>2, PoolUpdated DEF pool
<1>12. RewardsTyped' /\ ShortfallOwed'
  BY <1>1, <1>2, Transferred, RewardsKept DEF IInv
<1>13. /\ delegates' = delegates /\ VotesTyped' /\ \A d \in Accounts : CurrentVotes(d) \in Int
       /\ token # Ecl => checkpoints' = checkpoints
       /\ token = Ecl => \A d \in Accounts : CurrentVotes(d)' = CurrentVotes(d) + (IF delegates[u] = d THEN amount ELSE 0)
  BY <1>2, <1>3, DelegateeMoved
<1>14. token = Ecl => \A d \in Accounts :
         CurrentVotes(d)' = CurrentVotes(d) + (IF delegates[u] = d THEN Stake(q) - Stake(p) ELSE 0)
  BY <1>8, <1>13
<1> QED
  BY <1>2, <1>6, <1>8, <1>9, <1>10, <1>11, <1>12, <1>13, <1>14, StakerStep DEF p, token

LEMMA ClaimStep ==
    ASSUME IInv, NEW r \in RewardTokens, NEW pid \in DOMAIN pools[r], NEW u \in Accounts, Claim(u, r, pid)
    PROVE  IInv'
<1> DEFINE pool == Updated(r, pid)
           token == pools[r][pid].token
           p == positions[r][pid][u]
           pays == p.amount > 0 /\ Pending(p, pool) # 0
           q == IF pays THEN [p EXCEPT !.rewardDebt = Cumulative(p, pool)] ELSE p
<1>1. /\ p \in Position /\ SoundPosition(p) /\ pool \in PoolInfo /\ token \in Tokens /\ pid \in Pids
      /\ Pending(p, pool) \in Int /\ balance \in [Tokens -> Int]
      /\ totalPendingWithdrawals \in [RewardTokens -> [Pids -> Int]]
      /\ positions \in [RewardTokens -> [Pids -> [Accounts -> Position]]]
  BY StakerFacts
<1>2. /\ pools' = [pools EXCEPT ![r][pid] = pool]
      /\ IF pays THEN /\ TransferReward(r, u, Pending(p, pool))
                      /\ positions' = [positions EXCEPT ![r][pid][u].rewardDebt = Cumulative(p, pool)]
                 ELSE UNCHANGED rewards /\ positions' = positions
      /\ UNCHANGED <<now, totalPendingWithdrawals, balance, delegates, checkpoints, totalAllocPoints, rewardRate>>
  BY DEF Claim, settings, votes
<1>3. Cumulative(p, pool) \in Int
  BY <1>1, PendingType
<1>4. positions' = [positions EXCEPT ![r][pid][u] = q]
  BY <1>1, <1>2
<1> HIDE DEF pool, p, token, pays
<1>5. q \in Position /\ q.amount = p.amount /\ q.pendingWithdrawals = p.pendingWithdrawals /\ q.requests = p.requests
  BY <1>1, <1>3 DEF Position
<1> HIDE DEF q
<1>6. p.amount \in Nat /\ p.pendingWithdrawals \in Nat
  BY <1>1 DEF Position
<1>7. SoundPosition(q) /\ Stake(q) - Stake(p) = 0 /\ q.amount - p.amount = 0 /\ q.pendingWithdrawals - p.pendingWithdrawals = 0
  BY <1>1, <1>5, <1>6 DEF SoundPosition, Stake
<1>8. balance' = [balance EXCEPT ![token] = @ + (q.amount - p.amount)]
  <2>1. balance[token] + (q.amount - p.amount) = balance[token]
    BY <1>1, <1>7
  <2> QED BY <2>1, <1>1, <1>2
<1>9. totalPendingWithdrawals' = [totalPendingWithdrawals EXCEPT ![r][pid] = @ + (q.pendingWithdrawals - p.pendingWithdrawals)]
  <2>1. totalPendingWithdrawals[r][pid] + (q.pendingWithdrawals - p.pendingWithdrawals) = totalPendingWithdrawals[r][pid]
    BY <1>1, <1>7
  <2> QED BY <2>1, <1>1, <1>2
<1>10. PoolsTyped' /\ SameTokens
  BY <1>2, PoolUpdated DEF pool
<1>11. RewardsTyped' /\ ShortfallOwed'
  BY <1>1, <1>2, Transferred, RewardsKept DEF IInv
<1>12. /\ delegates' = delegates /\ VotesTyped' /\ checkpoints' = checkpoints
       /\ \A d \in Accounts : CurrentVotes(d) \in Int /\ CurrentVotes(d)' = CurrentVotes(d)
  BY <1>2, DelegateeMoved, SMTT(40)
<1>13. \A d \in Accounts : CurrentVotes(d)' = CurrentVotes(d) + (IF delegates[u] = d THEN Stake(q) - Stake(p) ELSE 0)
  BY <1>7, <1>12, SMTT(40)
<1> QED
  BY <1>4, <1>5, <1>7, <1>8, <1>9, <1>10, <1>11, <1>12, <1>13, StakerStep DEF p, token

LEMMA RequestWithdrawalStep ==
    ASSUME IInv, NEW r \in RewardTokens, NEW pid \in DOMAIN pools[r], NEW u \in Accounts, NEW amount \in Amounts,
           RequestWithdrawal(u, r, pid, amount)
    PROVE  IInv'
<1> DEFINE pool == Updated(r, pid)
           token == pools[r][pid].token
           p == positions[r][pid][u]
           until == now + pool.lockPeriod
           asked == [p EXCEPT !.pendingWithdrawals = @ + amount, !.requests = WithRequest(@, amount, until)]
           q == [asked EXCEPT !.rewardDebt = Cumulative(asked, pool)]
<1>1. /\ p \in Position /\ SoundPosition(p) /\ pool \in PoolInfo /\ pool.token = token /\ token \in Tokens
      /\ pid \in Pids /\ Pending(p, pool) \in Int /\ balance \in [Tokens -> Int]
      /\ totalPendingWithdrawals \in [RewardTokens -> [Pids -> Int]] /\ pool.lockPeriod \in Nat
  BY StakerFacts
<1>2. /\ p.amount >= p.pendingWithdrawals + amount
      /\ pools' = [pools EXCEPT ![r][pid] = pool]
      /\ TransferReward(r, u, Pending(p, pool))
      /\ positions' = [positions EXCEPT ![r][pid][u] = q]
      /\ totalPendingWithdrawals' = [totalPendingWithdrawals EXCEPT ![r][pid] = @ + amount]
      /\ IF token = Ecl THEN MoveDelegates(delegates[u], Nobody, amount) ELSE UNCHANGED checkpoints
      /\ UNCHANGED <<now, balance, delegates, totalAllocPoints, rewardRate>>
  BY <1>1 DEF RequestWithdrawal, settings
<1>3. amount \in Nat /\ until \in Nat
  BY <1>1, InputsAssumption, SMTT(40) DEF IInv, PoolsTyped
<1> HIDE DEF pool, p, token, until
<1>4. p.requests \in Seq(Request) /\ Sorted(p.requests) /\ p.amount \in Nat /\ p.pendingWithdrawals \in Nat
  BY <1>1 DEF Position, SoundPosition
<1>5. /\ WithRequest(p.requests, amount, until) \in Seq(Request) /\ Sorted(WithRequest(p.requests, amount, until))
      /\ SumAmounts(WithRequest(p.requests, amount, until)) = SumAmounts(p.requests) + amount
  BY <1>3, <1>4, WithRequestProperties
<1>6. /\ asked \in Position /\ asked.amount = p.amount /\ asked.pendingWithdrawals = p.pendingWithdrawals + amount
      /\ asked.requests = WithRequest(p.requests, amount, until)
  <2> DEFINE w == WithRequest(p.requests, amount, until)
             pending == p.pendingWithdrawals + amount
  <2>1. pending \in Nat /\ w \in Seq(Request)
    BY <1>3, <1>4, <1>5
  <2>2. asked = [p EXCEPT !.pendingWithdrawals = pending, !.requests = w]
    BY <1>1 DEF Position
  <2> HIDE DEF asked, w, pending
  <2>3. /\ asked \in Position /\ asked.amount = p.amount /\ asked.pendingWithdrawals = pending
        /\ asked.requests = w
    BY <1>1, <2>1, <2>2 DEF Position
  <2> QED BY <2>3 DEF w, pending
<1> HIDE DEF asked
<1>7. Cumulative(asked, pool) \in Int
  BY <1>1, <1>6, PendingType
<1>8. /\ q \in Position /\ q.amount = p.amount /\ q.pendingWithdrawals = p.pendingWithdrawals + amount
      /\ q.requests = WithRequest(p.requests, amount, until)
  BY <1>6, <1>7 DEF Position
<1> HIDE DEF q
<1>9. SoundPosition(q) /\ Stake(q) - Stake(p) = - amount /\ q.amount - p.amount = 0
      /\ q.pendingWithdrawals - p.pendingWithdrawals = amount
  BY <1>1, <1>2, <1>3, <1>4, <1>5, <1>8, SMTT(40) DEF SoundPosition, Stake
<1>10. balance' = [balance EXCEPT ![token] = @ + (q.amount - p.amount)]
  <2>1. balance[token] + (q.amount - p.amount) = balance[token]
    BY <1>1, <1>9
  <2> QED BY <2>1, <1>1, <1>2
<1>11. totalPendingWithdrawals' = [totalPendingWithdrawals EXCEPT ![r][pid] = @ + (q.pendingWithdrawals - p.pendingWithdrawals)]
  BY <1>2, <1>9
<1>12. PoolsTyped' /\ SameTokens
  BY <1>2, PoolUpdated DEF pool
<1>13. RewardsTyped' /\ ShortfallOwed'
  BY <1>1, <1>2, Transferred DEF IInv
<1>14. /\ delegates' = delegates /\ VotesTyped' /\ \A d \in Accounts : CurrentVotes(d) \in Int
       /\ token # Ecl => checkpoints' = checkpoints
       /\ token = Ecl => \A d \in Accounts : CurrentVotes(d)' = CurrentVotes(d) + (IF delegates[u] = d THEN - amount ELSE 0)
  BY <1>2, <1>3, DelegateeMoved
<1>15. token = Ecl => \A d \in Accounts :
         CurrentVotes(d)' = CurrentVotes(d) + (IF delegates[u] = d THEN Stake(q) - Stake(p) ELSE 0)
  BY <1>9, <1>14, SMTT(40)
<1> QED
  BY <1>2, <1>8, <1>9, <1>10, <1>11, <1>12, <1>13, <1>14, <1>15, StakerStep DEF p, token

LEMMA ExecuteWithdrawalStep ==
    ASSUME IInv, NEW r \in RewardTokens, NEW pid \in DOMAIN pools[r], NEW u \in Accounts, ExecuteWithdrawal(u, r, pid)
    PROVE  IInv'
<1> DEFINE token == pools[r][pid].token
           p == positions[r][pid][u]
           kept == Kept(p.requests)
           amount == SumAmounts(p.requests) - SumAmounts(kept)
           q == [p EXCEPT !.amount = @ - amount, !.pendingWithdrawals = @ - amount, !.requests = kept]
<1>1. /\ p \in Position /\ SoundPosition(p) /\ token \in Tokens /\ pid \in Pids /\ balance \in [Tokens -> Int]
      /\ totalPendingWithdrawals \in [RewardTokens -> [Pids -> Int]]
      /\ positions \in [RewardTokens -> [Pids -> [Accounts -> Position]]]
  BY StakerFacts
<1>2. /\ positions' = [positions EXCEPT ![r][pid][u] = q]
      /\ totalPendingWithdrawals' = [totalPendingWithdrawals EXCEPT ![r][pid] = @ - amount]
      /\ balance' = [balance EXCEPT ![token] = @ - amount]
      /\ UNCHANGED <<now, pools, delegates, checkpoints, rewards, totalAllocPoints, rewardRate>>
  <2>1. positions' = [positions EXCEPT ![r][pid][u] = q]
    BY DEF ExecuteWithdrawal
  <2>2. totalPendingWithdrawals' = [totalPendingWithdrawals EXCEPT ![r][pid] = @ - amount]
    BY DEF ExecuteWithdrawal
  <2>3. balance' = [balance EXCEPT ![token] = @ - amount]
    BY DEF ExecuteWithdrawal
  <2>4. UNCHANGED <<now, pools, delegates, checkpoints, rewards, totalAllocPoints, rewardRate>>
    BY DEF ExecuteWithdrawal, settings, votes
  <2> QED BY <2>1, <2>2, <2>3, <2>4
<1> HIDE DEF p, token
<1>3. /\ p.requests \in Seq(Request) /\ Sorted(p.requests) /\ p.amount \in Nat /\ p.pendingWithdrawals \in Nat
      /\ p.pendingWithdrawals = SumAmounts(p.requests) /\ p.pendingWithdrawals <= p.amount
  BY <1>1 DEF Position, SoundPosition
<1>4. kept \in Seq(Request) /\ Sorted(kept) /\ now \in Nat
  BY <1>3, KeptProperties DEF IInv, PoolsTyped
<1>5. SumAmounts(kept) \in Nat /\ SumAmounts(p.requests) \in Nat
  BY <1>3, <1>4, SumAmountsType
<1> HIDE DEF kept
<1>6. amount \in Int /\ p.amount - amount \in Nat /\ p.pendingWithdrawals - amount = SumAmounts(kept)
      /\ SumAmounts(kept) <= p.amount - amount
  BY <1>3, <1>5
<1> HIDE DEF amount
<1>7. q \in Position /\ q.amount = p.amount - amount /\ q.pendingWithdrawals = p.pendingWithdrawals - amount /\ q.requests = kept
  BY <1>1, <1>4, <1>5, <1>6 DEF Position
<1> HIDE DEF q
<1>8. SoundPosition(q) /\ Stake(q) - Stake(p) = 0 /\ q.amount - p.amount = - amount
      /\ q.pendingWithdrawals - p.pendingWithdrawals = - amount
  BY <1>3, <1>4, <1>5, <1>6, <1>7 DEF SoundPosition, Stake
<1>9. balance' = [balance EXCEPT ![token] = @ + (q.amount - p.amount)]
  <2>1. balance[token] + (q.amount - p.amount) = balance[token] - amount
    BY <1>1, <1>6, <1>8
  <2> QED BY <2>1, <1>1, <1>2
<1>10. totalPendingWithdrawals' = [totalPendingWithdrawals EXCEPT ![r][pid] = @ + (q.pendingWithdrawals - p.pendingWithdrawals)]
  <2>1. totalPendingWithdrawals[r][pid] + (q.pendingWithdrawals - p.pendingWithdrawals) = totalPendingWithdrawals[r][pid] - amount
    BY <1>1, <1>6, <1>8
  <2> QED BY <2>1, <1>1, <1>2
<1>11. PoolsTyped' /\ SameTokens
  BY <1>2 DEF IInv, PoolsTyped, SameTokens
<1>12. RewardsTyped' /\ ShortfallOwed'
  BY <1>2, RewardsKept DEF IInv
<1>13. /\ delegates' = delegates /\ VotesTyped' /\ checkpoints' = checkpoints
       /\ \A d \in Accounts : CurrentVotes(d) \in Int /\ CurrentVotes(d)' = CurrentVotes(d)
  BY <1>2, DelegateeMoved
<1>14. \A d \in Accounts : CurrentVotes(d)' = CurrentVotes(d) + (IF delegates[u] = d THEN Stake(q) - Stake(p) ELSE 0)
  BY <1>8, <1>13
<1>15. positions' = [positions EXCEPT ![r][pid][u] = q]
  BY <1>2
<1> QED
  BY <1>7, <1>8, <1>9, <1>10, <1>11, <1>12, <1>13, <1>14, <1>15, StakerStep DEF p, token

LEMMA DelegateStep ==
    ASSUME IInv, NEW u \in Accounts, NEW to \in Accounts \cup {Nobody}, Delegate(u, to)
    PROVE  IInv'
<1>1. /\ delegates' = [delegates EXCEPT ![u] = to] /\ MoveDelegates(delegates[u], to, GetStakeAmount(u))
      /\ UNCHANGED <<now, pools, positions, totalPendingWithdrawals, balance, rewards, totalAllocPoints, rewardRate>>
  BY DEF Delegate, stakes, settings
<1>2. /\ PoolsTyped /\ StakesTyped /\ AllSound /\ Books /\ PooledOnce /\ VotesTyped /\ VotesFollow /\ now \in Nat
      /\ delegates \in [Accounts -> Accounts \cup {Nobody}]
  BY DEF IInv, Books, PoolsTyped, VotesTyped
<1>3. delegates' \in [Accounts -> Accounts \cup {Nobody}] /\ delegates[u] \in Accounts \cup {Nobody}
  BY <1>1, <1>2
<1>4. PoolsTyped' /\ SameTokens
  BY <1>1, <1>2 DEF PoolsTyped, SameTokens
<1>5. StakesTyped' /\ AllSound' /\ Books'
  BY <1>1, <1>2, <1>4, BooksKept
<1>6. RewardsTyped' /\ ShortfallOwed'
  BY <1>1, RewardsKept DEF IInv
<1>7. GetStakeAmount(u) \in Nat
  BY <1>2, GetStakeType
<1> DEFINE src == delegates[u]
           g == GetStakeAmount(u)
<1>8. /\ VotesTyped' /\ \A d \in Accounts : CurrentVotes(d) \in Int
      /\ src = to => \A d \in Accounts : CurrentVotes(d)' = CurrentVotes(d)
      /\ src # to => \A d \in Accounts :
           CurrentVotes(d)' = CurrentVotes(d) + (IF d = src THEN - g ELSE IF d = to THEN g ELSE 0)
  BY <1>1, <1>2, <1>3, <1>7, Moved
<1>9. ASSUME EclApart', NEW d \in Accounts PROVE CurrentVotes(d)' = Total(VotesFrom(d)', AccountCount)
  <2> DEFINE e == IF to = d THEN g ELSE 0
  <2>1. CurrentVotes(d) = Total(VotesFrom(d), AccountCount)
    BY <1>2, <1>4, <1>9, EclKept DEF VotesFollow
  <2>2. \A v \in Accounts : GetStakeAmount(v)' = GetStakeAmount(v)
    BY <1>1 DEF GetStakeAmount, EclPids
  <2>3. VotesFrom(d)' = [v \in Accounts |-> IF delegates'[v] = d THEN GetStakeAmount(v)' ELSE 0]
    BY DEF VotesFrom
  <2>4. \A v \in Accounts : (IF delegates'[v] = d THEN GetStakeAmount(v)' ELSE 0) = IF v = u THEN e ELSE VotesFrom(d)[v]
    BY <1>1, <1>2, <2>2 DEF VotesFrom
  <2>5. VotesFrom(d)' = [VotesFrom(d) EXCEPT ![u] = e]
    BY <2>3, <2>4 DEF VotesFrom
  <2>6. /\ VotesFrom(d) \in [1 .. AccountCount -> Int] /\ e \in Int
        /\ u \in 1 .. AccountCount /\ AccountCount \in Nat
    BY <1>2, <1>7, VotesFromType, AccountsAssumption DEF Accounts
  <2>7. VotesFrom(d)[u] = IF src = d THEN g ELSE 0
    BY DEF VotesFrom
  <2> HIDE DEF e
  <2>8. Total([VotesFrom(d) EXCEPT ![u] = e], AccountCount) = Total(VotesFrom(d), AccountCount) - VotesFrom(d)[u] + e
    BY <2>6, TotalUpdate
  <2> HIDE DEF g, src
  <2>9. g \in Nat /\ CurrentVotes(d) \in Int
    BY <1>7, <1>8 DEF g
  <2>10. CurrentVotes(d)' = CurrentVotes(d) - (IF src = d THEN g ELSE 0) + e
    BY <1>8, <2>9 DEF e
  <2> QED BY <2>1, <2>5, <2>7, <2>8, <2>10
<1>10. VotesFollow'
  BY <1>9 DEF VotesFollow
<1> QED BY <1>4, <1>5, <1>6, <1>8, <1>10 DEF IInv

-----------------------------------------------------------------------------
(* The invariant *)

LEMMA NothingRequested == SumAmounts(<< >>) = 0
<1>1. [i \in 1 .. 0 |-> << >>[i].amount] = [i \in 1 .. 0 |-> 0]
  OBVIOUS
<1>2. Total([i \in 1 .. 0 |-> 0], 0) = 0
  BY TotalZero
<1>3. Len(<< >>) = 0
  OBVIOUS
<1> QED BY <1>1, <1>2, <1>3 DEF SumAmounts

LEMMA IInvInit == Init => IInv
<1> SUFFICES ASSUME Init PROVE IInv
  OBVIOUS
<1> USE DEF Init, ForEach
<1>1. \A r \in RewardTokens : pools[r] = << >> /\ DOMAIN pools[r] = {} /\ Len(pools[r]) = 0
  OBVIOUS
<1>2. PoolsTyped
  <2>1. pools \in [RewardTokens -> Seq(PoolInfo)]
    OBVIOUS
  <2> QED BY <1>1, <2>1, BoundsAssumption DEF PoolsTyped
<1>3. NoPosition \in Position /\ SoundPosition(NoPosition)
  BY NothingRequested DEF NoPosition, Position, SoundPosition, Sorted
<1>4. StakesTyped /\ VotesTyped /\ RewardsTyped
  <2>1. StakesTyped
    BY <1>3 DEF StakesTyped
  <2>2. VotesTyped
    BY DEF VotesTyped
  <2>3. RewardsTyped
    BY DEF RewardsTyped
  <2> QED BY <2>1, <2>2, <2>3
<1>5. AllSound
  BY <1>3 DEF AllSound
<1>6. Books
  BY <1>1 DEF Books, PooledOnce, PooledIn, OthersAbsent, Untouched, DepositsBacked, SharedAmongStakes
<1>7. AccountCount \in Nat /\ Accounts = 1 .. AccountCount
  BY AccountsAssumption DEF Accounts
<1>8. ShortfallOwed
  <2>1. ASSUME NEW r \in RewardTokens
        PROVE  granted[r] = funded[r] - store[r] + Total(pendingRewardTransfers[r], AccountCount)
    <3>1. pendingRewardTransfers[r] = [i \in 1 .. AccountCount |-> 0]
      BY <1>7
    <3>2. Total(pendingRewardTransfers[r], AccountCount) = 0
      BY <3>1, <1>7, TotalZero
    <3> QED BY <3>2
  <2> QED BY <2>1 DEF ShortfallOwed
<1>9. VotesFollow
  <2>1. ASSUME NEW d \in Accounts PROVE CurrentVotes(d) = Total(VotesFrom(d), AccountCount)
    <3>1. EclPids = {}
      BY <1>1, EclAssumption DEF EclPids
    <3>2. VotesFrom(d) = [i \in 1 .. AccountCount |-> 0]
      BY <3>1, <1>7 DEF VotesFrom, GetStakeAmount
    <3>3. CurrentVotes(d) = 0
      BY DEF CurrentVotes
    <3> QED BY <3>2, <3>3, <1>7, TotalZero
  <2> QED BY <2>1 DEF VotesFollow
<1> QED BY <1>2, <1>4, <1>5, <1>6, <1>8, <1>9 DEF IInv

LEMMA IInvStep == IInv /\ [Next]_vars => IInv'
<1> SUFFICES ASSUME IInv, [Next]_vars PROVE IInv'
  OBVIOUS
<1>0. now \in Nat /\ now + 1 \in Nat
  BY DEF IInv, PoolsTyped
<1>1. CASE \E r \in RewardTokens, alloc \in AllocPoints, token \in Tokens, rate \in Rates, lock \in LockPeriods :
             Add(r, alloc, token, rate, lock)
  BY <1>1, AddStep
<1>2. CASE \E r \in RewardTokens, rate \in Rates : SetRewardAmountPerBlockOrSecond(r, rate)
  BY <1>2, SetRewardAmountStep
<1>3. CASE \E r \in RewardTokens, amount \in Fundings : Fund(r, amount)
  BY <1>3, FundStep
<1>4. CASE \E r \in RewardTokens : \E pid \in DOMAIN pools[r] :
             \/ \E alloc \in AllocPoints : Set(r, pid, alloc)
             \/ \E period \in LockPeriods : SetWithdrawalLockingPeriod(r, pid, period)
             \/ UpdatePool(r, pid)
  BY <1>4, SetStep, SetLockingStep, UpdatePoolStep
<1>5. CASE \E r \in RewardTokens : \E pid \in DOMAIN pools[r] : \E u \in Accounts :
             \/ \E amount \in Amounts : Deposit(u, r, pid, amount) \/ RequestWithdrawal(u, r, pid, amount)
             \/ Claim(u, r, pid) \/ ExecuteWithdrawal(u, r, pid)
  BY <1>5, DepositStep, RequestWithdrawalStep, ClaimStep, ExecuteWithdrawalStep
<1>6. CASE \E u \in Accounts, to \in Accounts \cup {Nobody} : Delegate(u, to)
  BY <1>6, DelegateStep
<1>7. CASE Pause \/ Resume
  BY <1>0, <1>7, Unmoved DEF Pause, Resume
<1>8. CASE Tick
  BY <1>0, <1>8, Unmoved DEF Tick, settings
<1>9. CASE UNCHANGED vars
  BY <1>0, <1>9, Unmoved DEF vars, settings
<1> QED BY <1>1, <1>2, <1>3, <1>4, <1>5, <1>6, <1>7, <1>8, <1>9 DEF Next

\* The books of the vault bind together in every state.
THEOREM SpecIInv == Spec => []IInv
BY IInvInit, IInvStep, PTL DEF Spec

\* Of every pool's token the vault holds exactly what the stakers of the pool have put
\* in and not taken out, so none of them can be left without his stake (ECLVaults.sol:279, 404).
THEOREM SpecDepositsBacked == Spec => []DepositsBacked
<1>1. IInv => DepositsBacked
  BY DEF IInv, Books
<1> QED BY <1>1, SpecIInv, PTL

\* Withdrawals unlock from the end, however the lock period changes, and add up to
\* what is pending (ECLVaults.sol:347).
THEOREM SpecUnlockedFirst == Spec => []UnlockedFirst
<1>1. IInv => UnlockedFirst
  BY PoolAt DEF IInv, AllSound, SoundPosition, Sorted, UnlockedFirst
<1> QED BY <1>1, SpecIInv, PTL

\* What the store lacked when rewards were granted is owed, once (ECLVaults.sol:916).
THEOREM SpecShortfallOwed == Spec => []ShortfallOwed
<1>1. IInv => ShortfallOwed
  BY DEF IInv
<1> QED BY <1>1, SpecIInv, PTL

LEMMA StakedEclIs ==
    ASSUME PoolsTyped, StakesTyped, PooledOnce, NEW u \in Accounts
    PROVE  StakedEcl(u) = GetStakeAmount(u)
<1> DEFINE f == [pid \in Pids |-> IF pid \in DOMAIN pools[Ecl] /\ pools[Ecl][pid].token = Ecl
                                  THEN Stake(positions[Ecl][pid][u]) ELSE 0]
           zero == [i \in 1 .. MaxPools |-> 0]
<1>1. StakedEcl(u) = Total(f, MaxPools) /\ MaxPools \in Nat /\ Pids = 1 .. MaxPools
  BY BoundsAssumption DEF StakedEcl, Pids
<1>2. Total(zero, MaxPools) = 0
  BY <1>1, TotalZero
<1>3. CASE EclPids = {}
  <2>1. f = zero
    BY <1>1, <1>3 DEF EclPids
  <2>2. GetStakeAmount(u) = 0
    BY <1>3 DEF GetStakeAmount
  <2> HIDE DEF f, zero
  <2> QED BY <1>1, <1>2, <2>1, <2>2
<1>4. CASE EclPids # {}
  <2>1. PICK pid \in DOMAIN pools[Ecl] : pools[Ecl][pid].token = Ecl
    BY <1>4 DEF EclPids
  <2>2. EclPids = {pid} /\ GetStakeAmount(u) = Stake(positions[Ecl][pid][u])
    BY <2>1, EclPool
  <2>3. pid \in Pids /\ Stake(positions[Ecl][pid][u]) \in Int
    BY <2>1, EclAssumption, PoolAt, PositionAt, StakeType
  <2>4. \A i \in Pids : f[i] = IF i = pid THEN Stake(positions[Ecl][pid][u]) ELSE 0
    BY <2>1, <2>2 DEF EclPids
  <2>5. f = [zero EXCEPT ![pid] = Stake(positions[Ecl][pid][u])]
    BY <1>1, <2>3, <2>4
  <2>6. zero \in [1 .. MaxPools -> Int] /\ zero[pid] = 0 /\ pid \in 1 .. MaxPools
    BY <1>1, <2>3
  <2> HIDE DEF f, zero
  <2>7. Total([zero EXCEPT ![pid] = Stake(positions[Ecl][pid][u])], MaxPools)
          = Total(zero, MaxPools) - zero[pid] + Stake(positions[Ecl][pid][u])
    BY <1>1, <2>3, <2>6, TotalUpdate
  <2> QED BY <1>1, <1>2, <2>2, <2>3, <2>5, <2>6, <2>7
<1> QED BY <1>3, <1>4

\* Every delegatee's votes are the ECL staked, and not asked back, by those who
\* chose him, as long as ECL is staked for ECL (ECLVaults.sol:669).
THEOREM SpecVotesMatchStake == Spec => []VotesMatchStake
<1>1. IInv => VotesMatchStake
  <2>1. SUFFICES ASSUME IInv, EclApart, NEW d \in Accounts
                 PROVE  CurrentVotes(d) = Total([u \in Accounts |-> IF delegates[u] = d THEN StakedEcl(u) ELSE 0], AccountCount)
    BY DEF VotesMatchStake, EclApart
  <2>2. \A u \in Accounts : StakedEcl(u) = GetStakeAmount(u)
    BY <2>1, StakedEclIs DEF IInv, Books
  <2>3. [u \in Accounts |-> IF delegates[u] = d THEN StakedEcl(u) ELSE 0] = VotesFrom(d)
    BY <2>2 DEF VotesFrom
  <2> QED BY <2>1, <2>3 DEF IInv, VotesFollow
<1> QED BY <1>1, SpecIInv, PTL

-----------------------------------------------------------------------------
(* The emission: what stakers got and are owed is covered by what was emitted *)

DebtsOf(ps) == [u \in Accounts |-> ps[u].rewardDebt]

\* AccScale times what the stakers of a pool are owed at this reward per share
WorthAt(ps, acc) == acc * Total(StakesOf(ps), AccountCount) - AccScale * Total(DebtsOf(ps), AccountCount)

\* what a pool has still to get of the emission, times the total of allocation points
Unspent(r, pid) == (now - pools[r][pid].lastReward) * rewardRate[r] * pools[r][pid].allocPoint

\* the pools of a reward token once those of S are updated
WorthsAfter(r, S) ==
  [pid \in Pids |-> IF pid \notin DOMAIN pools[r] THEN 0
                    ELSE IF pid \in S THEN WorthAt(positions[r][pid], Updated(r, pid).accRewardPerShare)
                    ELSE WorthAt(positions[r][pid], pools[r][pid].accRewardPerShare)]
UnspentAfter(r, S) == [pid \in Pids |-> IF pid \notin DOMAIN pools[r] \/ pid \in S THEN 0 ELSE Unspent(r, pid)]
AllocsOf(r) == [pid \in Pids |-> IF pid \in DOMAIN pools[r] THEN pools[r][pid].allocPoint ELSE 0]

\* what is left of the emission, times AccScale, when everybody has been paid
Slack(r, S) == AccScale * (emitted[r] + settlements[r] - granted[r]) - Total(WorthsAfter(r, S), MaxPools)

\* No staker has been paid more than his stake has earned,
Settled(p, acc) == p.rewardDebt \in Nat /\ AccScale * p.rewardDebt <= Stake(p) * acc
PoolsSettled(r) ==
  \A pid \in DOMAIN pools[r] :
    /\ pools[r][pid].lastReward <= now /\ pools[r][pid].accRewardPerShare \in Nat
    /\ \A u \in Accounts : Settled(positions[r][pid][u], pools[r][pid].accRewardPerShare)
\* the pools' shares of the emission add up to all of it,
PointsAddUp(r) == totalAllocPoints[r] = Total(AllocsOf(r), MaxPools)
\* and what is left covers what the pools have still to get.
Covered(r) ==
  /\ Slack(r, {}) >= 0
  /\ totalAllocPoints[r] * Slack(r, {}) >= AccScale * Total(UnspentAfter(r, {}), MaxPools)

EmissionOf(r) == PoolsSettled(r) /\ PointsAddUp(r) /\ Covered(r)
HistoryTyped == emitted \in [RewardTokens -> Int] /\ settlements \in [RewardTokens -> Int]
EmissionInv == HistoryTyped /\ \A r \in RewardTokens : EmissionOf(r)

LEMMA WorthType ==
    ASSUME StakesTyped, NEW r \in RewardTokens, NEW pid \in Pids, NEW acc \in Int
    PROVE  /\ DebtsOf(positions[r][pid]) \in [1 .. AccountCount -> Int]
           /\ Total(StakesOf(positions[r][pid]), AccountCount) \in Int
           /\ Total(DebtsOf(positions[r][pid]), AccountCount) \in Int
           /\ AllSound => Total(StakesOf(positions[r][pid]), AccountCount) \in Nat
           /\ WorthAt(positions[r][pid], acc) \in Int
<1>1. \A u \in Accounts : positions[r][pid][u].rewardDebt \in Int
  BY PositionAt DEF Position
<1>2. DebtsOf(positions[r][pid]) \in [1 .. AccountCount -> Int]
  BY <1>1 DEF DebtsOf, Accounts
<1>3. /\ Total(StakesOf(positions[r][pid]), AccountCount) \in Int
      /\ Total(DebtsOf(positions[r][pid]), AccountCount) \in Int
  BY <1>2, SumTypes, TotalType, AccountsAssumption
<1>4. AllSound => Total(StakesOf(positions[r][pid]), AccountCount) \in Nat
  BY SumTypes, TotalNat, AccountsAssumption
<1>5. WorthAt(positions[r][pid], acc) \in Int
  BY <1>3, BoundsAssumption DEF WorthAt
<1> QED BY <1>2, <1>3, <1>4, <1>5

\* What a pool's update hands out is at most the pool's share of the emission.
LEMMA UpdateShares ==
    ASSUME NEW n \in Nat \ {0}, NEW t \in Nat \ {0}, NEW x \in Nat, NEW s \in Nat \ {0}
    PROVE  /\ ((x \div t) * s) \div n \in Nat
           /\ t * ((((x \div t) * s) \div n) * n) <= s * x
<1> DEFINE w == x \div t
           i == (w * s) \div n
<1>1. w \in Nat /\ w * t <= x
  BY SMT
<1> HIDE DEF w
<1>2. w * s \in Nat
  BY <1>1
<1>3. i \in Nat /\ i * n <= w * s
  BY <1>2, SMT
<1> HIDE DEF i
<1>4. i * n \in Nat /\ w * t \in Nat
  BY <1>1, <1>3
<1>5. t * (i * n) <= t * (w * s)
  BY <1>2, <1>3, <1>4, SMT
<1>6. t * (w * s) = s * (w * t)
  BY <1>1, SMT
<1>7. s * (w * t) <= s * x
  BY <1>1, <1>4, SMT
<1>8. t * (i * n) \in Int /\ s * (w * t) \in Int /\ s * x \in Int
  BY <1>4
<1>9. t * (i * n) <= s * x
  BY <1>5, <1>6, <1>7, <1>8
<1> QED BY <1>3, <1>9 DEF i, w

LEMMA UpdatedWorth ==
    ASSUME IInv, NEW r \in RewardTokens, PoolsSettled(r), NEW pid \in DOMAIN pools[r]
    PROVE  LET acc == pools[r][pid].accRewardPerShare
               new == Updated(r, pid).accRewardPerShare
           IN  /\ new \in Nat /\ acc \in Nat /\ acc <= new /\ Updated(r, pid).lastReward = now
               /\ Updated(r, pid).allocPoint = pools[r][pid].allocPoint
               /\ Unspent(r, pid) \in Nat
               /\ totalAllocPoints[r] * WorthAt(positions[r][pid], new)
                    <= totalAllocPoints[r] * WorthAt(positions[r][pid], acc) + AccScale * Unspent(r, pid)
<1> DEFINE pool == pools[r][pid]
           t == totalAllocPoints[r]
           n == Total(StakesOf(positions[r][pid]), AccountCount)
           d == Total(DebtsOf(positions[r][pid]), AccountCount)
           x == Unspent(r, pid)
           i == IF now > pool.lastReward /\ n # 0 THEN ((x \div t) * AccScale) \div n ELSE 0
           acc == pool.accRewardPerShare
<1>1. /\ PoolsTyped /\ StakesTyped /\ AllSound /\ SharedAmongStakes
      /\ pool \in PoolInfo /\ pid \in Pids /\ t \in Nat \ {0} /\ now \in Nat /\ rewardRate[r] \in Nat
      /\ AccScale \in Nat \ {0}
  BY PoolAt, BoundsAssumption DEF IInv, Books, PoolsTyped
<1>2. /\ pool.lastReward \in Nat /\ pool.allocPoint \in Nat /\ pool.lastReward <= now /\ acc \in Nat
  BY <1>1 DEF PoolInfo, PoolsSettled
<1>3. n \in Nat /\ d \in Int
  BY <1>1, WorthType
<1>4. x \in Nat
  <2>1. now - pool.lastReward \in Nat
    BY <1>1, <1>2
  <2>2. (now - pool.lastReward) * rewardRate[r] \in Nat
    BY <2>1, <1>1
  <2> QED BY <2>2, <1>2 DEF Unspent
<1>5. balance[pool.token] - totalPendingWithdrawals[r][pid] = n
  BY <1>1 DEF SharedAmongStakes
<1>6. /\ Updated(r, pid).lastReward = now /\ Updated(r, pid).allocPoint = pool.allocPoint
      /\ Updated(r, pid).accRewardPerShare = acc + i
  <2>1. Updated(r, pid) = [pool EXCEPT !.lastReward = now,
                             !.accRewardPerShare = IF now > pool.lastReward /\ n # 0
                                                   THEN acc + ((x \div t) * AccScale) \div n ELSE acc]
    BY <1>5 DEF Updated, Unspent
  <2> HIDE DEF n, x, t
  <2> QED BY <1>1, <1>2, <2>1 DEF PoolInfo
<1> HIDE DEF n, d, x, t
<1>7. i \in Nat /\ t * (i * n) <= AccScale * x
  <2>1. CASE now > pool.lastReward /\ n # 0
    <3>1. i = ((x \div t) * AccScale) \div n
      BY <2>1
    <3> HIDE DEF i
    <3> QED BY <1>1, <1>3, <1>4, <2>1, <3>1, UpdateShares
  <2>2. CASE ~ (now > pool.lastReward /\ n # 0)
    <3>1. i = 0
      BY <2>2
    <3>2. t * (0 * n) = 0 /\ AccScale * x \in Nat
      BY <1>1, <1>3, <1>4
    <3> HIDE DEF i
    <3> QED BY <3>1, <3>2
  <2> QED BY <2>1, <2>2
<1> HIDE DEF i, acc
<1>8. /\ WorthAt(positions[r][pid], acc) = acc * n - AccScale * d
      /\ WorthAt(positions[r][pid], acc + i) = (acc + i) * n - AccScale * d
  BY DEF WorthAt, n, d
<1>9. t * ((acc + i) * n - AccScale * d) = t * (acc * n - AccScale * d) + t * (i * n)
  BY <1>1, <1>2, <1>3, <1>7, SMT
<1>10. t * (acc * n - AccScale * d) \in Int /\ t * (i * n) \in Int /\ AccScale * x \in Int
  <2>1. acc * n \in Int /\ AccScale * d \in Int /\ i * n \in Int
    BY <1>1, <1>2, <1>3, <1>7
  <2>2. acc * n - AccScale * d \in Int
    BY <2>1
  <2> QED BY <1>1, <1>4, <2>1, <2>2
<1>11. t * WorthAt(positions[r][pid], acc + i) <= t * WorthAt(positions[r][pid], acc) + AccScale * x
  BY <1>7, <1>8, <1>9, <1>10
<1> QED BY <1>2, <1>4, <1>6, <1>7, <1>11 DEF acc, t, x

LEMMA EmissionTypes ==
    ASSUME IInv, NEW r \in RewardTokens, PoolsSettled(r), NEW S
    PROVE  /\ WorthsAfter(r, S) \in [1 .. MaxPools -> Int]
           /\ UnspentAfter(r, S) \in [1 .. MaxPools -> Nat]
           /\ AllocsOf(r) \in [1 .. MaxPools -> Nat]
           /\ Total(WorthsAfter(r, S), MaxPools) \in Int /\ Total(UnspentAfter(r, S), MaxPools) \in Nat
           /\ totalAllocPoints[r] \in Nat /\ AccScale \in Nat \ {0} /\ MaxPools \in Nat
<1>1. MaxPools \in Nat /\ AccScale \in Nat \ {0} /\ Pids = 1 .. MaxPools
  BY BoundsAssumption DEF Pids
<1>2. ASSUME NEW pid \in Pids
      PROVE  WorthsAfter(r, S)[pid] \in Int /\ UnspentAfter(r, S)[pid] \in Nat /\ AllocsOf(r)[pid] \in Nat
  <2>1. CASE pid \in DOMAIN pools[r]
    <3>1. /\ Updated(r, pid).accRewardPerShare \in Int /\ pools[r][pid].accRewardPerShare \in Int
          /\ Unspent(r, pid) \in Nat
      BY <2>1, UpdatedWorth
    <3>2. pools[r][pid].allocPoint \in Nat
      BY <2>1, PoolAt DEF IInv, PoolInfo
    <3>3. /\ WorthAt(positions[r][pid], Updated(r, pid).accRewardPerShare) \in Int
          /\ WorthAt(positions[r][pid], pools[r][pid].accRewardPerShare) \in Int
      BY <3>1, WorthType DEF IInv
    <3> QED BY <2>1, <3>1, <3>2, <3>3 DEF WorthsAfter, UnspentAfter, AllocsOf
  <2>2. CASE pid \notin DOMAIN pools[r]
    BY <2>2 DEF WorthsAfter, UnspentAfter, AllocsOf
  <2> QED BY <2>1, <2>2
<1>3. /\ WorthsAfter(r, S) \in [1 .. MaxPools -> Int]
      /\ UnspentAfter(r, S) \in [1 .. MaxPools -> Nat]
      /\ AllocsOf(r) \in [1 .. MaxPools -> Nat]
  BY <1>1, <1>2 DEF WorthsAfter, UnspentAfter, AllocsOf
<1>4. Total(WorthsAfter(r, S), MaxPools) \in Int /\ Total(UnspentAfter(r, S), MaxPools) \in Nat
  BY <1>1, <1>3, TotalType, TotalNat
<1>5. totalAllocPoints[r] \in Nat
  BY DEF IInv, PoolsTyped
<1> QED BY <1>1, <1>3, <1>4, <1>5

LEMMA CoveredAfter ==
    ASSUME NEW t \in Nat \ {0}, NEW s \in Nat, NEW room \in Int,
           NEW w \in Int, NEW u \in Nat, NEW v \in Int, NEW x \in Nat,
           t * (room - w) >= s * u, t * v + s * x <= t * w + s * u
    PROVE  t * (room - v) >= s * x /\ room - v >= 0
<1>1. t * room \in Int /\ t * v \in Int /\ t * w \in Int /\ s * x \in Nat /\ s * u \in Nat
  OBVIOUS
<1>2. t * (room - v) = t * room - t * v /\ t * (room - w) = t * room - t * w
  BY SMT
<1>3. t * (room - v) >= s * x /\ t * (room - v) >= 0
  BY <1>1, <1>2
<1> DEFINE l == room - v
<1>4. l \in Int /\ t * l >= 0
  BY <1>3
<1> HIDE DEF l
<1>5. l >= 0
  BY <1>4, SMT
<1> QED BY <1>3, <1>5 DEF l

\* Updating pools moves what they had to get into what their stakers are owed.
LEMMA UpdatedCovered ==
    ASSUME IInv, HistoryTyped, NEW r \in RewardTokens, EmissionOf(r), NEW S
    PROVE  /\ Slack(r, S) \in Int /\ Slack(r, S) >= 0
           /\ totalAllocPoints[r] * Slack(r, S) >= AccScale * Total(UnspentAfter(r, S), MaxPools)
<1> DEFINE t == totalAllocPoints[r]
           w == WorthsAfter(r, {})
           u == UnspentAfter(r, {})
           v == WorthsAfter(r, S)
           x == UnspentAfter(r, S)
           room == AccScale * (emitted[r] + settlements[r] - granted[r])
<1>1. /\ PoolsSettled(r) /\ t \in Nat /\ AccScale \in Nat /\ MaxPools \in Nat
      /\ w \in [1 .. MaxPools -> Int] /\ Total(w, MaxPools) \in Int
      /\ v \in [1 .. MaxPools -> Int] /\ Total(v, MaxPools) \in Int
      /\ u \in [1 .. MaxPools -> Nat] /\ Total(u, MaxPools) \in Nat
      /\ x \in [1 .. MaxPools -> Nat] /\ Total(x, MaxPools) \in Nat
  BY EmissionTypes DEF EmissionOf
<1>2. room \in Int
  <2>1. emitted[r] \in Int /\ settlements[r] \in Int /\ granted[r] \in Int
    BY DEF HistoryTyped, IInv, RewardsTyped
  <2> QED BY <2>1, <1>1, SMTT(40)
<1>3. /\ room - Total(w, MaxPools) >= 0 /\ t * (room - Total(w, MaxPools)) >= AccScale * Total(u, MaxPools)
      /\ Slack(r, S) = room - Total(v, MaxPools)
  BY DEF EmissionOf, Covered, Slack
<1>4. ASSUME NEW pid \in 1 .. MaxPools
      PROVE  t * v[pid] + AccScale * x[pid] <= t * w[pid] + AccScale * u[pid]
  <2>1. pid \in Pids /\ t * w[pid] \in Int /\ AccScale * u[pid] \in Int
    <3> HIDE DEF t, w, u, v, x, room
    <3>1. pid \in Pids
      BY DEF Pids
    <3>2. w[pid] \in Int /\ u[pid] \in Int /\ t \in Int /\ AccScale \in Int
      BY <1>1
    <3> QED BY <3>1, <3>2
  <2>2. CASE pid \in DOMAIN pools[r] /\ pid \in S
    <3> DEFINE now0 == WorthAt(positions[r][pid], pools[r][pid].accRewardPerShare)
               new0 == WorthAt(positions[r][pid], Updated(r, pid).accRewardPerShare)
    <3>1. w[pid] = now0 /\ v[pid] = new0 /\ u[pid] = Unspent(r, pid) /\ x[pid] = 0
      BY <2>1, <2>2 DEF WorthsAfter, UnspentAfter
    <3>2. t * new0 <= t * now0 + AccScale * Unspent(r, pid)
      BY <1>1, <2>2, UpdatedWorth
    <3>3. t * v[pid] <= t * w[pid] + AccScale * u[pid] /\ AccScale * x[pid] = 0
      BY <1>1, <3>1, <3>2, SMTT(40)
    <3>4. t * v[pid] \in Int
      BY <1>1
    <3> HIDE DEF t, w, v, u, x
    <3> QED BY <2>1, <3>3, <3>4
  <2>3. CASE ~ (pid \in DOMAIN pools[r] /\ pid \in S)
    <3>1. v[pid] = w[pid] /\ x[pid] = u[pid]
      BY <2>1, <2>3 DEF WorthsAfter, UnspentAfter
    <3> HIDE DEF t, w, v, u, x
    <3> QED BY <2>1, <3>1
  <2> QED BY <2>2, <2>3
<1> HIDE DEF t, w, v, u, x, room
<1>5. t * Total(v, MaxPools) + AccScale * Total(x, MaxPools) <= t * Total(w, MaxPools) + AccScale * Total(u, MaxPools)
  <2>1. u \in [1 .. MaxPools -> Int] /\ x \in [1 .. MaxPools -> Int] /\ t \in Int /\ AccScale \in Int
    BY <1>1
  <2> QED BY <1>1, <1>4, <2>1, TotalsCompared
<1>6. CASE t # 0
  <2>1. t \in Nat \ {0}
    BY <1>1, <1>6
  <2>2. t * (room - Total(v, MaxPools)) >= AccScale * Total(x, MaxPools) /\ room - Total(v, MaxPools) >= 0
    BY <1>1, <1>2, <1>3, <1>5, <2>1, CoveredAfter
  <2> QED BY <1>1, <1>2, <1>3, <2>2 DEF t, x
<1>7. CASE t = 0
  <2>1. DOMAIN pools[r] = {}
    <3>1. pools[r] = << >>
      BY <1>1, <1>7 DEF IInv, PoolsTyped, t
    <3> QED BY <3>1
  <2>2. v = w /\ x = u
    BY <2>1 DEF v, w, x, u, WorthsAfter, UnspentAfter
  <2> QED BY <1>1, <1>2, <1>3, <2>2 DEF t, x
<1> QED BY <1>6, <1>7

\* Nothing of a reward token's emission changes but the lock periods and the requests.
LEMMA EmissionKept ==
    ASSUME NEW r \in RewardTokens, EmissionOf(r), now' = now,
           totalAllocPoints'[r] = totalAllocPoints[r], rewardRate'[r] = rewardRate[r],
           emitted'[r] = emitted[r], settlements'[r] = settlements[r], granted'[r] = granted[r],
           DOMAIN pools'[r] = DOMAIN pools[r],
           \A pid \in DOMAIN pools[r] :
             /\ pools'[r][pid].lastReward = pools[r][pid].lastReward
             /\ pools'[r][pid].allocPoint = pools[r][pid].allocPoint
             /\ pools'[r][pid].accRewardPerShare = pools[r][pid].accRewardPerShare
             /\ \A u \in Accounts : /\ Stake(positions'[r][pid][u]) = Stake(positions[r][pid][u])
                                    /\ positions'[r][pid][u].rewardDebt = positions[r][pid][u].rewardDebt
    PROVE  EmissionOf(r)'
<1>1. \A pid \in DOMAIN pools[r] : \A acc : WorthAt(positions'[r][pid], acc) = WorthAt(positions[r][pid], acc)
  <2> SUFFICES ASSUME NEW pid \in DOMAIN pools[r], NEW acc
               PROVE  WorthAt(positions'[r][pid], acc) = WorthAt(positions[r][pid], acc)
    OBVIOUS
  <2>1. StakesOf(positions'[r][pid]) = StakesOf(positions[r][pid]) /\ DebtsOf(positions'[r][pid]) = DebtsOf(positions[r][pid])
    BY DEF StakesOf, DebtsOf
  <2> QED BY <2>1 DEF WorthAt
<1>2. WorthsAfter(r, {})' = WorthsAfter(r, {})
  BY <1>1 DEF WorthsAfter
<1>3. UnspentAfter(r, {})' = UnspentAfter(r, {})
  BY DEF UnspentAfter, Unspent
<1>4. AllocsOf(r)' = AllocsOf(r)
  BY DEF AllocsOf
<1>5. PoolsSettled(r)'
  BY DEF EmissionOf, PoolsSettled, Settled
<1>6. PointsAddUp(r)' /\ Covered(r)'
  BY <1>2, <1>3, <1>4 DEF EmissionOf, PointsAddUp, Covered, Slack
<1> QED BY <1>5, <1>6 DEF EmissionOf


LEMMA QuotientUp ==
    ASSUME NEW a \in Nat, NEW b \in Nat \ {0}
    PROVE  /\ a < b * (a \div b) + b
           /\ a % b = 0 => a = b * (a \div b)
<1>1. a < b * (a \div b) + b
  BY SMT
<1>2. ASSUME a % b = 0 PROVE a = b * (a \div b)
  BY <1>2, SMT
<1> QED BY <1>1, <1>2

\* What a stake has earned is what its settlement counts, at most one unit more.
LEMMA CumulativePays ==
    ASSUME NEW p \in Position, SoundPosition(p), NEW pool \in PoolInfo, pool.accRewardPerShare \in Nat
    PROVE  /\ Cumulative(p, pool) \in Nat /\ Rounded(p, pool) \in {0, 1}
           /\ AccScale * Cumulative(p, pool) <= Stake(p) * pool.accRewardPerShare
           /\ Stake(p) * pool.accRewardPerShare <= AccScale * Cumulative(p, pool) + AccScale * Rounded(p, pool)
<1> DEFINE x == Stake(p) * pool.accRewardPerShare
           c == x \div AccScale
<1>1. x \in Nat /\ AccScale \in Nat \ {0}
  <2>1. Stake(p) \in Nat
    BY StakeType
  <2> QED BY <2>1, BoundsAssumption
<1>2. Cumulative(p, pool) = c /\ Rounded(p, pool) = (IF x % AccScale = 0 THEN 0 ELSE 1)
  BY DEF Cumulative, Rounded
<1> HIDE DEF x
<1>3. c \in Nat /\ AccScale * c <= x
  BY <1>1, SMT
<1>4. x <= AccScale * c + AccScale * (IF x % AccScale = 0 THEN 0 ELSE 1)
  <2>1. x < AccScale * c + AccScale /\ (x % AccScale = 0 => x = AccScale * c)
    BY <1>1, QuotientUp
  <2>2. AccScale * c \in Nat /\ AccScale * 0 = 0 /\ AccScale * 1 = AccScale
    BY <1>1, <1>3
  <2> HIDE DEF c
  <2>3. CASE x % AccScale = 0
    BY <1>1, <2>1, <2>2, <2>3
  <2>4. CASE x % AccScale # 0
    BY <1>1, <2>1, <2>2, <2>4
  <2> QED BY <2>3, <2>4
<1> HIDE DEF c
<1> QED BY <1>2, <1>3, <1>4 DEF x

\* Nobody is owed less than nothing when the reward per share has only grown.
LEMMA ClaimPays ==
    ASSUME NEW p \in Position, SoundPosition(p), NEW pool \in PoolInfo, pool.accRewardPerShare \in Nat,
           NEW acc \in Nat, Settled(p, acc), acc <= pool.accRewardPerShare
    PROVE  Pending(p, pool) \in Nat /\ Settled(p, pool.accRewardPerShare)
<1> DEFINE s == Stake(p)
           A == pool.accRewardPerShare
           d == p.rewardDebt
           x == s * A
           c == x \div AccScale
<1>1. s \in Nat /\ A \in Nat /\ d \in Nat /\ AccScale \in Nat \ {0} /\ AccScale * d <= s * acc
  BY StakeType, BoundsAssumption DEF Settled
<1>2. Pending(p, pool) = c - d
  BY DEF Cumulative, Pending
<1> HIDE DEF s, A, d
<1>3. x \in Nat /\ AccScale * d \in Nat /\ AccScale * d <= x
  <2>1. x \in Nat /\ s * acc \in Nat /\ AccScale * d \in Nat
    BY <1>1
  <2>2. acc <= A
    BY DEF A
  <2>3. s * acc <= s * A
    BY <1>1, <2>2, SMT
  <2> QED BY <1>1, <2>1, <2>3
<1>4. Settled(p, A)
  BY <1>1, <1>3 DEF Settled, d, s
<1> HIDE DEF x
<1>5. c \in Nat
  BY <1>1, <1>3, SMT
<1>6. d <= c
  <2>1. d * AccScale <= x
    BY <1>1, <1>3
  <2> QED BY <1>1, <1>3, <2>1, SMT
<1> HIDE DEF c
<1>7. c - d \in Nat
  BY <1>1, <1>5, <1>6
<1> QED BY <1>2, <1>4, <1>7 DEF A

\* One pool is updated and one of its stakers settled: what is granted was owed to him.
LEMMA SettleStep ==
    ASSUME IInv, IInv', HistoryTyped, NEW r \in RewardTokens, EmissionOf(r), NEW pid \in DOMAIN pools[r],
           pools' = [pools EXCEPT ![r][pid] = Updated(r, pid)],
           now' = now, totalAllocPoints' = totalAllocPoints, rewardRate' = rewardRate, emitted' = emitted,
           \A i \in Pids \ {pid} : positions'[r][i] = positions[r][i],
           NEW g \in Int, NEW e \in Int, granted'[r] = granted[r] + g, settlements'[r] = settlements[r] + e,
           WorthAt(positions'[r][pid], Updated(r, pid).accRewardPerShare) + AccScale * g
             <= WorthAt(positions[r][pid], Updated(r, pid).accRewardPerShare) + AccScale * e,
           \A u \in Accounts : Settled(positions'[r][pid][u], Updated(r, pid).accRewardPerShare)
    PROVE  EmissionOf(r)'
<1> DEFINE A == Updated(r, pid).accRewardPerShare
           W == WorthsAfter(r, {pid})
           t == totalAllocPoints[r]
           old == WorthAt(positions[r][pid], A)
           new == WorthAt(positions'[r][pid], A)
<1>1. /\ PoolsSettled(r) /\ A \in Nat /\ Updated(r, pid).lastReward = now
      /\ Updated(r, pid).allocPoint = pools[r][pid].allocPoint
  BY UpdatedWorth DEF EmissionOf
<1>2. /\ pid \in Pids /\ pools \in [RewardTokens -> Seq(PoolInfo)] /\ pools[r] \in Seq(PoolInfo) /\ now \in Nat
      /\ Pids = 1 .. MaxPools /\ DOMAIN pools[r] \subseteq Pids
  <2>1. \A i \in DOMAIN pools[r] : i \in Pids
    BY PoolAt DEF IInv
  <2> QED BY <2>1, PoolAt DEF IInv, PoolsTyped, Pids
<1>3. pools'[r] = [pools[r] EXCEPT ![pid] = Updated(r, pid)]
  BY <1>2
<1>4. /\ DOMAIN pools'[r] = DOMAIN pools[r] /\ pools'[r][pid] = Updated(r, pid)
      /\ \A i \in DOMAIN pools[r] \ {pid} : pools'[r][i] = pools[r][i]
  BY <1>2, <1>3
<1>5. /\ t \in Nat /\ AccScale \in Nat \ {0} /\ MaxPools \in Nat /\ W \in [1 .. MaxPools -> Int] /\ Total(W, MaxPools) \in Int
  BY <1>1, EmissionTypes
<1>6. old \in Int /\ new \in Int
  <2>1. old \in Int
    <3>1. StakesTyped /\ A \in Int /\ pid \in Pids
      BY <1>1, <1>2 DEF IInv
    <3> HIDE DEF A
    <3>2. WorthAt(positions[r][pid], A) \in Int
      BY <3>1, WorthType
    <3> QED BY <3>2
  <2>2. positions' \in [RewardTokens -> [Pids -> [Accounts -> Position]]] /\ pid \in Pids
    BY <1>2 DEF IInv, StakesTyped
  <2>3. /\ StakesOf(positions'[r][pid]) \in [1 .. AccountCount -> Int]
        /\ DebtsOf(positions'[r][pid]) \in [1 .. AccountCount -> Int]
    <3>1. \A u \in Accounts : positions'[r][pid][u] \in Position
      BY <2>2
    <3>2. \A u \in Accounts : Stake(positions'[r][pid][u]) \in Int /\ positions'[r][pid][u].rewardDebt \in Int
      BY <3>1, StakeType DEF Position
    <3> QED BY <3>2 DEF StakesOf, DebtsOf, Accounts
  <2>4. Total(StakesOf(positions'[r][pid]), AccountCount) \in Int /\ Total(DebtsOf(positions'[r][pid]), AccountCount) \in Int
    BY <2>3, TotalType, AccountsAssumption
  <2>5. new \in Int
    BY <2>4, <1>1, <1>5 DEF WorthAt
  <2> QED BY <2>1, <2>5
<1> HIDE DEF A, new, old
<1>7. WorthsAfter(r, {})' = [W EXCEPT ![pid] = new] /\ W[pid] = old
  <2>1. W[pid] = old
    BY <1>2 DEF WorthsAfter, old, A
  <2>2. ASSUME NEW i \in Pids PROVE WorthsAfter(r, {})'[i] = [W EXCEPT ![pid] = new][i]
    <3>1. CASE i = pid
      <4>1. WorthsAfter(r, {})'[i] = new
        BY <1>2, <1>4, <3>1 DEF WorthsAfter, new, A
      <4> QED BY <1>2, <1>5, <3>1, <4>1
    <3>2. CASE i # pid
      <4>1. positions'[r][i] = positions[r][i]
        BY <3>2
      <4>2. WorthsAfter(r, {})'[i] = WorthsAfter(r, {pid})[i]
        <5>1. CASE i \in DOMAIN pools[r]
          <6>1. WorthAt(positions'[r][i], pools'[r][i].accRewardPerShare) = WorthAt(positions[r][i], pools[r][i].accRewardPerShare)
            BY <1>4, <3>2, <4>1, <5>1
          <6> QED BY <1>4, <3>2, <5>1, <6>1 DEF WorthsAfter
        <5>2. CASE i \notin DOMAIN pools[r]
          BY <1>4, <5>2 DEF WorthsAfter
        <5> QED BY <5>1, <5>2
      <4> QED BY <1>2, <1>5, <3>2, <4>2
    <3> QED BY <3>1, <3>2
  <2>3. WorthsAfter(r, {})' = [i \in Pids |-> WorthsAfter(r, {})'[i]]
    BY DEF WorthsAfter
  <2>4. [W EXCEPT ![pid] = new] = [i \in Pids |-> [W EXCEPT ![pid] = new][i]]
    BY <1>2, <1>5
  <2> HIDE DEF W
  <2> QED BY <2>1, <2>2, <2>3, <2>4
<1>8. UnspentAfter(r, {})' = UnspentAfter(r, {pid})
  <2>1. ASSUME NEW i \in Pids PROVE UnspentAfter(r, {})'[i] = UnspentAfter(r, {pid})[i]
    <3>1. CASE i = pid
      <4>1. Unspent(r, pid)' = 0
        <5>1. pools'[r][pid].lastReward = now /\ pools'[r][pid].allocPoint = pools[r][pid].allocPoint
          BY <1>1, <1>4
        <5>2. pools[r][pid].allocPoint \in Nat /\ rewardRate[r] \in Nat
          BY PoolAt DEF IInv, PoolsTyped, PoolInfo
        <5>3. Unspent(r, pid)' = (now - now) * rewardRate[r] * pools[r][pid].allocPoint
          BY <5>1 DEF Unspent
        <5> QED BY <1>2, <5>2, <5>3
      <4> QED BY <3>1, <4>1 DEF UnspentAfter
    <3>2. CASE i # pid
      BY <1>4, <3>2 DEF UnspentAfter, Unspent
    <3> QED BY <3>1, <3>2
  <2> QED BY <2>1 DEF UnspentAfter
<1>9. AllocsOf(r)' = AllocsOf(r)
  BY <1>1, <1>4 DEF AllocsOf
<1>10. PoolsSettled(r)'
  <2>1. ASSUME NEW i \in DOMAIN pools[r], i # pid
        PROVE  /\ pools'[r][i].lastReward <= now /\ pools'[r][i].accRewardPerShare \in Nat
               /\ \A u \in Accounts : Settled(positions'[r][i][u], pools'[r][i].accRewardPerShare)
    <3>1. positions'[r][i] = positions[r][i] /\ pools'[r][i] = pools[r][i]
      BY <1>2, <1>4, <2>1
    <3> QED BY <1>1, <3>1 DEF PoolsSettled
  <2>2. /\ pools'[r][pid].lastReward <= now /\ pools'[r][pid].accRewardPerShare \in Nat
        /\ \A u \in Accounts : Settled(positions'[r][pid][u], pools'[r][pid].accRewardPerShare)
    BY <1>1, <1>2, <1>4 DEF A
  <2> QED BY <1>4, <2>1, <2>2 DEF PoolsSettled, Settled
<1>11. Total(WorthsAfter(r, {})', MaxPools) = Total(W, MaxPools) - old + new
  <2> HIDE DEF W
  <2>1. pid \in 1 .. MaxPools
    BY <1>2
  <2>2. Total([W EXCEPT ![pid] = new], MaxPools) = Total(W, MaxPools) - W[pid] + new
    BY <1>5, <1>6, <2>1, TotalUpdate, Zenon
  <2> QED BY <1>7, <2>2
<1>12. /\ Slack(r, {pid}) \in Int /\ Slack(r, {pid}) >= 0
       /\ t * Slack(r, {pid}) >= AccScale * Total(UnspentAfter(r, {pid}), MaxPools)
  BY UpdatedCovered
<1>13. Slack(r, {})' \in Int /\ Slack(r, {})' >= Slack(r, {pid})
  <2> DEFINE h == emitted[r] + settlements[r] - granted[r]
             T == Total(W, MaxPools)
  <2>1. emitted[r] \in Int /\ settlements[r] \in Int /\ granted[r] \in Int
    BY DEF HistoryTyped, IInv, RewardsTyped
  <2>2. Slack(r, {})' = AccScale * (h + e - g) - (T - old + new)
    <3>1. emitted'[r] + settlements'[r] - granted'[r] = h + e - g
      BY <2>1
    <3> HIDE DEF h, W
    <3> QED BY <1>11, <3>1 DEF Slack
  <2>3. Slack(r, {pid}) = AccScale * h - T
    BY DEF Slack
  <2>4. new + AccScale * g <= old + AccScale * e
    BY DEF new, old, A
  <2>5. h \in Int /\ T \in Int
    BY <2>1, <1>5, SMTT(40)
  <2> HIDE DEF h, T
  <2>6. AccScale * (h + e - g) = AccScale * h + AccScale * e - AccScale * g
    BY <1>5, <2>5, SMT
  <2>7. AccScale * h \in Int /\ AccScale * e \in Int /\ AccScale * g \in Int
    BY <1>5, <2>5
  <2> QED BY <1>6, <2>2, <2>3, <2>4, <2>5, <2>6, <2>7
<1> DEFINE S == Slack(r, {})'
           S0 == Slack(r, {pid})
           X == Total(UnspentAfter(r, {pid}), MaxPools)
<1>14. X \in Nat
  BY <1>1, EmissionTypes
<1>15. Covered(r)'
  <2>1. /\ S = Slack(r, {})' /\ totalAllocPoints'[r] = t
        /\ Total(UnspentAfter(r, {})', MaxPools) = X
    BY <1>8
  <2>2. S \in Int /\ S0 \in Int /\ S >= S0 /\ S0 >= 0 /\ t * S0 >= AccScale * X
    BY <1>12, <1>13
  <2> HIDE DEF S, S0, X, t
  <2>3. t * S0 <= t * S
    BY <1>5, <2>2, SMT
  <2>4. t * S \in Int /\ t * S0 \in Int /\ AccScale * X \in Int
    BY <1>5, <1>14, <2>2, SMTT(40)
  <2>5. S >= 0 /\ t * S >= AccScale * X
    BY <2>2, <2>3, <2>4
  <2> QED BY <2>1, <2>5 DEF Covered
<1>16. PointsAddUp(r)'
  BY <1>9 DEF EmissionOf, PointsAddUp
<1> QED BY <1>10, <1>15, <1>16 DEF EmissionOf


LEMMA WorthChanged ==
    ASSUME NEW ps \in [Accounts -> Position], NEW u \in Accounts, NEW q \in Position, NEW acc \in Int
    PROVE  /\ WorthAt(ps, acc) \in Int
           /\ WorthAt([ps EXCEPT ![u] = q], acc)
                = WorthAt(ps, acc) + acc * (Stake(q) - Stake(ps[u])) - AccScale * (q.rewardDebt - ps[u].rewardDebt)
<1> DEFINE p == ps[u]
           TS == Total(StakesOf(ps), AccountCount)
           TD == Total(DebtsOf(ps), AccountCount)
           x == Stake(p)
           y == Stake(q)
           z == p.rewardDebt
           d == q.rewardDebt
<1>1. /\ x \in Int /\ y \in Int /\ z \in Int /\ d \in Int
      /\ AccScale \in Int /\ AccountCount \in Nat /\ u \in 1 .. AccountCount /\ Accounts = 1 .. AccountCount
  BY StakeType, BoundsAssumption, AccountsAssumption DEF Position, Accounts
<1>2. /\ StakesOf(ps) \in [1 .. AccountCount -> Int] /\ DebtsOf(ps) \in [1 .. AccountCount -> Int]
      /\ TS \in Int /\ TD \in Int
  <2>1. \A v \in Accounts : Stake(ps[v]) \in Int /\ ps[v].rewardDebt \in Int
    BY StakeType DEF Position
  <2>2. StakesOf(ps) \in [1 .. AccountCount -> Int] /\ DebtsOf(ps) \in [1 .. AccountCount -> Int]
    BY <1>1, <2>1 DEF StakesOf, DebtsOf
  <2> QED BY <1>1, <2>2, TotalType
<1>3. /\ StakesOf(ps)[u] = x /\ DebtsOf(ps)[u] = z
      /\ StakesOf([ps EXCEPT ![u] = q]) = [StakesOf(ps) EXCEPT ![u] = y]
      /\ DebtsOf([ps EXCEPT ![u] = q]) = [DebtsOf(ps) EXCEPT ![u] = d]
  BY DEF StakesOf, DebtsOf
<1> HIDE DEF x, y, z, d, p
<1>4. /\ Total(StakesOf([ps EXCEPT ![u] = q]), AccountCount) = TS - x + y
      /\ Total(DebtsOf([ps EXCEPT ![u] = q]), AccountCount) = TD - z + d
  <2>1. Total([StakesOf(ps) EXCEPT ![u] = y], AccountCount) = TS - StakesOf(ps)[u] + y
    BY <1>1, <1>2, TotalUpdate, Zenon
  <2>2. Total([DebtsOf(ps) EXCEPT ![u] = d], AccountCount) = TD - DebtsOf(ps)[u] + d
    BY <1>1, <1>2, TotalUpdate, Zenon
  <2> QED BY <1>3, <2>1, <2>2
<1>5. /\ WorthAt([ps EXCEPT ![u] = q], acc) = acc * (TS - x + y) - AccScale * (TD - z + d)
      /\ WorthAt(ps, acc) = acc * TS - AccScale * TD
  BY <1>4 DEF WorthAt
<1> HIDE DEF TS, TD
<1>6. acc * (TS - x + y) - AccScale * (TD - z + d) = (acc * TS - AccScale * TD) + acc * (y - x) - AccScale * (d - z)
  BY <1>1, <1>2, SMT
<1>7. acc * TS - AccScale * TD \in Int
  <2>1. acc * TS \in Int /\ AccScale * TD \in Int
    BY <1>1, <1>2
  <2> QED BY <2>1
<1> QED BY <1>5, <1>6, <1>7 DEF p, x, y, z, d

\* What every operation of a staker does to the emission.
LEMMA StakerSettled ==
    ASSUME IInv, IInv', HistoryTyped, NEW r \in RewardTokens, EmissionOf(r), NEW pid \in DOMAIN pools[r],
           NEW u \in Accounts, NEW q \in Position, SoundPosition(q),
           pools' = [pools EXCEPT ![r][pid] = Updated(r, pid)],
           now' = now, totalAllocPoints' = totalAllocPoints, rewardRate' = rewardRate, emitted' = emitted,
           positions' = [positions EXCEPT ![r][pid][u] = q], q.rewardDebt = Cumulative(q, Updated(r, pid)),
           granted'[r] = granted[r] + Pending(positions[r][pid][u], Updated(r, pid)),
           settlements'[r] = settlements[r] + Rounded(q, Updated(r, pid))
    PROVE  EmissionOf(r)'
<1> DEFINE pool == Updated(r, pid)
           A == pool.accRewardPerShare
           p == positions[r][pid][u]
           g == Pending(p, pool)
           e == Rounded(q, pool)
<1>1. /\ PoolsSettled(r) /\ StakesTyped /\ pid \in Pids /\ p \in Position /\ SoundPosition(p) /\ pool \in PoolInfo
      /\ positions \in [RewardTokens -> [Pids -> [Accounts -> Position]]] /\ AccScale \in Nat
  BY StakerFacts, BoundsAssumption DEF IInv, EmissionOf
<1>2. pools[r][pid].accRewardPerShare \in Nat /\ A \in Nat /\ pools[r][pid].accRewardPerShare <= A
  BY <1>1, UpdatedWorth
<1>3. \A v \in Accounts : /\ positions[r][pid][v] \in Position /\ SoundPosition(positions[r][pid][v])
                          /\ Settled(positions[r][pid][v], pools[r][pid].accRewardPerShare)
  BY <1>1 DEF IInv, AllSound, PoolsSettled
<1> HIDE DEF pool
<1>4. \A v \in Accounts : Pending(positions[r][pid][v], pool) \in Nat /\ Settled(positions[r][pid][v], A)
  BY <1>1, <1>2, <1>3, ClaimPays
<1>5. /\ Cumulative(p, pool) \in Nat /\ AccScale * Cumulative(p, pool) <= Stake(p) * A
      /\ Cumulative(q, pool) \in Nat /\ AccScale * Cumulative(q, pool) <= Stake(q) * A
      /\ Stake(q) * A <= AccScale * Cumulative(q, pool) + AccScale * e /\ e \in {0, 1}
  BY <1>1, <1>2, CumulativePays
<1>6. q.rewardDebt = Cumulative(q, pool)
  BY DEF pool
<1>7. Settled(q, A)
  BY <1>5, <1>6 DEF Settled
<1>8. /\ positions'[r][pid] = [positions[r][pid] EXCEPT ![u] = q]
      /\ \A i \in Pids \ {pid} : positions'[r][i] = positions[r][i]
      /\ WorthAt(positions'[r][pid], A) = WorthAt(positions[r][pid], A) + A * (Stake(q) - Stake(p))
                                            - AccScale * (q.rewardDebt - p.rewardDebt)
      /\ WorthAt(positions[r][pid], A) \in Int
  <2>1. A \in Int /\ positions[r][pid] \in [Accounts -> Position]
    BY <1>1, <1>2
  <2>2. /\ positions'[r][pid] = [positions[r][pid] EXCEPT ![u] = q]
        /\ \A i \in Pids \ {pid} : positions'[r][i] = positions[r][i]
    BY <1>1
  <2> HIDE DEF A, g, e
  <2> DEFINE ps == positions[r][pid]
  <2>3. ps \in [Accounts -> Position]
    BY <2>1
  <2> HIDE DEF ps
  <2>4. /\ WorthAt([ps EXCEPT ![u] = q], A) = WorthAt(ps, A) + A * (Stake(q) - Stake(ps[u])) - AccScale * (q.rewardDebt - ps[u].rewardDebt)
        /\ WorthAt(ps, A) \in Int
    BY <2>1, <2>3, WorthChanged
  <2> QED BY <2>2, <2>4 DEF ps
<1>9. \A v \in Accounts : Settled(positions'[r][pid][v], A)
  BY <1>1, <1>4, <1>7, <1>8
<1>10. g = Cumulative(p, pool) - p.rewardDebt /\ g \in Int /\ e \in Int /\ p.rewardDebt \in Int
  BY <1>1, <1>4, <1>5 DEF Pending, Position
<1>11. Stake(p) \in Int /\ Stake(q) \in Int
  BY <1>1, StakeType
<1> DEFINE w == WorthAt(positions[r][pid], A)
           cp == Cumulative(p, pool)
           cq == Cumulative(q, pool)
           sp == Stake(p)
           sq == Stake(q)
           d == p.rewardDebt
<1>12. w \in Int
  BY <1>8
<1>13. WorthAt(positions'[r][pid], A) = w + A * (sq - sp) - AccScale * (cq - d)
  BY <1>6, <1>8
<1>14. /\ A \in Nat /\ AccScale \in Nat /\ cp \in Nat /\ cq \in Nat /\ sp \in Int /\ sq \in Int /\ d \in Int /\ e \in Int
       /\ AccScale * cp <= sp * A /\ sq * A <= AccScale * cq + AccScale * e /\ g = cp - d
  BY <1>1, <1>2, <1>5, <1>10, <1>11
<1> HIDE DEF A, w, cp, cq, sp, sq, d, e, g
<1>15. w + A * (sq - sp) - AccScale * (cq - d) + AccScale * g <= w + AccScale * e
  <2>1. /\ A * (sq - sp) = sq * A - sp * A
        /\ AccScale * (cq - d) = AccScale * cq - AccScale * d
        /\ AccScale * g = AccScale * cp - AccScale * d
    BY <1>14, SMT
  <2>2. /\ sq * A \in Int /\ sp * A \in Int /\ AccScale * cq \in Int /\ AccScale * d \in Int
        /\ AccScale * cp \in Int /\ AccScale * e \in Int
    BY <1>14
  <2> QED BY <1>12, <1>14, <2>1, <2>2
<1>16. WorthAt(positions'[r][pid], A) + AccScale * g <= WorthAt(positions[r][pid], A) + AccScale * e
  BY <1>13, <1>15 DEF w
<1>17. granted'[r] = granted[r] + g /\ settlements'[r] = settlements[r] + e
  BY DEF g, e, p, pool
<1> QED BY <1>8, <1>9, <1>10, <1>16, <1>17, SettleStep DEF A, pool


LEMMA NothingWorth ==
    ASSUME NEW ps, \A u \in Accounts : ps[u] = NoPosition
    PROVE  WorthAt(ps, 0) = 0 /\ \A u \in Accounts : Settled(ps[u], 0)
<1>1. AccountCount \in Nat /\ Accounts = 1 .. AccountCount /\ AccScale \in Nat
  BY AccountsAssumption, BoundsAssumption DEF Accounts
<1>2. \A u \in Accounts : Stake(ps[u]) = 0 /\ ps[u].rewardDebt = 0
  BY DEF NoPosition, Stake
<1>3. StakesOf(ps) = [i \in 1 .. AccountCount |-> 0] /\ DebtsOf(ps) = [i \in 1 .. AccountCount |-> 0]
  BY <1>1, <1>2 DEF StakesOf, DebtsOf
<1>4. WorthAt(ps, 0) = 0 * 0 - AccScale * 0
  BY <1>1, <1>3, TotalZero DEF WorthAt
<1>5. \A u \in Accounts : Settled(ps[u], 0)
  BY <1>1, <1>2 DEF Settled
<1> QED BY <1>1, <1>4, <1>5

\* All pools are updated and the emission goes on from there, with other shares or
\* another rate.  A pool that comes with it is owed nothing yet.
LEMMA MassStep ==
    ASSUME IInv, HistoryTyped, NEW r \in RewardTokens, EmissionOf(r),
           now' = now, positions' = positions, totalAllocPoints'[r] \in Nat,
           rewardRate'[r] \in Nat, \A i \in DOMAIN pools'[r] : pools'[r][i].allocPoint \in Nat,
           emitted' = emitted, settlements' = settlements, granted' = granted,
           DOMAIN pools[r] \subseteq DOMAIN pools'[r], DOMAIN pools'[r] \subseteq Pids,
           \A i \in DOMAIN pools'[r] : pools'[r][i].lastReward = now,
           \A i \in DOMAIN pools[r] : pools'[r][i].accRewardPerShare = Updated(r, i).accRewardPerShare,
           \A i \in DOMAIN pools'[r] \ DOMAIN pools[r] : pools'[r][i].accRewardPerShare = 0
    PROVE  PoolsSettled(r)' /\ Covered(r)'
<1> DEFINE D == DOMAIN pools[r]
<1>1. PoolsSettled(r) /\ now \in Nat /\ DOMAIN pools[r] \subseteq Pids
  <2>1. \A i \in DOMAIN pools[r] : i \in Pids
    BY PoolAt DEF IInv
  <2> QED BY <2>1 DEF EmissionOf, IInv, PoolsTyped
<1>2. ASSUME NEW i \in DOMAIN pools'[r], i \notin D
      PROVE  /\ WorthAt(positions'[r][i], pools'[r][i].accRewardPerShare) = 0
             /\ \A u \in Accounts : Settled(positions'[r][i][u], pools'[r][i].accRewardPerShare)
             /\ pools'[r][i].accRewardPerShare \in Nat
  <2>1. \A u \in Accounts : positions[r][i][u] = NoPosition
    BY <1>2 DEF IInv, Books, Untouched
  <2>2. pools'[r][i].accRewardPerShare = 0 /\ positions'[r][i] = positions[r][i]
    BY <1>2
  <2> QED BY <2>1, <2>2, NothingWorth
<1>3. ASSUME NEW i \in D
      PROVE  /\ pools'[r][i].accRewardPerShare \in Nat
             /\ WorthAt(positions'[r][i], pools'[r][i].accRewardPerShare) = WorthAt(positions[r][i], Updated(r, i).accRewardPerShare)
             /\ \A u \in Accounts : Settled(positions'[r][i][u], pools'[r][i].accRewardPerShare)
  <2>1. /\ pools'[r][i].accRewardPerShare = Updated(r, i).accRewardPerShare
        /\ Updated(r, i).accRewardPerShare \in Nat /\ pools[r][i].accRewardPerShare \in Nat
        /\ pools[r][i].accRewardPerShare <= Updated(r, i).accRewardPerShare /\ Updated(r, i) \in PoolInfo
    BY <1>1, UpdatedWorth, UpdatedType DEF IInv, Books
  <2>2. ASSUME NEW u \in Accounts PROVE Settled(positions[r][i][u], Updated(r, i).accRewardPerShare)
    <3>1. positions[r][i][u] \in Position /\ SoundPosition(positions[r][i][u])
      BY StakerFacts
    <3>2. Settled(positions[r][i][u], pools[r][i].accRewardPerShare)
      BY <1>1 DEF PoolsSettled
    <3> QED BY <2>1, <3>1, <3>2, ClaimPays
  <2> QED BY <2>1, <2>2
<1>4. PoolsSettled(r)'
  <2>1. ASSUME NEW i \in DOMAIN pools'[r]
        PROVE  /\ pools'[r][i].lastReward <= now /\ pools'[r][i].accRewardPerShare \in Nat
               /\ \A u \in Accounts : Settled(positions'[r][i][u], pools'[r][i].accRewardPerShare)
    <3>1. pools'[r][i].lastReward <= now
      BY <1>1
    <3> QED BY <1>2, <1>3, <3>1
  <2> QED BY <2>1 DEF PoolsSettled, Settled
<1>5. WorthsAfter(r, {})' = WorthsAfter(r, D)
  <2>1. ASSUME NEW i \in Pids PROVE WorthsAfter(r, {})'[i] = WorthsAfter(r, D)[i]
    <3>1. CASE i \in D
      <4>1. WorthsAfter(r, {})'[i] = WorthAt(positions'[r][i], pools'[r][i].accRewardPerShare)
        BY <3>1 DEF WorthsAfter
      <4>2. WorthsAfter(r, D)[i] = WorthAt(positions[r][i], Updated(r, i).accRewardPerShare)
        BY <3>1 DEF WorthsAfter
      <4> QED BY <1>3, <3>1, <4>1, <4>2
    <3>2. CASE i \notin D /\ i \in DOMAIN pools'[r]
      <4>1. WorthsAfter(r, {})'[i] = WorthAt(positions'[r][i], pools'[r][i].accRewardPerShare)
        BY <3>2 DEF WorthsAfter
      <4>2. WorthsAfter(r, D)[i] = 0
        BY <3>2 DEF WorthsAfter
      <4> QED BY <1>2, <3>2, <4>1, <4>2
    <3>3. CASE i \notin DOMAIN pools'[r]
      BY <3>3 DEF WorthsAfter
    <3> QED BY <3>1, <3>2, <3>3
  <2> QED BY <2>1 DEF WorthsAfter
<1>6. Total(UnspentAfter(r, {})', MaxPools) = 0
  <2>1. ASSUME NEW i \in Pids PROVE UnspentAfter(r, {})'[i] = 0
    <3>1. CASE i \in DOMAIN pools'[r]
      <4>1. Unspent(r, i)' = (now - now) * rewardRate'[r] * pools'[r][i].allocPoint
        BY <3>1 DEF Unspent
      <4>2. Unspent(r, i)' = 0
        BY <1>1, <3>1, <4>1
      <4> QED BY <3>1, <4>2 DEF UnspentAfter
    <3>2. CASE i \notin DOMAIN pools'[r]
      BY <3>2 DEF UnspentAfter
    <3> QED BY <3>1, <3>2
  <2>2. UnspentAfter(r, {})' = [i \in 1 .. MaxPools |-> 0]
    BY <2>1 DEF UnspentAfter, Pids
  <2> QED BY <2>2, TotalZero, BoundsAssumption
<1>7. Slack(r, {})' = Slack(r, D)
  BY <1>5 DEF Slack
<1>8. Slack(r, D) \in Int /\ Slack(r, D) >= 0
  BY UpdatedCovered
<1> DEFINE S == Slack(r, D)
<1>9. totalAllocPoints'[r] * S >= AccScale * 0
  <2>1. S \in Nat /\ AccScale \in Nat
    BY <1>8, BoundsAssumption
  <2> HIDE DEF S
  <2>2. totalAllocPoints'[r] * S \in Nat /\ AccScale * 0 = 0
    BY <2>1
  <2> QED BY <2>2
<1>10. Covered(r)'
  <2>1. /\ Slack(r, {})' >= 0
        /\ totalAllocPoints'[r] * Slack(r, {})' >= AccScale * Total(UnspentAfter(r, {})', MaxPools)
    BY <1>6, <1>7, <1>8, <1>9
  <2> QED BY <2>1 DEF Covered
<1> QED BY <1>4, <1>10


\* The other reward tokens are left alone.
LEMMA OthersKept ==
    ASSUME EmissionInv, NEW r \in RewardTokens, EmissionOf(r)', HistoryTyped', now' = now,
           \A s \in RewardTokens \ {r} :
             /\ pools'[s] = pools[s] /\ positions'[s] = positions[s]
             /\ totalAllocPoints'[s] = totalAllocPoints[s] /\ rewardRate'[s] = rewardRate[s]
             /\ emitted'[s] = emitted[s] /\ settlements'[s] = settlements[s] /\ granted'[s] = granted[s]
    PROVE  EmissionInv'
<1>1. ASSUME NEW s \in RewardTokens, s # r PROVE EmissionOf(s)'
  <2>1. EmissionOf(s)
    BY DEF EmissionInv
  <2>2. /\ pools'[s] = pools[s] /\ positions'[s] = positions[s]
        /\ totalAllocPoints'[s] = totalAllocPoints[s] /\ rewardRate'[s] = rewardRate[s]
        /\ emitted'[s] = emitted[s] /\ settlements'[s] = settlements[s] /\ granted'[s] = granted[s]
    BY <1>1
  <2> QED BY <2>1, <2>2, EmissionKept
<1> QED BY <1>1 DEF EmissionInv

LEMMA AllocsUpdate ==
    ASSUME PoolsTyped, NEW r \in RewardTokens, PointsAddUp(r), NEW pid \in Pids, NEW alloc \in Nat,
           AllocsOf(r)' = [AllocsOf(r) EXCEPT ![pid] = alloc],
           totalAllocPoints'[r] = totalAllocPoints[r] - AllocsOf(r)[pid] + alloc
    PROVE  PointsAddUp(r)'
<1>1. MaxPools \in Nat /\ pid \in 1 .. MaxPools
  BY BoundsAssumption DEF Pids
<1>2. AllocsOf(r) \in [1 .. MaxPools -> Int]
  <2>1. \A i \in DOMAIN pools[r] : pools[r][i].allocPoint \in Nat
    BY PoolAt DEF PoolInfo
  <2> QED BY <2>1 DEF AllocsOf, Pids
<1>3. Total([AllocsOf(r) EXCEPT ![pid] = alloc], MaxPools) = Total(AllocsOf(r), MaxPools) - AllocsOf(r)[pid] + alloc
  <2>1. alloc \in Int
    OBVIOUS
  <2> QED BY <1>1, <1>2, <2>1, TotalUpdate, Zenon
<1> QED BY <1>3 DEF PointsAddUp

LEMMA SetEmission ==
    ASSUME IInv, EmissionInv, NEW r \in RewardTokens, NEW pid \in DOMAIN pools[r], NEW alloc \in AllocPoints,
           Set(r, pid, alloc)
    PROVE  EmissionInv'
<1> DEFINE m == MassUpdated(r)
           total == totalAllocPoints[r] - pools[r][pid].allocPoint + alloc
<1>1. /\ HistoryTyped /\ EmissionOf(r) /\ PoolsSettled(r) /\ PointsAddUp(r) /\ PoolsTyped
      /\ pools \in [RewardTokens -> Seq(PoolInfo)] /\ totalAllocPoints \in [RewardTokens -> Nat]
      /\ rewardRate \in [RewardTokens -> Nat]
  BY DEF EmissionInv, EmissionOf, IInv, PoolsTyped
<1>2. /\ total > 0 /\ pools' = [pools EXCEPT ![r] = [m EXCEPT ![pid].allocPoint = alloc]]
      /\ totalAllocPoints' = [totalAllocPoints EXCEPT ![r] = total]
      /\ UNCHANGED <<now, rewardRate, positions, emitted, settlements, granted>>
  BY DEF Set, rewards
<1>3. alloc \in Nat /\ pid \in Pids /\ pools[r][pid].allocPoint \in Nat /\ total \in Nat
  <2>1. alloc \in Nat /\ pid \in Pids /\ pools[r][pid].allocPoint \in Nat /\ totalAllocPoints[r] \in Nat
    BY <1>1, PoolAt, InputsAssumption DEF PoolInfo
  <2> QED BY <1>2, <2>1
<1>4. /\ m \in [DOMAIN pools[r] -> PoolInfo] /\ \A i \in DOMAIN pools[r] : m[i] = Updated(r, i)
  BY MassUpdatedType DEF IInv, Books, MassUpdated
<1> HIDE DEF m, total
<1>5. /\ DOMAIN pools'[r] = DOMAIN pools[r]
      /\ pools'[r][pid].allocPoint = alloc
      /\ \A i \in DOMAIN pools[r] : /\ pools'[r][i].lastReward = Updated(r, i).lastReward
                                    /\ pools'[r][i].accRewardPerShare = Updated(r, i).accRewardPerShare
                                    /\ i # pid => pools'[r][i].allocPoint = Updated(r, i).allocPoint
  <2>1. pools'[r] = [m EXCEPT ![pid] = [m[pid] EXCEPT !.allocPoint = alloc]]
    BY <1>1, <1>2
  <2>2. ASSUME NEW i \in DOMAIN pools[r], i # pid
        PROVE  pools'[r][i] = m[i]
    BY <1>4, <2>1, <2>2
  <2>3. pools'[r][pid] = [m[pid] EXCEPT !.allocPoint = alloc] /\ m[pid] \in PoolInfo
    BY <1>4, <2>1
  <2>4. /\ pools'[r][pid].allocPoint = alloc /\ pools'[r][pid].lastReward = m[pid].lastReward
        /\ pools'[r][pid].accRewardPerShare = m[pid].accRewardPerShare
    BY <2>3 DEF PoolInfo
  <2> QED BY <1>4, <2>1, <2>2, <2>4
<1>6. \A i \in DOMAIN pools[r] : /\ Updated(r, i).lastReward = now /\ pools[r][i].allocPoint \in Nat
                                 /\ Updated(r, i).allocPoint = pools[r][i].allocPoint
  <2>1. \A i \in DOMAIN pools[r] : pools[r][i].allocPoint \in Nat
    BY <1>1, PoolAt DEF PoolInfo
  <2> QED BY <1>1, <2>1, UpdatedWorth
<1>7. PoolsSettled(r)' /\ Covered(r)'
  <2>1. DOMAIN pools[r] \subseteq Pids
    BY <1>1, PoolAt
  <2>2. totalAllocPoints'[r] \in Nat /\ rewardRate'[r] \in Nat
    BY <1>1, <1>2, <1>3
  <2>3. \A i \in DOMAIN pools'[r] : pools'[r][i].allocPoint \in Nat /\ pools'[r][i].lastReward = now
    BY <1>3, <1>5, <1>6
  <2>4. now' = now /\ positions' = positions /\ emitted' = emitted /\ settlements' = settlements /\ granted' = granted
    BY <1>2
  <2> QED BY <1>1, <1>5, <2>1, <2>2, <2>3, <2>4, MassStep
<1>8. PointsAddUp(r)'
  <2>1. AllocsOf(r)' = [AllocsOf(r) EXCEPT ![pid] = alloc]
    BY <1>3, <1>5, <1>6 DEF AllocsOf
  <2>2. totalAllocPoints'[r] = totalAllocPoints[r] - AllocsOf(r)[pid] + alloc
    BY <1>1, <1>2, <1>3 DEF AllocsOf, total
  <2> QED BY <1>1, <1>3, <2>1, <2>2, AllocsUpdate
<1>9. HistoryTyped'
  BY <1>1, <1>2 DEF HistoryTyped
<1> QED BY <1>1, <1>2, <1>7, <1>8, <1>9, OthersKept DEF EmissionOf

LEMMA SetRewardAmountEmission ==
    ASSUME IInv, EmissionInv, NEW r \in RewardTokens, NEW rate \in Rates, SetRewardAmountPerBlockOrSecond(r, rate)
    PROVE  EmissionInv'
<1> DEFINE m == MassUpdated(r)
<1>1. /\ HistoryTyped /\ EmissionOf(r) /\ PoolsSettled(r) /\ PointsAddUp(r) /\ PoolsTyped
      /\ pools \in [RewardTokens -> Seq(PoolInfo)] /\ totalAllocPoints \in [RewardTokens -> Nat]
      /\ rewardRate \in [RewardTokens -> Nat]
  BY DEF EmissionInv, EmissionOf, IInv, PoolsTyped
<1>2. /\ pools' = [pools EXCEPT ![r] = m] /\ rewardRate' = [rewardRate EXCEPT ![r] = rate]
      /\ UNCHANGED <<now, totalAllocPoints, positions, emitted, settlements, granted>>
  BY DEF SetRewardAmountPerBlockOrSecond, rewards
<1>3. rate \in Nat
  BY InputsAssumption
<1>4. DOMAIN m = DOMAIN pools[r] /\ \A i \in DOMAIN pools[r] : m[i] = Updated(r, i)
  BY DEF MassUpdated
<1> HIDE DEF m
<1>5. DOMAIN pools'[r] = DOMAIN pools[r] /\ \A i \in DOMAIN pools[r] : pools'[r][i] = Updated(r, i)
  BY <1>1, <1>2, <1>4
<1>6. \A i \in DOMAIN pools[r] : /\ Updated(r, i).lastReward = now /\ pools[r][i].allocPoint \in Nat
                                 /\ Updated(r, i).allocPoint = pools[r][i].allocPoint
  <2>1. \A i \in DOMAIN pools[r] : pools[r][i].allocPoint \in Nat
    BY <1>1, PoolAt DEF PoolInfo
  <2> QED BY <1>1, <2>1, UpdatedWorth
<1>7. PoolsSettled(r)' /\ Covered(r)'
  <2>1. DOMAIN pools[r] \subseteq Pids
    BY <1>1, PoolAt
  <2>2. totalAllocPoints'[r] \in Nat /\ rewardRate'[r] \in Nat
    BY <1>1, <1>2, <1>3
  <2>3. \A i \in DOMAIN pools'[r] : pools'[r][i].allocPoint \in Nat /\ pools'[r][i].lastReward = now
    BY <1>5, <1>6
  <2>4. now' = now /\ positions' = positions /\ emitted' = emitted /\ settlements' = settlements /\ granted' = granted
    BY <1>2
  <2> QED BY <1>1, <1>5, <2>1, <2>2, <2>3, <2>4, MassStep
<1>8. PointsAddUp(r)'
  <2>1. AllocsOf(r)' = AllocsOf(r)
    BY <1>5, <1>6 DEF AllocsOf
  <2> QED BY <1>1, <1>2, <2>1 DEF PointsAddUp
<1>9. HistoryTyped'
  BY <1>1, <1>2 DEF HistoryTyped
<1> QED BY <1>1, <1>2, <1>7, <1>8, <1>9, OthersKept DEF EmissionOf

LEMMA AddEmission ==
    ASSUME IInv, EmissionInv, NEW r \in RewardTokens, NEW alloc \in AllocPoints, NEW token \in Tokens, NEW rate \in Rates,
           NEW lock \in LockPeriods, Add(r, alloc, token, rate, lock)
    PROVE  EmissionInv'
<1> DEFINE m == MassUpdated(r)
           pool == NewPool(token, alloc, lock)
           n == Len(pools[r])
<1>1. /\ HistoryTyped /\ EmissionOf(r) /\ PoolsSettled(r) /\ PointsAddUp(r) /\ PoolsTyped /\ now \in Nat
      /\ pools \in [RewardTokens -> Seq(PoolInfo)] /\ totalAllocPoints \in [RewardTokens -> Nat]
      /\ rewardRate \in [RewardTokens -> Nat]
  BY DEF EmissionInv, EmissionOf, IInv, PoolsTyped
<1>2. /\ n < MaxPools /\ pools' = [pools EXCEPT ![r] = Append(m, pool)]
      /\ totalAllocPoints' = [totalAllocPoints EXCEPT ![r] = @ + alloc] /\ rewardRate' = [rewardRate EXCEPT ![r] = rate]
      /\ UNCHANGED <<now, positions, emitted, settlements, granted>>
  BY DEF Add, rewards
<1>3. rate \in Nat /\ alloc \in Nat /\ lock \in Nat /\ totalAllocPoints[r] \in Nat /\ MaxPools \in Nat
  BY <1>1, InputsAssumption, BoundsAssumption
<1>4. m \in [DOMAIN pools[r] -> PoolInfo] /\ \A i \in DOMAIN pools[r] : m[i] = Updated(r, i)
  BY MassUpdatedType DEF IInv, Books, MassUpdated
<1>5. /\ pool \in PoolInfo /\ pool.lastReward = now /\ pool.accRewardPerShare = 0 /\ pool.allocPoint = alloc
  BY <1>1, <1>3 DEF NewPool, PoolInfo
<1>6. n \in Nat /\ DOMAIN pools[r] = 1 .. n
  BY <1>1
<1> HIDE DEF m, pool, n
<1>7. m \in Seq(PoolInfo) /\ Len(m) = n
  <2>1. m \in [1 .. n -> PoolInfo]
    BY <1>4, <1>6
  <2>2. m \in Seq(PoolInfo)
    BY <1>6, <2>1, SequenceOf, Zenon
  <2>3. Len(m) \in Nat /\ DOMAIN m = 1 .. Len(m) /\ DOMAIN m = 1 .. n
    BY <2>1, <2>2, LenProperties
  <2>4. Len(m) = n
    <3>1. ~ (Len(m) < n)
      <4>1. Len(m) < n => n \in 1 .. n /\ n \notin 1 .. Len(m)
        BY <1>6, <2>3
      <4> QED BY <2>3, <4>1
    <3>2. ~ (n < Len(m))
      <4>1. n < Len(m) => Len(m) \in 1 .. Len(m) /\ Len(m) \notin 1 .. n
        BY <1>6, <2>3
      <4> QED BY <2>3, <4>1
    <3>3. n \in Nat /\ Len(m) \in Nat
      BY <1>6, <2>3
    <3> QED BY <3>1, <3>2, <3>3
  <2> QED BY <2>2, <2>4
<1>8. /\ DOMAIN pools'[r] = 1 .. n + 1 /\ pools'[r][n + 1] = pool
      /\ \A i \in DOMAIN pools[r] : pools'[r][i] = Updated(r, i)
  <2>1. pools'[r] = Append(m, pool)
    BY <1>1, <1>2
  <2>2. /\ DOMAIN Append(m, pool) = 1 .. n + 1 /\ Append(m, pool)[n + 1] = pool
        /\ \A i \in 1 .. n : Append(m, pool)[i] = m[i]
    BY <1>5, <1>6, <1>7, AppendProperties
  <2> QED BY <1>4, <1>6, <2>1, <2>2
<1>9. \A i \in DOMAIN pools[r] : /\ Updated(r, i).lastReward = now /\ pools[r][i].allocPoint \in Nat
                                 /\ Updated(r, i).allocPoint = pools[r][i].allocPoint
  <2>1. \A i \in DOMAIN pools[r] : pools[r][i].allocPoint \in Nat
    BY <1>1, PoolAt DEF PoolInfo
  <2> QED BY <1>1, <2>1, UpdatedWorth
<1>10. n + 1 \in Pids /\ n + 1 \notin DOMAIN pools[r] /\ DOMAIN pools'[r] = DOMAIN pools[r] \cup {n + 1}
       /\ DOMAIN pools[r] \subseteq Pids
  BY <1>2, <1>3, <1>6, <1>8 DEF Pids
<1>11. PoolsSettled(r)' /\ Covered(r)'
  <2>2. totalAllocPoints'[r] \in Nat /\ rewardRate'[r] \in Nat
    BY <1>1, <1>2, <1>3
  <2>3. \A i \in DOMAIN pools'[r] : pools'[r][i].allocPoint \in Nat /\ pools'[r][i].lastReward = now
    BY <1>3, <1>5, <1>8, <1>9, <1>10
  <2>4. now' = now /\ positions' = positions /\ emitted' = emitted /\ settlements' = settlements /\ granted' = granted
    BY <1>2
  <2>5. \A i \in DOMAIN pools'[r] \ DOMAIN pools[r] : pools'[r][i].accRewardPerShare = 0
    BY <1>5, <1>8, <1>10
  <2>6. /\ DOMAIN pools[r] \subseteq DOMAIN pools'[r] /\ DOMAIN pools'[r] \subseteq Pids
        /\ \A i \in DOMAIN pools[r] : pools'[r][i].accRewardPerShare = Updated(r, i).accRewardPerShare
    BY <1>8, <1>10
  <2> QED BY <1>1, <2>2, <2>3, <2>4, <2>5, <2>6, MassStep
<1>12. PointsAddUp(r)'
  <2>1. AllocsOf(r)' = [AllocsOf(r) EXCEPT ![n + 1] = alloc]
    <3>1. ASSUME NEW i \in Pids PROVE AllocsOf(r)'[i] = [AllocsOf(r) EXCEPT ![n + 1] = alloc][i]
      <4>1. CASE i = n + 1
        BY <1>5, <1>8, <1>10, <4>1 DEF AllocsOf
      <4>2. CASE i \in DOMAIN pools[r]
        BY <1>8, <1>9, <1>10, <4>2 DEF AllocsOf
      <4>3. CASE i \notin DOMAIN pools'[r]
        BY <1>10, <4>3 DEF AllocsOf
      <4> QED BY <1>10, <4>1, <4>2, <4>3
    <3> QED BY <3>1 DEF AllocsOf
  <2>2. AllocsOf(r)[n + 1] = 0
    BY <1>10 DEF AllocsOf
  <2>3. totalAllocPoints'[r] = totalAllocPoints[r] - AllocsOf(r)[n + 1] + alloc
    BY <1>1, <1>2, <1>3, <2>2
  <2> QED BY <1>1, <1>3, <1>10, <2>1, <2>3, AllocsUpdate
<1>13. HistoryTyped'
  BY <1>1, <1>2 DEF HistoryTyped
<1> QED BY <1>1, <1>2, <1>11, <1>12, <1>13, OthersKept DEF EmissionOf


\* A pool is updated and nobody is settled.
LEMMA UpdatedOnly ==
    ASSUME IInv, IInv', EmissionInv, NEW r \in RewardTokens, NEW pid \in DOMAIN pools[r],
           pools' = [pools EXCEPT ![r][pid] = Updated(r, pid)],
           now' = now, totalAllocPoints' = totalAllocPoints, rewardRate' = rewardRate, emitted' = emitted,
           positions' = positions, granted'[r] = granted[r], settlements'[r] = settlements[r]
    PROVE  EmissionOf(r)'
<1> DEFINE A == Updated(r, pid).accRewardPerShare
<1>1. HistoryTyped /\ EmissionOf(r) /\ PoolsSettled(r) /\ settlements[r] \in Int /\ granted[r] \in Int /\ pid \in Pids
  BY PoolAt DEF EmissionInv, EmissionOf, HistoryTyped, IInv, RewardsTyped
<1>2. /\ A \in Nat /\ pools[r][pid].accRewardPerShare \in Nat /\ pools[r][pid].accRewardPerShare <= A
      /\ Updated(r, pid) \in PoolInfo
  BY <1>1, UpdatedWorth, UpdatedType DEF IInv, Books
<1>3. ASSUME NEW v \in Accounts PROVE Settled(positions'[r][pid][v], A)
  <2>1. positions[r][pid][v] \in Position /\ SoundPosition(positions[r][pid][v])
    BY StakerFacts
  <2>2. Settled(positions[r][pid][v], pools[r][pid].accRewardPerShare)
    BY <1>1 DEF PoolsSettled
  <2>3. Settled(positions[r][pid][v], A)
    BY <1>2, <2>1, <2>2, ClaimPays
  <2> QED BY <2>3
<1>4. WorthAt(positions'[r][pid], A) + AccScale * 0 <= WorthAt(positions[r][pid], A) + AccScale * 0
  <2>1. StakesTyped /\ A \in Int
    BY <1>2 DEF IInv
  <2> HIDE DEF A
  <2>2. WorthAt(positions[r][pid], A) \in Int
    BY <1>1, <2>1, WorthType
  <2>3. AccScale \in Nat /\ AccScale * 0 = 0
    BY BoundsAssumption
  <2> QED BY <2>2, <2>3
<1>5. 0 \in Int /\ granted'[r] = granted[r] + 0 /\ settlements'[r] = settlements[r] + 0
  BY <1>1
<1> QED BY <1>1, <1>3, <1>4, <1>5, SettleStep

LEMMA UpdatePoolEmission ==
    ASSUME IInv, IInv', EmissionInv, NEW r \in RewardTokens, NEW pid \in DOMAIN pools[r], UpdatePool(r, pid)
    PROVE  EmissionInv'
<1>1. /\ pools' = [pools EXCEPT ![r][pid] = Updated(r, pid)]
      /\ positions' = positions /\ granted' = granted /\ settlements' = settlements /\ emitted' = emitted
      /\ now' = now /\ totalAllocPoints' = totalAllocPoints /\ rewardRate' = rewardRate
  BY DEF UpdatePool, settings, rewards
<1>2. EmissionOf(r)'
  BY <1>1, UpdatedOnly
<1>3. HistoryTyped' /\ \A s \in RewardTokens \ {r} : pools'[s] = pools[s]
  BY <1>1 DEF HistoryTyped, EmissionInv, IInv, PoolsTyped
<1> QED BY <1>1, <1>2, <1>3, OthersKept

\* A staker is settled: only one pool, his position in it and the history of r change.
LEMMA StakerEmission ==
    ASSUME IInv, IInv', EmissionInv, NEW r \in RewardTokens, NEW pid \in DOMAIN pools[r], NEW u \in Accounts,
           NEW q \in Position, SoundPosition(q), q.rewardDebt = Cumulative(q, Updated(r, pid)),
           pools' = [pools EXCEPT ![r][pid] = Updated(r, pid)],
           now' = now, totalAllocPoints' = totalAllocPoints, rewardRate' = rewardRate, emitted' = emitted,
           positions' = [positions EXCEPT ![r][pid][u] = q],
           granted' = [granted EXCEPT ![r] = @ + Pending(positions[r][pid][u], Updated(r, pid))],
           Settles(r, q, Updated(r, pid))
    PROVE  EmissionInv'
<1>1. /\ HistoryTyped /\ EmissionOf(r)
      /\ settlements \in [RewardTokens -> Int] /\ granted \in [RewardTokens -> Int] /\ emitted \in [RewardTokens -> Int]
      /\ pools \in [RewardTokens -> Seq(PoolInfo)] /\ positions \in [RewardTokens -> [Pids -> [Accounts -> Position]]]
  BY DEF EmissionInv, HistoryTyped, IInv, RewardsTyped, PoolsTyped, StakesTyped
<1>2. settlements' = [settlements EXCEPT ![r] = @ + Rounded(q, Updated(r, pid))]
  BY DEF Settles
<1>3. /\ granted'[r] = granted[r] + Pending(positions[r][pid][u], Updated(r, pid))
      /\ settlements'[r] = settlements[r] + Rounded(q, Updated(r, pid))
  BY <1>1, <1>2
<1>4. EmissionOf(r)'
  BY <1>1, <1>3, StakerSettled
<1>5. HistoryTyped'
  <2>1. Rounded(q, Updated(r, pid)) \in Int
    BY DEF Rounded
  <2> QED BY <1>1, <1>2, <2>1 DEF HistoryTyped
<1>6. \A s \in RewardTokens \ {r} :
        /\ pools'[s] = pools[s] /\ positions'[s] = positions[s]
        /\ settlements'[s] = settlements[s] /\ granted'[s] = granted[s]
  BY <1>1, <1>2
<1> QED BY <1>4, <1>5, <1>6, OthersKept

LEMMA DepositEmission ==
    ASSUME IInv, IInv', EmissionInv, NEW r \in RewardTokens, NEW pid \in DOMAIN pools[r], NEW u \in Accounts,
           NEW amount \in Amounts, Deposit(u, r, pid, amount)
    PROVE  EmissionInv'
<1> DEFINE pool == Updated(r, pid)
           p == positions[r][pid][u]
           staked == [p EXCEPT !.amount = @ + amount]
           q == [staked EXCEPT !.rewardDebt = Cumulative(staked, pool)]
<1>1. /\ p \in Position /\ SoundPosition(p) /\ pool \in PoolInfo /\ Pending(p, pool) \in Int /\ pid \in Pids
      /\ granted \in [RewardTokens -> Int]
  BY StakerFacts DEF IInv, RewardsTyped
<1>2. /\ pools' = [pools EXCEPT ![r][pid] = pool]
      /\ IF p.amount > 0 /\ Pending(p, pool) # 0
           THEN TransferReward(r, u, Pending(p, pool)) ELSE granted' = granted
      /\ positions' = [positions EXCEPT ![r][pid][u] = q]
      /\ Settles(r, staked, pool)
      /\ now' = now /\ totalAllocPoints' = totalAllocPoints /\ rewardRate' = rewardRate /\ emitted' = emitted
  BY DEF Deposit, settings, rewards
<1>3. PoolsSettled(r) /\ amount \in Nat
  BY InputsAssumption DEF EmissionInv, EmissionOf
<1>4. /\ pools[r][pid].accRewardPerShare \in Nat /\ pool.accRewardPerShare \in Nat
      /\ pools[r][pid].accRewardPerShare <= pool.accRewardPerShare
      /\ Settled(p, pools[r][pid].accRewardPerShare)
  BY <1>3, UpdatedWorth DEF PoolsSettled
<1> HIDE DEF pool, p
<1>5. /\ staked \in Position /\ staked.amount = p.amount + amount /\ staked.requests = p.requests
      /\ staked.pendingWithdrawals = p.pendingWithdrawals
  <2>1. p.amount + amount \in Nat /\ staked = [p EXCEPT !.amount = p.amount + amount]
    BY <1>1, <1>3 DEF Position
  <2> HIDE DEF staked
  <2> QED BY <1>1, <2>1 DEF Position
<1> HIDE DEF staked
<1>6. Cumulative(staked, pool) \in Int
  BY <1>1, <1>5, PendingType
<1>7. /\ q \in Position /\ q.amount = staked.amount /\ q.pendingWithdrawals = staked.pendingWithdrawals
      /\ q.requests = staked.requests /\ q.rewardDebt = Cumulative(staked, pool)
  BY <1>5, <1>6 DEF Position
<1> HIDE DEF q
<1>8. Stake(q) = Stake(staked) /\ SoundPosition(q)
  <2>1. p.amount \in Nat /\ p.pendingWithdrawals \in Nat
    BY <1>1 DEF Position
  <2> QED BY <1>1, <1>3, <1>5, <1>7, <2>1 DEF SoundPosition, Stake
<1>9. Cumulative(q, pool) = Cumulative(staked, pool) /\ Rounded(q, pool) = Rounded(staked, pool)
  BY <1>8 DEF Cumulative, Rounded
<1>10. Pending(p, pool) # 0 => p.amount > 0
  <2>1. SUFFICES ASSUME p.amount = 0 PROVE Pending(p, pool) = 0
    BY <1>1 DEF Position
  <2>2. Stake(p) = 0 /\ p.rewardDebt \in Nat
    BY <1>1, <1>4, <2>1 DEF SoundPosition, Position, Stake, Settled
  <2>3. Pending(p, pool) \in Nat
    BY <1>1, <1>4, ClaimPays
  <2>4. AccScale \in Nat \ {0} /\ 0 * pool.accRewardPerShare = 0
    BY <1>4, BoundsAssumption
  <2>5. Cumulative(p, pool) = 0 \div AccScale
    BY <2>2, <2>4 DEF Cumulative
  <2>6. 0 \div AccScale = 0
    BY <2>4, SMT
  <2>7. Pending(p, pool) = 0 - p.rewardDebt
    BY <2>5, <2>6 DEF Pending
  <2> QED BY <2>2, <2>3, <2>7
<1>11. granted' = [granted EXCEPT ![r] = @ + Pending(p, pool)]
  <2>1. CASE Pending(p, pool) # 0
    BY <1>2, <1>10, <2>1 DEF TransferReward
  <2>2. CASE Pending(p, pool) = 0
    <3>1. granted' = granted /\ granted[r] + 0 = granted[r]
      BY <1>1, <1>2, <2>2
    <3> QED BY <1>1, <2>2, <3>1
  <2> QED BY <2>1, <2>2
<1>12. q.rewardDebt = Cumulative(q, pool) /\ Settles(r, q, pool)
  BY <1>2, <1>7, <1>9 DEF Settles
<1> QED BY <1>2, <1>7, <1>8, <1>11, <1>12, StakerEmission DEF pool, p

LEMMA ClaimEmission ==
    ASSUME IInv, IInv', EmissionInv, NEW r \in RewardTokens, NEW pid \in DOMAIN pools[r], NEW u \in Accounts,
           Claim(u, r, pid)
    PROVE  EmissionInv'
<1> DEFINE pool == Updated(r, pid)
           p == positions[r][pid][u]
           pays == p.amount > 0 /\ Pending(p, pool) # 0
           q == [p EXCEPT !.rewardDebt = Cumulative(p, pool)]
<1>1. /\ p \in Position /\ SoundPosition(p) /\ pool \in PoolInfo /\ pid \in Pids
      /\ positions \in [RewardTokens -> [Pids -> [Accounts -> Position]]]
  BY StakerFacts
<1>2. /\ pools' = [pools EXCEPT ![r][pid] = pool]
      /\ IF pays THEN /\ TransferReward(r, u, Pending(p, pool))
                      /\ positions' = [positions EXCEPT ![r][pid][u] = q]
                      /\ Settles(r, p, pool)
                 ELSE granted' = granted /\ positions' = positions /\ settlements' = settlements
      /\ now' = now /\ totalAllocPoints' = totalAllocPoints /\ rewardRate' = rewardRate /\ emitted' = emitted
  BY <1>1 DEF Claim, settings, rewards
<1>3. Cumulative(p, pool) \in Int
  BY <1>1, PendingType
<1> HIDE DEF pool, p, pays
<1>4. /\ q \in Position /\ q.amount = p.amount /\ q.pendingWithdrawals = p.pendingWithdrawals
      /\ q.requests = p.requests /\ q.rewardDebt = Cumulative(p, pool)
  BY <1>1, <1>3 DEF Position
<1> HIDE DEF q
<1>5. SoundPosition(q) /\ Stake(q) = Stake(p)
  BY <1>1, <1>4 DEF SoundPosition, Stake
<1>6. CASE pays
  <2>1. granted' = [granted EXCEPT ![r] = @ + Pending(p, pool)]
    BY <1>2, <1>6 DEF TransferReward
  <2>2. q.rewardDebt = Cumulative(q, pool) /\ Settles(r, q, pool)
    BY <1>2, <1>4, <1>5, <1>6 DEF Cumulative, Rounded, Settles
  <2>3. positions' = [positions EXCEPT ![r][pid][u] = q]
    BY <1>2, <1>6
  <2> QED BY <1>2, <1>4, <1>5, <2>1, <2>2, <2>3, StakerEmission DEF pool, p
<1>7. CASE ~ pays
  <2>1. positions' = positions /\ granted' = granted /\ settlements' = settlements
    BY <1>2, <1>7
  <2>2. EmissionOf(r)'
    BY <1>2, <2>1, UpdatedOnly DEF pool
  <2>3. HistoryTyped' /\ \A s \in RewardTokens \ {r} : pools'[s] = pools[s]
    BY <1>2, <2>1 DEF HistoryTyped, EmissionInv, IInv, PoolsTyped
  <2> QED BY <1>2, <2>1, <2>2, <2>3, OthersKept
<1> QED BY <1>6, <1>7

LEMMA RequestWithdrawalEmission ==
    ASSUME IInv, IInv', EmissionInv, NEW r \in RewardTokens, NEW pid \in DOMAIN pools[r], NEW u \in Accounts,
           NEW amount \in Amounts, RequestWithdrawal(u, r, pid, amount)
    PROVE  EmissionInv'
<1> DEFINE pool == Updated(r, pid)
           p == positions[r][pid][u]
           asked == [p EXCEPT !.pendingWithdrawals = @ + amount,
                              !.requests = WithRequest(@, amount, now + pool.lockPeriod)]
           q == [asked EXCEPT !.rewardDebt = Cumulative(asked, pool)]
<1>1. /\ p \in Position /\ pid \in Pids
      /\ positions \in [RewardTokens -> [Pids -> [Accounts -> Position]]]
      /\ positions' \in [RewardTokens -> [Pids -> [Accounts -> Position]]] /\ AllSound'
  BY StakerFacts DEF IInv, StakesTyped
<1>2. /\ pools' = [pools EXCEPT ![r][pid] = pool]
      /\ TransferReward(r, u, Pending(p, pool))
      /\ positions' = [positions EXCEPT ![r][pid][u] = q]
      /\ Settles(r, asked, pool)
      /\ now' = now /\ totalAllocPoints' = totalAllocPoints /\ rewardRate' = rewardRate /\ emitted' = emitted
  BY DEF RequestWithdrawal, settings
<1> HIDE DEF pool, p
<1>3. q.amount = asked.amount /\ q.pendingWithdrawals = asked.pendingWithdrawals /\ q.rewardDebt = Cumulative(asked, pool)
  BY <1>1 DEF Position
<1> HIDE DEF q, asked
<1>4. q \in Position /\ SoundPosition(q)
  <2>1. positions'[r][pid][u] = q
    BY <1>1, <1>2
  <2> QED BY <1>1, <2>1 DEF AllSound, SoundPosition
<1>5. q.rewardDebt = Cumulative(q, pool) /\ Settles(r, q, pool)
  BY <1>2, <1>3 DEF Cumulative, Rounded, Settles, Stake
<1>6. granted' = [granted EXCEPT ![r] = @ + Pending(p, pool)]
  BY <1>2 DEF TransferReward
<1> QED BY <1>2, <1>4, <1>5, <1>6, StakerEmission DEF pool, p


\* Operations that have nothing to do with rewards, and those that only change locks and requests.
LEMMA AllKept ==
    ASSUME EmissionInv, UNCHANGED <<now, totalAllocPoints, rewardRate, emitted, settlements, granted>>,
           \A r \in RewardTokens : /\ DOMAIN pools'[r] = DOMAIN pools[r]
             /\ \A pid \in DOMAIN pools[r] :
                  /\ pools'[r][pid].lastReward = pools[r][pid].lastReward
                  /\ pools'[r][pid].allocPoint = pools[r][pid].allocPoint
                  /\ pools'[r][pid].accRewardPerShare = pools[r][pid].accRewardPerShare
                  /\ \A u \in Accounts : /\ Stake(positions'[r][pid][u]) = Stake(positions[r][pid][u])
                                         /\ positions'[r][pid][u].rewardDebt = positions[r][pid][u].rewardDebt
    PROVE  EmissionInv'
<1>1. ASSUME NEW r \in RewardTokens PROVE EmissionOf(r)'
  <2>1. EmissionOf(r)
    BY DEF EmissionInv
  <2> QED BY <2>1, EmissionKept
<1>2. HistoryTyped'
  BY DEF EmissionInv, HistoryTyped
<1> QED BY <1>1, <1>2 DEF EmissionInv

LEMMA PoolsAndPositionsKept ==
    ASSUME EmissionInv, UNCHANGED <<now, totalAllocPoints, rewardRate, emitted, settlements, granted, pools, positions>>
    PROVE  EmissionInv'
BY AllKept

LEMMA SetLockingEmission ==
    ASSUME IInv, EmissionInv, NEW r \in RewardTokens, NEW pid \in DOMAIN pools[r], NEW period \in LockPeriods,
           SetWithdrawalLockingPeriod(r, pid, period)
    PROVE  EmissionInv'
<1>1. pools \in [RewardTokens -> Seq(PoolInfo)] /\ pools[r][pid] \in PoolInfo /\ pools[r] \in Seq(PoolInfo)
  BY PoolAt DEF IInv, PoolsTyped
<1>2. /\ pools' = [pools EXCEPT ![r][pid] = [pools[r][pid] EXCEPT !.lockPeriod = period]]
      /\ positions' = positions
      /\ UNCHANGED <<now, totalAllocPoints, rewardRate, emitted, settlements, granted>>
  BY <1>1 DEF SetWithdrawalLockingPeriod, rewards
<1>3. ASSUME NEW s \in RewardTokens
      PROVE  /\ DOMAIN pools'[s] = DOMAIN pools[s]
             /\ \A i \in DOMAIN pools[s] : /\ pools'[s][i].lastReward = pools[s][i].lastReward
                                           /\ pools'[s][i].allocPoint = pools[s][i].allocPoint
                                           /\ pools'[s][i].accRewardPerShare = pools[s][i].accRewardPerShare
  <2>1. CASE s # r
    BY <1>1, <1>2, <2>1
  <2>2. CASE s = r
    <3> DEFINE pool == [pools[r][pid] EXCEPT !.lockPeriod = period]
    <3>1. /\ pool.lastReward = pools[r][pid].lastReward /\ pool.allocPoint = pools[r][pid].allocPoint
          /\ pool.accRewardPerShare = pools[r][pid].accRewardPerShare
      BY <1>1 DEF PoolInfo
    <3>2. pools'[r] = [pools[r] EXCEPT ![pid] = pool]
      BY <1>1, <1>2
    <3> HIDE DEF pool
    <3> QED BY <1>1, <2>2, <3>1, <3>2
  <2> QED BY <2>1, <2>2
<1> QED BY <1>2, <1>3, AllKept

LEMMA ExecuteWithdrawalEmission ==
    ASSUME IInv, EmissionInv, NEW r \in RewardTokens, NEW pid \in DOMAIN pools[r], NEW u \in Accounts,
           ExecuteWithdrawal(u, r, pid)
    PROVE  EmissionInv'
<1> DEFINE p == positions[r][pid][u]
           amount == SumAmounts(p.requests) - SumAmounts(Kept(p.requests))
           q == [p EXCEPT !.amount = @ - amount, !.pendingWithdrawals = @ - amount, !.requests = Kept(p.requests)]
<1>1. /\ p \in Position /\ positions \in [RewardTokens -> [Pids -> [Accounts -> Position]]] /\ pid \in Pids
      /\ SoundPosition(p) /\ now \in Nat
  BY StakerFacts DEF IInv, PoolsTyped
<1>2. /\ positions' = [positions EXCEPT ![r][pid][u] = q] /\ pools' = pools
      /\ UNCHANGED <<now, totalAllocPoints, rewardRate, emitted, settlements, granted>>
  BY DEF ExecuteWithdrawal, settings, rewards
<1>3. amount \in Int
  <2>1. p.requests \in Seq(Request)
    BY <1>1 DEF Position
  <2>2. Sorted(p.requests)
    BY <1>1 DEF SoundPosition
  <2>3. Kept(p.requests) \in Seq(Request)
    BY <1>1, <2>1, <2>2, KeptProperties
  <2> QED BY <2>1, <2>3, SumAmountsType
<1> HIDE DEF amount, p
<1>4. q.amount = p.amount - amount /\ q.pendingWithdrawals = p.pendingWithdrawals - amount /\ q.rewardDebt = p.rewardDebt
  BY <1>1 DEF Position
<1> HIDE DEF q
<1>5. Stake(q) = Stake(p)
  BY <1>1, <1>3, <1>4 DEF Stake, Position
<1>6. ASSUME NEW s \in RewardTokens, NEW i \in Pids, NEW v \in Accounts
      PROVE  /\ Stake(positions'[s][i][v]) = Stake(positions[s][i][v])
             /\ positions'[s][i][v].rewardDebt = positions[s][i][v].rewardDebt
  <2>1. CASE s = r /\ i = pid /\ v = u
    <3>1. positions'[s][i][v] = q /\ positions[s][i][v] = p
      BY <1>1, <1>2, <2>1 DEF p
    <3> QED BY <1>4, <1>5, <3>1
  <2>2. CASE ~ (s = r /\ i = pid /\ v = u)
    <3>1. positions'[s][i][v] = positions[s][i][v]
      BY <1>1, <1>2, <2>2
    <3> QED BY <3>1
  <2> QED BY <2>1, <2>2
<1>7. \A s \in RewardTokens : DOMAIN pools[s] \subseteq Pids
  BY PoolAt DEF IInv
<1> QED BY <1>2, <1>6, <1>7, AllKept

\* The rate of an emission is what its pools' shares add up to, for each unit of time.
LEMMA TickEmission ==
    ASSUME IInv, EmissionInv, Tick
    PROVE  EmissionInv'
<1>1. /\ now' = now + 1 /\ emitted' = [r \in RewardTokens |-> emitted[r] + rewardRate[r]]
      /\ UNCHANGED <<pools, positions, totalAllocPoints, rewardRate, granted, settlements>>
  BY DEF Tick, stakes, rewards, settings
<1>2. /\ now \in Nat /\ rewardRate \in [RewardTokens -> Nat] /\ HistoryTyped
      /\ totalAllocPoints \in [RewardTokens -> Nat] /\ granted \in [RewardTokens -> Int]
  BY DEF IInv, PoolsTyped, EmissionInv, RewardsTyped
<1>3. HistoryTyped'
  BY <1>1, <1>2 DEF HistoryTyped
<1>4. ASSUME NEW r \in RewardTokens PROVE EmissionOf(r)'
  <2> DEFINE t == totalAllocPoints[r]
             rate == rewardRate[r]
             U == UnspentAfter(r, {})
             V == UnspentAfter(r, {})'
             A == AllocsOf(r)
             W == Total(WorthsAfter(r, {}), MaxPools)
             h == emitted[r] + settlements[r] - granted[r]
  <2>1. PoolsSettled(r) /\ PointsAddUp(r) /\ Covered(r)
    BY DEF EmissionInv, EmissionOf
  <2>2. /\ t \in Nat /\ rate \in Nat /\ AccScale \in Nat \ {0} /\ MaxPools \in Nat /\ Pids = 1 .. MaxPools
        /\ U \in [1 .. MaxPools -> Nat] /\ A \in [1 .. MaxPools -> Nat] /\ W \in Int /\ h \in Int
    <3>1. h \in Int
      BY <1>2 DEF HistoryTyped
    <3> QED BY <1>2, <2>1, <3>1, EmissionTypes DEF Pids
  <2>3. ASSUME NEW i \in Pids PROVE V[i] = U[i] + rate * A[i]
    <3>1. CASE i \in DOMAIN pools[r]
      <4> DEFINE l == pools[r][i].lastReward
                 a == pools[r][i].allocPoint
      <4>1. l \in Nat /\ a \in Nat
        BY <3>1, PoolAt DEF IInv, PoolInfo
      <4>2. V[i] = ((now + 1) - l) * rate * a /\ U[i] = (now - l) * rate * a /\ A[i] = a
        <5>1. V[i] = Unspent(r, i)' /\ U[i] = Unspent(r, i) /\ A[i] = a
          BY <1>1, <3>1 DEF UnspentAfter, AllocsOf
        <5>2. Unspent(r, i)' = ((now + 1) - l) * rate * a /\ Unspent(r, i) = (now - l) * rate * a
          BY <1>1 DEF Unspent
        <5> QED BY <5>1, <5>2
      <4> HIDE DEF l, a, U, V, A, rate
      <4>3. ((now + 1) - l) * rate * a = (now - l) * rate * a + rate * a
        BY <1>2, <2>2, <4>1, SMT
      <4> QED BY <4>2, <4>3
    <3>2. CASE i \notin DOMAIN pools[r]
      <4>1. V[i] = 0 /\ U[i] = 0 /\ A[i] = 0
        BY <1>1, <3>2 DEF UnspentAfter, AllocsOf
      <4>2. rate * 0 = 0
        BY <2>2
      <4> HIDE DEF U, V, A, rate
      <4> QED BY <4>1, <4>2
    <3> QED BY <3>1, <3>2
  <2>4. V \in [1 .. MaxPools -> Nat]
    <3>1. DOMAIN V = 1 .. MaxPools /\ V = [i \in 1 .. MaxPools |-> V[i]]
      BY <2>2 DEF UnspentAfter
    <3> HIDE DEF V, U, A, rate
    <3>2. ASSUME NEW i \in 1 .. MaxPools PROVE V[i] \in Nat
      <4>1. U[i] \in Nat /\ A[i] \in Nat /\ rate \in Nat /\ i \in Pids
        BY <2>2
      <4>2. rate * A[i] \in Nat
        BY <4>1
      <4> QED BY <2>3, <4>1, <4>2
    <3> QED BY <3>1, <3>2
  <2> HIDE DEF U, V, A, t, rate, W, h
  <2>5. Total(V, MaxPools) <= Total(U, MaxPools) + rate * t
    <3>1. \A i \in 1 .. MaxPools : 1 * V[i] + 0 * V[i] <= 1 * U[i] + rate * A[i]
      <4> SUFFICES ASSUME NEW i \in 1 .. MaxPools PROVE 1 * V[i] + 0 * V[i] <= 1 * U[i] + rate * A[i]
        OBVIOUS
      <4>1. V[i] \in Nat /\ U[i] \in Nat /\ A[i] \in Nat /\ V[i] = U[i] + rate * A[i]
        BY <2>2, <2>3, <2>4
      <4>2. rate * A[i] \in Nat
        BY <2>2, <4>1
      <4> QED BY <4>1, <4>2
    <3>2. /\ U \in [1 .. MaxPools -> Int] /\ V \in [1 .. MaxPools -> Int] /\ A \in [1 .. MaxPools -> Int]
          /\ rate \in Int /\ 1 \in Int /\ 0 \in Int
      BY <2>2, <2>4
    <3>3. 1 * Total(V, MaxPools) + 0 * Total(V, MaxPools) <= 1 * Total(U, MaxPools) + rate * Total(A, MaxPools)
      BY <2>2, <3>1, <3>2, TotalsCompared
    <3>4. Total(A, MaxPools) = t
      BY <2>1 DEF PointsAddUp, A, t
    <3>5. Total(V, MaxPools) \in Int /\ Total(U, MaxPools) \in Int
      BY <2>2, <3>2, TotalType
    <3>6. rate * t \in Int
      BY <2>2
    <3> QED BY <3>3, <3>4, <3>5, <3>6
  <2>6. Total(V, MaxPools) \in Nat /\ Total(U, MaxPools) \in Nat
    BY <2>2, <2>4, TotalNat
  <2>7. Slack(r, {}) = AccScale * h - W /\ Slack(r, {})' = AccScale * (h + rate) - W
    <3>1. WorthsAfter(r, {})' = WorthsAfter(r, {})
      BY <1>1 DEF WorthsAfter
    <3>2. emitted'[r] + settlements'[r] - granted'[r] = h + rate
      <4>1. emitted[r] \in Int /\ settlements[r] \in Int /\ granted[r] \in Int /\ rewardRate[r] \in Int
        BY <1>2 DEF HistoryTyped
      <4> QED BY <1>1, <4>1 DEF h, rate
    <3> QED BY <3>1, <3>2 DEF Slack, h, W
  <2>8. /\ AccScale * h - W >= 0 /\ t * (AccScale * h - W) >= AccScale * Total(U, MaxPools)
    BY <2>1, <2>7 DEF Covered, U, t
  <2> DEFINE x == Total(U, MaxPools)
             y == Total(V, MaxPools)
             s == AccScale * h - W
  <2>9. s \in Int /\ AccScale * (h + rate) - W = s + AccScale * rate /\ AccScale * rate \in Nat
    <3>1. AccScale * h \in Int /\ AccScale * rate \in Nat
      BY <2>2
    <3>2. AccScale * (h + rate) = AccScale * h + AccScale * rate
      BY <2>2, SMT
    <3> QED BY <2>2, <3>1, <3>2
  <2>10. t * (s + AccScale * rate) >= AccScale * y
    <3>1. x \in Nat /\ y \in Nat /\ y <= x + rate * t /\ t * s >= AccScale * x
      BY <2>5, <2>6, <2>8
    <3> HIDE DEF x, y, s
    <3>2. rate * t \in Nat
      BY <2>2
    <3>3. AccScale * y <= AccScale * (x + rate * t)
      BY <2>2, <3>1, <3>2, SMT
    <3>4. AccScale * (x + rate * t) = AccScale * x + t * (AccScale * rate)
      BY <2>2, <3>1, SMT
    <3>5. t * (s + AccScale * rate) = t * s + t * (AccScale * rate)
      BY <2>2, <2>9, SMT
    <3>6. AccScale * y \in Int /\ AccScale * x \in Int /\ t * s \in Int /\ t * (AccScale * rate) \in Int
      BY <2>2, <2>9, <3>1
    <3> QED BY <3>1, <3>3, <3>4, <3>5, <3>6
  <2>11. Covered(r)'
    <3>1. s + AccScale * rate >= 0
      BY <2>8, <2>9
    <3>2. Slack(r, {})' = s + AccScale * rate
      BY <2>7, <2>9
    <3>3. totalAllocPoints'[r] = t /\ Total(UnspentAfter(r, {})', MaxPools) = y
      BY <1>1 DEF t, V
    <3> HIDE DEF s, y, x
    <3> QED BY <2>10, <3>1, <3>2, <3>3 DEF Covered
  <2>12. PoolsSettled(r)'
    <3>1. \A i \in DOMAIN pools[r] : pools[r][i].lastReward \in Nat
      BY PoolAt DEF IInv, PoolInfo
    <3>2. \A i \in DOMAIN pools[r] : pools[r][i].lastReward <= now + 1
      BY <1>2, <2>1, <3>1 DEF PoolsSettled
    <3> QED BY <1>1, <2>1, <3>2 DEF PoolsSettled, Settled
  <2>13. PointsAddUp(r)'
    BY <1>1, <2>1 DEF PointsAddUp, AllocsOf
  <2> QED BY <2>11, <2>12, <2>13 DEF EmissionOf
<1> QED BY <1>3, <1>4 DEF EmissionInv

LEMMA EmissionInit == Init => EmissionInv
<1> SUFFICES ASSUME Init PROVE EmissionInv
  OBVIOUS
<1>1. /\ HistoryTyped /\ \A r \in RewardTokens : /\ DOMAIN pools[r] = {} /\ totalAllocPoints[r] = 0
                                                 /\ emitted[r] = 0 /\ settlements[r] = 0 /\ granted[r] = 0
  BY DEF Init, ForEach, HistoryTyped
<1>2. ASSUME NEW r \in RewardTokens PROVE EmissionOf(r)
  <2> DEFINE zero == [i \in 1 .. MaxPools |-> 0]
  <2>1. WorthsAfter(r, {}) = zero /\ UnspentAfter(r, {}) = zero /\ AllocsOf(r) = zero
    BY <1>1 DEF WorthsAfter, UnspentAfter, AllocsOf, Pids
  <2>2. Total(zero, MaxPools) = 0 /\ AccScale \in Nat
    BY TotalZero, BoundsAssumption
  <2> HIDE DEF zero
  <2>3. Slack(r, {}) = 0
    BY <1>1, <2>1, <2>2 DEF Slack
  <2>4. Covered(r) /\ PointsAddUp(r)
    BY <1>1, <2>1, <2>2, <2>3 DEF Covered, PointsAddUp
  <2>5. PoolsSettled(r)
    BY <1>1 DEF PoolsSettled
  <2> QED BY <2>4, <2>5 DEF EmissionOf
<1> QED BY <1>1, <1>2 DEF EmissionInv

LEMMA EmissionStep == IInv /\ EmissionInv /\ [Next]_vars => EmissionInv'
<1> SUFFICES ASSUME IInv, EmissionInv, [Next]_vars PROVE EmissionInv'
  OBVIOUS
<1>0. IInv'
  BY IInvStep
<1>1. CASE \E r \in RewardTokens, alloc \in AllocPoints, token \in Tokens, rate \in Rates, lock \in LockPeriods :
             Add(r, alloc, token, rate, lock)
  BY <1>1, AddEmission
<1>2. CASE \E r \in RewardTokens, rate \in Rates : SetRewardAmountPerBlockOrSecond(r, rate)
  BY <1>2, SetRewardAmountEmission
<1>3. CASE \E r \in RewardTokens, amount \in Fundings : Fund(r, amount)
  BY <1>3, PoolsAndPositionsKept DEF Fund, stakes
<1>4. CASE \E r \in RewardTokens : \E pid \in DOMAIN pools[r] :
             \/ \E alloc \in AllocPoints : Set(r, pid, alloc)
             \/ \E period \in LockPeriods : SetWithdrawalLockingPeriod(r, pid, period)
             \/ UpdatePool(r, pid)
  BY <1>0, <1>4, SetEmission, SetLockingEmission, UpdatePoolEmission
<1>5. CASE \E r \in RewardTokens : \E pid \in DOMAIN pools[r] : \E u \in Accounts :
             \/ \E amount \in Amounts : Deposit(u, r, pid, amount) \/ RequestWithdrawal(u, r, pid, amount)
             \/ Claim(u, r, pid) \/ ExecuteWithdrawal(u, r, pid)
  BY <1>0, <1>5, DepositEmission, RequestWithdrawalEmission, ClaimEmission, ExecuteWithdrawalEmission
<1>6. CASE \E u \in Accounts, to \in Accounts \cup {Nobody} : Delegate(u, to)
  BY <1>6, PoolsAndPositionsKept DEF Delegate, stakes, rewards, settings
<1>7. CASE Pause \/ Resume
  BY <1>7, PoolsAndPositionsKept DEF Pause, Resume, stakes, rewards
<1>8. CASE Tick
  BY <1>8, TickEmission
<1>9. CASE UNCHANGED vars
  BY <1>9, PoolsAndPositionsKept DEF vars, stakes, rewards, settings
<1> QED BY <1>1, <1>2, <1>3, <1>4, <1>5, <1>6, <1>7, <1>8, <1>9 DEF Next

\* What the stakers of a pool could claim after an update is within what they are owed.
LEMMA ClaimsWithinWorth ==
    ASSUME IInv, EmissionInv, NEW r \in RewardTokens, NEW pid \in DOMAIN pools[r]
    PROVE  LET claims == [u \in Accounts |-> Pending(positions[r][pid][u], Updated(r, pid))]
           IN  /\ \A u \in Accounts : claims[u] \in Nat
               /\ Total(claims, AccountCount) \in Int
               /\ AccScale * Total(claims, AccountCount) <= WorthAt(positions[r][pid], Updated(r, pid).accRewardPerShare)
<1> DEFINE ps == positions[r][pid]
           pool == Updated(r, pid)
           A == pool.accRewardPerShare
           claims == [u \in Accounts |-> Pending(ps[u], pool)]
<1>1. /\ PoolsSettled(r) /\ StakesTyped /\ pid \in Pids /\ Accounts = 1 .. AccountCount /\ AccountCount \in Nat
      /\ AccScale \in Nat
  BY PoolAt, AccountsAssumption, BoundsAssumption DEF EmissionInv, EmissionOf, IInv, Accounts
<1>2. /\ A \in Nat /\ pools[r][pid].accRewardPerShare \in Nat /\ pools[r][pid].accRewardPerShare <= A /\ pool \in PoolInfo
  BY <1>1, UpdatedWorth, UpdatedType DEF IInv, Books
<1>3. /\ StakesOf(ps) \in [1 .. AccountCount -> Int] /\ DebtsOf(ps) \in [1 .. AccountCount -> Int]
      /\ Total(StakesOf(ps), AccountCount) \in Int /\ Total(DebtsOf(ps), AccountCount) \in Int
  BY <1>1, WorthType, SumTypes
<1> HIDE DEF pool
<1>4. ASSUME NEW u \in Accounts
      PROVE  claims[u] \in Nat /\ AccScale * claims[u] <= A * StakesOf(ps)[u] + (- AccScale) * DebtsOf(ps)[u]
  <2> DEFINE p == ps[u]
  <2>1. p \in Position /\ SoundPosition(p) /\ Settled(p, pools[r][pid].accRewardPerShare)
    BY <1>1, StakerFacts DEF PoolsSettled
  <2> HIDE DEF p
  <2>2. Pending(p, pool) \in Nat
    BY <1>2, <2>1, ClaimPays
  <2>3. Cumulative(p, pool) \in Nat /\ AccScale * Cumulative(p, pool) <= Stake(p) * A
    BY <1>2, <2>1, CumulativePays
  <2> DEFINE c == Cumulative(p, pool)
             d == p.rewardDebt
             s == Stake(p)
  <2>4. Pending(p, pool) = c - d /\ s \in Int /\ d \in Int
    BY <2>1, StakeType DEF Pending, Position
  <2> HIDE DEF A, c, d, s
  <2>5. AccScale * (c - d) <= A * s + (- AccScale) * d
    <3>1. c \in Nat /\ AccScale * c <= s * A
      BY <2>3 DEF c, s
    <3>2. AccScale * (c - d) = AccScale * c - AccScale * d /\ (- AccScale) * d = 0 - AccScale * d /\ A * s = s * A
      BY <1>1, <1>2, <2>4, <3>1, SMT
    <3>3. AccScale * c \in Int /\ AccScale * d \in Int /\ s * A \in Int
      BY <1>1, <1>2, <2>4, <3>1
    <3> QED BY <3>1, <3>2, <3>3
  <2>6. claims[u] = Pending(p, pool) /\ StakesOf(ps)[u] = s /\ DebtsOf(ps)[u] = d
    BY DEF StakesOf, DebtsOf, p, s, d
  <2> HIDE DEF claims
  <2> QED BY <2>2, <2>4, <2>5, <2>6
<1>5. claims \in [1 .. AccountCount -> Int]
  BY <1>1, <1>4
<1>6. Total(claims, AccountCount) \in Int
  <2> HIDE DEF claims
  <2> QED BY <1>1, <1>5, TotalType
<1>7. AccScale * Total(claims, AccountCount) + 0 * Total(claims, AccountCount)
        <= A * Total(StakesOf(ps), AccountCount) + (- AccScale) * Total(DebtsOf(ps), AccountCount)
  <2> HIDE DEF claims, A, ps
  <2>1. \A u \in 1 .. AccountCount :
          AccScale * claims[u] + 0 * claims[u] <= A * StakesOf(ps)[u] + (- AccScale) * DebtsOf(ps)[u]
    <3> SUFFICES ASSUME NEW u \in 1 .. AccountCount
                 PROVE  AccScale * claims[u] + 0 * claims[u] <= A * StakesOf(ps)[u] + (- AccScale) * DebtsOf(ps)[u]
      OBVIOUS
    <3>1. claims[u] \in Nat /\ AccScale * claims[u] <= A * StakesOf(ps)[u] + (- AccScale) * DebtsOf(ps)[u]
      BY <1>1, <1>4
    <3>2. AccScale * claims[u] + 0 * claims[u] = AccScale * claims[u]
      BY <1>1, <3>1
    <3> QED BY <3>1, <3>2
  <2>2. AccScale \in Int /\ - AccScale \in Int /\ A \in Int /\ 0 \in Int
    BY <1>1, <1>2
  <2> QED BY <1>1, <1>3, <1>5, <2>1, <2>2, TotalsCompared
<1>8. AccScale * Total(claims, AccountCount) <= WorthAt(ps, A)
  <2> DEFINE T == Total(claims, AccountCount)
             S == Total(StakesOf(ps), AccountCount)
             D == Total(DebtsOf(ps), AccountCount)
  <2>1. WorthAt(ps, A) = A * S - AccScale * D
    BY DEF WorthAt
  <2>2. AccScale * T + 0 * T <= A * S + (- AccScale) * D /\ T \in Int /\ S \in Int /\ D \in Int /\ A \in Int
    BY <1>2, <1>3, <1>6, <1>7
  <2> HIDE DEF T, S, D, A
  <2>3. (- AccScale) * D = 0 - AccScale * D /\ 0 * T = 0
    BY <1>1, <2>2, SMT
  <2>4. AccScale * T \in Int /\ A * S \in Int /\ AccScale * D \in Int
    BY <1>1, <2>2
  <2>5. AccScale * T <= A * S - AccScale * D
    BY <2>2, <2>3, <2>4
  <2> QED BY <2>1, <2>5 DEF T
<1> QED BY <1>4, <1>6, <1>8 DEF pool


LEMMA ClaimableCovered ==
    ASSUME IInv, EmissionInv, NEW r \in RewardTokens
    PROVE  granted[r] + Claimable(r) <= emitted[r] + settlements[r]
<1> DEFINE D == DOMAIN pools[r]
           of == [pid \in Pids |-> Total([u \in Accounts |-> Pending(positions[r][pid][u], Updated(r, pid))], AccountCount)]
           C == [pid \in Pids |-> IF pid \in D THEN of[pid] ELSE 0]
           W == WorthsAfter(r, D)
           h == emitted[r] + settlements[r] - granted[r]
<1>1. /\ PoolsSettled(r) /\ HistoryTyped /\ EmissionOf(r) /\ Pids = 1 .. MaxPools
      /\ emitted[r] \in Int /\ settlements[r] \in Int /\ granted[r] \in Int
  BY DEF EmissionInv, EmissionOf, HistoryTyped, IInv, RewardsTyped, Pids
<1>2. /\ W \in [1 .. MaxPools -> Int] /\ Total(W, MaxPools) \in Int /\ AccScale \in Nat \ {0} /\ MaxPools \in Nat
  BY <1>1, EmissionTypes
<1>3. Claimable(r) = Total(C, MaxPools)
  BY DEF Claimable
<1>4. ASSUME NEW pid \in Pids PROVE C[pid] \in Int /\ AccScale * C[pid] <= W[pid]
  <2>1. CASE pid \in D
    <3>1. C[pid] = Total([u \in Accounts |-> Pending(positions[r][pid][u], Updated(r, pid))], AccountCount)
      BY <2>1
    <3>2. W[pid] = WorthAt(positions[r][pid], Updated(r, pid).accRewardPerShare)
      BY <2>1 DEF WorthsAfter
    <3> HIDE DEF C, W
    <3> QED BY <2>1, <3>1, <3>2, ClaimsWithinWorth
  <2>2. CASE pid \notin D
    <3>1. C[pid] = 0 /\ W[pid] = 0
      BY <2>2 DEF WorthsAfter
    <3>2. AccScale * 0 = 0
      BY <1>2
    <3> HIDE DEF C, W
    <3> QED BY <3>1, <3>2
  <2> QED BY <2>1, <2>2
<1>5. C \in [1 .. MaxPools -> Int]
  <2>1. C = [pid \in Pids |-> C[pid]]
    OBVIOUS
  <2> HIDE DEF C
  <2> QED BY <1>1, <1>4, <2>1
<1>6. Slack(r, D) = AccScale * h - Total(W, MaxPools) /\ Slack(r, D) >= 0
  BY <1>1, UpdatedCovered DEF Slack
<1> HIDE DEF C, W
<1>7. AccScale * Total(C, MaxPools) <= Total(W, MaxPools)
  <2>1. \A pid \in 1 .. MaxPools : AccScale * C[pid] + 0 * C[pid] <= 1 * W[pid] + 0 * W[pid]
    <3> SUFFICES ASSUME NEW pid \in 1 .. MaxPools PROVE AccScale * C[pid] + 0 * C[pid] <= 1 * W[pid] + 0 * W[pid]
      OBVIOUS
    <3>1. C[pid] \in Int /\ W[pid] \in Int /\ AccScale * C[pid] <= W[pid]
      BY <1>1, <1>2, <1>4
    <3>2. AccScale * C[pid] \in Int
      BY <1>2, <3>1
    <3> QED BY <3>1, <3>2
  <2>2. AccScale \in Int /\ 0 \in Int /\ 1 \in Int
    BY <1>2
  <2>3. AccScale * Total(C, MaxPools) + 0 * Total(C, MaxPools) <= 1 * Total(W, MaxPools) + 0 * Total(W, MaxPools)
    BY <1>2, <1>5, <2>1, <2>2, TotalsCompared
  <2>4. Total(C, MaxPools) \in Int
    BY <1>2, <1>5, TotalType
  <2>5. AccScale * Total(C, MaxPools) \in Int
    BY <1>2, <2>4
  <2> QED BY <1>2, <2>3, <2>4, <2>5
<1>8. Total(C, MaxPools) \in Int /\ h \in Int
  <2>1. Total(C, MaxPools) \in Int
    BY <1>2, <1>5, TotalType
  <2> QED BY <1>1, <2>1
<1> DEFINE T == Total(C, MaxPools)
           V == Total(W, MaxPools)
<1>9. T <= h
  <2>1. T \in Int /\ h \in Int /\ V \in Int /\ AccScale * h - V >= 0 /\ AccScale * T <= V
    BY <1>2, <1>6, <1>7, <1>8
  <2> HIDE DEF T, V, h
  <2>2. AccScale * h \in Int /\ AccScale * T \in Int
    BY <1>2, <2>1
  <2>3. AccScale * T <= AccScale * h
    BY <2>1, <2>2
  <2> QED BY <1>2, <2>1, <2>3, SMT
<1> QED BY <1>1, <1>3, <1>8, <1>9

\* Whatever the stakers do and whatever is set when, what they were granted and could claim
\* at this moment is within what was emitted, but for one unit for each rounding up, and
\* nobody's claim reverts for being negative (ECLVaults.sol:612).
THEOREM SpecRewardsWithinEmission == Spec => []RewardsWithinEmission
<1>1. Init => IInv /\ EmissionInv
  BY IInvInit, EmissionInit
<1>2. IInv /\ EmissionInv /\ [Next]_vars => IInv' /\ EmissionInv'
  BY IInvStep, EmissionStep
<1>3. IInv /\ EmissionInv => RewardsWithinEmission
  <2> SUFFICES ASSUME IInv, EmissionInv, NEW r \in RewardTokens
               PROVE  /\ granted[r] + Claimable(r) <= emitted[r] + settlements[r]
                      /\ \A pid \in DOMAIN pools[r] : \A u \in Accounts : Pending(positions[r][pid][u], Updated(r, pid)) >= 0
    BY DEF RewardsWithinEmission
  <2>1. granted[r] + Claimable(r) <= emitted[r] + settlements[r]
    BY ClaimableCovered
  <2>2. \A pid \in DOMAIN pools[r] : \A u \in Accounts : Pending(positions[r][pid][u], Updated(r, pid)) \in Nat
    BY ClaimsWithinWorth
  <2> QED BY <2>1, <2>2
<1> QED BY <1>1, <1>2, <1>3, PTL DEF Spec


-----------------------------------------------------------------------------
(* The history of votes: what the bisection of getPriorVotes finds *)

Ordered(cp) == \A i, j \in DOMAIN cp : i < j => cp[i].from < cp[j].from

\* m is the last of the indices l .. u whose checkpoint is not after t, or l if there is none.
IsLast(cp, t, l, u, m) ==
  /\ m = l \/ (m \in l .. u /\ cp[m].from <= t)
  /\ \A i \in l .. u : i > m => cp[i].from > t

LEMMA CheckpointAt ==
    ASSUME NEW cp \in Seq(Checkpoint), NEW i \in 1 .. Len(cp)
    PROVE  cp[i].from \in Nat /\ cp[i].votes \in Int
<1>1. cp[i] \in Checkpoint
  OBVIOUS
<1> QED BY <1>1 DEF Checkpoint

LEMMA LastExists ==
    ASSUME NEW cp \in Seq(Checkpoint), NEW t \in Int, NEW l \in 1 .. Len(cp), NEW u \in 1 .. Len(cp)
    PROVE  \E m \in 1 .. Len(cp) : IsLast(cp, t, l, u, m)
<1> DEFINE T == {k \in Nat : k >= l /\ \A i \in l .. u : i > k => cp[i].from > t}
<1>1. Len(cp) \in Nat
  OBVIOUS
<1>2. T \in SUBSET Nat /\ T # {}
  <2>1. Len(cp) \in T
    BY <1>1
  <2> QED BY <2>1
<1>3. PICK k \in T : \A j \in T : k <= j
  <2> HIDE DEF T
  <2> QED BY <1>2, LeastNatural
<1>4. CASE k = l
  <2>1. \A i \in l .. u : i > l => cp[i].from > t
    BY <1>3, <1>4
  <2>2. IsLast(cp, t, l, u, l)
    BY <2>1 DEF IsLast
  <2> QED BY <2>2
<1>5. CASE k # l
  <2>1. k - 1 \in Nat /\ k - 1 >= l /\ k - 1 \notin T
    BY <1>1, <1>3, <1>5
  <2>2. PICK i \in l .. u : i > k - 1 /\ ~ (cp[i].from > t)
    BY <2>1
  <2>3. i \in 1 .. Len(cp) /\ i \in Nat /\ cp[i].from \in Nat
    BY <1>1, CheckpointAt
  <2>4. i = k
    BY <1>3, <2>2, <2>3
  <2>5. cp[k].from <= t
    BY <2>2, <2>3, <2>4
  <2> QED BY <1>3, <2>2, <2>3, <2>4, <2>5 DEF IsLast
<1> QED BY <1>4, <1>5

LEMMA LastUnique ==
    ASSUME NEW cp \in Seq(Checkpoint), NEW t \in Int, NEW l \in 1 .. Len(cp), NEW u \in 1 .. Len(cp),
           NEW m \in 1 .. Len(cp), NEW k \in 1 .. Len(cp), IsLast(cp, t, l, u, m), IsLast(cp, t, l, u, k)
    PROVE  m = k
<1>1. \A i \in 1 .. Len(cp) : cp[i].from \in Nat
  BY CheckpointAt
<1>2. Len(cp) \in Nat
  OBVIOUS
<1>3. ASSUME NEW a \in 1 .. Len(cp), NEW b \in 1 .. Len(cp), IsLast(cp, t, l, u, a), IsLast(cp, t, l, u, b)
      PROVE  ~ (a < b)
  <2>1. SUFFICES ASSUME a < b PROVE FALSE
    OBVIOUS
  <2>2. a >= l
    BY <1>2, <1>3 DEF IsLast
  <2>3. b \in l .. u /\ cp[b].from <= t
    BY <1>2, <1>3, <2>1, <2>2 DEF IsLast
  <2>4. cp[b].from > t
    BY <1>3, <2>1, <2>3 DEF IsLast
  <2> QED BY <1>1, <2>3, <2>4
<1> QED BY <1>2, <1>3

\* One turn of the loop, from l and u.
Turn(f, cp, t, l, u) ==
  LET c == u - (u - l) \div 2 IN
  IF u <= l THEN cp[l].votes
  ELSE IF cp[c].from = t THEN cp[c].votes
  ELSE IF cp[c].from < t THEN f[<<c, u>>]
  ELSE f[<<l, c - 1>>]

LEMMA TurnKeepsLast ==
    ASSUME NEW cp \in Seq(Checkpoint), Ordered(cp), NEW t \in Int, NEW l \in 1 .. Len(cp), NEW u \in 1 .. Len(cp)
    PROVE  LET c == u - (u - l) \div 2
           IN  /\ u <= l => IsLast(cp, t, l, u, l)
               /\ l < u => /\ c \in 1 .. Len(cp) /\ c - 1 \in 1 .. Len(cp) /\ l < c /\ c <= u /\ c \in Nat
                           /\ cp[c].from = t => IsLast(cp, t, l, u, c)
                           /\ \A m \in 1 .. Len(cp) : /\ cp[c].from < t /\ IsLast(cp, t, c, u, m) => IsLast(cp, t, l, u, m)
                                                      /\ cp[c].from > t /\ IsLast(cp, t, l, c - 1, m) => IsLast(cp, t, l, u, m)
<1> DEFINE c == u - (u - l) \div 2
<1>1. Len(cp) \in Nat /\ DOMAIN cp = 1 .. Len(cp) /\ \A i \in 1 .. Len(cp) : cp[i].from \in Nat
  BY CheckpointAt
<1>2. u <= l => IsLast(cp, t, l, u, l)
  <2>1. u <= l => \A i \in l .. u : ~ (i > l)
    BY <1>1
  <2> QED BY <2>1 DEF IsLast
<1>3. ASSUME l < u
      PROVE  /\ c \in 1 .. Len(cp) /\ c - 1 \in 1 .. Len(cp) /\ l < c /\ c <= u /\ c \in Nat
             /\ cp[c].from = t => IsLast(cp, t, l, u, c)
             /\ \A m \in 1 .. Len(cp) : /\ cp[c].from < t /\ IsLast(cp, t, c, u, m) => IsLast(cp, t, l, u, m)
                                        /\ cp[c].from > t /\ IsLast(cp, t, l, c - 1, m) => IsLast(cp, t, l, u, m)
  <2>1. c \in 1 .. Len(cp) /\ c - 1 \in 1 .. Len(cp) /\ l < c /\ c <= u /\ c \in Nat
    BY <1>1, <1>3
  <2> HIDE DEF c
  <2>2. ASSUME NEW i \in l .. u PROVE (i > c => cp[i].from > cp[c].from) /\ (i < c => cp[i].from < cp[c].from)
    <3>1. i \in DOMAIN cp /\ c \in DOMAIN cp /\ i \in Int /\ c \in Int
      BY <1>1, <2>1
    <3>2. (i > c => cp[c].from < cp[i].from) /\ (i < c => cp[i].from < cp[c].from)
      BY <3>1 DEF Ordered
    <3>3. cp[i].from \in Nat /\ cp[c].from \in Nat
      BY <1>1, <3>1
    <3> QED BY <3>2, <3>3
  <2>3. cp[c].from \in Nat /\ c \in l .. u
    BY <1>1, <2>1
  <2>4. ASSUME cp[c].from = t PROVE IsLast(cp, t, l, u, c)
    BY <1>1, <2>2, <2>3, <2>4 DEF IsLast
  <2>5. ASSUME NEW m \in 1 .. Len(cp), cp[c].from < t, IsLast(cp, t, c, u, m) PROVE IsLast(cp, t, l, u, m)
    <3>1. m >= c /\ m \in l .. u /\ cp[m].from <= t
      BY <1>1, <2>1, <2>3, <2>5 DEF IsLast
    <3>2. \A i \in l .. u : i > m => i \in c .. u
      BY <2>1, <3>1
    <3> QED BY <2>5, <3>1, <3>2 DEF IsLast
  <2>6. ASSUME NEW m \in 1 .. Len(cp), cp[c].from > t, IsLast(cp, t, l, c - 1, m) PROVE IsLast(cp, t, l, u, m)
    <3>1. m = l \/ (m \in l .. u /\ cp[m].from <= t)
      BY <2>1, <2>6 DEF IsLast
    <3>2. ASSUME NEW i \in l .. u, i > m PROVE cp[i].from > t
      <4>1. CASE i \in l .. c - 1
        BY <2>6, <3>2, <4>1 DEF IsLast
      <4>2. CASE i = c
        BY <2>6, <4>2
      <4>3. CASE i > c
        <5>1. cp[i].from > cp[c].from /\ cp[i].from \in Nat
          BY <1>1, <2>2, <4>3
        <5> QED BY <2>3, <2>6, <5>1
      <4> QED BY <2>1, <4>1, <4>2, <4>3
    <3> QED BY <3>1, <3>2 DEF IsLast
  <2> QED BY <2>1, <2>4, <2>5, <2>6
<1> QED BY <1>2, <1>3

Ranges(cp) == (1 .. Len(cp)) \X (1 .. Len(cp))
Solves(f, cp, t) == f = [range \in Ranges(cp) |-> Turn(f, cp, t, range[1], range[2])]

\* The loop has an outcome: the votes of the last checkpoint not after t.
LEMMA SolutionExists ==
    ASSUME NEW cp \in Seq(Checkpoint), Ordered(cp), NEW t \in Int
    PROVE  \E f : Solves(f, cp, t)
<1> DEFINE last(l, u) == CHOOSE m \in 1 .. Len(cp) : IsLast(cp, t, l, u, m)
           f == [range \in Ranges(cp) |-> cp[last(range[1], range[2])].votes]
<1>1. ASSUME NEW l \in 1 .. Len(cp), NEW u \in 1 .. Len(cp)
      PROVE  /\ last(l, u) \in 1 .. Len(cp) /\ IsLast(cp, t, l, u, last(l, u))
             /\ \A m \in 1 .. Len(cp) : IsLast(cp, t, l, u, m) => m = last(l, u)
             /\ f[<<l, u>>] = cp[last(l, u)].votes
  <2>1. last(l, u) \in 1 .. Len(cp) /\ IsLast(cp, t, l, u, last(l, u))
    BY LastExists
  <2>2. f[<<l, u>>] = cp[last(l, u)].votes
    BY DEF Ranges
  <2> HIDE DEF last, f
  <2> QED BY <2>1, <2>2, LastUnique
<1> HIDE DEF last
<1>2. ASSUME NEW l \in 1 .. Len(cp), NEW u \in 1 .. Len(cp)
      PROVE  cp[last(l, u)].votes = Turn(f, cp, t, l, u)
  <2> DEFINE c == u - (u - l) \div 2
  <2>1. CASE u <= l
    <3>1. last(l, u) = l
      BY <1>1, <2>1, TurnKeepsLast
    <3> QED BY <2>1, <3>1 DEF Turn
  <2>2. CASE l < u
    <3>1. /\ c \in 1 .. Len(cp) /\ c - 1 \in 1 .. Len(cp)
          /\ cp[c].from = t => IsLast(cp, t, l, u, c)
          /\ \A m \in 1 .. Len(cp) : /\ cp[c].from < t /\ IsLast(cp, t, c, u, m) => IsLast(cp, t, l, u, m)
                                     /\ cp[c].from > t /\ IsLast(cp, t, l, c - 1, m) => IsLast(cp, t, l, u, m)
      BY <2>2, TurnKeepsLast
    <3>2. ~ (u <= l) /\ Turn(f, cp, t, l, u) = IF cp[c].from = t THEN cp[c].votes
                                               ELSE IF cp[c].from < t THEN f[<<c, u>>] ELSE f[<<l, c - 1>>]
      BY <2>2 DEF Turn
    <3> HIDE DEF c, f
    <3>3. CASE cp[c].from = t
      BY <1>1, <3>1, <3>2, <3>3
    <3>4. CASE cp[c].from < t
      <4>1. IsLast(cp, t, c, u, last(c, u)) /\ last(c, u) \in 1 .. Len(cp) /\ f[<<c, u>>] = cp[last(c, u)].votes
        BY <1>1, <3>1
      <4>2. last(c, u) = last(l, u)
        BY <1>1, <3>1, <3>4, <4>1
      <4>3. cp[c].from # t
        BY <3>1, <3>4, CheckpointAt
      <4> QED BY <3>2, <3>4, <4>1, <4>2, <4>3
    <3>5. CASE cp[c].from > t
      <4>1. IsLast(cp, t, l, c - 1, last(l, c - 1)) /\ last(l, c - 1) \in 1 .. Len(cp)
            /\ f[<<l, c - 1>>] = cp[last(l, c - 1)].votes
        BY <1>1, <3>1
      <4>2. last(l, c - 1) = last(l, u)
        BY <1>1, <3>1, <3>5, <4>1, ZenonT(60)
      <4>3. cp[c].from # t /\ ~ (cp[c].from < t)
        BY <3>1, <3>5, CheckpointAt
      <4> QED BY <3>2, <4>1, <4>2, <4>3
    <3> QED BY <3>1, <3>3, <3>4, <3>5, CheckpointAt
  <2> QED BY <2>1, <2>2
<1>3. f = [range \in Ranges(cp) |-> Turn(f, cp, t, range[1], range[2])]
  <2>1. ASSUME NEW range \in Ranges(cp) PROVE f[range] = Turn(f, cp, t, range[1], range[2])
    <3>1. range[1] \in 1 .. Len(cp) /\ range[2] \in 1 .. Len(cp)
      BY DEF Ranges
    <3>2. f[range] = cp[last(range[1], range[2])].votes
      OBVIOUS
    <3> QED BY <1>2, <3>1, <3>2
  <2>2. f = [range \in Ranges(cp) |-> f[range]]
    OBVIOUS
  <2> HIDE DEF f
  <2> QED BY <2>1, <2>2
<1> HIDE DEF f
<1> QED BY <1>3 DEF Solves

LEMMA SearchSolves ==
    ASSUME NEW cp \in Seq(Checkpoint), Ordered(cp), NEW t \in Int
    PROVE  Solves(Search(cp, t), cp, t)
<1>1. Search(cp, t) = CHOOSE f : Solves(f, cp, t)
  BY DEF Search, Solves, Turn, Ranges
<1> QED BY <1>1, SolutionExists


\* Whatever range the loop starts from, it ends at the last checkpoint not after t: what is
\* left to search shrinks with every turn.
LEMMA SearchFinds ==
    ASSUME NEW cp \in Seq(Checkpoint), Ordered(cp), NEW t \in Int
    PROVE  \A l, u, m \in 1 .. Len(cp) : IsLast(cp, t, l, u, m) => Search(cp, t)[<<l, u>>] = cp[m].votes
<1> DEFINE f == Search(cp, t)
           Wrong(l, u, m) == IsLast(cp, t, l, u, m) /\ f[<<l, u>>] # cp[m].votes
           Widths == {k \in Nat : \E l, u, m \in 1 .. Len(cp) : (IF u <= l THEN 0 ELSE u - l) = k /\ Wrong(l, u, m)}
<1>1. Len(cp) \in Nat
  OBVIOUS
<1>2. ASSUME NEW l \in 1 .. Len(cp), NEW u \in 1 .. Len(cp) PROVE f[<<l, u>>] = Turn(f, cp, t, l, u)
  <2>1. f = [range \in Ranges(cp) |-> Turn(f, cp, t, range[1], range[2])]
    BY SearchSolves DEF Solves
  <2>2. <<l, u>> \in Ranges(cp) /\ <<l, u>>[1] = l /\ <<l, u>>[2] = u
    BY DEF Ranges
  <2> HIDE DEF f
  <2> DEFINE h == [range \in Ranges(cp) |-> Turn(f, cp, t, range[1], range[2])]
  <2>3. h[<<l, u>>] = Turn(f, cp, t, l, u)
    BY <2>2
  <2>4. f = h
    BY <2>1
  <2> HIDE DEF h
  <2> QED BY <2>3, <2>4
<1> HIDE DEF f
<1>3. SUFFICES ASSUME Widths # {} PROVE FALSE
  <2>1. SUFFICES ASSUME NEW l \in 1 .. Len(cp), NEW u \in 1 .. Len(cp), NEW m \in 1 .. Len(cp), Wrong(l, u, m)
                 PROVE  FALSE
    BY DEF f
  <2>2. (IF u <= l THEN 0 ELSE u - l) \in Widths
    <3>1. (IF u <= l THEN 0 ELSE u - l) \in Nat
      BY <1>1
    <3> QED BY <2>1, <3>1, ZenonT(60)
  <2> QED BY <1>3, <2>2
<1>4. PICK k \in Widths : \A j \in Widths : k <= j
  <2>1. Widths \in SUBSET Nat
    OBVIOUS
  <2> HIDE DEF Widths
  <2> QED BY <1>3, <2>1, LeastNatural
<1>5. PICK l \in 1 .. Len(cp), u \in 1 .. Len(cp), m \in 1 .. Len(cp) : (IF u <= l THEN 0 ELSE u - l) = k /\ Wrong(l, u, m)
  BY <1>4
<1>6. ASSUME NEW a \in 1 .. Len(cp), NEW b \in 1 .. Len(cp), NEW i \in 1 .. Len(cp), b - a < u - l, l < u, IsLast(cp, t, a, b, i)
      PROVE  f[<<a, b>>] = cp[i].votes
  <2>1. SUFFICES ASSUME Wrong(a, b, i) PROVE FALSE
    BY <1>6
  <2> DEFINE w == IF b <= a THEN 0 ELSE b - a
  <2>2. w \in Nat /\ w < u - l
    BY <1>1, <1>6
  <2>3. w \in Widths
    BY <2>1, <2>2, ZenonT(60)
  <2>4. k <= w
    BY <1>4, <2>3
  <2>5. k = u - l
    BY <1>1, <1>5, <1>6
  <2> HIDE DEF w, Widths
  <2> QED BY <1>1, <2>2, <2>4, <2>5
<1> DEFINE c == u - (u - l) \div 2
<1>7. f[<<l, u>>] = Turn(f, cp, t, l, u) /\ IsLast(cp, t, l, u, m) /\ f[<<l, u>>] # cp[m].votes
  BY <1>2, <1>5
<1>8. CASE u <= l
  <2>1. IsLast(cp, t, l, u, l)
    BY <1>8, TurnKeepsLast
  <2>2. m = l
    BY <1>7, <2>1, LastUnique
  <2> QED BY <1>7, <1>8, <2>2 DEF Turn
<1>9. CASE l < u
  <2>1. /\ c \in 1 .. Len(cp) /\ c - 1 \in 1 .. Len(cp) /\ l < c /\ c <= u
        /\ cp[c].from = t => IsLast(cp, t, l, u, c)
        /\ \A i \in 1 .. Len(cp) : /\ cp[c].from < t /\ IsLast(cp, t, c, u, i) => IsLast(cp, t, l, u, i)
                                   /\ cp[c].from > t /\ IsLast(cp, t, l, c - 1, i) => IsLast(cp, t, l, u, i)
    BY <1>9, TurnKeepsLast
  <2>2. Turn(f, cp, t, l, u) = IF cp[c].from = t THEN cp[c].votes
                               ELSE IF cp[c].from < t THEN f[<<c, u>>] ELSE f[<<l, c - 1>>]
    BY <1>1, <1>9 DEF Turn
  <2> HIDE DEF c
  <2>3. CASE cp[c].from = t
    <3>1. m = c
      BY <1>7, <2>1, <2>3, LastUnique
    <3> QED BY <1>7, <2>2, <2>3, <3>1
  <2>4. CASE cp[c].from < t
    <3>1. PICK i \in 1 .. Len(cp) : IsLast(cp, t, c, u, i)
      BY <2>1, LastExists
    <3>2. i = m
      BY <1>7, <2>1, <2>4, <3>1, LastUnique
    <3>3. u - c < u - l
      BY <1>1, <2>1
    <3>4. f[<<c, u>>] = cp[i].votes
      BY <1>6, <1>9, <2>1, <3>1, <3>3
    <3>5. cp[c].from # t
      BY <2>1, <2>4, CheckpointAt
    <3> QED BY <1>7, <2>2, <2>4, <3>2, <3>4, <3>5
  <2>5. CASE cp[c].from > t
    <3>1. PICK i \in 1 .. Len(cp) : IsLast(cp, t, l, c - 1, i)
      BY <2>1, LastExists
    <3>2. i = m
      BY <1>7, <2>1, <2>5, <3>1, LastUnique
    <3>3. (c - 1) - l < u - l
      BY <1>1, <2>1
    <3>4. f[<<l, c - 1>>] = cp[i].votes
      BY <1>6, <1>9, <2>1, <3>1, <3>3
    <3>5. cp[c].from # t /\ ~ (cp[c].from < t)
      BY <2>1, <2>5, CheckpointAt
    <3> QED BY <1>7, <2>2, <3>2, <3>4, <3>5
  <2> QED BY <2>1, <2>3, <2>4, <2>5, CheckpointAt
<1> QED BY <1>1, <1>8, <1>9

\* The votes at time t by the checkpoints of an account.
VotesAt(cp, t) ==
  IF Len(cp) = 0 THEN 0
  ELSE IF cp[Len(cp)].from <= t THEN cp[Len(cp)].votes
  ELSE IF cp[1].from > t THEN 0
  ELSE Search(cp, t)[<<1, Len(cp)>>]

LEMMA VotesAtIs ==
    ASSUME NEW cp \in Seq(Checkpoint), Ordered(cp), NEW t \in Int
    PROVE  /\ (\A i \in 1 .. Len(cp) : cp[i].from > t) => VotesAt(cp, t) = 0
           /\ \A m \in 1 .. Len(cp) :
                cp[m].from <= t /\ (\A i \in 1 .. Len(cp) : i > m => cp[i].from > t) => VotesAt(cp, t) = cp[m].votes
<1> DEFINE n == Len(cp)
<1>1. n \in Nat /\ DOMAIN cp = 1 .. n /\ \A i \in 1 .. n : cp[i].from \in Nat
  BY CheckpointAt
<1> HIDE DEF n
<1>2. ASSUME \A i \in 1 .. n : cp[i].from > t PROVE VotesAt(cp, t) = 0
  <2>1. CASE n = 0
    BY <2>1 DEF VotesAt, n
  <2>2. CASE n # 0
    <3>1. n \in 1 .. n /\ 1 \in 1 .. n
      BY <1>1, <2>2
    <3>2. cp[n].from > t /\ cp[1].from > t /\ cp[n].from \in Nat
      BY <1>1, <1>2, <3>1
    <3>3. ~ (cp[n].from <= t)
      BY <3>2
    <3> QED BY <2>2, <3>2, <3>3 DEF VotesAt, n
  <2> QED BY <2>1, <2>2
<1>3. ASSUME NEW m \in 1 .. n, cp[m].from <= t, \A i \in 1 .. n : i > m => cp[i].from > t
      PROVE  VotesAt(cp, t) = cp[m].votes
  <2>1. n # 0 /\ n \in 1 .. n /\ 1 \in 1 .. n
    BY <1>1
  <2>2. CASE m = n
    BY <1>3, <2>1, <2>2 DEF VotesAt, n
  <2>3. CASE m # n
    <3>1. n > m
      BY <1>1, <2>3
    <3>2. cp[n].from > t /\ cp[n].from \in Nat /\ cp[1].from \in Nat /\ cp[m].from \in Nat
      BY <1>1, <1>3, <2>1, <3>1
    <3>3. ~ (cp[n].from <= t)
      BY <3>2
    <3>4. cp[1].from <= cp[m].from
      <4>1. CASE m = 1
        BY <3>2, <4>1
      <4>2. CASE m # 1
        <5>1. 1 < m /\ 1 \in DOMAIN cp /\ m \in DOMAIN cp
          BY <1>1, <2>1, <4>2
        <5> QED BY <3>2, <5>1 DEF Ordered
      <4> QED BY <4>1, <4>2
    <3>5. ~ (cp[1].from > t)
      BY <1>3, <3>2, <3>4
    <3>6. IsLast(cp, t, 1, n, m)
      BY <1>3 DEF IsLast
    <3>7. Search(cp, t)[<<1, n>>] = cp[m].votes
      BY <2>1, <3>6, SearchFinds DEF n
    <3> QED BY <2>1, <3>3, <3>5, <3>7 DEF VotesAt, n
  <2> QED BY <2>2, <2>3
<1> QED BY <1>2, <1>3 DEF n

\* Checkpoints are only written at the end, for the time that has not ended yet.
WrittenAtEnd(cp, new, time) ==
  \/ new = cp
  \/ Len(cp) > 0 /\ cp[Len(cp)].from = time /\ \E v \in Int : new = [cp EXCEPT ![Len(cp)].votes = v]
  \/ (Len(cp) > 0 => cp[Len(cp)].from # time) /\ \E v \in Int : new = Append(cp, [from |-> time, votes |-> v])

LEMMA WrittenInOrder ==
    ASSUME NEW cp \in Seq(Checkpoint), NEW new \in Seq(Checkpoint), NEW time \in Nat, Ordered(cp),
           \A i \in DOMAIN cp : cp[i].from <= time, WrittenAtEnd(cp, new, time)
    PROVE  /\ Ordered(new) /\ \A i \in DOMAIN new : new[i].from <= time
           /\ \A t \in 0 .. time - 1 : VotesAt(new, t) = VotesAt(cp, t)
<1> DEFINE n == Len(cp)
<1>1. n \in Nat /\ DOMAIN cp = 1 .. n /\ \A i \in 1 .. n : cp[i].from \in Nat /\ cp[i] \in Checkpoint
  BY CheckpointAt
<1>2. DOMAIN new = 1 .. Len(new) /\ Len(new) \in Nat /\ \A i \in 1 .. Len(new) : new[i].from \in Nat
  BY CheckpointAt
<1>3. CASE new = cp
  BY <1>3
<1>4. ASSUME Len(new) \in {n, n + 1},
             \A i \in 1 .. Len(new) : i <= n => new[i].from = cp[i].from,
             \A i \in 1 .. Len(new) : i <= n /\ new[i].votes # cp[i].votes => new[i].from = time,
             Len(new) = n + 1 => new[n + 1].from = time /\ \A i \in 1 .. n : cp[i].from < time
      PROVE  /\ Ordered(new) /\ \A i \in DOMAIN new : new[i].from <= time
             /\ \A t \in 0 .. time - 1 : VotesAt(new, t) = VotesAt(cp, t)
  <2>1. ASSUME NEW i \in 1 .. Len(new) PROVE i \in 1 .. n \/ (i = n + 1 /\ Len(new) = n + 1)
    <3>1. n \in Nat /\ Len(new) \in {n, n + 1}
      BY <1>1, <1>4
    <3> HIDE DEF n
    <3>2. CASE Len(new) = n
      BY <3>1, <3>2
    <3>3. CASE Len(new) = n + 1
      BY <3>1, <3>3
    <3> QED BY <3>1, <3>2, <3>3
  <2>2. ASSUME NEW i \in 1 .. Len(new), NEW j \in 1 .. Len(new), i < j PROVE new[i].from < new[j].from
    <3>1. CASE j \in 1 .. n
      <4>1. i \in 1 .. n /\ i <= n /\ j <= n
        BY <1>1, <1>2, <2>2, <3>1
      <4>2. new[i].from = cp[i].from /\ new[j].from = cp[j].from
        BY <1>4, <4>1
      <4> QED BY <1>1, <2>2, <3>1, <4>1, <4>2 DEF Ordered
    <3>2. CASE j = n + 1 /\ Len(new) = n + 1
      <4>1. i \in 1 .. n /\ i <= n
        BY <1>1, <1>2, <2>2, <3>2
      <4>2. new[i].from = cp[i].from /\ cp[i].from < time /\ new[j].from = time
        BY <1>4, <3>2, <4>1
      <4> QED BY <4>2
    <3> QED BY <2>1, <3>1, <3>2
  <2>3. ASSUME NEW i \in 1 .. Len(new) PROVE new[i].from <= time
    <3>1. CASE i \in 1 .. n
      <4>1. i <= n
        BY <1>1, <3>1
      <4> QED BY <1>1, <1>4, <3>1, <4>1
    <3>2. CASE i = n + 1 /\ Len(new) = n + 1
      BY <1>4, <3>2
    <3> QED BY <2>1, <3>1, <3>2
  <2>4. Ordered(new) /\ \A i \in DOMAIN new : new[i].from <= time
    BY <1>2, <2>2, <2>3 DEF Ordered
  <2>5. ASSUME NEW t \in 0 .. time - 1 PROVE VotesAt(new, t) = VotesAt(cp, t)
    <3>1. t \in Int /\ t < time
      OBVIOUS
    <3>2. CASE \A i \in 1 .. n : cp[i].from > t
      <4>1. ASSUME NEW i \in 1 .. Len(new) PROVE new[i].from > t
        <5>1. CASE i \in 1 .. n
          <6>1. i <= n
            BY <1>1, <5>1
          <6> QED BY <1>4, <3>2, <5>1, <6>1
        <5>2. CASE i = n + 1 /\ Len(new) = n + 1
          BY <1>4, <3>1, <5>2
        <5> QED BY <2>1, <5>1, <5>2
      <4>2. VotesAt(new, t) = 0
        BY <2>4, <3>1, <4>1, VotesAtIs
      <4>3. VotesAt(cp, t) = 0
        BY <3>1, <3>2, VotesAtIs
      <4> QED BY <4>2, <4>3
    <3>3. CASE \E i \in 1 .. n : ~ (cp[i].from > t)
      <4>1. PICK i \in 1 .. n : ~ (cp[i].from > t)
        BY <3>3
      <4>2. 1 \in 1 .. n /\ n \in 1 .. n
        BY <1>1
      <4>3. PICK m \in 1 .. n : IsLast(cp, t, 1, n, m)
        BY <3>1, <4>2, LastExists
      <4>4. \A j \in 1 .. n : j > m => cp[j].from > t
        BY <4>3 DEF IsLast
      <4>5. cp[m].from <= t
        <5>1. CASE i = m
          BY <1>1, <3>1, <4>1, <5>1
        <5>2. CASE i # m
          <6>1. i < m
            BY <1>1, <4>1, <4>4, <5>2
          <6>2. cp[i].from < cp[m].from /\ cp[i].from \in Nat /\ cp[m].from \in Nat
            BY <1>1, <6>1 DEF Ordered
          <6>3. m # 1
            BY <1>1, <6>1
          <6> QED BY <4>3, <6>3 DEF IsLast
        <5> QED BY <5>1, <5>2
      <4>6. VotesAt(cp, t) = cp[m].votes
        BY <3>1, <4>4, <4>5, VotesAtIs
      <4>7. m \in 1 .. Len(new) /\ m <= n
        BY <1>1, <1>4
      <4>8. new[m].from = cp[m].from /\ new[m].from <= t
        BY <1>4, <4>5, <4>7
      <4>9. new[m].from # time
        BY <1>2, <3>1, <4>7, <4>8
      <4>10. new[m].votes = cp[m].votes
        BY <1>4, <4>7, <4>9
      <4>11. ASSUME NEW j \in 1 .. Len(new), j > m PROVE new[j].from > t
        <5>1. CASE j \in 1 .. n
          <6>1. j <= n
            BY <1>1, <5>1
          <6> QED BY <1>4, <4>4, <4>11, <5>1, <6>1
        <5>2. CASE j = n + 1 /\ Len(new) = n + 1
          BY <1>4, <3>1, <5>2
        <5> QED BY <2>1, <5>1, <5>2
      <4>12. VotesAt(new, t) = new[m].votes
        BY <2>4, <3>1, <4>7, <4>8, <4>11, VotesAtIs
      <4> QED BY <4>6, <4>10, <4>12
    <3> QED BY <3>2, <3>3
  <2> QED BY <2>4, <2>5
<1>5. ASSUME n > 0, cp[n].from = time, NEW v \in Int, new = [cp EXCEPT ![n].votes = v]
      PROVE  /\ Len(new) = n
             /\ \A i \in 1 .. n : new[i].from = cp[i].from /\ (new[i].votes # cp[i].votes => new[i].from = time)
  <2>1. Len(new) = n
    BY <1>1, <1>5
  <2>2. new[n] = [cp[n] EXCEPT !.votes = v] /\ cp[n] \in Checkpoint /\ \A i \in 1 .. n : i # n => new[i] = cp[i]
    BY <1>1, <1>5
  <2>3. new[n].from = time
    BY <1>5, <2>2 DEF Checkpoint
  <2> QED BY <1>5, <2>1, <2>2, <2>3
<1>6. CASE n > 0 /\ cp[n].from = time /\ \E v \in Int : new = [cp EXCEPT ![n].votes = v]
  <2>1. /\ Len(new) = n
        /\ \A i \in 1 .. n : new[i].from = cp[i].from /\ (new[i].votes # cp[i].votes => new[i].from = time)
    BY <1>5, <1>6
  <2>2. Len(new) # n + 1
    <3>1. n \in Nat /\ Len(new) = n
      BY <1>1, <2>1
    <3> HIDE DEF n
    <3> QED BY <3>1
  <2> QED BY <1>4, <2>1, <2>2
<1>7. CASE (n > 0 => cp[n].from # time) /\ \E v \in Int : new = Append(cp, [from |-> time, votes |-> v])
  <2>1. PICK v \in Int : new = Append(cp, [from |-> time, votes |-> v])
    BY <1>7
  <2>2. Len(new) = n + 1 /\ new[n + 1] = [from |-> time, votes |-> v] /\ \A i \in 1 .. n : new[i] = cp[i]
    <3>1. [from |-> time, votes |-> v] \in Checkpoint
      BY DEF Checkpoint
    <3> QED BY <2>1, <3>1, AppendProperties
  <2>3. ASSUME NEW i \in 1 .. n PROVE cp[i].from < time
    <3>1. n > 0 /\ n \in 1 .. n /\ cp[n].from # time /\ cp[n].from <= time /\ cp[n].from \in Nat
      BY <1>1, <1>7
    <3>2. ASSUME i # n PROVE cp[i].from < cp[n].from
      <4>1. i < n /\ i \in DOMAIN cp /\ n \in DOMAIN cp
        BY <1>1, <3>1, <3>2
      <4> QED BY <4>1 DEF Ordered
    <3>3. cp[n].from < time /\ cp[i].from \in Nat
      BY <1>1, <3>1
    <3> HIDE DEF n
    <3> QED BY <3>1, <3>2, <3>3
  <2>4. new[n + 1].from = time
    BY <2>2
  <2>5. \A i \in 1 .. Len(new) : i <= n => new[i] = cp[i]
    BY <1>1, <2>2
  <2> QED BY <1>4, <2>2, <2>3, <2>4, <2>5
<1> QED BY <1>3, <1>6, <1>7 DEF WrittenAtEnd


\* Moving votes writes at the end of checkpoints, for the time that has not ended.
LEMMA MovedAtEnd ==
    ASSUME VotesTyped, now \in Nat,
           NEW src \in Accounts \cup {Nobody}, NEW dst \in Accounts \cup {Nobody}, NEW amount \in Nat,
           MoveDelegates(src, dst, amount), NEW d \in Accounts
    PROVE  WrittenAtEnd(checkpoints[d], checkpoints'[d], now)
<1>1. CurrentVotes(d) \in Int
  <2>1. checkpoints[d] \in Seq(Checkpoint)
    BY DEF VotesTyped
  <2>2. checkpoints[d] # << >> => checkpoints[d][Len(checkpoints[d])] \in Checkpoint
    BY <2>1
  <2> QED BY <2>1, <2>2 DEF CurrentVotes, Checkpoint
<1>2. ASSUME NEW v \in Int PROVE WrittenAtEnd(checkpoints[d], Written(d, v), now)
  BY DEF Written, WrittenAtEnd
<1>3. CASE src = dst \/ amount = 0
  BY <1>3 DEF MoveDelegates, WrittenAtEnd
<1>4. CASE ~ (src = dst \/ amount = 0)
  <2>1. checkpoints'[d] = IF d = src THEN Written(d, CurrentVotes(d) - amount)
                          ELSE IF d = dst THEN Written(d, CurrentVotes(d) + amount)
                          ELSE checkpoints[d]
    BY <1>4 DEF MoveDelegates
  <2>2. CurrentVotes(d) - amount \in Int /\ CurrentVotes(d) + amount \in Int
    BY <1>1
  <2>3. WrittenAtEnd(checkpoints[d], checkpoints[d], now)
    BY DEF WrittenAtEnd
  <2> QED BY <1>2, <2>1, <2>2, <2>3
<1> QED BY <1>3, <1>4

\* A step writes no checkpoint but at the end, and none when the clock moves.
LEMMA StepWritesAtEnd ==
    ASSUME IInv, [Next]_vars
    PROVE  \/ now' = now /\ \A d \in Accounts : WrittenAtEnd(checkpoints[d], checkpoints'[d], now)
           \/ now' = now + 1 /\ checkpoints' = checkpoints
<1>0. VotesTyped /\ now \in Nat /\ UNCHANGED vars => UNCHANGED <<now, checkpoints>>
  BY DEF IInv, PoolsTyped, vars, votes
<1>1. now' = now /\ checkpoints' = checkpoints => \A d \in Accounts : WrittenAtEnd(checkpoints[d], checkpoints'[d], now)
  BY DEF WrittenAtEnd
<1>2. CASE \E r \in RewardTokens, alloc \in AllocPoints, token \in Tokens, rate \in Rates, lock \in LockPeriods :
             Add(r, alloc, token, rate, lock)
  BY <1>1, <1>2 DEF Add, votes
<1>3. CASE \E r \in RewardTokens, rate \in Rates : SetRewardAmountPerBlockOrSecond(r, rate)
  BY <1>1, <1>3 DEF SetRewardAmountPerBlockOrSecond, votes
<1>4. CASE \E r \in RewardTokens, amount \in Fundings : Fund(r, amount)
  BY <1>1, <1>4 DEF Fund, votes
<1>5. CASE \E r \in RewardTokens : \E pid \in DOMAIN pools[r] :
             \/ \E alloc \in AllocPoints : Set(r, pid, alloc)
             \/ \E period \in LockPeriods : SetWithdrawalLockingPeriod(r, pid, period)
             \/ UpdatePool(r, pid)
  BY <1>1, <1>5 DEF Set, SetWithdrawalLockingPeriod, UpdatePool, votes
<1>6. ASSUME NEW r \in RewardTokens, NEW pid \in DOMAIN pools[r], NEW u \in Accounts, NEW amount \in Amounts,
             Deposit(u, r, pid, amount) \/ RequestWithdrawal(u, r, pid, amount)
      PROVE  now' = now /\ \A d \in Accounts : WrittenAtEnd(checkpoints[d], checkpoints'[d], now)
  <2>1. amount \in Nat /\ delegates[u] \in Accounts \cup {Nobody} /\ Nobody \in Accounts \cup {Nobody}
    BY InputsAssumption DEF IInv, VotesTyped
  <2>2. now' = now /\ ( \/ checkpoints' = checkpoints
                        \/ MoveDelegates(Nobody, delegates[u], amount)
                        \/ MoveDelegates(delegates[u], Nobody, amount) )
    BY <1>6 DEF Deposit, RequestWithdrawal
  <2> QED BY <1>0, <1>1, <2>1, <2>2, MovedAtEnd DEF IInv, PoolsTyped
<1>7. CASE \E r \in RewardTokens : \E pid \in DOMAIN pools[r] : \E u \in Accounts : Claim(u, r, pid) \/ ExecuteWithdrawal(u, r, pid)
  BY <1>1, <1>7 DEF Claim, ExecuteWithdrawal, votes
<1>8. ASSUME NEW u \in Accounts, NEW to \in Accounts \cup {Nobody}, Delegate(u, to)
      PROVE  now' = now /\ \A d \in Accounts : WrittenAtEnd(checkpoints[d], checkpoints'[d], now)
  <2>1. GetStakeAmount(u) \in Nat /\ delegates[u] \in Accounts \cup {Nobody}
    BY GetStakeType DEF IInv, VotesTyped, Books
  <2>2. now' = now /\ MoveDelegates(delegates[u], to, GetStakeAmount(u))
    BY <1>8 DEF Delegate
  <2> QED BY <1>0, <2>1, <2>2, MovedAtEnd DEF IInv, PoolsTyped
<1>9. CASE Pause \/ Resume
  BY <1>1, <1>9 DEF Pause, Resume, votes
<1>10. CASE Tick
  BY <1>10 DEF Tick, votes
<1>11. CASE UNCHANGED vars
  BY <1>1, <1>11 DEF vars, votes
<1> QED BY <1>2, <1>3, <1>4, <1>5, <1>6, <1>7, <1>8, <1>9, <1>10, <1>11 DEF Next

\* Checkpoints are in the order of their times, none of them to come.
VotesOrdered ==
  \A d \in Accounts : Ordered(checkpoints[d]) /\ \A i \in DOMAIN checkpoints[d] : checkpoints[d][i].from <= now

LEMMA HistoryStep ==
    ASSUME IInv, IInv', VotesOrdered, [Next]_vars, NEW d \in Accounts
    PROVE  /\ Ordered(checkpoints'[d]) /\ \A i \in DOMAIN checkpoints'[d] : checkpoints'[d][i].from <= now'
           /\ \A t \in 0 .. now - 1 : VotesAt(checkpoints'[d], t) = VotesAt(checkpoints[d], t)
           /\ now' > now => VotesAt(checkpoints'[d], now) = CurrentVotes(d)
<1> DEFINE cp == checkpoints[d]
           new == checkpoints'[d]
<1>1. cp \in Seq(Checkpoint) /\ new \in Seq(Checkpoint) /\ now \in Nat /\ now' \in Nat
  BY DEF IInv, VotesTyped, PoolsTyped
<1>2. Ordered(cp) /\ \A i \in DOMAIN cp : cp[i].from <= now
  BY DEF VotesOrdered
<1>3. CASE now' = now /\ WrittenAtEnd(cp, new, now)
  <2> HIDE DEF cp, new
  <2>1. /\ Ordered(new) /\ \A i \in DOMAIN new : new[i].from <= now
        /\ \A t \in 0 .. now - 1 : VotesAt(new, t) = VotesAt(cp, t)
    BY <1>1, <1>2, <1>3, WrittenInOrder
  <2>2. ~ (now' > now)
    BY <1>1, <1>3
  <2> QED BY <1>3, <2>1, <2>2 DEF new, cp
<1>4. CASE now' = now + 1 /\ new = cp
  <2>1. Ordered(new) /\ \A t \in 0 .. now - 1 : VotesAt(new, t) = VotesAt(cp, t)
    BY <1>2, <1>4
  <2>2. ASSUME NEW i \in DOMAIN cp PROVE cp[i].from <= now + 1
    <3>1. cp[i].from \in Nat /\ cp[i].from <= now
      BY <1>1, <1>2, CheckpointAt
    <3> HIDE DEF cp
    <3> QED BY <1>1, <3>1
  <2>3. VotesAt(new, now) = CurrentVotes(d)
    <3>1. CASE Len(cp) = 0
      <4>1. cp = << >>
        BY <1>1, <3>1
      <4> QED BY <1>4, <3>1, <4>1 DEF VotesAt, CurrentVotes
    <3>2. CASE Len(cp) # 0
      <4>1. cp # << >> /\ Len(cp) \in DOMAIN cp
        BY <1>1, <3>2, CheckpointAt
      <4>2. cp[Len(cp)].from <= now
        BY <1>2, <4>1
      <4> QED BY <1>4, <3>2, <4>1, <4>2 DEF VotesAt, CurrentVotes
    <3> QED BY <3>1, <3>2
  <2> QED BY <1>4, <2>1, <2>2, <2>3
<1> QED BY <1>3, <1>4, StepWritesAtEnd

\* What the votes were when a past time ended is what getPriorVotes says of it, and
\* will say for ever: it is what the vault says that decides a vote on a proposal of
\* that time (ECLVaults.sol:805).
THEOREM SpecVotesAreHistory == Spec => VotesAreHistory
<1>1. Init => VotesOrdered
  BY DEF Init, VotesOrdered, ForEach, Ordered
<1>2. IInv /\ IInv' /\ VotesOrdered /\ [Next]_vars => VotesOrdered'
  BY HistoryStep DEF VotesOrdered
<1>3. IInv /\ IInv' /\ VotesOrdered /\ [Next]_vars =>
        \A d \in Accounts :
          /\ \A t \in 0 .. now - 1 : PriorVotes(d, t)' = PriorVotes(d, t)
          /\ now' > now => \A t \in {now} : PriorVotes(d, t)' = CurrentVotes(d)
  <2>1. ASSUME NEW d \in Accounts, NEW t
        PROVE  PriorVotes(d, t) = VotesAt(checkpoints[d], t) /\ PriorVotes(d, t)' = VotesAt(checkpoints'[d], t)
    BY DEF PriorVotes, VotesAt
  <2> QED BY <2>1, HistoryStep
<1>4. IInv /\ IInv' /\ VotesOrdered /\ [Next]_vars =>
        [\A d \in Accounts :
          /\ \A t \in 0 .. now - 1 : PriorVotes(d, t)' = PriorVotes(d, t)
          /\ now' > now => \A t \in {now} : PriorVotes(d, t)' = CurrentVotes(d)]_vars
  BY <1>3
<1> QED BY <1>1, <1>2, <1>4, SpecIInv, PTL DEF Spec, VotesAreHistory
=============================================================================
