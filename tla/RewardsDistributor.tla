-------------------------- MODULE RewardsDistributor --------------------------
(***************************************************************************)
(* RewardsDistributor and the comptroller hooks that drive it.  A market   *)
(* rewards those who supply to it and those who borrow from it: each side  *)
(* of each market has an index, what one unit of holding has earned since  *)
(* the beginning, and every account remembers the index at which it was    *)
(* last settled.                                                           *)
(*                                                                         *)
(* Holdings are vTokens on the supply side and debts in units of the       *)
(* borrow index on the borrow side, so that interest does not change them. *)
(* What the distributor reads of the borrow side is truncated: an          *)
(* account's balance and the market's total are each divided by the borrow *)
(* index, and the total has truncated its interest apart from the          *)
(* balances (VToken.tla), so that the shares need not add up to it.        *)
(* The distributor has been added to the pool before it is configured, and *)
(* its markets are listed.                                                 *)
(***************************************************************************)
EXTENDS Integers, Sums, ExponentialNoError

CONSTANTS
  AccountCount,       \* accounts are 1 .. AccountCount
  MarketCount,        \* markets are 1 .. MarketCount
  DoubleScale,        \* 1e36
  FirstHolding,       \* side -> account -> what was held before any reward
  Factors,            \* interest for the slots since the last accrual, in 1 / EXP_SCALE
  Speeds, Amounts, Fundings,                   \* inputs
  MaxSlot, MaxHolding, MaxOperations           \* bounds

Accounts == 1 .. AccountCount
Markets == 1 .. MarketCount
Sides == Markets \X {"supply", "borrow"}
SupplyOf(m) == <<m, "supply">>
BorrowOf(m) == <<m, "borrow">>
InitialIndex == DoubleScale

SumOverSides(f) == Total([m \in Markets |-> f[SupplyOf(m)] + f[BorrowOf(m)]], MarketCount)

ASSUME AccountsAssumption ==
  {AccountCount, MarketCount} \subseteq Nat /\ FirstHolding \in [Sides -> [Accounts -> Nat]]
ASSUME InputsAssumption == (Factors \cup Speeds \cup Amounts \cup Fundings) \subseteq Nat
ASSUME BoundsAssumption == DoubleScale \in Nat \ {0} /\ MaxSlot \in Nat /\ MaxHolding \in Nat

VARIABLES
  slot,
  rewardState,       \* side -> index, block, lastRewardingBlock and speed
  userIndex,         \* side -> account -> index at which it was settled, 0 if never
  accrued, balance,
  contributors,      \* account -> speed and lastBlock
  tokens,            \* market -> account -> vTokens
  loans,             \* market -> account -> principal and interestIndex (accountBorrows)
  market,            \* market -> borrowIndex, totalBorrows and accrualBlockNumber
  paid, healed,      \* history: what was transferred, who was healed without settling,
  least, most,       \* bounds on everyone's part of the speeds, in 1 / DoubleScale,
  dust, surplus,     \* what truncation may have kept of it, and given beyond it
  emitted,           \* all the speeds together
  operations                    \* bounded

distribution == <<rewardState, userIndex, accrued, dust, surplus>>
ledger == <<tokens, loans, market>>
funds == <<balance, paid>>
parts == <<least, most, emitted>>
vars == <<slot, distribution, funds, contributors, ledger, parts, healed, operations>>

-----------------------------------------------------------------------------
(* What the markets hold and report *)

\* _borrowBalanceStored
Owed(m, u) ==
  IF loans[m][u].principal = 0 THEN 0
  ELSE (loans[m][u].principal * market[m].borrowIndex) \div loans[m][u].interestIndex

\* A debt in units of the borrow index
Units(m, u) == IF loans[m][u].principal = 0 THEN 0 ELSE DivExp(loans[m][u].principal, loans[m][u].interestIndex)

holding == [s \in Sides |-> [u \in Accounts |-> IF s[2] = "supply" THEN tokens[s[1]][u] ELSE Units(s[1], u)]]

\* The distributor reads the balance and the total, and divides each by the borrow index.
Share(s, u) == IF s[2] = "supply" THEN tokens[s[1]][u] ELSE DivExp(Owed(s[1], u), market[s[1]].borrowIndex)

-----------------------------------------------------------------------------
(* The indices *)

TotalHeld(s) == Total(holding[s], AccountCount)

Reported(s) ==
  IF s[2] = "supply" THEN TotalHeld(s) ELSE DivExp(market[s[1]].totalBorrows, market[s[1]].borrowIndex)

NoStop(s) == slot

\* Rewarding stops at the last rewarding block, if one is set.
StopSlot(s) ==
  LET last == rewardState[s].lastRewardingBlock IN
  IF last > 0 /\ slot > last THEN last ELSE slot

\* What the side's holders have earned together since the index was updated.
Unspent(s) == (StopSlot(s) - rewardState[s].block) * rewardState[s].speed * DoubleScale

Ratio(s) == IF Reported(s) = 0 THEN 0 ELSE Unspent(s) \div Reported(s)
IndexUpdated(s) == [rewardState[s] EXCEPT !.index = @ + Ratio(s), !.block = StopSlot(s)]

\* What the update may keep of u's part: the rounding of the ratio on his holding, and the
\* ratio on what is reported but held by nobody.
RatioUp(s) == (Unspent(s) + Reported(s) - 1) \div Reported(s)
HeldByNobody(s) == IF Reported(s) > TotalHeld(s) THEN Reported(s) - TotalHeld(s) ELSE 0
UpdateLoss(s, u) ==
  IF holding[s][u] = 0 THEN 0
  ELSE IF Reported(s) = 0 THEN Unspent(s)
  ELSE holding[s][u] * (RatioUp(s) - Ratio(s)) + RatioUp(s) * HeldByNobody(s)

\* What it gives beyond the speed: the ratio on what is held but not reported.
NotReported(s) == IF TotalHeld(s) > Reported(s) THEN TotalHeld(s) - Reported(s) ELSE 0
UpdateGain(s) == Ratio(s) * NotReported(s)

\* sub_ reverts otherwise.
CanUpdate(s) == StopSlot(s) >= rewardState[s].block

\* Who held before the index existed is rewarded from its beginning.
SettledAt(s, u) ==
  IF userIndex[s][u] = 0 /\ IndexUpdated(s).index >= InitialIndex THEN InitialIndex ELSE userIndex[s][u]

IndexGain(s, u) == IndexUpdated(s).index - SettledAt(s, u)
EarnedUnits(s, u) == Share(s, u) * IndexGain(s, u)
Delta(s, u) == EarnedUnits(s, u) \div DoubleScale

\* What reading the balance may keep is what one unit has earned.
ReadingLoss(s, u) == IF Share(s, u) = holding[s][u] THEN 0 ELSE IndexGain(s, u)

\* Update the sides and settle the accounts of the pairs with theirs.
Updated(sides) == [s \in Sides |-> IF s \in sides THEN IndexUpdated(s) ELSE rewardState[s]]
Accrued(pairs) == [u \in Accounts |->
  accrued[u] + SumOverSides([s \in Sides |-> IF <<s, u>> \in pairs THEN Delta(s, u) ELSE 0])]
Settle(sides, pairs) ==
  /\ \A s \in sides : CanUpdate(s)
  /\ userIndex' = [s \in Sides |-> [u \in Accounts |->
       IF <<s, u>> \in pairs THEN IndexUpdated(s).index ELSE userIndex[s][u]]]
  /\ dust' = [u \in Accounts |-> dust[u] + SumOverSides([s \in Sides |->
       (IF s \in sides THEN UpdateLoss(s, u) ELSE 0)
         + (IF <<s, u>> \in pairs THEN ReadingLoss(s, u) + (EarnedUnits(s, u) % DoubleScale) ELSE 0)])]
  /\ surplus' = surplus + SumOverSides([s \in Sides |-> IF s \in sides THEN UpdateGain(s) ELSE 0])

\* What a hook does before the holdings of these accounts change.
Distribute(s, accounts) ==
  /\ Settle({s}, {s} \X accounts)
  /\ rewardState' = Updated({s})
  /\ accrued' = Accrued({s} \X accounts)

-----------------------------------------------------------------------------
(* Calls on the markets, through the hooks *)

Operation == operations < MaxOperations /\ operations' = operations + 1
Elsewhere == UNCHANGED <<slot, funds, contributors, parts>>

Room(s, n) == TotalHeld(s) + n <= MaxHolding

Fresh(m) == market[m].accrualBlockNumber = slot

\* Anyone may call it, and whatever changes a debt has called it in the same slot.
AccrueInterest(m, factor) ==
  /\ ~ Fresh(m)
  /\ market' = [market EXCEPT ![m] = [
       borrowIndex |-> MulScalarTruncateAdd(factor, @.borrowIndex, @.borrowIndex),
       totalBorrows |-> MulScalarTruncate(factor, @.totalBorrows) + @.totalBorrows,
       accrualBlockNumber |-> slot]]
  /\ UNCHANGED <<slot, distribution, funds, contributors, tokens, loans, parts, healed, operations>>

Supplied(m, u, n) == tokens' = [tokens EXCEPT ![m][u] = n] /\ UNCHANGED <<loans, market>>

Mint(m, minter, n) ==
  LET s == SupplyOf(m) IN
  /\ Operation /\ Room(s, n)
  /\ Distribute(s, {minter})
  /\ Supplied(m, minter, tokens[m][minter] + n)
  /\ Elsewhere /\ UNCHANGED healed

Redeem(m, redeemer, n) ==
  LET s == SupplyOf(m) IN
  /\ Operation /\ n <= tokens[m][redeemer]
  /\ Distribute(s, {redeemer})
  /\ Supplied(m, redeemer, tokens[m][redeemer] - n)
  /\ Elsewhere /\ UNCHANGED healed

SettledSource(src, dst) == {src}
SettledParties(src, dst) == {src, dst}

\* A transfer, or a seizure of which the market burns its share.
Move(m, src, dst, n, burnt) ==
  LET s == SupplyOf(m) IN
  /\ Operation /\ src # dst /\ n <= tokens[m][src] /\ burnt <= n
  /\ Distribute(s, SettledParties(src, dst))
  /\ tokens' = [tokens EXCEPT ![m][src] = @ - n, ![m][dst] = @ + n - burnt]
  /\ UNCHANGED <<loans, market>>
  /\ Elsewhere /\ UNCHANGED healed

Transfer(m, src, dst, n) == Move(m, src, dst, n, 0)
Seize(m, borrower, liquidator, n, burnt) == Move(m, borrower, liquidator, n, burnt)

Owing(m, u, owed, total) ==
  /\ loans' = [loans EXCEPT ![m][u] = [principal |-> owed, interestIndex |-> market[m].borrowIndex]]
  /\ market' = [market EXCEPT ![m].totalBorrows = total]
  /\ UNCHANGED tokens

Borrow(m, borrower, n) ==
  LET s == BorrowOf(m) IN
  /\ Operation /\ Fresh(m) /\ Room(s, n)
  /\ Distribute(s, {borrower})
  /\ Owing(m, borrower, Owed(m, borrower) + n, market[m].totalBorrows + n)
  /\ Elsewhere /\ UNCHANGED healed

\* Also the repayment of a liquidation and, in full, a healing with a payment.
RepayBorrow(m, borrower, n) ==
  LET s == BorrowOf(m) IN
  /\ Operation /\ Fresh(m) /\ n <= Owed(m, borrower) /\ n <= market[m].totalBorrows
  /\ Distribute(s, {borrower})
  /\ Owing(m, borrower, Owed(m, borrower) - n, market[m].totalBorrows - n)
  /\ Elsewhere /\ UNCHANGED healed

\* healBorrow calls the hook only if something is repaid.
HealBorrow(m, borrower) ==
  /\ Operation /\ Fresh(m) /\ 0 < Owed(m, borrower) /\ Owed(m, borrower) <= market[m].totalBorrows
  /\ Owing(m, borrower, 0, market[m].totalBorrows - Owed(m, borrower))
  /\ healed' = healed \cup {borrower}
  /\ Elsewhere /\ UNCHANGED distribution

-----------------------------------------------------------------------------
(* Claims, settings and contributors *)

Pays(u, amount) ==
  /\ balance' = balance - amount
  /\ paid' = [paid EXCEPT ![u] = @ + amount]

\* What the contract cannot pay in full it does not pay at all.
ClaimRewardToken(u, ms) ==
  LET sides == {s \in Sides : s[1] \in ms}
      settled == Accrued(sides \X {u})
  IN
  /\ Operation
  /\ Settle(sides, sides \X {u})
  /\ rewardState' = Updated(sides)
  /\ IF settled[u] <= balance
       THEN Pays(u, settled[u]) /\ accrued' = [settled EXCEPT ![u] = 0]
       ELSE UNCHANGED funds /\ accrued' = settled
  /\ UNCHANGED <<slot, contributors, ledger, parts, healed>>

\* The owner's grants are not rewards.
GrantRewardToken(amount) ==
  /\ Operation /\ amount > 0 /\ amount <= balance
  /\ balance' = balance - amount
  /\ UNCHANGED <<slot, distribution, paid, contributors, ledger, parts, healed>>

SetRewardTokenSpeeds(m, supplySpeed, borrowSpeed) ==
  LET speed == [s \in Sides |-> IF s = SupplyOf(m) THEN supplySpeed
                                ELSE IF s = BorrowOf(m) THEN borrowSpeed ELSE rewardState[s].speed]
      changed == {s \in Sides : speed[s] # rewardState[s].speed}
  IN
  /\ Operation
  /\ Settle(changed, {})
  /\ rewardState' = [s \in Sides |-> [Updated(changed)[s] EXCEPT !.speed = speed[s]]]
  /\ Elsewhere /\ UNCHANGED <<accrued, ledger, healed>>

\* setLastRewardingBlocks or setLastRewardingBlockTimestamps.
SetLastRewarding(m, supplyLast, borrowLast) ==
  LET Open(s) == rewardState[s].lastRewardingBlock = 0 \/ rewardState[s].lastRewardingBlock > slot IN
  /\ Operation
  /\ supplyLast > slot /\ borrowLast > slot
  /\ Open(SupplyOf(m)) /\ Open(BorrowOf(m))
  /\ rewardState' = [rewardState EXCEPT ![SupplyOf(m)].lastRewardingBlock = supplyLast,
                                        ![BorrowOf(m)].lastRewardingBlock = borrowLast]
  /\ Elsewhere /\ UNCHANGED <<userIndex, accrued, dust, surplus, ledger, healed>>

ContributorDue(u) == (slot - contributors[u].lastBlock) * contributors[u].speed

UpdateContributorRewards(u) ==
  /\ Operation /\ ContributorDue(u) > 0
  /\ accrued' = [accrued EXCEPT ![u] = @ + ContributorDue(u)]
  /\ contributors' = [contributors EXCEPT ![u].lastBlock = slot]
  /\ UNCHANGED <<slot, rewardState, userIndex, dust, surplus, funds, ledger, parts, healed>>

SetContributorRewardTokenSpeed(u, speed) ==
  /\ Operation
  /\ accrued' = [accrued EXCEPT ![u] = @ + ContributorDue(u)]
  /\ contributors' = [contributors EXCEPT ![u] = [speed |-> speed, lastBlock |-> IF speed = 0 THEN 0 ELSE slot]]
  /\ UNCHANGED <<slot, rewardState, userIndex, dust, surplus, funds, ledger, parts, healed>>

-----------------------------------------------------------------------------
(* Outside *)

Fund(amount) ==
  /\ Operation /\ balance' = balance + amount
  /\ UNCHANGED <<slot, distribution, paid, contributors, ledger, parts, healed>>

\* A side is rewarded in this slot.
Rewarding(s) ==
  TotalHeld(s) # 0 /\ ~ (rewardState[s].lastRewardingBlock > 0 /\ slot >= rewardState[s].lastRewardingBlock)

\* Everyone's part of the speed in this slot is between these two, in 1 / DoubleScale.
LeastPart(s, u) ==
  IF Rewarding(s) THEN (rewardState[s].speed * DoubleScale * holding[s][u]) \div TotalHeld(s) ELSE 0
MostPart(s, u) ==
  IF Rewarding(s) THEN (rewardState[s].speed * DoubleScale * holding[s][u] + TotalHeld(s) - 1) \div TotalHeld(s)
  ELSE 0

\* Each slot a contributor earns his own speed.
Tick ==
  /\ slot < MaxSlot /\ slot' = slot + 1
  /\ least' = [u \in Accounts |-> least[u] + contributors[u].speed * DoubleScale
                                  + SumOverSides([s \in Sides |-> LeastPart(s, u)])]
  /\ most' = [u \in Accounts |-> most[u] + contributors[u].speed * DoubleScale
                                  + SumOverSides([s \in Sides |-> MostPart(s, u)])]
  /\ emitted' = emitted + Total([u \in Accounts |-> contributors[u].speed], AccountCount)
                  + SumOverSides([s \in Sides |-> IF Rewarding(s) THEN rewardState[s].speed ELSE 0])
  /\ UNCHANGED <<distribution, funds, contributors, ledger, healed, operations>>

ForEach(S, x) == [e \in S |-> x]

Init ==
  /\ slot = 1
  /\ rewardState = ForEach(Sides, [index |-> InitialIndex, block |-> 1, lastRewardingBlock |-> 0, speed |-> 0])
  /\ userIndex = ForEach(Sides, ForEach(Accounts, 0))
  /\ accrued = ForEach(Accounts, 0) /\ balance = 0
  /\ contributors = ForEach(Accounts, [speed |-> 0, lastBlock |-> 0])
  /\ tokens = [m \in Markets |-> FirstHolding[SupplyOf(m)]]
  /\ loans = [m \in Markets |-> [u \in Accounts |->
       LET owed == FirstHolding[BorrowOf(m)][u] IN
       [principal |-> owed, interestIndex |-> IF owed = 0 THEN 0 ELSE EXP_SCALE]]]
  /\ market = [m \in Markets |->
       [borrowIndex |-> EXP_SCALE, totalBorrows |-> Total(FirstHolding[BorrowOf(m)], AccountCount),
        accrualBlockNumber |-> 1]]
  /\ paid = ForEach(Accounts, 0) /\ dust = ForEach(Accounts, 0) /\ surplus = 0
  /\ least = ForEach(Accounts, 0) /\ most = ForEach(Accounts, 0) /\ emitted = 0
  /\ healed = {}
  /\ operations = 0

OnMarket(m) ==
  \/ \E u \in Accounts, n \in Amounts :
       \/ Mint(m, u, n) \/ Redeem(m, u, n)
       \/ Borrow(m, u, n)
       \/ \E v \in Accounts : Transfer(m, u, v, n) \/ \E burnt \in Amounts : Seize(m, u, v, n, burnt)
  \/ \E u \in Accounts : HealBorrow(m, u) \/ \E n \in Amounts \cup {Owed(m, u)} : RepayBorrow(m, u, n)
  \/ \E factor \in Factors : AccrueInterest(m, factor)
  \/ \E supplySpeed, borrowSpeed \in Speeds : SetRewardTokenSpeeds(m, supplySpeed, borrowSpeed)
  \/ \E supplyLast, borrowLast \in 1 .. MaxSlot : SetLastRewarding(m, supplyLast, borrowLast)

Next ==
  \/ \E m \in Markets : OnMarket(m)
  \/ \E u \in Accounts :
       \/ \E ms \in SUBSET Markets : ClaimRewardToken(u, ms)
       \/ UpdateContributorRewards(u)
       \/ \E speed \in Speeds : SetContributorRewardTokenSpeed(u, speed)
  \/ \E amount \in Fundings : Fund(amount) \/ GrantRewardToken(amount)
  \/ Tick

Spec == Init /\ [][Next]_vars
-----------------------------------------------------------------------------
(* Properties *)

\* What u has received, has accrued and would be settled with now, in 1 / DoubleScale.
Rewarded(u) ==
  (paid[u] + accrued[u] + ContributorDue(u)) * DoubleScale + SumOverSides([s \in Sides |-> EarnedUnits(s, u)])

\* What updates have given beyond the speeds, and would give now.
Surplus == surplus + SumOverSides([s \in Sides |-> UpdateGain(s)])

\* Whatever is supplied, moved, seized, borrowed and repaid between two settlements,
\* whatever interest accrues, and whoever calls when, before or after the last rewarding
\* block, no hook reverts and everybody's rewards are his part of the speed in each slot, in
\* proportion to the units held.  He may get less by what was truncated: at a settlement less
\* than one unit of the reward and what one unit of his debt has earned
\* (RewardsDistributor.sol:538), and at an update what the ratio is rounded down by and what
\* falls to debts in the total that nobody owes (RewardsDistributor.sol:653).  He may get
\* more only from debts that the total has lost.
\* Healing without a payment settles nobody: the healed account may lose, and the others
\* may gain, what was not settled (RewardsDistributor.sol:506).
RewardsFollowHoldings ==
  /\ \A s \in Sides : CanUpdate(s)
  /\ \A u \in Accounts : u \notin healed =>
       least[u] <= Rewarded(u) + dust[u] + SumOverSides([s \in Sides |-> UpdateLoss(s, u) + ReadingLoss(s, u)])
  /\ healed = {} => \A u \in Accounts : Rewarded(u) <= most[u] + Surplus

\* All together never get more than was emitted, healed or not, and than the updates gave
\* on debts that the total has lost.
RewardsWithinEmission ==
  Total([u \in Accounts |-> Rewarded(u)], AccountCount)
    <= emitted * DoubleScale + Surplus
=============================================================================
