----------------------------- MODULE VTokenOps ------------------------------
(***************************************************************************)
(* The handlers of contracts/VToken.sol as operators on one market.        *)
(*                                                                         *)
(* A market is a record k: the storage of one VToken plus the balances of  *)
(* its underlying ERC-20 that matter to it (external: `cash` is the        *)
(* vToken's own balance, `income` what the ProtocolShareReserve received   *)
(* from this market; that a payer can pay is the caller's business).  For  *)
(* each handler there is a guard (every require, revert, checked           *)
(* subtraction and division by zero on its way) and an effect.  They run   *)
(* after accrueInterest, so their freshness checks hold.                   *)
(* VToken.tla drives one market with them, IsolatedPool.tla several.       *)
(***************************************************************************)
EXTENDS Integers, ExponentialNoError, Sums

CONSTANTS
    NumUsers,                \* accounts are 1..NumUsers
    InitialExchangeRate,     \* initialExchangeRateMantissa
    MaxBorrowRate,           \* MAX_BORROW_RATE_MANTISSA
    BorrowRate(_, _, _, _)   \* interestRateModel.getBorrowRate(cash, borrows, reserves, badDebt);
                             \* anything outside 0..MaxBorrowRate stands for a model that reverts

Users == 1..NumUsers

ASSUME VTokenOpsAssumption ==
    /\ NumUsers \in Nat
    /\ InitialExchangeRate \in Nat \ {0}
    /\ MaxBorrowRate \in Nat

\* A record of this shape is a market; amounts are naturals (uint256).
Market ==
    [cash : Nat, totalBorrows : Nat, totalReserves : Nat, badDebt : Nat,
     borrowIndex : Nat \ {0}, totalSupply : Nat, income : Nat,
     accrualBlockNumber : Nat, reduceReservesBlockNumber : Nat,
     reduceReservesBlockDelta : Nat \ {0},
     reserveFactor : 0..EXP_SCALE, protocolSeizeShare : Nat,
     accountTokens : [Users -> Nat], principal : [Users -> Nat],
     interestIndex : [Users -> Nat]]

-----------------------------------------------------------------------------
(* Views *)

\* cash + borrows + badDebt - reserves: the underlying the vTokens stand for
NetUnderlying(k) == k.cash + k.totalBorrows + k.badDebt - k.totalReserves

\* the checked subtraction in _exchangeRateStored does not revert
HasExchangeRate(k) == k.totalSupply = 0 \/ NetUnderlying(k) >= 0

ExchangeRateStored(k) ==
    IF k.totalSupply = 0 THEN InitialExchangeRate
    ELSE (NetUnderlying(k) * EXP_SCALE) \div k.totalSupply

BorrowBalanceStored(k, u) ==
    IF k.principal[u] = 0 THEN 0
    ELSE (k.principal[u] * k.borrowIndex) \div k.interestIndex[u]

Fresh(k, now) == k.accrualBlockNumber = now

-----------------------------------------------------------------------------
(* Reserves and interest *)

\* faulty: reserves are not compared with the amount taken
CanReduceReservesUnchecked(k, amount) == amount <= k.cash

CanReduceReserves(k, amount) == amount <= k.cash /\ amount <= k.totalReserves

\* faulty: the cash leaves and totalReserves stays
ReduceReservesForgotten(k, amount) == [k EXCEPT !.cash = @ - amount, !.income = @ + amount]

\* _reduceReservesFresh: reserves leave for the ProtocolShareReserve
ReduceReservesFresh(k, amount) ==
    [k EXCEPT !.totalReserves = @ - amount, !.cash = @ - amount, !.income = @ + amount]

RateNow(k) == BorrowRate(k.cash, k.totalBorrows, k.totalReserves, k.badDebt)

CanAccrue(k, now) ==
    \/ k.accrualBlockNumber = now
    \/ RateNow(k) \in 0..MaxBorrowRate

\* the storage writes of accrueInterest up to the automatic reduction of reserves
InterestAccrued(k, now) ==
    LET factor   == RateNow(k) * (now - k.accrualBlockNumber)
        interest == MulScalarTruncate(factor, k.totalBorrows)
    IN  [k EXCEPT
            !.accrualBlockNumber = now,
            !.totalBorrows  = @ + interest,
            !.totalReserves = MulScalarTruncateAdd(k.reserveFactor, interest, @),
            !.borrowIndex   = MulScalarTruncateAdd(factor, @, @)]

\* every reduceReservesBlockDelta slots the reserves are swept, as far as cash allows
AutoReduceReserves(k, now) ==
    IF now - k.reduceReservesBlockNumber >= k.reduceReservesBlockDelta
    THEN ReduceReservesFresh([k EXCEPT !.reduceReservesBlockNumber = now],
                             IF k.cash < k.totalReserves THEN k.cash ELSE k.totalReserves)
    ELSE k

AccrueInterest(k, now) ==
    IF k.accrualBlockNumber = now THEN k
    ELSE AutoReduceReserves(InterestAccrued(k, now), now)

AddReservesFresh(k, amount) == [k EXCEPT !.cash = @ + amount, !.totalReserves = @ + amount]

-----------------------------------------------------------------------------
(* Supply side *)

CanMint(k) == HasExchangeRate(k) /\ ExchangeRateStored(k) > 0

\* faulty: rounded in favour of the minter
MintTokensRoundedUp(k, amount) == DivExp(amount, ExchangeRateStored(k)) + 1

MintTokens(k, amount) == DivExp(amount, ExchangeRateStored(k))

MintFresh(k, minter, amount) ==
    [k EXCEPT !.cash = @ + amount, !.totalSupply = @ + MintTokens(k, amount),
              !.accountTokens[minter] = @ + MintTokens(k, amount)]

\* vTokens burnt for an amount of underlying: rounded up unless they are worth nothing
TokensForUnderlying(rate, amount) ==
    LET tokens == DivExp(amount, rate)
        value  == MulExp(tokens, rate)
    IN  IF value # 0 /\ value # amount THEN tokens + 1 ELSE tokens

RedeemTokens(k, tokensIn, amountIn) ==
    IF tokensIn > 0 THEN tokensIn ELSE TokensForUnderlying(ExchangeRateStored(k), amountIn)

RedeemAmount(k, tokens) == MulScalarTruncate(ExchangeRateStored(k), tokens)

\* faulty: the balance is not compared with what is redeemed
CanRedeemUnchecked(k, redeemer, tokensIn, amountIn) ==
    /\ HasExchangeRate(k)
    /\ LET amount == RedeemAmount(k, RedeemTokens(k, tokensIn, amountIn))
       IN  amount # 0 /\ k.cash - k.totalReserves >= amount

CanRedeem(k, redeemer, tokensIn, amountIn) ==
    /\ tokensIn = 0 \/ amountIn = 0
    /\ HasExchangeRate(k)
    /\ tokensIn > 0 \/ ExchangeRateStored(k) > 0
    /\ LET tokens == RedeemTokens(k, tokensIn, amountIn)
           amount == RedeemAmount(k, tokens)
       IN  /\ amount # 0
           /\ k.cash - k.totalReserves >= amount
           /\ tokens <= k.accountTokens[redeemer]
           /\ tokens <= k.totalSupply

RedeemFresh(k, redeemer, tokensIn, amountIn) ==
    LET tokens == RedeemTokens(k, tokensIn, amountIn)
        amount == RedeemAmount(k, tokens)
    IN  [k EXCEPT !.totalSupply = @ - tokens, !.accountTokens[redeemer] = @ - tokens,
                  !.cash = @ - amount]

\* faulty: an account may pay itself
CanTransferToSelf(k, src, dst, tokens) == tokens <= k.accountTokens[src]

\* _transferTokens: both new balances are computed before either is written
CanTransfer(k, src, dst, tokens) == src # dst /\ tokens <= k.accountTokens[src]

TransferTokens(k, src, dst, tokens) ==
    [k EXCEPT !.accountTokens[src] = @ - tokens,
              !.accountTokens[dst] = k.accountTokens[dst] + tokens]

-----------------------------------------------------------------------------
(* Borrow side *)

SetBorrow(k, u, balance) ==
    [k EXCEPT !.principal[u] = balance, !.interestIndex[u] = k.borrowIndex]

\* faulty: reserves are lent out
CanBorrowReserves(k, amount) == k.cash >= amount

CanBorrow(k, amount) == k.cash - k.totalReserves >= amount

BorrowFresh(k, borrower, amount) ==
    [SetBorrow(k, borrower, BorrowBalanceStored(k, borrower) + amount)
        EXCEPT !.totalBorrows = @ + amount, !.cash = @ - amount]

\* repaying more than is owed repays what is owed
RepayFinal(k, borrower, amount) ==
    LET owed == BorrowBalanceStored(k, borrower)
    IN  IF amount >= owed THEN owed ELSE amount

CanRepay(k, borrower, amount) == RepayFinal(k, borrower, amount) <= k.totalBorrows

RepayBorrowFresh(k, borrower, amount) ==
    LET repaid == RepayFinal(k, borrower, amount)
    IN  [SetBorrow(k, borrower, BorrowBalanceStored(k, borrower) - repaid)
            EXCEPT !.totalBorrows = @ - repaid, !.cash = @ + repaid]

\* faulty: what is not repaid is forgotten instead of recorded as bad debt
HealBorrowForgiven(k, borrower, amount) ==
    [SetBorrow(k, borrower, 0)
        EXCEPT !.totalBorrows = @ - BorrowBalanceStored(k, borrower), !.cash = @ + amount]

\* healBorrow: what the payer does not repay becomes bad debt of the market
CanHealBorrow(k, borrower, amount) ==
    LET owed == BorrowBalanceStored(k, borrower)
    IN  amount <= owed /\ owed <= k.totalBorrows

HealBorrow(k, borrower, amount) ==
    LET owed == BorrowBalanceStored(k, borrower)
    IN  [SetBorrow(k, borrower, 0)
            EXCEPT !.totalBorrows = @ - owed, !.badDebt = @ + (owed - amount), !.cash = @ + amount]

-----------------------------------------------------------------------------
(* Seizure of collateral; `incentive` is the comptroller's liquidationIncentiveMantissa *)

ProtocolSeizeTokens(k, tokens, incentive) == DivExp(MulExp(tokens, k.protocolSeizeShare), incentive)

ProtocolSeizeAmount(k, tokens, incentive) ==
    MulScalarTruncate(ExchangeRateStored(k), ProtocolSeizeTokens(k, tokens, incentive))

CanSeize(k, liquidator, borrower, tokens, incentive) ==
    /\ borrower # liquidator
    /\ tokens <= k.accountTokens[borrower]
    /\ HasExchangeRate(k)
    /\ ProtocolSeizeTokens(k, tokens, incentive) <= tokens
    /\ ProtocolSeizeTokens(k, tokens, incentive) <= k.totalSupply
    /\ ProtocolSeizeAmount(k, tokens, incentive) <= k.cash

\* the protocol's part is burnt and paid out in underlying, the rest goes to the liquidator
Seize(k, liquidator, borrower, tokens, incentive) ==
    LET protocolTokens == ProtocolSeizeTokens(k, tokens, incentive)
        protocolAmount == ProtocolSeizeAmount(k, tokens, incentive)
        burnt == [k EXCEPT !.accountTokens[borrower] = @ - protocolTokens,
                           !.totalSupply = @ - protocolTokens,
                           !.cash = @ - protocolAmount, !.income = @ + protocolAmount]
    IN  TransferTokens(burnt, borrower, liquidator, tokens - protocolTokens)

\* badDebtRecovered, called by Shortfall once it has sent the recovered underlying
CanRecoverBadDebt(k, amount) == amount <= k.badDebt

BadDebtRecovered(k, amount) == [k EXCEPT !.cash = @ + amount, !.badDebt = @ - amount]
=============================================================================
