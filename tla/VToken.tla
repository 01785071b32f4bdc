------------------------------- MODULE VToken -------------------------------
(***************************************************************************)
(* One market, contracts/VToken.sol, under any comptroller.                *)
(*                                                                         *)
(* The verdict of a comptroller hook is the environment's choice (the      *)
(* call happens or it does not), and the calls only the comptroller,       *)
(* another market or the Shortfall contract may make (healBorrow, seize,   *)
(* forceLiquidateBorrow, badDebtRecovered) come with any argument.  What   *)
(* holds here holds whatever the comptroller decides; IsolatedPool.tla     *)
(* puts the real comptroller in front of several of these markets.         *)
(*                                                                         *)
(* Every external call is one action: it accrues interest, checks and      *)
(* writes, or reverts and leaves no trace.                                 *)
(*                                                                         *)
(* A name that IsolatedPool.tla also has starts with VToken here, so that  *)
(* the proofs about a pool can use those about a market.                   *)
(***************************************************************************)
EXTENDS VTokenOps

CONSTANTS
    InitialMarket,     \* settings of the market when it is initialized
    Amounts,           \* amounts of underlying that calls carry
    VTokenAmounts,     \* amounts of vTokens that calls carry
    Incentives,        \* liquidationIncentiveMantissa of the comptroller
    ReserveFactors,    \* values given to setReserveFactor
    SeizeShares,       \* values given to setProtocolSeizeShare
    LastBlock,         \* bound: the last slot
    MaxUnderlying,     \* bound: the underlying that exists
    MaxDebt            \* bound: calls borrow no more than this in total

VARIABLES
    market,            \* the storage of the vToken and the balances of its underlying
    blockNumber        \* block number or timestamp

vtokenVars == <<market, blockNumber>>

ASSUME VTokenAssumption ==
    /\ InitialMarket \in [reserveFactor : 0..EXP_SCALE, protocolSeizeShare : Nat,
                          reduceReservesBlockDelta : Nat \ {0}]
    /\ Amounts \subseteq Nat
    /\ VTokenAmounts \subseteq Nat
    /\ Incentives \subseteq Nat \ {0}
    /\ ReserveFactors \subseteq Nat
    /\ SeizeShares \subseteq Nat
    /\ LastBlock \in Nat /\ MaxUnderlying \in Nat /\ MaxDebt \in Nat

\* the market _initialize leaves behind in slot 0
InitializedMarket(settings) ==
    [cash |-> 0, totalBorrows |-> 0, totalReserves |-> 0, badDebt |-> 0,
     borrowIndex |-> EXP_SCALE, totalSupply |-> 0, income |-> 0,
     accrualBlockNumber |-> 0, reduceReservesBlockNumber |-> 0,
     reduceReservesBlockDelta |-> settings.reduceReservesBlockDelta,
     reserveFactor |-> settings.reserveFactor,
     protocolSeizeShare |-> settings.protocolSeizeShare,
     accountTokens |-> [u \in Users |-> 0], principal |-> [u \in Users |-> 0],
     interestIndex |-> [u \in Users |-> 0]]

VTokenInit ==
    /\ blockNumber = 0
    /\ market = InitializedMarket(InitialMarket)

-----------------------------------------------------------------------------
(* Calls of accounts.  Each starts with accrueInterest. *)

accrued == AccrueInterest(market, blockNumber)

\* bound: nobody can pay in more underlying than exists outside the market
PaysIn(amount) == market.cash + market.income + amount <= MaxUnderlying

VTokenTick ==
    /\ blockNumber < LastBlock
    /\ blockNumber' = blockNumber + 1
    /\ UNCHANGED market

\* accrueInterest is public, exchangeRateCurrent and the like call nothing else
VTokenAccrue ==
    /\ CanAccrue(market, blockNumber)
    /\ market' = accrued
    /\ UNCHANGED blockNumber

\* mint, mintBehalf
VTokenMint(minter, amount) ==
    /\ PaysIn(amount)
    /\ CanAccrue(market, blockNumber)
    /\ CanMint(accrued)
    /\ market' = MintFresh(accrued, minter, amount)
    /\ UNCHANGED blockNumber

\* redeem, redeemBehalf, redeemUnderlying, redeemUnderlyingBehalf
VTokenRedeem(redeemer, tokensIn, amountIn) ==
    /\ CanAccrue(market, blockNumber)
    /\ CanRedeem(accrued, redeemer, tokensIn, amountIn)
    /\ market' = RedeemFresh(accrued, redeemer, tokensIn, amountIn)
    /\ UNCHANGED blockNumber

\* borrow, borrowBehalf
VTokenBorrow(borrower, amount) ==
    /\ market.totalBorrows + market.badDebt + amount <= MaxDebt
    /\ CanAccrue(market, blockNumber)
    /\ CanBorrow(accrued, amount)
    /\ market' = BorrowFresh(accrued, borrower, amount)
    /\ UNCHANGED blockNumber

\* repayBorrow, repayBorrowBehalf, and the repayment of a liquidation whose collateral is elsewhere
VTokenRepayBorrow(borrower, amount) ==
    /\ PaysIn(RepayFinal(accrued, borrower, amount))
    /\ CanAccrue(market, blockNumber)
    /\ CanRepay(accrued, borrower, amount)
    /\ market' = RepayBorrowFresh(accrued, borrower, amount)
    /\ UNCHANGED blockNumber

\* liquidateBorrow, forceLiquidateBorrow with this market as debt and as collateral;
\* how many tokens to seize is the comptroller's answer
LiquidateInKind(liquidator, borrower, amount, tokens, incentive) ==
    LET repaid == RepayBorrowFresh(accrued, borrower, amount)
    IN  /\ PaysIn(RepayFinal(accrued, borrower, amount))
        /\ CanAccrue(market, blockNumber)
        /\ amount # 0
        /\ CanRepay(accrued, borrower, amount)
        /\ CanSeize(repaid, liquidator, borrower, tokens, incentive)
        /\ market' = Seize(repaid, liquidator, borrower, tokens, incentive)
        /\ UNCHANGED blockNumber

\* transfer, transferFrom: the only calls of an account that do not accrue interest
VTokenTransfer(src, dst, tokens) ==
    /\ CanTransfer(market, src, dst, tokens)
    /\ market' = TransferTokens(market, src, dst, tokens)
    /\ UNCHANGED blockNumber

AddReserves(amount) ==
    /\ PaysIn(amount)
    /\ CanAccrue(market, blockNumber)
    /\ market' = AddReservesFresh(accrued, amount)
    /\ UNCHANGED blockNumber

\* does nothing beyond accruing in the slot in which the reserves were swept
ReduceReserves(amount) ==
    /\ CanAccrue(market, blockNumber)
    /\ \/ /\ accrued.reduceReservesBlockNumber = blockNumber
          /\ market' = accrued
       \/ /\ accrued.reduceReservesBlockNumber # blockNumber
          /\ CanReduceReserves(accrued, amount)
          /\ market' = ReduceReservesFresh(accrued, amount)
    /\ UNCHANGED blockNumber

-----------------------------------------------------------------------------
(* Calls of the comptroller, other markets, the Shortfall contract, governance *)

\* healBorrow: at whatever index is stored, as nothing in it asks for a fresh one
Heal(borrower, amount) ==
    /\ PaysIn(amount)
    /\ CanHealBorrow(market, borrower, amount)
    /\ market' = HealBorrow(market, borrower, amount)
    /\ UNCHANGED blockNumber

\* seize, called by the comptroller in healAccount or by the market of the repaid debt;
\* freshness is again the caller's business
SeizeCollateral(liquidator, borrower, tokens, incentive) ==
    /\ CanSeize(market, liquidator, borrower, tokens, incentive)
    /\ market' = Seize(market, liquidator, borrower, tokens, incentive)
    /\ UNCHANGED blockNumber

\* badDebtRecovered, after the Shortfall contract has sent the underlying
RecoverBadDebt(amount) ==
    /\ PaysIn(amount)
    /\ CanRecoverBadDebt(market, amount)
    /\ market' = BadDebtRecovered(market, amount)
    /\ UNCHANGED blockNumber

SetReserveFactor(new) ==
    /\ CanAccrue(market, blockNumber)
    /\ new <= EXP_SCALE
    /\ market' = [accrued EXCEPT !.reserveFactor = new]
    /\ UNCHANGED blockNumber

SetProtocolSeizeShare(new, incentive) ==
    /\ new + EXP_SCALE <= incentive
    /\ market' = [market EXCEPT !.protocolSeizeShare = new]
    /\ UNCHANGED blockNumber

\* underlying sent to the contract by anyone, outside every call
Donate(amount) ==
    /\ PaysIn(amount)
    /\ market' = [market EXCEPT !.cash = @ + amount]
    /\ UNCHANGED blockNumber

-----------------------------------------------------------------------------

VTokenAccountCall ==
    \/ VTokenAccrue
    \/ \E u \in Users, a \in Amounts :
          VTokenMint(u, a) \/ VTokenRedeem(u, 0, a) \/ VTokenBorrow(u, a) \/ VTokenRepayBorrow(u, a)
    \/ \E u \in Users, t \in VTokenAmounts : VTokenRedeem(u, t, 0)
    \/ \E u, v \in Users, t \in VTokenAmounts : VTokenTransfer(u, v, t)
    \/ \E u, v \in Users, a \in Amounts, t \in VTokenAmounts, i \in Incentives :
          LiquidateInKind(u, v, a, t, i)
    \/ \E a \in Amounts : AddReserves(a) \/ ReduceReserves(a) \/ Donate(a)

ProtocolCall ==
    \/ \E u \in Users, a \in Amounts : Heal(u, a)
    \/ \E u, v \in Users, t \in VTokenAmounts, i \in Incentives : SeizeCollateral(u, v, t, i)
    \/ \E a \in Amounts : RecoverBadDebt(a)
    \/ \E f \in ReserveFactors : SetReserveFactor(f)
    \/ \E s \in SeizeShares, i \in Incentives : SetProtocolSeizeShare(s, i)

VTokenNext == VTokenTick \/ VTokenAccountCall \/ ProtocolCall

VTokenSpec == VTokenInit /\ [][VTokenNext]_vtokenVars

-----------------------------------------------------------------------------
(* Properties *)

\* Every amount stays a natural number (no unsigned counter is driven below
\* zero by VToken.sol's arithmetic) and the market never accrues ahead of time.
VTokenTypeOK ==
    /\ market \in Market
    /\ blockNumber \in Nat
    /\ market.accrualBlockNumber <= blockNumber

\* The supply that _exchangeRateStored divides by is the sum of the balances
\* that mint, redeem, transfer and seize keep one by one.
SupplyIsSumOfBalances == market.totalSupply = Total(market.accountTokens, NumUsers)

\* cash + totalBorrows + badDebt - totalReserves never becomes negative, so the
\* checked subtraction of _exchangeRateStored (VToken.sol:1660) never locks the market.
ReservesBacked == NetUnderlying(market) >= 0

\* Whatever rounding mint, redeem, seize, heal and recovery do, the underlying a
\* vToken stands for never falls while the supply stays positive.
ExchangeRateNeverFalls ==
    [][market.totalSupply > 0 /\ market'.totalSupply > 0
          => ExchangeRateStored(market) <= ExchangeRateStored(market')]_vtokenVars

\* The debt of an account falls only by what the market received for it or
\* recognised as bad debt: no repayment, liquidation or healing forgives more.
DebtPaidOrRecognised ==
    [][\A u \in Users :
          LET forgiven == BorrowBalanceStored(market, u) - BorrowBalanceStored(market', u)
              received == (market'.cash + market'.income) - (market.cash + market.income)
              written  == market'.badDebt - market.badDebt
          IN  forgiven > 0 => received + written >= forgiven]_vtokenVars

\* Underlying leaves the protocol (redeem and borrow) only if what remains in
\* the market covers its reserves: the reserves are never lent or redeemed.
ReservesStayLiquid ==
    [][market'.cash + market'.income < market.cash + market.income
          => market'.cash >= market'.totalReserves]_vtokenVars

\* repayBorrow promises that type(uint256).max repays "the full outstanding
\* amount" (VToken.sol:412): once interest is accrued, any account can be repaid in full.
FullRepaymentPossible ==
    \A u \in Users :
        Fresh(market, blockNumber) => CanRepay(market, u, BorrowBalanceStored(market, u))
=============================================================================
