---------------------------- MODULE IsolatedPool ----------------------------
(***************************************************************************)
(* An isolated pool: contracts/Comptroller.sol in front of several         *)
(* contracts/VToken.sol markets.                                           *)
(*                                                                         *)
(* An action is one transaction: the vToken entry point, the accrual it    *)
(* starts with, the comptroller hook (its guard) and the effects on every  *)
(* market it touches.  A revert anywhere leaves no trace, so a transaction *)
(* that may revert is an action that may be disabled.                      *)
(*                                                                         *)
(* Interest accrues market by market, when somebody calls it: liquidity is *)
(* computed, as in the code, from whatever the other markets have stored.  *)
(***************************************************************************)
EXTENDS VTokenOps, Sequences

CONSTANTS
    NumMarkets,          \* markets are 1..NumMarkets
    InitialMarkets,      \* record of NewMarket's settings and addMarket's input, per market
    Receiver,            \* vTokenReceiver of the initial supply
    Prices,              \* prices the oracle may report, per market
    InitialParameters,   \* the comptroller's parameters once the pool is set up
    MintAmounts, BorrowAmounts, RepayAmounts, TokenAmounts,   \* inputs, per market
    Borrowers,           \* accounts that enter markets; the others supply and liquidate
    MaxOrders,           \* bound: orders in one liquidateAccount
    MaxBlock,            \* bound: the last slot
    ParameterChoices,    \* parameters governance may set
    PauseChoices,        \* sets of <<market, action>> that setActionsPaused takes
    DelegatePairs        \* <<owner, delegate>> pairs that updateDelegate takes

Markets == 1..NumMarkets

Actions == {"MINT", "REDEEM", "BORROW", "REPAY", "SEIZE", "LIQUIDATE", "TRANSFER",
            "ENTER_MARKET", "EXIT_MARKET"}

\* the parameters governance sets: factors and caps per market, and the pool's own
Parameters ==
    [collateralFactor : [Markets -> Nat], liquidationThreshold : [Markets -> Nat],
     borrowCap : [Markets -> Nat], supplyCap : [Markets -> Nat],
     closeFactor : Nat, liquidationIncentive : Nat \ {0}, minLiquidatableCollateral : Nat,
     forced : SUBSET Markets]

VARIABLES
    markets,          \* the vTokens
    block,            \* block number or timestamp
    price,            \* what the oracle reports, per market; 0 is an invalid price
    listed,           \* markets[..].isListed
    membership,       \* markets[..].accountMembership
    accountAssets,    \* the redundant list per account
    parameters,
    paused,           \* _actionPaused
    delegates         \* approvedDelegates

vars == <<markets, block, price, listed, membership, accountAssets, parameters, paused, delegates>>

ASSUME IsolatedPoolAssumption ==
    /\ NumMarkets \in Nat
    /\ InitialMarkets \in [Markets -> [reserveFactor : 0..EXP_SCALE, protocolSeizeShare : Nat,
                                       reduceReservesBlockDelta : Nat \ {0},
                                       initialSupply : Nat \ {0}, price : Nat]]
    /\ Receiver \in Users
    /\ Prices \in [Markets -> SUBSET Nat]
    /\ InitialParameters \in Parameters
    /\ InitialParameters.liquidationIncentive >= EXP_SCALE
    /\ {MintAmounts, BorrowAmounts, RepayAmounts, TokenAmounts} \subseteq [Markets -> SUBSET Nat]
    /\ Borrowers \subseteq Users
    /\ MaxOrders \in Nat /\ MaxBlock \in Nat
    /\ ParameterChoices \subseteq Parameters
    /\ PauseChoices \subseteq SUBSET (Markets \X Actions)
    /\ DelegatePairs \subseteq Users \X Users

\* a market initialized in slot 0, into which addMarket minted the initial supply
NewMarket(settings) ==
    MintFresh([cash |-> 0, totalBorrows |-> 0, totalReserves |-> 0, badDebt |-> 0,
               borrowIndex |-> EXP_SCALE, totalSupply |-> 0, income |-> 0,
               accrualBlockNumber |-> 0, reduceReservesBlockNumber |-> 0,
               reduceReservesBlockDelta |-> settings.reduceReservesBlockDelta,
               reserveFactor |-> settings.reserveFactor,
               protocolSeizeShare |-> settings.protocolSeizeShare,
               accountTokens |-> [u \in Users |-> 0],
               principal |-> [u \in Users |-> 0], interestIndex |-> [u \in Users |-> 0]],
              Receiver, settings.initialSupply)

Init ==
    /\ markets = [m \in Markets |-> NewMarket(InitialMarkets[m])]
    /\ block = 0
    /\ price = [m \in Markets |-> InitialMarkets[m].price]
    /\ listed = Markets
    /\ membership = [m \in Markets |-> {}]
    /\ accountAssets = [u \in Users |-> <<>>]
    /\ parameters = InitialParameters
    /\ paused = {}
    /\ delegates = {}

-----------------------------------------------------------------------------
(* Account liquidity *)

InList(assets, m) == \E i \in DOMAIN assets : assets[i] = m

\* faulty: an unlisted market still counts
AssetsInEvenUnlisted(assets) == {m \in Markets : InList(assets, m)}

\* getAssetsIn: the listed markets of an account's list
AssetsIn(assets) == {m \in listed : InList(assets, m)}

SumOver(S, value) == Total([m \in Markets |-> IF m \in S THEN value[m] ELSE 0], NumMarkets)

\* every exchange rate and price that a snapshot needs can be read
CanValue(ks, S) == \A m \in S : HasExchangeRate(ks[m]) /\ price[m] # 0

VTokenPrice(k, m) == MulExp(ExchangeRateStored(k), price[m])

\* _getHypotheticalLiquiditySnapshot without effects; weight is the collateral
\* factors or the liquidation thresholds
Snapshot(ks, S, u, weight) ==
    LET tokens(m)  == ks[m].accountTokens[u]
        weighted   == [m \in S |-> MulScalarTruncate(MulExp(weight[m], VTokenPrice(ks[m], m)), tokens(m))]
        collateral == [m \in S |-> MulScalarTruncate(VTokenPrice(ks[m], m), tokens(m))]
        borrow     == [m \in S |-> MulScalarTruncate(price[m], BorrowBalanceStored(ks[m], u))]
    IN  [weightedCollateral |-> SumOver(S, weighted), totalCollateral |-> SumOver(S, collateral),
         borrows |-> SumOver(S, borrow)]

\* the effects of redeeming tokens of m and borrowing an amount of m
Effects(ks, S, m, weight, tokens, amount) ==
    IF m \in S
    THEN MulScalarTruncate(MulExp(weight[m], VTokenPrice(ks[m], m)), tokens)
            + MulScalarTruncate(price[m], amount)
    ELSE 0

Shortfall(snapshot, effects) ==
    LET owed == snapshot.borrows + effects
    IN  IF snapshot.weightedCollateral > owed THEN 0 ELSE owed - snapshot.weightedCollateral

\* an account can afford an operation under the collateral factors
CanAfford(ks, S, u, m, tokens, amount) ==
    LET cf == parameters.collateralFactor
    IN  CanValue(ks, S) /\ Shortfall(Snapshot(ks, S, u, cf), Effects(ks, S, m, cf, tokens, amount)) = 0

\* the account's position under the liquidation thresholds
Position(ks, S, u) == Snapshot(ks, S, u, parameters.liquidationThreshold)

Unsafe(position) == Shortfall(position, 0) > 0

-----------------------------------------------------------------------------
(* Hooks *)

Allowed(m, action) == <<m, action>> \notin paused

\* faulty: the liquidity check is forgotten
CheckRedeemNothing(ks, m, u, tokens) == m \in listed

\* _checkRedeemAllowed: whoever is not in the market may redeem all
CheckRedeemAllowed(ks, m, u, tokens) ==
    /\ m \in listed
    /\ u \in membership[m] => CanAfford(ks, AssetsIn(accountAssets[u]), u, m, tokens, 0)

PreMint(k, m, amount) ==
    /\ Allowed(m, "MINT")
    /\ m \in listed
    /\ HasExchangeRate(k)
    /\ MulScalarTruncateAdd(ExchangeRateStored(k), k.totalSupply, amount) <= parameters.supplyCap[m]

\* preBorrowHook, for an account whose list, after the automatic entry, is `assets`
PreBorrow(ks, m, u, assets, amount) ==
    /\ Allowed(m, "BORROW")
    /\ m \in listed
    /\ price[m] # 0
    /\ ks[m].totalBorrows + amount + ks[m].badDebt <= parameters.borrowCap[m]
    /\ CanAfford(ks, AssetsIn(assets), u, m, 0, amount)

PreRepay(m) == Allowed(m, "REPAY") /\ m \in listed

\* regular liquidations need more collateral than minLiquidatableCollateral
LargeEnough(position) == position.totalCollateral > parameters.minLiquidatableCollateral

Liquidatable(position) == LargeEnough(position) /\ Unsafe(position)

\* faulty: forced liquidations are looked up for the collateral
ForcedForCollateral(debt, collateral) == collateral \in parameters.forced

\* isForcedLiquidationEnabled is asked of the debt's market alone
Forced(debt, collateral) == debt \in parameters.forced

PreLiquidate(ks, debt, collateral, u, amount, skipLiquidityCheck) ==
    LET owed     == BorrowBalanceStored(ks[debt], u)
        assets   == AssetsIn(accountAssets[u])
        position == Position(ks, assets, u)
    IN  /\ Allowed(debt, "LIQUIDATE")
        /\ {debt, collateral} \subseteq listed
        /\ \/ /\ skipLiquidityCheck \/ Forced(debt, collateral)
              /\ amount <= owed
           \/ /\ ~ skipLiquidityCheck /\ ~ Forced(debt, collateral)
              /\ CanValue(ks, assets)
              /\ Liquidatable(position)
              /\ amount <= MulScalarTruncate(parameters.closeFactor, owed)

PreSeize(m, u) == Allowed(m, "SEIZE") /\ m \in listed /\ u \in membership[m]

PreTransfer(ks, m, u, tokens) == Allowed(m, "TRANSFER") /\ CheckRedeemAllowed(ks, m, u, tokens)

-----------------------------------------------------------------------------
(* Transactions of accounts.  `sender` is the account itself or its delegate. *)

MayActFor(sender, u) == sender = u \/ <<u, sender>> \in delegates

\* faulty: interest is not accrued first
AccrueInNone(S) == markets

\* the markets after accrueInterest on those of S
AccrueIn(S) == [m \in Markets |-> IF m \in S THEN AccrueInterest(markets[m], block) ELSE markets[m]]

\* the same for one market, and for the two of a liquidation
Accrued(m) == [markets EXCEPT ![m] = AccrueInterest(@, block)]

AccruedFor(order) == [Accrued(order.debt) EXCEPT ![order.collateral] = AccrueInterest(@, block)]

CanAccrueIn(S) == \A m \in S : CanAccrue(markets[m], block)

poolVars == <<price, listed, parameters, paused, delegates>>

Tick ==
    /\ block < MaxBlock
    /\ block' = block + 1
    /\ UNCHANGED <<markets, membership, accountAssets, poolVars>>

Accrue(m) ==
    /\ CanAccrueIn({m})
    /\ markets' = Accrued(m)
    /\ UNCHANGED <<block, membership, accountAssets, poolVars>>

\* mint, mintBehalf
Mint(u, m, amount) ==
    LET ks == Accrued(m)
    IN  /\ CanAccrueIn({m})
        /\ PreMint(ks[m], m, amount)
        /\ CanMint(ks[m])
        /\ markets' = [ks EXCEPT ![m] = MintFresh(@, u, amount)]
        /\ UNCHANGED <<block, membership, accountAssets, poolVars>>

\* redeem, redeemBehalf
Redeem(sender, u, m, tokens) ==
    LET ks == Accrued(m)
    IN  /\ MayActFor(sender, u)
        /\ CanAccrueIn({m})
        /\ CanRedeem(ks[m], u, tokens, 0)
        /\ Allowed(m, "REDEEM")
        /\ CheckRedeemAllowed(ks, m, u, tokens)
        /\ markets' = [ks EXCEPT ![m] = RedeemFresh(@, u, tokens, 0)]
        /\ UNCHANGED <<block, membership, accountAssets, poolVars>>

\* transfer: no interest is accrued
Transfer(u, v, m, tokens) ==
    /\ PreTransfer(markets, m, u, tokens)
    /\ CanTransfer(markets[m], u, v, tokens)
    /\ markets' = [markets EXCEPT ![m] = TransferTokens(@, u, v, tokens)]
    /\ UNCHANGED <<block, membership, accountAssets, poolVars>>

\* _addToMarket's guard, and the account's list after it
EntryAllowed(m) == Allowed(m, "ENTER_MARKET") /\ m \in listed

AssetsAfterEntry(u, m) ==
    IF u \in membership[m] THEN accountAssets[u] ELSE Append(accountAssets[u], m)

\* enterMarkets, market by market
EnterMarket(u, m) ==
    /\ EntryAllowed(m)
    /\ membership' = [membership EXCEPT ![m] = @ \cup {u}]
    /\ accountAssets' = [accountAssets EXCEPT ![u] = AssetsAfterEntry(u, m)]
    /\ UNCHANGED <<markets, block, poolVars>>

\* faulty: the last asset of the list is dropped whichever market is left
DropLast(assets, m) == SubSeq(assets, 1, Len(assets) - 1)

\* the last item takes the place of the removed one
SwapAndPop(assets, m) ==
    LET at   == CHOOSE i \in DOMAIN assets : assets[i] = m /\ \A j \in 1..(i - 1) : assets[j] # m
        last == Len(assets)
    IN  SubSeq([assets EXCEPT ![at] = assets[last]], 1, last - 1)

\* faulty: a borrower may leave
CanExitWithDebt(m, u) ==
    /\ Allowed(m, "EXIT_MARKET")
    /\ HasExchangeRate(markets[m])
    /\ CheckRedeemAllowed(markets, m, u, markets[m].accountTokens[u])

CanExit(m, u) ==
    /\ Allowed(m, "EXIT_MARKET")
    /\ HasExchangeRate(markets[m])
    /\ BorrowBalanceStored(markets[m], u) = 0
    /\ CheckRedeemAllowed(markets, m, u, markets[m].accountTokens[u])

\* exitMarket; the assertion that the list holds the market is a conjunct
ExitMarket(u, m) ==
    /\ u \in membership[m] /\ InList(accountAssets[u], m)
    /\ CanExit(m, u)
    /\ membership' = [membership EXCEPT ![m] = @ \ {u}]
    /\ accountAssets' = [accountAssets EXCEPT ![u] = SwapAndPop(@, m)]
    /\ UNCHANGED <<markets, block, poolVars>>

\* borrow, borrowBehalf: a borrower who is not in the market enters it
Borrow(sender, u, m, amount) ==
    LET ks     == Accrued(m)
        assets == AssetsAfterEntry(u, m)
    IN  /\ MayActFor(sender, u)
        /\ CanAccrueIn({m})
        /\ u \in membership[m] \/ EntryAllowed(m)
        /\ PreBorrow(ks, m, u, assets, amount)
        /\ CanBorrow(ks[m], amount)
        /\ markets' = [ks EXCEPT ![m] = BorrowFresh(@, u, amount)]
        /\ membership' = [membership EXCEPT ![m] = @ \cup {u}]
        /\ accountAssets' = [accountAssets EXCEPT ![u] = assets]
        /\ UNCHANGED <<block, poolVars>>

\* repayBorrow, repayBorrowBehalf
RepayBorrow(u, m, amount) ==
    LET ks == Accrued(m)
    IN  /\ CanAccrueIn({m})
        /\ PreRepay(m)
        /\ CanRepay(ks[m], u, amount)
        /\ markets' = [ks EXCEPT ![m] = RepayBorrowFresh(@, u, amount)]
        /\ UNCHANGED <<block, membership, accountAssets, poolVars>>

UpdateDelegate(u, v) ==
    /\ delegates' = IF <<u, v>> \in delegates THEN delegates \ {<<u, v>>} ELSE delegates \cup {<<u, v>>}
    /\ UNCHANGED <<markets, block, membership, accountAssets, price, listed, parameters, paused>>

-----------------------------------------------------------------------------
(* Liquidation *)

\* liquidateCalculateSeizeTokens: k is the collateral market
SeizePrice(k, collateral) == MulExp(price[collateral], ExchangeRateStored(k))

SeizeTokens(k, debt, collateral, repaid) ==
    LET ratio == DivExp(MulExp(parameters.liquidationIncentive, price[debt]), SeizePrice(k, collateral))
    IN  MulScalarTruncate(ratio, repaid)

\* an order repays an amount of `debt` and seizes `collateral` for it; both are fresh in ks
Repaid(ks, u, order) == [ks EXCEPT ![order.debt] = RepayBorrowFresh(@, u, order.amount)]

Seized(ks, u, order) ==
    SeizeTokens(Repaid(ks, u, order)[order.collateral], order.debt, order.collateral,
                RepayFinal(ks[order.debt], u, order.amount))

\* _liquidateBorrowFresh
CanLiquidate(ks, liquidator, u, order, skipLiquidityCheck) ==
    LET k == Repaid(ks, u, order)[order.collateral]
    IN  /\ u # liquidator
        /\ order.amount # 0
        /\ PreLiquidate(ks, order.debt, order.collateral, u, order.amount, skipLiquidityCheck)
        /\ PreRepay(order.debt)
        /\ CanRepay(ks[order.debt], u, order.amount)
        /\ price[order.debt] # 0 /\ price[order.collateral] # 0
        /\ HasExchangeRate(k) /\ SeizePrice(k, order.collateral) # 0
        /\ PreSeize(order.collateral, u)
        /\ CanSeize(k, liquidator, u, Seized(ks, u, order), parameters.liquidationIncentive)

Liquidated(ks, liquidator, u, order) ==
    [Repaid(ks, u, order) EXCEPT ![order.collateral] =
        Seize(@, liquidator, u, Seized(ks, u, order), parameters.liquidationIncentive)]

LiquidateBorrow(liquidator, u, order) ==
    LET ks == AccruedFor(order)
    IN  /\ CanAccrueIn({order.debt, order.collateral})
        /\ CanLiquidate(ks, liquidator, u, order, FALSE)
        /\ markets' = Liquidated(ks, liquidator, u, order)
        /\ UNCHANGED <<block, membership, accountAssets, poolVars>>

\* the collateral that covers all borrows with the liquidation incentive
RequiredCollateral(position) == MulScalarTruncate(parameters.liquidationIncentive, position.borrows)

\* liquidateAccount's test: small and solvent
BatchLiquidatable(position) ==
    /\ ~ LargeEnough(position)
    /\ RequiredCollateral(position) < position.totalCollateral
    /\ Unsafe(position)

\* repay amounts of the market that is repaid
Orders ==
    {order \in [debt : Markets, amount : UNION {RepayAmounts[m] : m \in Markets}, collateral : Markets] :
        order.amount \in RepayAmounts[order.debt]}

\* the orders of liquidateAccount, filled one after the other on the accrued markets ks
FillOrders(ks, liquidator, u, orders) ==
    LET after[i \in 0..Len(orders)] ==
            IF i = 0 THEN ks ELSE Liquidated(after[i - 1], liquidator, u, orders[i])
    IN  after

\* liquidateAccount: the account is judged by what the markets have stored, before
\* the orders accrue interest; in the end nothing may be owed in its markets
LiquidateAccount(liquidator, u) ==
    LET assets == AssetsIn(accountAssets[u])
    IN  /\ CanValue(markets, assets)
        /\ BatchLiquidatable(Position(markets, assets, u))
        /\ \E n \in 1..MaxOrders : \E orders \in [1..n -> Orders] :
              LET called == {orders[i].debt : i \in 1..n} \cup {orders[i].collateral : i \in 1..n}
                  after  == FillOrders(AccrueIn(called), liquidator, u, orders)
              IN  /\ CanAccrueIn(called)
                  /\ \A i \in 1..n : CanLiquidate(after[i - 1], liquidator, u, orders[i], TRUE)
                  /\ \A m \in assets : /\ HasExchangeRate(after[n][m])
                                        /\ BorrowBalanceStored(after[n][m], u) = 0
                  /\ markets' = after[n]
        /\ UNCHANGED <<block, membership, accountAssets, poolVars>>

\* the part of every borrow that healing repays
HealPercentage(position) ==
    DivExp(position.totalCollateral, MulExp(position.borrows, parameters.liquidationIncentive))

\* faulty: collateral that exactly covers the borrows is left to nobody
HealableStrictly(position) ==
    /\ ~ LargeEnough(position)
    /\ Unsafe(position)
    /\ HealPercentage(position) < EXP_SCALE

\* healAccount's test: small and insolvent
Healable(position) ==
    /\ ~ LargeEnough(position)
    /\ Unsafe(position)
    /\ MulExp(position.borrows, parameters.liquidationIncentive) # 0
    /\ HealPercentage(position) <= EXP_SCALE

AllSeized(k, liquidator, u) ==
    IF k.accountTokens[u] = 0 THEN k
    ELSE Seize(k, liquidator, u, k.accountTokens[u], parameters.liquidationIncentive)

CanHealIn(k, m, liquidator, u, percentage) ==
    LET owed   == BorrowBalanceStored(k, u)
        repaid == MulScalarTruncate(percentage, owed)
    IN  /\ k.accountTokens[u] # 0 =>
              /\ PreSeize(m, u)
              /\ CanSeize(k, liquidator, u, k.accountTokens[u], parameters.liquidationIncentive)
        /\ owed # 0 =>
              /\ repaid # 0 => PreRepay(m)
              /\ CanHealBorrow(AllSeized(k, liquidator, u), u, repaid)

\* faulty: the debt is healed and the collateral stays
HealedOnly(k, liquidator, u, percentage) ==
    HealBorrow(k, u, MulScalarTruncate(percentage, BorrowBalanceStored(k, u)))

\* one market of healAccount: all vTokens are seized, part of the debt repaid, the rest written off
Healed(k, liquidator, u, percentage) ==
    LET owed == BorrowBalanceStored(k, u)
    IN  IF owed = 0 THEN AllSeized(k, liquidator, u)
        ELSE HealBorrow(AllSeized(k, liquidator, u), u, MulScalarTruncate(percentage, owed))

HealAccount(liquidator, u) ==
    LET assets     == AssetsIn(accountAssets[u])
        ks         == AccrueIn(assets)
        position   == Position(ks, assets, u)
        percentage == HealPercentage(position)
    IN  /\ CanAccrueIn(assets)
        /\ CanValue(ks, assets)
        /\ Healable(position)
        /\ \A m \in assets : CanHealIn(ks[m], m, liquidator, u, percentage)
        /\ markets' = [m \in Markets |-> IF m \in assets
                                         THEN Healed(ks[m], liquidator, u, percentage) ELSE ks[m]]
        /\ UNCHANGED <<block, membership, accountAssets, poolVars>>

-----------------------------------------------------------------------------
(* The oracle and governance *)

ReportPrice(m, p) ==
    /\ price' = [price EXCEPT ![m] = p]
    /\ UNCHANGED <<markets, block, membership, accountAssets, listed, parameters, paused, delegates>>

SetParameters(new) ==
    /\ parameters' = new
    /\ UNCHANGED <<markets, block, membership, accountAssets, price, listed, paused, delegates>>

SetCollateralFactor(m, factor, threshold) ==
    /\ m \in listed
    /\ 100 * factor <= 98 * EXP_SCALE
    /\ factor <= threshold /\ threshold <= EXP_SCALE
    /\ factor # 0 => price[m] # 0
    /\ SetParameters([parameters EXCEPT !.collateralFactor[m] = factor,
                                        !.liquidationThreshold[m] = threshold])

SetCloseFactor(factor) ==
    /\ 2 * EXP_SCALE <= 100 * factor /\ 10 * factor <= 9 * EXP_SCALE
    /\ SetParameters([parameters EXCEPT !.closeFactor = factor])

SetLiquidationIncentive(incentive) ==
    /\ incentive >= EXP_SCALE
    /\ SetParameters([parameters EXCEPT !.liquidationIncentive = incentive])

SetMinLiquidatableCollateral(amount) ==
    SetParameters([parameters EXCEPT !.minLiquidatableCollateral = amount])

SetCaps(m, borrowCap, supplyCap) ==
    \/ SetParameters([parameters EXCEPT !.borrowCap[m] = borrowCap])
    \/ SetParameters([parameters EXCEPT !.supplyCap[m] = supplyCap])

SetForcedLiquidation(m, enable) ==
    /\ m \in listed
    /\ SetParameters([parameters EXCEPT !.forced = IF enable THEN @ \cup {m} ELSE @ \ {m}])

SetActionsPaused(choice, pause) ==
    /\ \A c \in choice : c[1] \in listed
    /\ paused' = IF pause THEN paused \cup choice ELSE paused \ choice
    /\ UNCHANGED <<markets, block, membership, accountAssets, price, listed, parameters, delegates>>

\* a market leaves the pool for good: _addMarket refuses to list it again
UnlistMarket(m) ==
    /\ m \in listed
    /\ \A a \in Actions : ~ Allowed(m, a)
    /\ parameters.borrowCap[m] = 0 /\ parameters.supplyCap[m] = 0
    /\ parameters.collateralFactor[m] = 0
    /\ listed' = listed \ {m}
    /\ UNCHANGED <<markets, block, membership, accountAssets, price, parameters, paused, delegates>>

-----------------------------------------------------------------------------
AccountCall(u) ==
    \E m \in Markets :
        \/ \E amount \in MintAmounts[m] : Mint(u, m, amount)
        \/ \E sender \in Users, tokens \in TokenAmounts[m] : Redeem(sender, u, m, tokens)
        \/ \E v \in Users, tokens \in TokenAmounts[m] : Transfer(u, v, m, tokens)
        \/ \E amount \in RepayAmounts[m] : RepayBorrow(u, m, amount)

BorrowerCall(u) ==
    \E m \in Markets :
        \/ EnterMarket(u, m)
        \/ ExitMarket(u, m)
        \/ \E sender \in Users, amount \in BorrowAmounts[m] : Borrow(sender, u, m, amount)

Liquidation(liquidator, u) ==
    \/ \E order \in Orders : LiquidateBorrow(liquidator, u, order)
    \/ LiquidateAccount(liquidator, u)
    \/ HealAccount(liquidator, u)

Governance ==
    \/ \E choice \in PauseChoices, pause \in BOOLEAN : SetActionsPaused(choice, pause)
    \/ \E m \in Markets : UnlistMarket(m)
    \/ \E new \in ParameterChoices :
           \/ SetCloseFactor(new.closeFactor)
           \/ SetLiquidationIncentive(new.liquidationIncentive)
           \/ SetMinLiquidatableCollateral(new.minLiquidatableCollateral)
           \/ \E m \in Markets :
                 \/ SetCollateralFactor(m, new.collateralFactor[m], new.liquidationThreshold[m])
                 \/ SetCaps(m, new.borrowCap[m], new.supplyCap[m])
                 \/ SetForcedLiquidation(m, m \in new.forced)

Next ==
    \/ Tick
    \/ \E m \in Markets : Accrue(m)
    \/ \E u \in Users : AccountCall(u)
    \/ \E u \in Borrowers : BorrowerCall(u)
    \/ \E liquidator, u \in Users : Liquidation(liquidator, u)
    \/ \E pair \in DelegatePairs : UpdateDelegate(pair[1], pair[2])
    \/ \E m \in Markets : \E p \in Prices[m] : ReportPrice(m, p)
    \/ Governance

Spec == Init /\ [][Next]_vars

-----------------------------------------------------------------------------
(* Properties *)

TypeOK ==
    /\ markets \in [Markets -> Market]
    /\ block \in Nat
    /\ price \in [Markets -> Nat]
    /\ listed \subseteq Markets
    /\ membership \in [Markets -> SUBSET Users]
    /\ accountAssets \in [Users -> Seq(Markets)]
    /\ parameters \in Parameters
    /\ paused \subseteq Markets \X Actions
    /\ delegates \subseteq Users \X Users

\* The two redundant records of who is in which market agree: accountAssets is the
\* list, without repetitions, of the markets whose accountMembership holds the
\* account.  exitMarket asserts it (Comptroller.sol:395), liquidity is computed from it.
AccountAssetsMatchMembership ==
    \A u \in Users :
        /\ \A i, j \in DOMAIN accountAssets[u] :
              accountAssets[u][i] = accountAssets[u][j] => i = j
        /\ \A m \in Markets : InList(accountAssets[u], m) <=> u \in membership[m]

\* Nobody owes anything in a market he is not in: such a debt would be left out of
\* every liquidity computation and could be neither liquidated nor healed.
DebtImpliesMembership ==
    \A m \in Markets, u \in Users : markets[m].principal[u] > 0 => u \in membership[m]

\* what u would owe in m if m accrued interest now
OwedNow(m, u) == BorrowBalanceStored(AccrueInterest(markets[m], block), u)

DebtMoved(m, u) == \/ markets'[m].principal[u] # markets[m].principal[u]
                   \/ markets'[m].interestIndex[u] # markets[m].interestIndex[u]

DebtGrew(u) == \E m \in Markets :
    DebtMoved(m, u) /\ BorrowBalanceStored(markets'[m], u) > OwedNow(m, u)

DebtFellIn(m, u) == DebtMoved(m, u) /\ BorrowBalanceStored(markets'[m], u) < OwedNow(m, u)

DebtFell(u) == \E m \in Markets : DebtFellIn(m, u)

CollateralFell(u) == \E m \in listed : u \in membership[m] /\
    (u \notin membership'[m] \/ markets'[m].accountTokens[u] < markets[m].accountTokens[u])

\* An account cannot put itself in shortfall: after it borrowed, redeemed or
\* transferred vTokens or left a market, its collateral, weighted by the collateral
\* factors, covers its borrows up to one unit lost to truncation in the check.
NoSelfInflictedShortfall ==
    [][\A u \in Users :
          DebtGrew(u) \/ (CollateralFell(u) /\ ~ DebtFell(u))
            => (Shortfall(Snapshot(markets, AssetsIn(accountAssets[u]), u,
                                   parameters.collateralFactor), 0) <= 1)']_vars

\* An account loses vTokens together with debt only while it is in shortfall, as
\* stored or once the touched markets have accrued, or for debts of markets in
\* which liquidations are forced: forcing one market exposes no debt of another.
SeizedOnlyFromUnsafe ==
    [][\A u \in Users :
          CollateralFell(u) /\ DebtFell(u) =>
              LET touched == {m \in Markets : markets'[m] # markets[m]}
                  assets  == AssetsIn(accountAssets[u])
              IN  \/ \A m \in Markets : DebtFellIn(m, u) => m \in parameters.forced
                  \/ Unsafe(Position(markets, assets, u))
                  \/ Unsafe(Position(AccrueIn(touched), assets, u))]_vars

\* Bad debt is recognised only at the end of an account's means: whoever's debt is
\* written off keeps no vToken and no debt in the pool's listed markets.
BadDebtOnlyWithoutCollateral ==
    [][\A m \in Markets : markets'[m].badDebt > markets[m].badDebt =>
          \E u \in Users :
              /\ markets[m].principal[u] > 0
              /\ \A n \in AssetsIn(accountAssets[u]) :
                    markets'[n].accountTokens[u] = 0 /\ markets'[n].principal[u] = 0]_vars

\* Every account in shortfall is the business of liquidateBorrow, of liquidateAccount
\* or of healAccount, wherever its collateral lies with respect to the threshold and
\* to its borrows.
NoResolutionGap ==
    \A u \in Users :
        LET assets   == AssetsIn(accountAssets[u])
            position == Position(markets, assets, u)
        IN  CanValue(markets, assets) /\ Unsafe(position)
                => Liquidatable(position) \/ BatchLiquidatable(position) \/ Healable(position)

\* Debts move at the current borrow index only: whoever's principal changes, the
\* market has accrued interest in this slot.  healBorrow does not check it itself.
DebtOnlyMovesAtFreshIndex ==
    [][\A m \in Markets :
          markets'[m].principal # markets[m].principal => Fresh(markets'[m], block)]_vars

\* A market that was unlisted is frozen: no balance and no debt in it ever moves again.
UnlistedMarketsFrozen ==
    [][\A m \in Markets \ listed :
          /\ m \notin listed'
          /\ markets'[m].accountTokens = markets[m].accountTokens
          /\ markets'[m].principal = markets[m].principal]_vars

\* What VToken.sol:41 and README.md:74 say of healAccount and liquidateAccount, the only
\* two ways to seize from an account at or below minLiquidatableCollateral when no
\* liquidation is forced: they settle all of its borrows.
SmallAccountsSettled ==
    [][\A u \in Users :
          LET position == Position(markets, AssetsIn(accountAssets[u]), u)
          IN  CollateralFell(u) /\ DebtFell(u) /\ parameters.forced = {} /\ ~ LargeEnough(position)
                  => \A m \in Markets : markets'[m].principal[u] = 0]_vars
=============================================================================
