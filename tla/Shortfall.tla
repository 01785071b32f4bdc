----------------------------- MODULE Shortfall ------------------------------
(***************************************************************************)
(* contracts/Shortfall/Shortfall.sol with contracts/lib/TokenDebtTracker:  *)
(* auctions of pools' bad debt against the risk fund.                      *)
(*                                                                         *)
(* An action is one transaction.  The markets' badDebt is the VToken       *)
(* counter that healBorrow raises and badDebtRecovered lowers.  External:  *)
(* the tokens (a transfer may take a fee, a payout may be refused by the   *)
(* token), the risk fund (it pays what it holds for the pool, or reverts)  *)
(* and the oracle.  Of those three the code says what it relies on by how  *)
(* it calls them.                                                          *)
(***************************************************************************)
EXTENDS Integers, ExponentialNoError, Sums

CONSTANTS
    NumPools, NumMarkets, NumTokens, NumUsers,   \* each kind is numbered from 1
    PoolOf,              \* the pool of each market
    Underlying,          \* the token of each market
    BaseAsset,           \* riskFund.convertibleBaseAsset()
    MAX_BPS,             \* 10000 in the contract
    Fee,                 \* basis points a token keeps of a transfer to the contract or a market
    Refusing,            \* pairs <<token, user>>: the token may refuse to pay the user
    InitialBadDebt, InitialFund, InitialSettings,
    SettingChoices,      \* settings governance may write, one field at a time
    MarketPrices,        \* price vectors the oracle may report for the markets
    BasePrices,          \* prices it may report for the base asset
    Bids,                \* basis points bidders offer
    Claims,              \* amounts that users claim, besides everything they are owed
    Growth,              \* amounts by which a bad debt or a fund grows
    MaxBadDebt, MaxFund, \* bounds: growth stops there
    MaxBlock, LastBid    \* bounds: the last slot, and the last in which bids arrive; the model
                         \* has slots left to close if LastBid + nextBidderBlockLimit < MaxBlock

Pools == 1..NumPools
Markets == 1..NumMarkets
Tokens == 1..NumTokens
Users == 1..NumUsers
Nobody == 0              \* address(0)

MarketsOf(p) == {m \in Markets : PoolOf[m] = p}

Settings == [minimumPoolBadDebt : Nat, incentiveBps : Nat \ {0},
             nextBidderBlockLimit : Nat \ {0}, waitForFirstBidder : Nat]

Auction ==
    [status : {"NOT_STARTED", "STARTED", "ENDED"}, auctionType : {"LARGE_POOL_DEBT", "LARGE_RISK_FUND"},
     startBlock : Nat, seizedRiskFund : Nat, startBidBps : Nat,
     highestBidder : Users \cup {Nobody}, highestBidBps : 0..MAX_BPS, highestBidBlock : Nat,
     marketDebt : [Markets -> Nat], bidAmount : [Markets -> Nat]]

ASSUME ShortfallAssumption ==
    /\ {NumPools, NumMarkets, NumTokens, NumUsers} \subseteq Nat
    /\ PoolOf \in [Markets -> Pools] /\ Underlying \in [Markets -> Tokens]
    \* PoolRegistry.addMarket accepts one market per asset and pool
    /\ \A m, n \in Markets : PoolOf[m] = PoolOf[n] /\ Underlying[m] = Underlying[n] => m = n
    /\ BaseAsset \in Tokens
    /\ MAX_BPS \in Nat \ {0}
    /\ Fee \in [Tokens -> 0..MAX_BPS]
    /\ Refusing \subseteq Tokens \X Users
    /\ InitialBadDebt \in [Markets -> Nat] /\ InitialFund \in [Pools -> Nat]
    /\ InitialSettings \in Settings
    /\ InitialSettings.minimumPoolBadDebt # 0 /\ InitialSettings.waitForFirstBidder # 0
    /\ SettingChoices \subseteq Settings
    /\ MarketPrices \subseteq [Markets -> Nat] /\ BasePrices \subseteq Nat
    /\ Bids \subseteq 1..MAX_BPS
    /\ Claims \subseteq Nat /\ Growth \subseteq Nat
    /\ {MaxBadDebt, MaxFund, MaxBlock, LastBid} \subseteq Nat

VARIABLES
    auctions,        \* the auction of each pool
    badDebt,         \* VToken.badDebt
    cash,            \* what each market received from auctions
    fund,            \* riskFund.getPoolsBaseAssetReserves, per pool
    balance,         \* token balances of the Shortfall contract
    tokenDebt,       \* payouts a token refused, per token and user
    totalTokenDebt,  \* their sum, per token
    settings,
    auctionsPaused,
    block            \* block number or timestamp

vars == <<auctions, badDebt, cash, fund, balance, tokenDebt, totalTokenDebt, settings,
          auctionsPaused, block>>

Init ==
    /\ auctions = [p \in Pools |->
           [status |-> "NOT_STARTED", auctionType |-> "LARGE_POOL_DEBT", startBlock |-> 0,
            seizedRiskFund |-> 0, startBidBps |-> 0, highestBidder |-> Nobody,
            highestBidBps |-> 0, highestBidBlock |-> 0,
            marketDebt |-> [m \in Markets |-> 0], bidAmount |-> [m \in Markets |-> 0]]]
    /\ badDebt = InitialBadDebt
    /\ cash = [m \in Markets |-> 0]
    /\ fund = InitialFund
    /\ balance = [t \in Tokens |-> 0]
    /\ tokenDebt = [t \in Tokens |-> [u \in Users |-> 0]]
    /\ totalTokenDebt = [t \in Tokens |-> 0]
    /\ settings = InitialSettings
    /\ auctionsPaused = FALSE
    /\ block = 0

-----------------------------------------------------------------------------
(* The state of an auction *)

Started(auction) == auction.status = "STARTED"

HasBid(auction) == Started(auction) /\ auction.highestBidder # Nobody

\* faulty: stale one slot early
StaleAtLimit(auction) ==
    auction.highestBidder = Nobody /\ block >= auction.startBlock + settings.waitForFirstBidder

Stale(auction) ==
    auction.highestBidder = Nobody /\ block > auction.startBlock + settings.waitForFirstBidder

\* faulty: a later bid need not beat the one before
OffersEnoughToOpen(auction, bps) ==
    CASE auction.auctionType = "LARGE_POOL_DEBT" -> bps >= auction.startBidBps
      [] auction.auctionType = "LARGE_RISK_FUND" -> bps <= auction.startBidBps

\* more of the debt, or less of the fund, than the offer before
Improves(auction, bps) ==
    CASE auction.auctionType = "LARGE_POOL_DEBT" ->
            IF auction.highestBidder # Nobody THEN bps > auction.highestBidBps ELSE bps >= auction.startBidBps
      [] auction.auctionType = "LARGE_RISK_FUND" ->
            IF auction.highestBidder # Nobody THEN bps < auction.highestBidBps ELSE bps <= auction.startBidBps

\* what is left of an amount after a transfer (external)
Received(t, amount) == amount - (amount * Fee[t]) \div MAX_BPS

\* what a bidder transfers for market m
Offer(auction, bps, m) ==
    IF auction.auctionType = "LARGE_POOL_DEBT" THEN (auction.marketDebt[m] * bps) \div MAX_BPS
    ELSE auction.marketDebt[m]

\* riskFundBidAmount: what the winner is paid
Payout(auction) ==
    IF auction.auctionType = "LARGE_POOL_DEBT" THEN auction.seizedRiskFund
    ELSE (auction.seizedRiskFund * auction.highestBidBps) \div MAX_BPS

\* the market of a pool whose underlying is t, as a set of at most one
MarketFor(p, t) == {m \in MarketsOf(p) : Underlying[m] = t}

\* the pool's amounts per market as amounts per token
PerToken(p, amount) ==
    [t \in Tokens |-> IF MarketFor(p, t) = {} THEN 0 ELSE amount[CHOOSE m \in MarketFor(p, t) : TRUE]]

-----------------------------------------------------------------------------
(* Payouts that a token refuses become debts *)

\* _transferOutOrTrackDebt for an amount per token; `refused` are the tokens that
\* do not transfer to the user
PaidOut(held, paid, refused) == [t \in Tokens |-> IF t \in refused THEN held[t] ELSE held[t] - paid[t]]

\* faulty: a refused payout is forgotten
DebtForgotten(debt, user, paid, refused) == debt

DebtTracked(debt, user, paid, refused) ==
    [t \in Tokens |-> IF t \in refused THEN [debt[t] EXCEPT ![user] = @ + paid[t]] ELSE debt[t]]

TotalTracked(total, paid, refused) == [t \in Tokens |-> IF t \in refused THEN total[t] + paid[t] ELSE total[t]]

-----------------------------------------------------------------------------
(* Bids *)

\* bidAmount after the markets' tokens arrived
WithBid(auction, p, user, bps) ==
    [auction EXCEPT !.highestBidder = user, !.highestBidBps = bps, !.highestBidBlock = block,
                    !.bidAmount = [m \in Markets |->
                        IF PoolOf[m] = p THEN Received(Underlying[m], Offer(auction, bps, m)) ELSE @[m]]]

\* what the displaced bidder gets back
Refund(auction, p) ==
    IF HasBid(auction) THEN PerToken(p, auction.bidAmount) ELSE [t \in Tokens |-> 0]

PlaceBid(p, user, bps, expectedStart, refused) ==
    LET auction == auctions[p]
        next    == WithBid(auction, p, user, bps)
        refund  == Refund(auction, p)
        income  == PerToken(p, next.bidAmount)
    IN  /\ block <= LastBid   \* bound
        /\ auction.startBlock = expectedStart
        /\ Started(auction) /\ ~Stale(auction)
        /\ Improves(auction, bps)
        /\ \A t \in Tokens : balance[t] >= refund[t]
        /\ refused \subseteq {t \in Tokens : refund[t] > 0 /\ <<t, auction.highestBidder>> \in Refusing}
        /\ auctions' = [auctions EXCEPT ![p] = next]
        /\ balance' = [t \in Tokens |-> PaidOut(balance, refund, refused)[t] + income[t]]
        /\ tokenDebt' = IF HasBid(auction)
                        THEN DebtTracked(tokenDebt, auction.highestBidder, refund, refused) ELSE tokenDebt
        /\ totalTokenDebt' = TotalTracked(totalTokenDebt, refund, refused)
        /\ UNCHANGED <<badDebt, cash, fund, settings, auctionsPaused, block>>

-----------------------------------------------------------------------------
(* Closing *)

\* faulty: the bad debt is lowered by what was sent, not by what arrived
RecoveredAsSent(auction, m) == auction.bidAmount[m]

\* what market m receives and passes to badDebtRecovered
Recovered(auction, m) == Received(Underlying[m], auction.bidAmount[m])

\* faulty: an auction cannot be closed while auctions are paused
MayCloseUnlessPaused(auction) ==
    /\ ~auctionsPaused
    /\ HasBid(auction)
    /\ block > auction.highestBidBlock + settings.nextBidderBlockLimit

MayClose(auction) == HasBid(auction) /\ block > auction.highestBidBlock + settings.nextBidderBlockLimit

CloseAuction(p, refused) ==
    LET auction == auctions[p]
        sent    == PerToken(p, auction.bidAmount)
        payout  == [t \in Tokens |-> IF t = BaseAsset THEN Payout(auction) ELSE 0]
        held    == [t \in Tokens |-> balance[t] - sent[t] + Received(t, payout[t])]
    IN  /\ MayClose(auction)
        /\ \A t \in Tokens : balance[t] >= sent[t]
        /\ \A m \in MarketsOf(p) : Recovered(auction, m) <= badDebt[m]
        /\ Payout(auction) <= fund[p] /\ Payout(auction) <= held[BaseAsset]
        /\ refused \subseteq {t \in {BaseAsset} : <<t, auction.highestBidder>> \in Refusing}
        /\ auctions' = [auctions EXCEPT ![p].status = "ENDED"]
        /\ badDebt' = [m \in Markets |-> IF PoolOf[m] = p THEN badDebt[m] - Recovered(auction, m) ELSE badDebt[m]]
        /\ cash' = [m \in Markets |->
               IF PoolOf[m] = p THEN cash[m] + Received(Underlying[m], auction.bidAmount[m]) ELSE cash[m]]
        /\ fund' = [fund EXCEPT ![p] = @ - Payout(auction)]
        /\ balance' = PaidOut(held, payout, refused)
        /\ tokenDebt' = DebtTracked(tokenDebt, auction.highestBidder, payout, refused)
        /\ totalTokenDebt' = TotalTracked(totalTokenDebt, payout, refused)
        /\ UNCHANGED <<settings, auctionsPaused, block>>

-----------------------------------------------------------------------------
(* Starting *)

\* a pool's bad debt in dollars, each market's part truncated
PoolBadDebt(p, prices) ==
    Total([m \in Markets |-> IF PoolOf[m] = p THEN MulScalarTruncate(prices[m], badDebt[m]) ELSE 0], NumMarkets)

WithIncentive(debt) == debt + (debt * settings.incentiveBps) \div MAX_BPS

\* faulty: the incentive is left out
StartBidWithoutIncentive(debt, fundValue) == (MAX_BPS * fundValue) \div debt

\* the share of the debt that is worth the whole fund less the incentive
StartBid(debt, fundValue) ==
    (MAX_BPS * MAX_BPS * fundValue) \div (debt * (MAX_BPS + settings.incentiveBps))

\* faulty: the incentive is forgotten in the comparison
DebtAloneIsLarge(debt, fundValue) == debt >= fundValue

\* the fund does not cover the debt and the incentive: LARGE_POOL_DEBT
DebtIsLarge(debt, fundValue) == WithIncentive(debt) >= fundValue

\* the auction that _startAuction writes
StartedAuction(auction, p, debt, fundValue) ==
    LET large == DebtIsLarge(debt, fundValue)
    IN  [auction EXCEPT !.status = "STARTED", !.startBlock = block,
                        !.highestBidder = Nobody, !.highestBidBps = 0, !.highestBidBlock = 0,
                        !.marketDebt = [m \in Markets |-> IF PoolOf[m] = p THEN badDebt[m] ELSE 0],
                        !.auctionType = IF large THEN "LARGE_POOL_DEBT" ELSE "LARGE_RISK_FUND",
                        !.startBidBps = IF large THEN StartBid(debt, fundValue) ELSE MAX_BPS,
                        !.seizedRiskFund = IF large THEN fundValue ELSE WithIncentive(debt)]

\* _startAuction, for an auction that is not running
Start(p, prices, basePrice) ==
    LET debt      == PoolBadDebt(p, prices)
        fundValue == MulScalarTruncate(basePrice, fund[p])
    IN  /\ debt >= settings.minimumPoolBadDebt
        /\ DebtIsLarge(debt, fundValue) => debt # 0     \* the start bid divides by the debt
        /\ auctions' = [auctions EXCEPT ![p] = StartedAuction(@, p, debt, fundValue)]
        /\ UNCHANGED <<badDebt, cash, fund, balance, tokenDebt, totalTokenDebt, settings,
                       auctionsPaused, block>>

StartAuction(p, prices, basePrice) ==
    /\ ~auctionsPaused
    /\ ~Started(auctions[p])
    /\ Start(p, prices, basePrice)

RestartAuction(p, prices, basePrice) ==
    /\ ~auctionsPaused
    /\ Started(auctions[p]) /\ Stale(auctions[p])
    /\ Start(p, prices, basePrice)

-----------------------------------------------------------------------------
(* Claims, governance, environment *)

\* faulty: more can be claimed than is owed
ClaimUnchecked(t, user, amount) ==
    /\ amount <= balance[t]
    /\ tokenDebt' = [tokenDebt EXCEPT ![t][user] = @ - amount]
    /\ totalTokenDebt' = [totalTokenDebt EXCEPT ![t] = @ - amount]
    /\ balance' = [balance EXCEPT ![t] = @ - amount]
    /\ UNCHANGED <<auctions, badDebt, cash, fund, settings, auctionsPaused, block>>

\* claimTokenDebt; type(uint256).max claims everything owed
ClaimTokenDebt(t, user, amount) ==
    /\ amount <= tokenDebt[t][user] /\ amount <= balance[t]
    /\ tokenDebt' = [tokenDebt EXCEPT ![t][user] = @ - amount]
    /\ totalTokenDebt' = [totalTokenDebt EXCEPT ![t] = @ - amount]
    /\ balance' = [balance EXCEPT ![t] = @ - amount]
    /\ UNCHANGED <<auctions, badDebt, cash, fund, settings, auctionsPaused, block>>

UpdateMinimumPoolBadDebt(new) ==
    /\ settings' = [settings EXCEPT !.minimumPoolBadDebt = new.minimumPoolBadDebt]
    /\ UNCHANGED <<auctions, badDebt, cash, fund, balance, tokenDebt, totalTokenDebt, auctionsPaused, block>>

UpdateIncentiveBps(new) ==
    /\ settings' = [settings EXCEPT !.incentiveBps = new.incentiveBps]
    /\ UNCHANGED <<auctions, badDebt, cash, fund, balance, tokenDebt, totalTokenDebt, auctionsPaused, block>>

UpdateNextBidderBlockLimit(new) ==
    /\ settings' = [settings EXCEPT !.nextBidderBlockLimit = new.nextBidderBlockLimit]
    /\ UNCHANGED <<auctions, badDebt, cash, fund, balance, tokenDebt, totalTokenDebt, auctionsPaused, block>>

UpdateWaitForFirstBidder(new) ==
    /\ settings' = [settings EXCEPT !.waitForFirstBidder = new.waitForFirstBidder]
    /\ UNCHANGED <<auctions, badDebt, cash, fund, balance, tokenDebt, totalTokenDebt, auctionsPaused, block>>

PauseAuctions ==
    /\ ~auctionsPaused
    /\ auctionsPaused' = TRUE
    /\ UNCHANGED <<auctions, badDebt, cash, fund, balance, tokenDebt, totalTokenDebt, settings, block>>

ResumeAuctions ==
    /\ auctionsPaused
    /\ auctionsPaused' = FALSE
    /\ UNCHANGED <<auctions, badDebt, cash, fund, balance, tokenDebt, totalTokenDebt, settings, block>>

\* external: healBorrow writes off a borrow of market m
BadDebtGrows(m, amount) ==
    /\ badDebt[m] + amount <= MaxBadDebt
    /\ badDebt' = [badDebt EXCEPT ![m] = @ + amount]
    /\ UNCHANGED <<auctions, cash, fund, balance, tokenDebt, totalTokenDebt, settings, auctionsPaused, block>>

\* external: reserves are released into the risk fund
FundGrows(p, amount) ==
    /\ fund[p] + amount <= MaxFund
    /\ fund' = [fund EXCEPT ![p] = @ + amount]
    /\ UNCHANGED <<auctions, badDebt, cash, balance, tokenDebt, totalTokenDebt, settings, auctionsPaused, block>>

Tick ==
    /\ block < MaxBlock
    /\ block' = block + 1
    /\ UNCHANGED <<auctions, badDebt, cash, fund, balance, tokenDebt, totalTokenDebt, settings, auctionsPaused>>

Close(p) == \E refused \in SUBSET {BaseAsset} : CloseAuction(p, refused)

Next ==
    \/ \E p \in Pools, u \in Users, bps \in Bids, start \in 0..MaxBlock, refused \in SUBSET Tokens :
           PlaceBid(p, u, bps, start, refused)
    \/ \E p \in Pools : Close(p)
    \/ \E p \in Pools, prices \in MarketPrices, basePrice \in BasePrices : StartAuction(p, prices, basePrice)
    \/ \E p \in Pools, prices \in MarketPrices, basePrice \in BasePrices : RestartAuction(p, prices, basePrice)
    \/ \E t \in Tokens, u \in Users : \E amount \in Claims \cup {tokenDebt[t][u]} : ClaimTokenDebt(t, u, amount)
    \/ \E new \in SettingChoices : UpdateMinimumPoolBadDebt(new)
    \/ \E new \in SettingChoices : UpdateIncentiveBps(new)
    \/ \E new \in SettingChoices : UpdateNextBidderBlockLimit(new)
    \/ \E new \in SettingChoices : UpdateWaitForFirstBidder(new)
    \/ PauseAuctions
    \/ ResumeAuctions
    \/ \E m \in Markets, amount \in Growth : BadDebtGrows(m, amount)
    \/ \E p \in Pools, amount \in Growth : FundGrows(p, amount)
    \/ Tick

\* Time passes, and an auction that may be closed is closed: anybody may do it
\* and the winner is paid for it.  Nothing obliges anybody to bid or to start.
Fairness == WF_vars(Tick) /\ \A p \in Pools : WF_vars(Close(p))

Spec == Init /\ [][Next]_vars /\ Fairness

-----------------------------------------------------------------------------
(* Properties *)

\* Type invariant of the auctions and of the contract's books.
TypeOK ==
    /\ auctions \in [Pools -> Auction]
    /\ badDebt \in [Markets -> Nat] /\ cash \in [Markets -> Nat]
    /\ fund \in [Pools -> Nat]
    /\ balance \in [Tokens -> Nat]
    /\ tokenDebt \in [Tokens -> [Users -> Nat]] /\ totalTokenDebt \in [Tokens -> Nat]
    /\ settings \in Settings
    /\ auctionsPaused \in BOOLEAN
    /\ block \in Nat

\* the tokens t that running auctions hold for their highest bidders
LiveBids(t) ==
    Total([m \in Markets |-> IF Underlying[m] = t /\ HasBid(auctions[PoolOf[m]])
                             THEN auctions[PoolOf[m]].bidAmount[m] ELSE 0], NumMarkets)

\* The one balance per token that all auctions share is exactly what the live
\* bids and the users with refused payouts are owed: no refund, closing or claim
\* is paid from what belongs to somebody else, and nothing stays behind
\* (placeBid, closeAuction, claimTokenDebt).
Backed ==
    \A t \in Tokens : /\ totalTokenDebt[t] = Total(tokenDebt[t], NumUsers)
                      /\ balance[t] = LiveBids(t) + totalTokenDebt[t]

\* A running auction without a bid can get one: the minimum bid computed by
\* _startAuction never exceeds the maximum that placeBid accepts.
FirstBidPossible ==
    \A p \in Pools : Started(auctions[p]) /\ ~HasBid(auctions[p])
                     => \E bps \in 1..MAX_BPS : Improves(auctions[p], bps)

\* Whatever happens to markets and fund between bid and closing, closeAuction
\* does not revert: the markets still carry the debt that the bid repays and
\* the fund still holds the payout (base asset at most at one dollar).
ClosableOnceBid ==
    \A p \in Pools : HasBid(auctions[p]) =>
        /\ \A m \in MarketsOf(p) : Recovered(auctions[p], m) <= badDebt[m]
        /\ Payout(auctions[p]) <= fund[p]

\* A live bid is given up only for one that is at least as good for every market
\* and for the fund, under the terms of the same auction, or for the closing.
OfferOnlyImproves ==
    [][\A p \in Pools :
          LET old == auctions[p]
              new == auctions'[p]
          IN  HasBid(old) =>
                  \/ new.status = "ENDED"
                  \/ /\ HasBid(new) /\ new.startBlock = old.startBlock
                     /\ Payout(new) <= Payout(old)
                     /\ \A m \in MarketsOf(p) : new.bidAmount[m] >= old.bidAmount[m]]_vars

\* Bad debt is written down by exactly what reaches the market, also when the
\* underlying takes a fee on the way (closeAuction, VToken.badDebtRecovered).
RecoveryMatchesReceipt ==
    [][\A m \in Markets : badDebt'[m] < badDebt[m] => badDebt[m] - badDebt'[m] = cash'[m] - cash[m]]_vars

\* Two auctions of a pool never share a start: the start that a bidder passes to
\* placeBid says which auction his bid is for.
StartIdentifiesAuction ==
    [][\A p \in Pools : auctions[p].status # "NOT_STARTED" /\ auctions'[p] # auctions[p]
                            /\ auctions'[p].status = "STARTED" /\ ~HasBid(auctions'[p])
                        => auctions'[p].startBlock > auctions[p].startBlock]_vars

\* An auction with a bid is eventually closed, also while auctions are paused.
BidCloses == \A p \in Pools : HasBid(auctions[p]) ~> auctions[p].status = "ENDED"

\* "The auction winner then exchanges for the entire risk fund": closing an
\* auction of a large debt takes all of the pool's fund (closeAuction).
WinnerTakesWholeFund ==
    [][\A p \in Pools : HasBid(auctions[p]) /\ auctions'[p].status = "ENDED"
                            /\ auctions[p].auctionType = "LARGE_POOL_DEBT" => fund'[p] = 0]_vars
=============================================================================
