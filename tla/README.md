# Enclabs protocol: TLA+ specifications

Specifications, model-checking configurations and machine-checked proofs for
the Solidity contracts in `contracts/` and the scripts in `deploy/` that put them
on a network.  The repository's code is the reference:
every definition is translated from the lines that `PROJECT.json` ("map") names.

## The system

Enclabs is a lending protocol of isolated pools.  Suppliers put an ERC-20 token
into a *market* (VToken) and receive vTokens; borrowers take from the market
against vTokens of any market of the same *pool*; a pool's Comptroller decides
which calls may happen.  What liquidations cannot cover becomes bad debt, which
the Shortfall contract auctions off against the risk fund.

| component | state | operations | talks to |
|---|---|---|---|
| `VToken.sol` | cash (its ERC-20 balance), totalBorrows, totalReserves, badDebt, borrowIndex, totalSupply, a balance and a borrow snapshot per account, slot of the last accrual and of the last sweep of reserves | accrueInterest, mint, redeem, borrow, repay, liquidate, seize, healBorrow, reserves, badDebtRecovered, transfer | every call first accrues, then asks the Comptroller's hook, then writes and moves the token; a liquidation calls the collateral market |
| `Comptroller.sol` | listed markets, membership (twice: mapping and list), factors, caps, pauses, forced liquidation, delegates | enter/exit, the pre-hooks, healAccount, liquidateAccount, governance setters, unlistMarket | reads every market of an account and the oracle; drives seize, healBorrow, forceLiquidateBorrow |
| `Shortfall.sol`, `TokenDebtTracker.sol` | an auction per pool, bids, debts of failed transfers | start, bid, close, restart, pause, parameters, claimTokenDebt | reads badDebt, calls badDebtRecovered, takes from the risk fund |
| `RewardsDistributor.sol` | indices per market and account, accrued rewards, last rewarding slot | update/distribute from the hooks, claim, speeds | called by every comptroller hook, reads vToken balances |
| `ECLVaults.sol`, `ECLStore.sol` | stakes, withdrawal queue, reward per share, reward debts, vote checkpoints | deposit, requestWithdrawal, executeWithdrawal, claim, delegate, pool settings | store pays rewards; governor reads votes |
| `GovernorBravoDelegate.sol`, `Timelock.sol`, `TimelockV8.sol` | proposals, votes, receipts; queued transaction hashes, delay | propose, vote, queue, execute, cancel | governor is the timelock's admin; three routes, three timelocks |
| `ECL.sol` | balances, delegates, checkpoints | transfer, delegate | - |
| `ProtocolShareReserve.sol` | reserves per pool, asset and schema; targets | updateAssetsState, releaseFunds, configs | called by markets after they pay in |
| `PoolRegistry.sol` | pools, market per asset | addPool, addMarket | configures a comptroller, mints the initial supply |
| `ResilientOracle.sol` | main, pivot and fallback oracle per asset | getPrice, updatePrice, configs | called by comptroller and Shortfall |
| rate models | parameters | getBorrowRate | called by accrueInterest |
| `NativeTokenGateway.sol` | none of its own | wrap/unwrap around market calls | one market |
| `deploy/`, `helpers/deploymentConfig.ts` | the deployments a network has, their owners, permissions and settings; pools and markets in the registry | one script per part: deploy, configure, hand over, propose | hardhat-deploy, every contract above, governance |

### What is hard here

* **Truncation.** Every conversion between underlying, vTokens, dollars and
  index truncates; counters and sums of balances are truncated apart.
* **Staleness.** Interest accrues per market when somebody calls it.  Liquidity
  is computed from the other markets' *stored* values; `liquidateAccount` judges
  before it accrues; `healBorrow` and `seize` rely on somebody having accrued.
* **Redundant state.** Membership is a mapping and a list; totalSupply,
  totalBorrows, totalReserves are counters beside mappings and beside a real
  token balance that anyone may increase.
* **Regimes.** An account in shortfall is for `liquidateBorrow`,
  `liquidateAccount` or `healAccount`, by comparisons that must leave no gap.
* **Long sequences.** Unlisting, pausing, caps and forced liquidation interact
  with debts that already exist.
* **Timeouts, refunds, queues** in Shortfall, rewards, vault and governance.

* **Crashes of the deployment.** A script sends many transactions and may die, or
  be reverted, between any two; it is run again, while governance acts.

A transaction is atomic: a revert anywhere undoes all of it.  The contracts know no
threads, crashes or lost messages; their concurrency is the order of transactions
and of the slots (blocks or seconds) between them, and calls from one contract
into another inside a transaction.

### What makes each component correct

* market: supply is the sum of balances; what backs the vTokens never becomes
  negative and never shrinks per vToken; debt disappears only against payment or
  as recorded bad debt; reserves are not lent.
* pool: nobody borrows beyond his collateral; nobody is seized from unless
  unsafe; every unsafe account has a way out; bad debt only after the collateral
  is gone; membership is consistent; unlisted markets are frozen.
* Shortfall: the contract holds every live bid and every tracked debt; bids
  only improve; bad debt falls by what the market received; an auction that has
  a bid can be closed.
* rewards: everybody gets his part of the speed in every slot until rewarding stops,
  and all together never more than was emitted.
* vault: stakes and pending withdrawals are covered by the balance; each reward
  is paid once; votes equal stakes.
* governance: nothing executes before its delay or without having succeeded,
  nothing cancelled executes, no stake votes twice.
* deployment: every configured market is listed in the end, with the rates configured
  for it; what is handed over is configured; what is priced has a feed.
* oracle, rate models, registry, reserve: prices validated by pivot or fallback;
  rates monotone and bounded; one market per asset and pool; reserves booked equal
  the balance and are released once.

## Modules

    ExponentialNoError      fixed-point arithmetic
    Sums                    sums over accounts, used by properties
    VTokenOps               handlers of one market as operators on a record
     |-- VToken             one market under any comptroller      <- MCVToken
     |-- IsolatedPool       comptroller and several markets       <- MCPool
    Shortfall               auctions of bad debt, tracked debts   <- MCShortfall
    RewardsDistributor      rewards and the hooks that settle     <- MCRewardsDistributor
    ECLVault                stakes, votes, withdrawals, rewards   <- MCECLVault
    Proposals               what governance promises (abstract)
    Timelock                handlers of TimelockV8 on a record
     |-- Governance         governor and timelocks; implements
                            Proposals                             <- MCGovernance
    DeploymentConfig        the configured networks
     |-- Deployment         the deployment scripts                <- MCDeployment
    SumsProofs, VTokenProofs, IsolatedPoolProofs, ShortfallProofs,
    RewardsDistributorProofs, ECLVaultProofs, GovernanceProofs,
    DeploymentProofs                                              TLAPS

`VTokenOps` translates each handler of `VToken.sol` into a guard (all requires,
checked subtractions and divisions on the way) and an effect on a market record;
the fields have the contract's names.  Two fields are external: `cash` is the
vToken's ERC-20 balance, `income` what the ProtocolShareReserve received from
the market.  Both state machines use the same operators, so that what is proved
about a handler holds in both.

**VToken.tla** lets the environment play the comptroller: a call either happens
or does not, and calls that only the comptroller, another market or Shortfall may
make carry any argument.  `healBorrow` and `seize` check no accrual slot, so neither does their
action here.  Its results hold for every comptroller.  Names it
would share with IsolatedPool start with VToken (`VTokenMint`, `VTokenTypeOK`),
so that `IsolatedPoolProofs` can extend `VTokenProofs`.  Every action
starts from `accrued`, the market after `accrueInterest`, except where the code
does not accrue (transfer, healBorrow, seize, badDebtRecovered,
setProtocolSeizeShare, plain ERC-20 transfers to the contract).

**IsolatedPool.tla** puts `Comptroller.sol` in front of several markets: one
action is one transaction across all the markets it touches.
`_getHypotheticalLiquiditySnapshot` is `Snapshot`, `Effects` and `Shortfall`;
`accountAssets` and `accountMembership` are both kept; `liquidateAccount` folds
its orders over the markets; `healAccount` maps over the account's markets.
The oracle (external) reports any price of a set, 0 being invalid.  Initially all
markets are listed and hold the initial supply `PoolRegistry.addMarket` mints.

**Shortfall.tla** is `Shortfall.sol` with the `TokenDebtTracker` it inherits.  Of
the markets it keeps what the auctions read and write: `badDebt`, raised from
outside as `healBorrow` does and lowered through `badDebtRecovered`, and `cash`, what the
market received.  `_startAuction` is `Start`, shared by `StartAuction` and
`RestartAuction`; the auction record it writes is `StartedAuction`.  The contract
has one balance per token for all pools, so a pool's amounts per market become
amounts per token (`PerToken`; the registry lists one market per asset and
pool).  `_transferOutOrTrackDebt` is `PaidOut` with `DebtTracked` and
`TotalTracked`: the set `refused` says which tokens did not transfer.  External:
tokens that keep a fee of a transfer or refuse a receiver, the
risk fund (pays what it holds for the pool or reverts) and the oracle (any
price of a set).

**RewardsDistributor.tla** keys the state by side, a market's suppliers or its
borrowers, since `_updateRewardTokenSupplyIndex` and `...BorrowIndex`, and the two
`_distribute...` functions, are the same code over different storage
(`IndexUpdated`, `Distribute`); block- and time-based contracts differ only in the
unit of a slot.  Of the markets it keeps what is supplied (`tokens`), the snapshots of
what is borrowed (`loans`) and the borrow index, the total and its accrual slot (`market`).  They change in actions that
run the comptroller's hook first, as VToken does, except `HealBorrow`, which calls the hook
only when something is repaid, and `AccrueInterest`, which truncates the interest of the index and of the total
each for itself, as VToken does.  The distributor reads the two sides differently.  A supplier's share is his vTokens, and the
total is their sum.  A borrower's `Share` is the balance, truncated, over the index, truncated again
(RewardsDistributor.sol:538), and the total `Reported` is totalBorrows over the index, truncated (653): the shares may add up
to less, or, where totalBorrows has lost interest (finding 1), to more.  `holding` is what a borrower has, the
units of the borrow index in his snapshot, which interest does not change; a share is that or one unit less.
Initially the pool has added the distributor, as `deploy/013` does before it sets
speeds.  In the other order the code misbehaves: a last rewarding block that passes before
`addRewardsDistributor` makes `sub_` revert in every hook (RewardsDistributor.sol:591), for good,
since such a block can no longer be changed (RewardsDistributor.sol:374).
What everybody should get is recorded apart from the indices: each slot adds his part of the speeds, rounded
down to `least` and up to `most`, and the speeds to `emitted`.  `dust` is what truncation may
keep of it: the remainder of a settlement (`Delta`), the unit a share may miss (`ReadingLoss`), and at an update
the ratio's remainder and the ratio on what is reported but held by nobody (`UpdateLoss`).
`surplus` is what updates gave beyond the speeds, the ratio on what is held but not reported (`UpdateGain`).
All are histories: no operation reads them.

**ECLVault.tla** keeps of every reward token its pools, and of every account its position
with the withdrawal requests in the order of the array; `WithRequest` and `Kept` are
the loops that push and pop.  `TransferReward` includes `ECLStore.safeRewardTransfer`.  `emitted`,
`granted`, `funded` and `settlements` are history for the properties.  Requests from
before an upgrade of the vault are left out: a vault deployed with this code has none.
`VotesMatchStake` is conditional: `add` does not keep governance from making ECL a staked
token for another reward token, and then `getStakeAmount` (ECLVaults.sol:669) no longer sees
what `deposit` counted.

**Timelock.tla** and **Governance.tla** are TimelockV8 and GovernorBravoDelegate.  A proposal
carries an abstract list of calls, two of which matter: one changes the timelock's own delay, one
its admin.  Types of proposals are routed to timelocks; the deployment routes NORMAL and
CRITICAL to the same one (deploy/Governance/006-governor.ts:45).  The vault is seen through
`getPriorVotes`; one clock stands for blocks and seconds.  A timelock's admin may be somebody else: the
account it is deployed with, or the one a proposal names and who accepts.  He queues calls of his own, runs and cancels what is in
the queue and names the next admin, all without the governor (`QueueTransaction`, `ExecuteTransaction`,
`CancelTransaction`, `SetPendingAdmin`).  **Proposals.tla** states what
governance promises without votes, queues or times: a proposal moves from pending to executed,
defeated, expired or canceled by steps of these kinds only, and what a timelock performs
for the governor is the whole content of an approved proposal, after its notice and once.
`KeepsPromise` maps the governor's `state()` to the abstract status.

**DeploymentConfig.tla** holds what `getConfig` and `deploymentConfigOracle.ts` say of the two
live networks, Sonic and Arbitrum One, as far as a decision of a script depends on it: pools,
markets, assets, rate models, feeds.  **Deployment.tla** makes each script a sequence of transactions
computed from the chain when it begins (`StepsOf`), and each transaction an action.
`deploy` of a name that exists sends nothing; all else is sent again by a re-run.  A script ends
(`Finish`), is reverted or throws (`Abort`), or dies between two transactions (`Interrupt`).
External: hardhat-deploy, and governance, which accepts all pending ownerships in one proposal and
registers all pools in another.  The deployer is the access control's admin and gives himself the permissions that a script
asks for.  The market script asks for none: the permissions to call `setReduceReservesBlockDelta` (VToken.sol:706) and
`addMarket`, which it sends for every market, are in no script, since `configureAccessControls` is commented out
(013-vip-based-config.ts:391) and `deployerPermissions` is empty.  Without them the script reverts at its first market, on
every re-run.  `PermitListing` is the grant that somebody has to send by hand.  Assumed:
`addMarket`'s other conditions hold (an `Interrupt` has the effect of their failure), each
network is deployed afresh.

Reverts are disabled actions.  Outside of the deployment access
control is not modelled: governance may call each of its functions at any time with the configured values.  uint256
overflow is out of reach at the modelled amounts; underflow is a guard.

## Runs

EXP_SCALE is 4 in the market, pool, auction and rewards runs (1e18 in the contracts) and MAX_BPS 10 (10000): amounts
below ten then truncate in every conversion.

| run | bounds | shows |
|---|---|---|
| `market` (MCVToken.cfg) | 2 accounts, amounts 0 and 3, 1 or 2 vTokens, slots 0..2, at most 4 units of underlying and 3 lent | accounting of a market: 6 properties |
| `market_full_repayment` (MCVTokenRepay.cfg) | amounts 1 and 3, slots 0..3 | finding: full repayment may revert |
| `pool_risk` (MCPoolRisk.cfg) | 2 accounts, 2 markets, 5 prices of the collateral, batches of up to 2 orders, 1 accrual | liquidity and the three liquidation regimes |
| `pool_governance` (MCPoolGovernance.cfg) | same pool, whole-market pauses, zero caps and factors, liquidations forced in either market, both or none, a delegate, invalid price | membership, unlisting and forced liquidation |
| `pool_settlement` (MCPoolSettle.cfg) | account 1 may borrow in both markets, market 2 may be unlisted | finding: a debt survives liquidateAccount |
| `shortfall_pools` (MCShortfallPools.cfg) | 2 pools with 3 markets over 2 tokens, a 50 % transfer fee on one, 2 users, refused refunds, bids of 80 and 100 %, slots 0..4 | the shared balance, bids and recoveries |
| `shortfall_pool` (MCShortfallPool.cfg) | 1 pool with 2 markets, the debts and the fund growing by 2 at any time, base asset at 0.75 and 1 dollar, all settings and the pause | starting, restarting and closing, with liveness |
| `shortfall_winner` (MCShortfallWinner.cfg) | 1 pool, base asset at 0.75 dollars | finding: part of the fund stays |
| `rewards` (MCRewardsDistributor.cfg) | 1 market, 2 accounts holding up to 3 units, interest of 3/4 per accrual, speeds 0 and 2, slots 1..4, 3 calls besides accruals | rewards follow holdings and stay within what is emitted |
| `vault` (MCECLVault.cfg) | 2 stakers, the ECL pool and another sharing its emission at rate 1 or 3, lock periods 1 and 2, slots 1..3, 4 calls besides adding pools | votes, withdrawal requests and rewards |
| `governance` (MCGovernance.cfg) | 2 voters with 2 and 1 votes, 2 types over 1 timelock, 4 drafts of which one is part of another and two change the timelock, 2 proposals, 1 delegation, time 0..8; another admin queues any call for any eta up to 9 | the lifecycle of proposals, as a refinement of Proposals |
| `deployment` (MCDeployment.cfg) | 2 networks, 7 runbooks each that cover every script the networks run, re-runs of any earlier script, 1 crash | configuration, hand-over and listing, with liveness |

Why the bounds are enough.  Initial rate 6/4 and scale 4 make mint, redeem and
seize round in both directions; two slots reach an accrual with and one without
the automatic sweep of reserves (delta 2), and the accrual that drains cash below
reserves.  In the pool, the prices put the one borrower above and below the
collateral factor, the liquidation threshold, the minimal liquidatable
collateral and the incentive-weighted debt, so all three regimes and the states
between them occur; two orders in a batch repay one debt twice at different
exchange rates.  In `pool_governance` the borrower's debt and his collateral are in
different markets, so that forcing the one exposes him, also while he is safe, and forcing the other must not.  Of the two auctioned pools one has a large debt and one a
large fund, and they share the token that is also the base asset, so that a
refund, a closing and a claim can compete for one balance; both of two bidders
displace each other, and one of them may be refused by either token.  In `shortfall_pool` the debt of an auctioned market and
the fund both grow between a bid and its closing, and the debt of a market grows again after what was recovered.
In `rewards`, both accounts borrow and one supplies before any reward, so the first index matters;
three calls are enough for speeds, a move, and a claim that the balance does not cover or does,
in slots before, at and after the last rewarding block; totals up to 3 do not divide DoubleScale 4,
so that updates truncate as well as settlements.  Three quarters of interest on an index of 4 is exact at first
and truncated from then on: after two accruals a share is a unit short of the holding, and the two debts add up to
more than the total they are divided by, so that the properties fail there without `dust` and `surplus`.  In `vault`,
three slots give three checkpoints, the fewest with a step of the bisection, and requests whose order the
lock period turns around; stake 2 of which 1 is asked back, and pools with unequal stake,
reach every rounding.  In `governance`, quorum 3 needs both voters, time 8 is enough for two
proposals through vote, delay and grace, one after the other or side by side, and for an admin who takes over to
queue, run and cancel in between.  In `deployment`
one runbook per part keeps apart what does not interact; one crash is enough since a
re-run starts from the chain alone.  The
bounds (MaxBlock, LastBlock, MaxUnderlying, MaxDebt, MaxOrders, MaxBadDebt, MaxFund, LastBid,
MaxSlot, MaxHolding, MaxPools, MaxTime, MaxOperations, MaxProposals, MaxMoves, MaxEta, MaxInterruptions)
appear as guards and are named in the modules.

Every property has a faulty variant of a handler next to it in the module
(comments "faulty:"), with which the run fails: the runs do reach the situations
the properties speak of.

### Fairness and liveness

Nothing obliges anyone to call a market or a pool, and the code promises nothing
without a caller: `VToken` and `IsolatedPool` assume no fairness, and the invariant
`NoResolutionGap` is the safety side of "every unsafe account can be resolved".

`Shortfall` assumes weak fairness of `Tick`, time passes, and of closing each pool's
auction once it may be closed: `closeAuction` is open to anybody, and its
highest bidder has paid and gets the fund only by it.  Under these two, `BidCloses`
says that an auction with a bid ends, in spite of pauses, of limits that governance
changes, of later bids (finitely many below MAX_BPS) and of debts and funds that
move meanwhile.  Bids arrive until slot LastBid; LastBid plus the longest limit is less
than MaxBlock, so the bound on time never stops a closing.  No fairness is assumed of
bids, starts or governance.

`Deployment` assumes that a running script goes on (weak fairness of its next transaction, of its
end and of its failure), and that the operator, whenever no script runs, goes on
to the next of the runbook and from time to time re-runs the market script: his work, which the scripts'
idempotence is written for.  These are strong fairness of the two, written out since the
enabling conditions are simple.  Crashes are not prevented, but are finite.  Nothing is assumed of
governance: `EveryMarketListed` starts from the state in which it has registered the pools and the permissions to
list (`ListingPermissions`) have been granted, which nothing in the repository does.

`RewardsDistributor`, `ECLVault` and `Governance` assume none: nothing obliges anyone to claim, vote, queue
or execute.

### Findings

1. `FullRepaymentPossible` fails.  totalBorrows truncates the interest on the
   total, borrowIndex compounds: after two slots an account that borrowed 1 owes 2
   while totalBorrows is 1, and `repayBorrow(max)`, documented as repaying "the
   full outstanding amount" (VToken.sol:412), underflows at VToken.sol:1120.
   The gap is a few wei per account in the deployed scale; the last borrower of a market
   meets it.
2. `SmallAccountsSettled` fails.  `getAssetsIn` leaves out unlisted markets, so
   `liquidateAccount` settles only the borrows in listed ones, against
   "Both functions settle all of an account's borrows" (VToken.sol:41, README.md:74).
   The remaining borrow can neither be repaid (REPAY is paused and cannot be unpaused
   for an unlisted market) nor seized for.

3. `WinnerTakesWholeFund` fails.  `_startAuction` stores the fund's value in dollars
   (Shortfall.sol:447-465), and `closeAuction` takes that number as an amount of the base
   asset.  With a base asset below a dollar, the winner of a large-debt auction does not
   get "the entire risk fund" (Shortfall.sol:28).  Above a dollar the same unit makes
   `transferReserveForAuction` ask for more than the fund holds: `ClosableOnceBid` fails
   with BasePrices = {5}, the winner's closing reverts and his bid stays in the contract until
   the fund has grown.  The other Shortfall runs keep the price at or below a dollar.

Noted while modelling, without a run of their own:

* `_initiate` calls `acceptOwner()` on the timelocks (GovernorBravoDelegate.sol:751).  TimelockV8 has
  no such function; its payable fallback (TimelockV8.sol:82) takes the call and does nothing, so the
  governor does not become admin by it.
* `cancel` calls the timelock's cancelTransaction for every action, which reverts unless it is
  queued (TimelockV8.sol:203): a proposal can only be cancelled once queued, while
  GovernorBravoDelegate.sol:79-80 says it can be cancelled "at anytime before it is queued".
* A cancelled proposal may be cancelled again.  If another proposal has queued the
  same call for the same eta on the same timelock, its transaction is deleted and it can
  no longer execute, though its state stays Queued.
* `UnregisteredRewardsDistributors`: the lookup in deploymentUtils.ts:125 uses a name no deployment
  has, so each run treats every configured distributor as unregistered; deploy makes that harmless.
* Oracles/1-deploy-oracles.ts:45 takes a CriticalTimelock address that deploymentConfigOracle.ts:92
  does not give for arbitrumone; the hand-over at line 130 then has no address to transfer to.
* Oracles/4-vip-based-configuration.ts looks up a ChainlinkOracle, which arbitrumone, with its SequencerChainlinkOracle,
  does not have: the script throws there before it sends anything, so that in the run only Sonic's asset
  exercises `PricedAssetsHaveFeeds`.
* No script permits the deployer to send what 013 sends for each market (see Deployment above).
* The comptroller judges an account by stored debts and rates: after an allowed borrow, accruing the other markets
  may show a shortfall.  `NoSelfInflictedShortfall` reads the values that the check reads and does not speak of it.

## Proofs

### One market

Checked by TLAPS for every number of accounts, scale, rate model, and every
value of the other constants, from the named assumptions `ExpScaleAssumption`,
`VTokenOpsAssumption` and `VTokenAssumption` (naturals, positive scale and initial
exchange rate, a reserve factor of at most one).  Nothing is assumed of the comptroller.

* `TypeCorrect` (VTokenSpec => []VTokenTypeOK): no amount becomes negative.
* `SupplyCorrect` (VTokenSpec => []SupplyIsSumOfBalances).
* `ReservesCorrect` (VTokenSpec => []ReservesBacked).
* `RateNeverFalls`, `DebtsPaidOrRecognised` and `ReservesLiquid`, the three step properties.

The three invariants are proved together, since none is inductive alone.  The inductive
invariant is `MarketInv` in VTokenProofs: the market is typed, supply is the sum of
balances, and net underlying is not negative.  The burnt part of a seizure is only
covered by totalSupply because the balances sum to it; a redemption keeps net
underlying non-negative only because its amount is at most rate times tokens and tokens
at most the supply; interest keeps it because the reserve factor is at most one.
`VTokenProofs` first has one lemma per handler (its guard and MarketInv give MarketInv after it),
resting on lemmas about truncating arithmetic and on `SumsProofs` (changing one or two
entries changes a sum by their difference), and then lifts them to the actions and to
VTokenSpec; `IsolatedPoolProofs` uses the handlers' lemmas again.

The step properties are one predicate on the market before and after, `Fair`: the rate does not fall
(`RateHeld`), no debt falls by more than was received or written off (`DebtsHeld`), and reserves stay liquid
(`ReservesHeld`).  Every handler is Fair, also with the interest accrued before it, which moves no underlying across
the protocol's border and lowers no debt (`Accrues`).  The rate holds in two ways: the supply is kept and net underlying
does not fall (`RateHeldIfSupplyKept`), or tokens come or go for at least, or at most, what they are worth at the
rate before (`RateHeldIfBacked`, `BackedAfterBurn`).  The point of the latter is that each truncation is on the
market's side: what remains is still worth the old rate, and the old rate is itself a truncated quotient, hence at most the new
one (`QuotientAtLeast`).

### Auctions

For any number of pools, markets, tokens and users, any amounts, prices, fees
and settings, from `ExpScaleAssumption` and `ShortfallAssumption`:

* `SpecTypeOK` and `SpecFirstBidPossible`.
* `SpecBacked`, if the base asset takes no fee on transfers.  With a fee the
  risk fund's payout arrives short while the winner is paid in full, at the
  expense of the other pools' bids.
* `SpecClosableOnceBid`, if the base asset is never above a dollar (finding 3).
* `SpecOfferOnlyImproves`, `SpecStartIdentifiesAuction` and `SpecRecoveryMatchesReceipt`.

The invariant `IInv` adds to the types that the users' tracked debts add up to
the total (else a claim could take the total below zero) and the terms of a running
auction: its first bid is a share, no market is bid more than the debt recorded at the
start, and that debt is still there, since only the auction's own closing lowers it.
`StartBidBound` shows that the truncated incentive cannot push the first bid above 100 %.
`SpecBacked` needs `Covered` besides, the balance as a sum over markets;
`LiveBidsChange` says that replacing one auction changes that sum by one
summand, because a pool has one market per token.  `SpecClosableOnceBid` needs that the seized
amount is still in the fund, by the same argument.

The step properties rest on `AuctionStep`: any step leaves an auction as it is, takes a better bid
in it, ends it when its time for better bids is over, or replaces one that does not run or had no bid in time.  To
compare two bids the invariant has to say what the recorded one is, namely the offer for its share, less
the token's fee (`BidIsOffer`), and both truncations preserve order (`ReceivedGrows`, `ShareGrows`); to tell the
start of an auction from the next one's it has to order an auction's blocks (`Dated`): the end comes at least one
block after the start, since the time for better bids is never zero, and only a stale auction is replaced.

### Governance

For any voters and stakes, proposal types, timelocks and routes, drafts, delays and thresholds, from the
assumptions named in Timelock and Governance (finite delays within bounds, periods of at
least one), and for any first admin of the timelocks: `SpecTypeOK`, `SpecQueueOnlyAnnounced`, `SpecNoStakeCountedTwice`, `SpecOneLiveProposal` and
`SpecKeepsPromise`, the refinement Spec => Promised!Spec.

The invariant `IInv` adds to the types and the queues: a proposal that is executed,
queued or voted on has the times that its state needs (`AllSound`: executed only with an eta, an eta
only once the vote is over and not lost, and no sooner than the queueing plus the minimum delay); a
proposal whose vote may still be open is the latest of its proposer (`AllLatest`), which is why one
proposer has one live proposal at a time; from a proposal's start block on, the votes cast and those
not cast yet add up to the votes there were at that block (`AllCovered`); and before the governor is
initiated there is no proposal (`Idle`).  `QueueOnlyAnnounced` needs that an executed or cancelled proposal
takes every one of its transactions out of the queue, and that a transaction queued for two proposals
cannot exist, since queueing twice reverts.  It speaks of the timelocks whose admin is the governor, since any other admin
queues what he likes; that is inductive because nobody makes the governor admin of a timelock again:
TimelockV8 wants the new admin to accept (acceptAdmin), which the governor never calls; `NoStakeCountedTwice` that the past of `power` does not
change.  The refinement goes step by step: each action changes the status of one proposal in
a way Proposals allows, or lets time pass, which only lets proposals lapse.

### Vault

For any accounts, tokens, pools, inputs and bounds, from `AccountsAssumption`, `EclAssumption`,
`InputsAssumption` and `BoundsAssumption` (finitely many accounts, ECL is both a token to stake and a
reward, and the amounts, lock periods, rates and times tried are naturals): `SpecUnlockedFirst`,
`SpecShortfallOwed`, `SpecVotesMatchStake`, `SpecRewardsWithinEmission`, `SpecVotesAreHistory`, and `SpecDepositsBacked`: the vault holds of a pool's token
exactly what its stakers put in and have not taken out.

The invariant `IInv` adds to the types:

* every position is sound (`AllSound`): its requests are sorted by unlock time and add up to what is
  pending, which is within the stake;
* the books: a token has one pool at most (`PooledOnce`), so that one balance belongs to one pool; the
  vault holds none of the other tokens (`OthersAbsent`) and nobody has a stake in a pool that is not there
  yet (`Untouched`); the balance is the sum of the stakes (`DepositsBacked`) and, less what is pending,
  the sum of the shares in the rewards (`SharedAmongStakes`), so the supply rewards are divided by never
  becomes negative;
* the votes of each delegatee are the unasked-for ECL stakes of those who chose him (`VotesFollow`).

All four operations of a staker go through one lemma, `StakerStep`: one position changes, the balance by as
much as its amount and the votes by as much as its stake.  The pool settings go through
`PoolsOnly`, a new pool through `AddStep`, and `TotalInsert` says that inserting a request into the sorted list
adds its amount to the sum.

The rewards need an invariant of their own (`EmissionInv`), kept in units of AccScale so that no
truncation hides in it: no staker has been paid more than his stake has earned at his pool's reward per share
(`PoolsSettled`); the pools' shares add up to the total that they are divided by (`PointsAddUp`); and what is
left of the emission after everyone is paid (`Slack`) covers, at each pool's share, what the pools have yet to
get for the time since their last update (`Covered`).  An update moves from the latter to the stakers no more than it
takes (`UpdateShares`); a settlement truncates once, which gives the staker up to a unit too much when
his rewardDebt is the truncated product: that is the one unit that `settlements` counts.  A change of rate
or of shares updates all the pools first, so that nothing is left to be re-priced; `Covered` fails without this.

VotesAreHistory needs that checkpoints are strictly ordered in time and none is later than now
(`Ordered`), and that a step writes at the end only, at the present time.  That the bisection of
getPriorVotes returns, over any range of a checkpoint list of any length, the votes of the last checkpoint not after the
time asked for, is by the narrowest range on which it would not; recursion and ordering are all it uses.

### Isolated pool

For any accounts, markets, prices, rates, parameters and inputs, any scale and any number of orders in
liquidateAccount, from `ExpScaleAssumption`, `VTokenOpsAssumption` and `IsolatedPoolAssumption` (typed
inputs; the pool is set up with a liquidation incentive of at least one, which its setter keeps):
`SpecTypeOK`, `SpecMarketsSound` (MarketInv of every market, as in the first section but now behind the
comptroller), `SpecAccountAssetsMatchMembership`, `SpecDebtImpliesMembership`, `SpecNoResolutionGap`,
`SpecDebtOnlyMovesAtFreshIndex`, `SpecUnlistedMarketsFrozen`, `SpecBadDebtOnlyWithoutCollateral`,
`SpecNoSelfInflictedShortfall` and `SpecSeizedOnlyFromUnsafe`.

The invariant `IInv` adds to the types, the two membership records and the membership of debtors that every
market is `Sound`, MarketInv and no loan's index ahead of the borrow index, and accrued no later than now.
The indices are what the membership of debtors needs: exitMarket tests the borrow balance, principal times
borrow index over the loan's index, truncated, which is zero only without principal because the borrow index
never falls behind a loan's (`NothingOwed`).

Each handler but borrow and healBorrow is `Calm`: the market stays sound, no account without a debt gets
one, and a principal moves only in a market that accrued in this slot.  Calm is transitive, so a transaction
is calm if its handlers are: `AccrueInAll` for the accruals of several markets, `OrderCalm` for a repayment
and the seizure after it (of one market or of two), `FillCalm` for the orders of liquidateAccount, by
induction on their number.  `LoansStep` turns what happened to the markets into the rest of a step, `MembersStep` what
happened to the lists, for which `SwapAndPopLists` says that exitMarket's swap and pop removes that market and
keeps the others, each once.  Bad debt appears in healAccount only, in markets that it leaves the account
without anything (`HealedEffect`).  `SpecNoResolutionGap` is arithmetic on truncated amounts (`ShareAtMostWhole`):
an account in shortfall owes at least one unit; an incentive of at least one keeps that at least one unit of
required collateral, so that the healing percentage is defined; and where the collateral does not exceed what is
required, the percentage is at most 100 %.

The two properties of who loses what are proved together, each transaction being `Answered`.  Whoever
is `Spared`, with no debt moved and no vToken taken, has nothing to answer for.  A liquidation only `Collects`
from its borrower: nobody else's loan moves, nobody else's vTokens fall, and what the borrower owes in each
market does not grow.  Collects is transitive, so any list of orders collects too (`FillCollects`); then an account
that lost collateral and debt is the borrower, and the handler's guard, computed on markets accrued in this call, is
the position in the markets it touched (`TouchedAccrued`).  Where a liquidation was forced instead, the debt that fell is the
one whose market the guard asked, and no other fell.  For the account that acts itself, what has to be bounded is the
difference between the hypothetical snapshot that the comptroller checked, where the redeemed tokens and the
new borrow are added as effects, and the snapshot after the call: `SnapshotMoves` gives it market by
market, truncation by truncation, and in the end at most one unit is lost (`ShortByOneAtMost`).

### Rewards

For any accounts and markets, any holdings before the first reward, interest, speeds, amounts and bounds and any scales,
from `ExpScaleAssumption`, `AccountsAssumption`, `InputsAssumption` and `BoundsAssumption` (naturals, positive scales):
`SpecRewardsFollowHoldings` and `SpecRewardsWithinEmission`.  DoubleScale need not be divisible by any holding, and nothing is
assumed of how far a market's total and its debts have drifted apart: the properties say by how much that lets
the rewards deviate.

The properties speak of what a settlement now would give, the invariant of what is due now, which a step changes
less.  `Lent` says of the markets that the borrow index is at least one and that whoever owes has the index of
his snapshot, from which a share is the holding or one unit less (`ReadTruncated`, `Reports`).  `Timely`: an index runs neither past the present nor past the
last rewarding block, and nobody was settled at an index yet to come; hence no `sub_` reverts.  `NobodyShort` and
`NobodyAhead` bound what an account has booked and is due on every side: what his holding gained up to the last update of
the index (`Gained`) and, for the slots since then, its part of each, rounded down or up (`LeastDue`, `MostDue`), give
or take `dust` and `surplus`.  `AllCovered`: what all together have booked, and what each side owes its holders, with the slots
not yet in its index counted in full, is within `emitted` and `surplus`.  One inequality on quotients carries each way, with the
total the index is divided by apart from the total held: an update gives a holding at least as many rounded-down parts as
slots went by, but for the loss (`UpdateGivesLeast`), and at most as many rounded-up ones, but for the gain
(`UpdateGivesMost`).

Hooks, claims and new speeds go through one lemma, `SettlementKeeps`: on the sides updated what is due moves to the
books or stays (`SettledSide`), the others are kept (`KeptSide`), whatever happens to the holdings of the accounts that
were settled, and only to theirs.  Supplying and owing change one account's holding (`SuppliedHolds`, `OwingHolds`),
interest changes nobody's (`AccrueInterestKeeps`).  `HealBorrow` changes a holding that was not settled: the healed account
is exempt from then on, the others' parts grow (`PartGrows`, which is why NobodyAhead ends there), and a side owes no more
than before.  `Tick` adds the same to what is due and to the histories.  `SumsExchanged`, that the sum over the accounts of
their sums over the sides is the sum of the sides' totals, ties AllCovered to what each account is due.

### Deployment

For both networks, any runbooks, any packages named in external.deployments and any number of crashes and re-runs,
from `RunbooksAssumption`, `InterruptionsAssumption` and `ExternalAssumption` (the packages, of oracle and
reserve contracts, hold no market and no rate model of the configuration): `SpecRateModelAsConfigured`,
`SpecOneTimeBase`, `SpecHandedOverConfigured` and `SpecPricedAssetsHaveFeeds`.

A crash or a revert may end a script between any two transactions, so the invariant is about what is left to send as
well.  `Needed` says what a transaction relies on: a market its rate model, an offer to governance everything that only the
deployer can set (`ReadyFacts`), an oracle named for an asset the asset's feed.  `Brought` is what a transaction puts
in force.  A sequence is `InOrder` when each transaction's needs are in force before the sequence or brought earlier in it,
and each deployment has the arguments its configuration asks for (`Sound`).  The inductive
invariant `IInv` is: what is in force is as it should be (`Fulfilled`), and the rest of the running script is
InOrder given what is in force.  `Fulfilled` alone is not
inductive: a step takes the next transaction on trust.

* Every script is InOrder, for any network, time base and state of the chain it finds: one lemma per script that deploys or
  configures something of the four properties (`VTokensInOrder`, `VIPInOrder`, ...), gathered in
  `StepsInOrder`.  They rest on how InOrder goes through concatenation, `ForEach` and conditionals.
* A session leaves out what is in place already (`InPlace`).  What is left out was in force, so the rest is
  still InOrder given that (`InOrderOnly`).
* Sending the head moves what it brings into force and leaves the tail InOrder (`SentInOrder`); it never takes anything out of
  force.  Ending a session, however it ends, leaves the empty sequence.

Models are shared by name alone, and a name lists all four parameters in basis points, which every configured parameter
is a whole number of, so a model found under the name has the rates asked for.  The time base is the same because `blocksPerYear` is 0 for both
networks, so that a contract counting blocks cannot be constructed there at all.

### Only model-checked

The two liveness properties, `BidCloses` of the auctions and `EveryMarketListed` of the deployment, and the findings.
Every invariant and step property of the passing runs is proved.
Out of the prover's reach: liveness under fairness and ENABLED, the induction theorems, whose parameter is an operator,
and RECURSIVE operators.  None is used: sums and the bisection are recursive functions, and each induction
above is an argument on the least counterexample (`LeastNatural`, `InductiveInterval` in SumsProofs).

## Plan

1. `ECLVault` in place of the votes in Governance: VotesAreHistory is what `PriorVotes` there assumes.
2. `ProtocolShareReserve`, `ResilientOracle` (decision table against a reference definition),
   the three rate models (monotone, bounded, defined).

## Not modelled

Listed with reasons in `PROJECT.json`:

* views (PoolLens) and interfaces, vendored helpers, Prime;
* ProtocolShareReserve, ResilientOracle's choice of a price, the rate models' formulas but for the white paper
  one, NativeTokenGateway, the ECL token: small, with few interactions; what the others use of them is
  an external operator or a nondeterministic value there;
* allowances, fee-on-transfer underlyings of markets (Shortfall models them), re-entrant underlyings (so that
  `borrowBehalf`, the one entry without nonReentrant, is not looked at), markets that cannot
  pay the protocol's share of a seizure until cash returns (the code accepts it);
* deployment scripts that both networks skip (mocks and 001 to 003, 005, 015, and the oracle scripts of other
  networks), hardhat tasks and the build.
