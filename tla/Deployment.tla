------------------------------ MODULE Deployment ------------------------------
(***************************************************************************)
(* Bringing the protocol up on a live network.  An operator runs the       *)
(* hardhat-deploy scripts of deploy/, one tag per session, in the order of *)
(* a runbook, re-running any earlier script when he wants to.  A script    *)
(* first reads the chain, then sends its transactions one at a time; the   *)
(* process may die between two of them, a transaction may revert, and      *)
(* governance acts meanwhile: it accepts ownerships and registers pools.   *)
(*                                                                         *)
(* A script is a sequence of transactions, and a transaction is one action *)
(* of the model.  hardhat-deploy's `deploy' sends nothing for a name that  *)
(* is already deployed; everything else a script sends again when re-run.  *)
(***************************************************************************)
EXTENDS DeploymentConfig, SequencesExt

CONSTANTS
  Runbooks,         \* the orders of scripts considered, per network
  External,         \* contracts other projects have deployed already
  MaxInterruptions  \* bound on processes that die between two transactions

ASSUME RunbooksAssumption == \A n \in Networks : Runbooks[n] # {}
ASSUME InterruptionsAssumption == MaxInterruptions \in Nat

VARIABLES
  network,        \* hre.network.name
  runbook,        \* the scripts the operator works through
  progress,       \* how many of them have been run at least once
  session,        \* the running script, and the transactions it has left
  contracts,      \* deployments: name -> owner, pending owner, arguments
  facts,          \* permissions and settings in force
  registered,     \* ids of the pools in PoolRegistry
  listed,         \* symbols of the markets in PoolRegistry
  funds,          \* asset -> units of an initial supply, by holder
  interruptions

vars == <<network, runbook, progress, session, contracts, facts, registered, listed, funds, interruptions>>

Deployer == "deployer"
Timelock == "NormalTimelock"
Nobody == "nobody"

-----------------------------------------------------------------------------
(* Names of deployments *)

N(name) == <<name>>
Comptroller(pool) == <<"Comptroller", pool.id>>
VToken(market) == <<"VToken", market.symbol>>
RewardsDistributor(pool, idx) == <<"RewardsDistributor", pool.id, idx>>

RateModelNameWithoutKink(model) == <<"JumpRateModelV2", model.base, model.slope, model.jump>>
\* mantissaToBps of the four parameters makes the name of a rate model.
RateModelName(model) == <<"JumpRateModelV2", model.base, model.slope, model.jump, model.kink>>
Rates(model) == <<model.base, model.slope, model.jump, model.kink>>

Pools == PoolConfig(network)
PoolMarkets(pool) == {pool.vtokens[i] : i \in DOMAIN pool.vtokens}
MarketsOn(net) == UNION {PoolMarkets(PoolConfig(net)[i]) : i \in DOMAIN PoolConfig(net)}
Markets == MarketsOn(network)
MarketAssets == {m.asset : m \in Markets}
Deployed(name) == name \in DOMAIN contracts

\* The oracle and reserve packages that external.deployments may name
\* (hardhat.config.ts:29) hold none of the configured markets or their models.
ASSUME ExternalAssumption ==
  \A net \in Networks : \A m \in MarketsOn(net) : VToken(m) \notin External /\ RateModelName(m.model) \notin External

-----------------------------------------------------------------------------
(* Transactions.  `needs' are the deployments getContract throws without.  *)

Plain == [owner |-> Deployer, timeManaged |-> FALSE, rates |-> << >>, model |-> << >>]

DeployAs(name, arguments, needs) == [do |-> "deploy", name |-> name, arguments |-> arguments, needs |-> needs]
Deploy(name, needs) == DeployAs(name, Plain, needs)
DeployTimeManaged(name, needs) == DeployAs(name, [Plain EXCEPT !.timeManaged = TRUE], needs)

\* when: "unless done" looks at owner and pending owner, "if owned" at the owner,
\* "always" at neither.  A beacon changes hands at once, all else on acceptance.
HandOverTo(name, to, when, twoStep, needs) ==
  [do |-> "hand over", name |-> name, to |-> to, when |-> when, twoStep |-> twoStep, needs |-> needs]

\* by: the contract whose owner must send it, or the permission it takes.
Fact(what, on, arg) == <<what, on, arg>>
Permission(on) == Fact("permission", on, "deployer")
Set(fact, by, once, needs) == [do |-> "set", fact |-> fact, by |-> by, once |-> once, needs |-> needs]
Owner(name) == [owner |-> name, permissions |-> {}]
Having(permissions) == [owner |-> << >>, permissions |-> permissions]
Give(on) == Set(Permission(on), Having({}), FALSE, {N("AccessControlManager"), on})

Send(asset, amount) == [do |-> "send", asset |-> asset, amount |-> amount, needs |-> {}]
Withdraw(asset) == [do |-> "withdraw", asset |-> asset, needs |-> {}]
Approve(asset, amount) == [do |-> "approve", asset |-> asset, amount |-> amount, needs |-> {N("PoolRegistry")}]
AddMarket(pool, market) == [do |-> "list", pool |-> pool.id, market |-> market, needs |-> {N("PoolRegistry")}]

\* A script that throws before it has sent anything more.
Throw == [do |-> "throw", needs |-> {}]
Requiring(names) == [do |-> "read", needs |-> names]

\* One transaction list per element, one after the other.
ForEach(s, Steps(_)) == FlattenSeq([i \in DOMAIN s |-> Steps(s[i])])

\* SelectSeq, as a list of one or of nothing per element.
Only(s, Test(_)) == ForEach(s, LAMBDA x : IF Test(x) THEN << x >> ELSE << >>)

-----------------------------------------------------------------------------
(* What a script finds on the chain *)

UnregisteredPools == Only(Pools, LAMBDA p : ~ (Deployed(Comptroller(p)) /\ p.id \in registered))

UnregisteredVTokens ==
  [i \in DOMAIN Pools |->
     [Pools[i] EXCEPT !.vtokens = Only(@, LAMBDA m : ~ (Deployed(VToken(m)) /\ m.symbol \in listed))]]

\* The lookup goes by asset and pool name, no deployment is ever called that, so
\* every configured distributor counts as unregistered.
UnregisteredRewardsDistributors == Pools

-----------------------------------------------------------------------------
(* The isolated pools *)

DeployPoolRegistry == << Deploy(N("PoolRegistry"), {}) >>

DeployPoolLens == << DeployTimeManaged(N("PoolLens"), {}) >>

DeployComptrollers ==
  << Deploy(N("ComptrollerImpl"), {N("PoolRegistry")}), Deploy(N("ComptrollerBeacon"), {}) >>
  \o ForEach(UnregisteredPools, LAMBDA p : << Deploy(Comptroller(p), {}) >>)

DeployRateModel(model) ==
  DeployAs(RateModelName(model), [Plain EXCEPT !.timeManaged = TRUE, !.rates = Rates(model)], {})

DeployVToken(pool, market) ==
  << DeployRateModel(market.model),
     DeployAs(VToken(market), [Plain EXCEPT !.owner = Timelock, !.model = RateModelName(market.model)],
              {Comptroller(pool), N("ProtocolShareReserve")}) >>

DeployVTokens(timeBased) ==
  IF ~ MaxBorrowRateKnown(network, timeBased) THEN << Throw >>
  ELSE << DeployTimeManaged(N("VTokenImpl"), {}), Deploy(N("VTokenBeacon"), {}), Requiring({N("PoolRegistry")}) >>
       \o ForEach(UnregisteredVTokens, LAMBDA p :
            << Requiring({Comptroller(p)}) >> \o ForEach(p.vtokens, LAMBDA m : DeployVToken(p, m)))

DeployIRModels == ForEach(Pools, LAMBDA p : ForEach(p.vtokens, LAMBDA m : << DeployRateModel(m.model) >>))

DeployRewardsDistributors ==
  << Requiring({N("PoolRegistry")}), DeployTimeManaged(N("RewardsDistributorImpl"), {}) >>
  \o ForEach(UnregisteredRewardsDistributors, LAMBDA p :
       [idx \in DOMAIN p.rewards |-> DeployTimeManaged(RewardsDistributor(p, idx), {Comptroller(p)})])

DeployImplementations(timeBased) ==
  IF ~ MaxBorrowRateKnown(network, timeBased) THEN << Throw >>
  ELSE << Deploy(N("ComptrollerImpl"), {N("PoolRegistry")}), DeployTimeManaged(N("VTokenImpl"), {}) >>

\* sumAmounts: an asset's initial supply is one unit in each of its markets, and
\* the assets come in the order of their first market.
SumAmounts(markets) ==
  LET assets == [i \in DOMAIN markets |-> markets[i].asset]
      First(i) == \A j \in 1 .. i - 1 : assets[j] # assets[i]
  IN [k \in DOMAIN markets |->
        [asset |-> assets[k], amount |-> IF First(k) THEN Cardinality({j \in DOMAIN assets : assets[j] = assets[k]}) ELSE 0]]

SendInitialLiquidityToTreasury ==
  LET amounts == SumAmounts(ForEach(UnregisteredVTokens, LAMBDA p : p.vtokens)) IN
  << Requiring({N("PoolRegistry")}) >>
  \o ForEach(Only(amounts, LAMBDA x : x.amount > 0), LAMBDA x : << Send(x.asset, x.amount) >>)

TransferPoolsOwnership ==
  ForEach(<< N("ComptrollerBeacon"), N("VTokenBeacon") >>, LAMBDA c :
      << HandOverTo(c, Timelock, "unless done", FALSE, {c}) >>)
  \o ForEach(<< N("PoolRegistry") >> \o [i \in DOMAIN Pools |-> Comptroller(Pools[i])]
             \o ForEach(Pools, LAMBDA p : [idx \in DOMAIN p.rewards |-> RewardsDistributor(p, idx)]),
             LAMBDA c : << HandOverTo(c, Timelock, "unless done", TRUE, {c}) >>)

\* No script gives the deployer this permission.
SetReduceReservesBlockDelta(market) ==
  Set(Fact("reduceReservesBlockDelta", VToken(market), ""), Having({Permission(VToken(market))}), FALSE, {})

AddMarketCommandsWithoutReset(pool, market) ==
  << Withdraw(market.asset), Approve(market.asset, 1),
     SetReduceReservesBlockDelta(market), AddMarket(pool, market) >>

\* addMarkets: the commands of one market.  Allowances go through zero because
\* some tokens refuse to change one that is not.
AddMarketCommands(pool, market) ==
  << Withdraw(market.asset), Approve(market.asset, 0), Approve(market.asset, 1),
     SetReduceReservesBlockDelta(market), AddMarket(pool, market) >>

\* The commands are computed before the first one is sent, for every market that
\* is not listed, of pools in the registry or not.
ConfigureByVIP ==
  << Requiring({N("PoolRegistry")} \cup
               UNION {{VToken(m) : m \in {x \in PoolMarkets(Pools[i]) : x.symbol \notin listed}} : i \in DOMAIN Pools}) >>
  \o ForEach(UnregisteredVTokens, LAMBDA p : ForEach(p.vtokens, LAMBDA m : AddMarketCommands(p, m)))

DeployProtocolShareReserve ==
  LET psr == N("ProtocolShareReserve") IN
  << Deploy(psr, {}), Set(Fact("poolRegistry", psr, ""), Owner(psr), FALSE, {N("PoolRegistry")}),
     Give(psr), Set(Fact("distribution", psr, ""), Having({Permission(psr)}), FALSE, {}) >>

DeployShortfallOwnerFirst ==
  LET shortfall == N("Shortfall") IN
  << Requiring({N("PoolRegistry"), N("RiskFundV2")}), DeployTimeManaged(shortfall, {}),
     HandOverTo(shortfall, Timelock, "unless done", TRUE, {}),
     Set(Fact("poolRegistry", shortfall, ""), Owner(shortfall), FALSE, {}) >>

DeployShortfall ==
  LET shortfall == N("Shortfall") IN
  << Requiring({N("PoolRegistry"), N("RiskFundV2")}), DeployTimeManaged(shortfall, {}),
     Set(Fact("poolRegistry", shortfall, ""), Owner(shortfall), FALSE, {}),
     HandOverTo(shortfall, Timelock, "unless done", TRUE, {}) >>

\* Run on its own the update deploys a registry nobody has initialised.
UpdatePoolRegistry == << DeployAs(N("PoolRegistry"), [Plain EXCEPT !.owner = Nobody], {}) >>

DeployNativeTokenGateways ==
  IF NativeMarkets(network) = << >> THEN << Throw >>
  ELSE ForEach(NativeMarkets(network), LAMBDA v :
         << Deploy(<<"NativeTokenGateway", v>>, {}),
            HandOverTo(<<"NativeTokenGateway", v>>, Timelock, "always", TRUE, {}) >>)

\* SwapRouter looks up pools of another network; no "il" run gets past it.
DeploySwapRouter == << Requiring({<<"Comptroller", "DeFi">>}) >>

-----------------------------------------------------------------------------
(* Governance, treasury and vault *)

DeployAccessControl == << Deploy(N("AccessControlManager"), {}) >>

DeployTimelocks == ForEach(<<"NormalTimelock", "FastTrackTimelock", "CriticalTimelock">>, LAMBDA t : << Deploy(N(t), {}) >>)

DeployGovernor == << Requiring({N("ECLVaultProxy")}), Deploy(N("GovernorBravo"), {}) >>

DeployTreasury ==
  << Deploy(N("VTreasuryV8"), {}),
     HandOverTo(N("VTreasuryV8"), TreasuryAdmin(network), "if different", TRUE, {}) >>

DeployECL == << Deploy(N("ECL"), {}) >>

DeployVaults == ForEach(<<"ECLVaultProxy_Implementation", "ECLVaultProxy", "ECLStore">>, LAMBDA c : << Deploy(N(c), {}) >>)

VaultProxy == N("ECLVaultProxy")
VaultStore == N("ECLStore")
VaultFact(what) == Fact(what, VaultProxy, "")

\* Neither the time manager nor the store can be set twice, so the script cannot
\* be run again once it has got past them; on Sonic it has no blocksPerYear.
ConfigureVaults ==
  << Requiring({N("AccessControlManager"), N("ECL"), VaultProxy, VaultStore, N("ECLVaultProxy_Implementation")}),
     Set(VaultFact("pendingImplementation"), Owner(VaultProxy), FALSE, {}),
     Set(VaultFact("implementation"), [Owner(VaultProxy) EXCEPT !.permissions = {VaultFact("pendingImplementation")}], FALSE, {}) >>
  \o (IF network = "sonic" THEN << Throw >> ELSE
  << Set(VaultFact("timeManager"), Owner(VaultProxy), TRUE, {}),
     Set(VaultFact("eclStore"), Owner(VaultProxy), TRUE, {}),
     Set(VaultFact("accessControl"), Owner(VaultProxy), FALSE, {}),
     Set(Fact("owner", VaultStore, ""), Owner(VaultStore), FALSE, {}),
     HandOverTo(VaultProxy, "multisig", "always", TRUE, {}),
     HandOverTo(VaultStore, "multisig", "always", TRUE, {}),
     Give(VaultProxy),
     Set(VaultFact("pool"),
         Having({Permission(VaultProxy), VaultFact("eclStore"), VaultFact("accessControl"), Fact("owner", VaultStore, "")}),
         TRUE, {}) >>)

-----------------------------------------------------------------------------
(* Oracles *)

ResilientOracle == N("ResilientOracle")
ChainlinkName == N(IF HasSequencer(network) THEN "SequencerChainlinkOracle" ELSE "ChainlinkOracle")
OracleTimelock == IF OracleTimelockKnown(network) THEN "CriticalTimelock" ELSE "undefined"

DeployOracles ==
  << Deploy(N("BoundValidator"), {N("AccessControlManager")}), Deploy(ResilientOracle, {}), Deploy(ChainlinkName, {}),
     Give(ChainlinkName), Give(ResilientOracle) >>
  \o ForEach(<< ResilientOracle, ChainlinkName, N("BoundValidator") >>, LAMBDA o :
       << HandOverTo(o, OracleTimelock, "if owned", TRUE, {}) >>)

\* An oracle with a price feed of its own: deployed, and opened to the deployer.
DeployFeedOracle(name, needs) == << Deploy(N(name), needs), Give(N(name)) >>

DeployOneJumpOracle == DeployFeedOracle("OneJumpOracleV2", {ResilientOracle})
DeployPendleOracle == DeployFeedOracle("PendlePtOracle", {ResilientOracle})
DeployRedStoneOracle == << Deploy(N("RedStoneOracle"), {}) >>

DeployPythOracle ==
  IF ~ PythAddressKnown(network) THEN << >>
  ELSE << Deploy(N("PythOracle"), {}), HandOverTo(N("PythOracle"), OracleTimelock, "if owned", TRUE, {}) >>

DeployTwapOracle == IF WETHAddressKnown(network) THEN DeployFeedOracle("TwapOracle", {}) ELSE << Throw >>

DeployV3TwapOracle ==
  IF ~ UniswapV3FactoryKnown(network) THEN << Throw >>
  ELSE DeployFeedOracle("UniswapV3Oracle", {ResilientOracle})
       \o << HandOverTo(N("UniswapV3Oracle"), Timelock, "if owned", TRUE, {}) >>

DeploySpectraOracle ==
  IF network # "sonic" THEN << >>
  ELSE << Deploy(N("SpectrawstscUSDJune3025Oracle"), {ResilientOracle, N("ChainlinkOracle")}) >>

DeployWOSOracle ==
  IF network # "sonic" THEN << >> ELSE << Deploy(N("WOSOracle"), {ResilientOracle, N("ChainlinkOracle")}) >>

DeployOneJumpChainlinkOracles ==
  IF network # "arbitrumone" THEN << >>
  ELSE << Requiring({ResilientOracle, N("SequencerChainlinkOracle")}),
          Deploy(N("wstETHOneJumpChainlinkOracle"), {}), Deploy(N("weETHOneJumpChainlinkOracle"), {}) >>

UpdateResilientOracle == << Deploy(ResilientOracle, {N("BoundValidator")}) >>

Feed(oracle, asset) == Fact("feed", oracle, asset)
MainOracle(oracle, asset) == Fact("main oracle", oracle, asset)
PointAt(oracle, asset) == Set(MainOracle(oracle, asset), Having({Permission(ResilientOracle)}), FALSE, {ResilientOracle, oracle})

ConfigureSpectraFeed == << PointAt(N("SpectrawstscUSDJune3025Oracle"), "PTscUSD") >>
ConfigureWOSFeed == << PointAt(N("WOSOracle"), "wOS") >>

PriceFeedCommandsMainFirst(asset, oracle) ==
  << PointAt(oracle, asset), Set(Feed(oracle, asset), Having({Permission(oracle)}), FALSE, {}) >>

\* First the feed in the underlying oracle, then ResilientOracle is pointed at it.
PriceFeedCommands(asset, oracle) ==
  << Set(Feed(oracle, asset), Having({Permission(oracle)}), FALSE, {}), PointAt(oracle, asset) >>

\* An asset whose oracle kind has no contract makes the script throw while it
\* still computes its commands.
ConfigurePriceFeeds ==
  << Requiring({ResilientOracle} \cup {N(OracleContract(Assets(network)[i][2])) : i \in DOMAIN Assets(network)}) >>
  \o ForEach(Assets(network), LAMBDA a : PriceFeedCommands(a[1], N(OracleContract(a[2]))))

-----------------------------------------------------------------------------
(* hardhat-deploy: the script behind a tag *)

StepsOf(tag, timeBased) ==
  CASE tag = "PoolRegistry"           -> DeployPoolRegistry
    [] tag = "PoolLens"               -> DeployPoolLens
    [] tag = "Comptrollers"           -> DeployComptrollers
    [] tag = "VTokens"                -> DeployVTokens(timeBased)
    [] tag = "IR"                     -> DeployIRModels
    [] tag = "Rewards"                -> DeployRewardsDistributors
    [] tag = "Implementations"        -> DeployImplementations(timeBased)
    [] tag = "InitialLiquidity"       -> SendInitialLiquidityToTreasury
    [] tag = "TransferPoolsOwnership" -> TransferPoolsOwnership
    [] tag = "VIP"                    -> ConfigureByVIP
    [] tag = "ProtocolShareReserve"   -> DeployProtocolShareReserve
    [] tag = "Shortfall"              -> DeployShortfall
    [] tag = "update-pool-registry"   -> UpdatePoolRegistry
    [] tag = "NativeTokenGateway"     -> DeployNativeTokenGateways
    [] tag = "SwapRouter"             -> DeploySwapRouter
    [] tag = "AccessControl"          -> DeployAccessControl
    [] tag = "RemoteTimelock"         -> DeployTimelocks
    [] tag = "Governor"               -> DeployGovernor
    [] tag = "VTreasuryV8"            -> DeployTreasury
    [] tag = "ecl"                    -> DeployECL
    [] tag = "ecl-vault"              -> DeployVaults
    [] tag = "ecl-vault2"             -> ConfigureVaults
    [] tag = "deployResilientOracle"  -> DeployOracles
    [] tag = "deploy-onejumpv2"       -> DeployOneJumpOracle
    [] tag = "deploy-pendlev2"        -> DeployPendleOracle
    [] tag = "deploy-redstone"        -> DeployRedStoneOracle
    [] tag = "deploy-pyth-oracle"     -> DeployPythOracle
    [] tag = "deploy-twap-oracle"     -> DeployTwapOracle
    [] tag = "deploy-v3-twap-oracle"  -> DeployV3TwapOracle
    [] tag = "spectra-wstscUSD"       -> DeploySpectraOracle
    [] tag = "wOS"                    -> DeployWOSOracle
    [] tag = "wstETH_weETH_OneJumpOracles" -> DeployOneJumpChainlinkOracles
    [] tag = "update-resilientOracle" -> UpdateResilientOracle
    [] tag = "configure-PTSpectrascUSD" -> ConfigureSpectraFeed
    [] tag = "configure-wOS"          -> ConfigureWOSFeed
    [] tag = "VIP-Oracle"             -> ConfigurePriceFeeds
    [] OTHER                          -> << >>

Idle == [script |-> 0, timeBased |-> FALSE, todo |-> << >>]
Running == session.script # 0

\* Nothing is sent, or nothing changes, for what is in place already; leaving it
\* out of the list only spares the model the steps.
InPlace(tx) ==
  \/ tx.do = "deploy" /\ Deployed(tx.name) /\ \A c \in tx.needs : Deployed(c)
  \/ tx.do = "set" /\ ~ tx.once /\ tx.fact \in facts /\ tx.by.owner = << >>

TimeManaged(tx) == tx.do = "deploy" /\ tx.arguments.timeManaged

\* IS_TIME_BASED_DEPLOYMENT is read from the environment of the session, which is
\* remembered when there is a contract it matters to.
Begin(i) ==
  /\ ~ Running
  /\ i \in DOMAIN runbook /\ i <= progress + 1
  /\ \E timeBased \in BOOLEAN :
       LET todo == Only(StepsOf(runbook[i], timeBased), LAMBDA tx : ~ InPlace(tx)) IN
       session' = [script |-> i, todo |-> todo,
                   timeBased |-> timeBased /\ \E j \in DOMAIN todo : TimeManaged(todo[j])]
  /\ UNCHANGED <<network, runbook, progress, contracts, facts, registered, listed, funds, interruptions>>

EndSession ==
  /\ session' = Idle
  /\ progress' = IF session.script > progress THEN session.script ELSE progress

\* The script has sent everything.
Finish ==
  /\ Running /\ session.todo = << >>
  /\ EndSession
  /\ UNCHANGED <<network, runbook, contracts, facts, registered, listed, funds, interruptions>>

-----------------------------------------------------------------------------
(* One transaction *)

Next1 == Head(session.todo)
Doing(what) == Running /\ session.todo # << >> /\ Next1.do = what /\ \A c \in Next1.needs : Deployed(c)
Sent == session' = [session EXCEPT !.todo = Tail(@)] /\ UNCHANGED <<network, runbook, progress, registered, interruptions>>

\* TimeManagerV8's constructor rejects a block based deployment of zero blocks.
Constructible(tx) == tx.arguments.timeManaged => session.timeBased \/ BlocksPerYear(network) # 0

Record(tx) ==
  [owner |-> tx.arguments.owner, pending |-> Nobody,
   timeBased |-> IF tx.arguments.timeManaged THEN <<session.timeBased>> ELSE << >>,
   rates |-> tx.arguments.rates, model |-> tx.arguments.model]

DeployContract ==
  /\ Doing("deploy")
  /\ Deployed(Next1.name) \/ Constructible(Next1)
  /\ contracts' = [c \in DOMAIN contracts \cup {Next1.name} |-> IF Deployed(c) THEN contracts[c] ELSE Record(Next1)]
  /\ Sent /\ UNCHANGED <<facts, listed, funds>>

\* Whether the script sends transferOwnership at all.
Sends(tx) ==
  LET c == contracts[tx.name] IN
  CASE tx.when = "unless done"  -> c.owner # tx.to /\ c.pending # tx.to
    [] tx.when = "if different" -> c.owner # tx.to
    [] tx.when = "if owned"     -> c.owner = Deployer
    [] tx.when = "always"       -> TRUE

HandOver ==
  /\ Doing("hand over")
  /\ Sends(Next1) => contracts[Next1.name].owner = Deployer /\ Next1.to # "undefined"
  /\ contracts' = IF ~ Sends(Next1) THEN contracts
                  ELSE IF Next1.twoStep THEN [contracts EXCEPT ![Next1.name].pending = Next1.to]
                  ELSE [contracts EXCEPT ![Next1.name].owner = Next1.to]
  /\ Sent /\ UNCHANGED <<facts, listed, funds>>

MaySet(tx) ==
  /\ tx.by.owner # << >> => contracts[tx.by.owner].owner = Deployer
  /\ tx.by.permissions \subseteq facts
  /\ tx.once => tx.fact \notin facts

Configure ==
  /\ Doing("set") /\ MaySet(Next1)
  /\ facts' = facts \cup {Next1.fact}
  /\ Sent /\ UNCHANGED <<contracts, listed, funds>>

SendToTreasury ==
  LET a == Next1.asset IN
  /\ Doing("send") /\ funds[a].deployer >= Next1.amount
  /\ funds' = [funds EXCEPT ![a].deployer = @ - Next1.amount, ![a].treasury = @ + Next1.amount]
  /\ Sent /\ UNCHANGED <<contracts, facts, listed>>

\* withdrawTreasuryToken pays what it has when it is asked for more.
Payout(balance) == IF balance > 1 THEN 1 ELSE balance

WithdrawFromTreasury ==
  LET a == Next1.asset IN
  /\ Doing("withdraw") /\ Deployed(N("VTreasuryV8")) /\ contracts[N("VTreasuryV8")].owner = Deployer
  /\ funds' = [funds EXCEPT ![a].treasury = @ - Payout(@), ![a].deployer = @ + Payout(funds[a].treasury)]
  /\ Sent /\ UNCHANGED <<contracts, facts, listed>>

ApproveRegistry ==
  LET a == Next1.asset IN
  /\ Doing("approve")
  /\ Next1.amount # 0 => funds[a].allowance = 0
  /\ funds' = [funds EXCEPT ![a].allowance = Next1.amount]
  /\ Sent /\ UNCHANGED <<contracts, facts, listed>>

\* PoolRegistry.addMarket takes a permission, and the initial supply, from the deployer.
ListMarket ==
  LET m == Next1.market a == m.asset IN
  /\ Doing("list")
  /\ Permission(N("PoolRegistry")) \in facts
  /\ Next1.pool \in registered /\ m.symbol \notin listed
  /\ funds[a].deployer >= 1 /\ funds[a].allowance >= 1
  /\ listed' = listed \cup {m.symbol}
  /\ funds' = [funds EXCEPT ![a].deployer = @ - 1, ![a].allowance = @ - 1]
  /\ Sent /\ UNCHANGED <<contracts, facts>>

ReadChain ==
  /\ Doing("read")
  /\ Sent /\ UNCHANGED <<contracts, facts, listed, funds>>

Step ==
  \/ DeployContract \/ HandOver \/ Configure \/ SendToTreasury \/ WithdrawFromTreasury
  \/ ApproveRegistry \/ ListMarket \/ ReadChain

\* getContract throws, or the transaction reverts: the process exits, and the
\* operator may go on with the next script all the same.
Reverts ==
  LET tx == Next1 IN
  \/ \E c \in tx.needs : ~ Deployed(c)
  \/ tx.do = "throw"
  \/ tx.do = "deploy" /\ ~ Deployed(tx.name) /\ ~ Constructible(tx)
  \/ tx.do = "hand over" /\ Deployed(tx.name) /\ Sends(tx)
       /\ (contracts[tx.name].owner # Deployer \/ tx.to = "undefined")
  \/ tx.do = "set" /\ ~ MaySet(tx)
  \/ tx.do = "send" /\ funds[tx.asset].deployer < tx.amount
  \/ tx.do = "withdraw" /\ (IF Deployed(N("VTreasuryV8")) THEN contracts[N("VTreasuryV8")].owner # Deployer ELSE TRUE)
  \/ tx.do = "approve" /\ tx.amount # 0 /\ funds[tx.asset].allowance # 0
  \/ tx.do = "list"
       /\ (Permission(N("PoolRegistry")) \notin facts \/ tx.pool \notin registered \/ tx.market.symbol \in listed
           \/ funds[tx.market.asset].deployer < 1 \/ funds[tx.market.asset].allowance < 1)

Abort ==
  /\ Running /\ session.todo # << >> /\ Reverts
  /\ EndSession
  /\ UNCHANGED <<network, runbook, contracts, facts, registered, listed, funds, interruptions>>

\* The process is killed, or the RPC endpoint fails, before the next transaction.
Interrupt ==
  /\ Running /\ session.todo # << >> /\ interruptions < MaxInterruptions
  /\ interruptions' = interruptions + 1
  /\ EndSession
  /\ UNCHANGED <<network, runbook, contracts, facts, registered, listed, funds>>

-----------------------------------------------------------------------------
(* Governance *)

\* One proposal accepts every ownership on offer.
AcceptOwnerships ==
  /\ \E c \in DOMAIN contracts : contracts[c].pending # Nobody
  /\ contracts' = [c \in DOMAIN contracts |->
                     IF contracts[c].pending = Nobody THEN contracts[c]
                     ELSE [contracts[c] EXCEPT !.owner = contracts[c].pending, !.pending = Nobody]]
  /\ UNCHANGED <<network, runbook, progress, session, facts, registered, listed, funds, interruptions>>

\* The proposal addPools of 013 computes, which the script no longer sends itself:
\* it adds every pool that is not in the registry, and needs all their comptrollers.
RegisterPools ==
  /\ Deployed(N("PoolRegistry")) /\ contracts[N("PoolRegistry")].owner # Nobody
  /\ \A i \in DOMAIN Pools : Deployed(Comptroller(Pools[i]))
  /\ \E i \in DOMAIN Pools : Pools[i].id \notin registered
  /\ registered' = {Pools[i].id : i \in DOMAIN Pools}
  /\ UNCHANGED <<network, runbook, progress, session, contracts, facts, listed, funds, interruptions>>

\* The admin of the access control lets the deployer list markets.  No script does:
\* 013:391 leaves the permissions out, and those configured name no deployer.
ListingPermissions == {Permission(N("PoolRegistry"))} \cup {Permission(VToken(m)) : m \in Markets}
PermitListing ==
  /\ Deployed(N("PoolRegistry")) /\ \A m \in Markets : Deployed(VToken(m))
  /\ ~ (ListingPermissions \subseteq facts)
  /\ facts' = facts \cup ListingPermissions
  /\ UNCHANGED <<network, runbook, progress, session, contracts, registered, listed, funds, interruptions>>

-----------------------------------------------------------------------------
Init ==
  /\ network \in Networks
  /\ runbook \in Runbooks[network]
  /\ progress = 0
  /\ session = Idle
  /\ contracts = [c \in External |-> [owner |-> Nobody, pending |-> Nobody, timeBased |-> << >>, rates |-> << >>, model |-> << >>]]
  /\ facts = {}
  /\ registered = {}
  /\ listed = {}
  /\ funds = [a \in MarketAssets |->
                [deployer |-> Cardinality({m \in Markets : m.asset = a}), treasury |-> 0, allowance |-> 0]]
  /\ interruptions = 0

Next ==
  \/ \E i \in DOMAIN runbook : Begin(i)
  \/ Finish
  \/ Step
  \/ Abort
  \/ Interrupt
  \/ AcceptOwnerships
  \/ RegisterPools
  \/ PermitListing

\* The process runs on while it can; the operator works through the runbook, and
\* re-runs the market script, which lists what an earlier run left out.  The last
\* two are SF of Begin, whose enabling condition and effect are written out.
GetsThrough == {i \in DOMAIN runbook : i = progress + 1}
ReRuns == {i \in DOMAIN runbook : runbook[i] = "VIP" /\ i <= progress + 1}
Fairness ==
  /\ WF_vars(Finish) /\ WF_vars(Step) /\ WF_vars(Abort)
  /\ []<>(~ Running /\ GetsThrough # {}) => []<><< ~ Running /\ session'.script \in GetsThrough >>_vars
  /\ []<>(~ Running /\ ReRuns # {}) => []<><< ~ Running /\ session'.script \in ReRuns >>_vars

Spec == Init /\ [][Next]_vars /\ Fairness

-----------------------------------------------------------------------------
(* Properties *)

\* Markets share rate models by name, and the name is all deploy looks at: a
\* market must still get a model with the parameters configured for it (009:83).
RateModelAsConfigured ==
  \A m \in Markets : Deployed(VToken(m)) => contracts[contracts[VToken(m)].model].rates = Rates(m.model)

\* Sessions choose blocks or seconds from the environment, each for itself; a
\* network never ends up with contracts of both kinds, which would read each
\* other's rates in different units (deploymentUtils.ts:140).
OneTimeBase == Cardinality({contracts[c].timeBased : c \in DOMAIN contracts} \ {<< >>}) <= 1

HandedOver(c) == Deployed(c) /\ c \notin External /\ (contracts[c].owner # Deployer \/ contracts[c].pending # Nobody)

\* The deployer offers a contract to governance only after setting what he alone
\* can set: whatever run died where, a contract on offer is ready to be taken
\* (014:57, Vault/002:75, Oracles/1:121).
HandedOverConfigured ==
  /\ HandedOver(N("Shortfall")) => Fact("poolRegistry", N("Shortfall"), "") \in facts
  /\ HandedOver(VaultProxy) =>
       {VaultFact("timeManager"), VaultFact("eclStore"), VaultFact("accessControl"), Fact("owner", VaultStore, "")} \subseteq facts
  /\ \A o \in {ResilientOracle, ChainlinkName} : HandedOver(o) => Permission(o) \in facts

\* ResilientOracle never names, for any asset, an oracle that takes a feed per
\* asset and has none for this one: its prices would revert (4-vip:154).
PricedAssetsHaveFeeds ==
  \A o \in {N(OracleContract(k)) : k \in {"chainlink", "onejumpchainlink", "pendle", "univ2twap", "univ3twap", "pyth"}} :
    \A i \in DOMAIN Assets(network) :
      MainOracle(o, Assets(network)[i][1]) \in facts => Feed(o, Assets(network)[i][1]) \in facts

ReadyToList ==
  /\ \E i \in DOMAIN runbook : runbook[i] = "VIP"
  /\ \A i \in DOMAIN Pools : Pools[i].id \in registered
  /\ \A m \in Markets : Deployed(VToken(m))
  /\ ListingPermissions \subseteq facts
  /\ Deployed(N("VTreasuryV8")) /\ contracts[N("VTreasuryV8")].owner = Deployer

\* Wherever runs of the liquidity and market scripts died, and however often they
\* were repeated, re-running the market script lists every configured market once
\* governance has registered the pools and the deployer has been given the
\* permissions no script gives him, as long as he keeps the treasury.
EveryMarketListed == <>[]ReadyToList => <>[](listed = {m.symbol : m \in Markets})

=============================================================================
