--------------------------- MODULE DeploymentConfig ---------------------------
(***************************************************************************)
(* What the deployment scripts read: the pools, markets and rewards of     *)
(* helpers/deploymentConfig.ts and the price feeds of                      *)
(* helpers/deploymentConfigOracle.ts, for the two networks they configure. *)
(* Rates and kinks are in basis points, the unit the scripts name rate     *)
(* models by; every amount in the configuration is a whole number of them. *)
(* The decimals, caps and collateral factors of a market are left out: no  *)
(* script branches on them.                                                *)
(***************************************************************************)
EXTENDS Integers, Sequences, FiniteSets

\* getConfig throws for every other network name.
Networks == {"sonic", "arbitrumone"}

JumpRate(base, slope, jump, kink) == [base |-> base, slope |-> slope, jump |-> jump, kink |-> kink]
Market(symbol, asset, model) == [symbol |-> symbol, asset |-> asset, model |-> model]
Pool(id, name, vtokens, rewards) == [id |-> id, name |-> name, vtokens |-> vtokens, rewards |-> rewards]

-----------------------------------------------------------------------------
(* Sonic *)

SonicTokens == {"wS", "stS", "USDCe", "WETH", "wOS", "scUSD", "PTscUSD"}

CoreSonic == Pool("Core Sonic", "Core Sonic", <<
  Market("vstS_Core",   "stS",   JumpRate(0, 1800, 20000, 6500)),
  Market("vWETH_Core",  "WETH",  JumpRate(0,  850, 25000, 6000)),
  Market("vUSDCe_Core", "USDCe", JumpRate(0, 1200, 25000, 6000)),
  Market("vwS_Core",    "wS",    JumpRate(0, 1200, 25000, 8000)) >>, << >>)

LiquidStakedS == Pool("LiquidStakedS", "Liquid Staked S", <<
  Market("vWS_LiquidStakedS",    "wS",    JumpRate(200, 1500, 35000, 8500)),
  Market("vUSDCe_LiquidStakedS", "USDCe", JumpRate(400, 2500, 25000, 8000)),
  Market("vwOS_LiquidStakedS",   "wOS",   JumpRate(  0, 1500, 35000, 8500)) >>, << >>)

SpectraPTscUSDPool == Pool("SpectraPTscUSDPool", "Spectra PT scUSD Pool", <<
  Market("vscUSD_SpectraPTscUSDPool", "scUSD",   JumpRate(100,  500, 35000, 8500)),
  Market("vPT_SpectraPTscUSDPool",    "PTscUSD", JumpRate(  0, 2500, 25000, 8000)) >>, << >>)

-----------------------------------------------------------------------------
(* Arbitrum One *)

ArbitrumTokens == {"WETH", "USDC", "USDT", "ARB", "wstETH", "weETH", "PTweETH"}

CoreArbitrum == Pool("Core", "Core", <<
  Market("vWETH_Core", "WETH", JumpRate(0, 350, 25000, 8000)),
  Market("vUSDC_Core", "USDC", JumpRate(0, 800, 25000, 8000)),
  Market("vUSDT_Core", "USDT", JumpRate(0, 800, 25000, 8000)) >>, <<"USDT">>)

LiquidStakedETH == Pool("Liquid Staked ETH", "Liquid Staked ETH", <<
  Market("vwstETH_LiquidStakedETH", "wstETH", JumpRate(0, 900, 30000, 4500)),
  Market("vweETH_LiquidStakedETH",  "weETH",  JumpRate(0, 900, 30000, 4500)),
  Market("vWETH_LiquidStakedETH",   "WETH",   JumpRate(0, 350,  8000, 8000)) >>, <<"WETH">>)

PendlePool == Pool("Pendle", "Pendle", <<
  Market("vWETH_Pendle",    "WETH",    JumpRate(0, 250, 15000, 2000)),
  Market("vPTweETH_Pendle", "PTweETH", JumpRate(0, 800, 25000, 8000)) >>, <<"USDT">>)

-----------------------------------------------------------------------------
TokensConfig(network) == IF network = "sonic" THEN SonicTokens ELSE ArbitrumTokens

PoolConfig(network) ==
  IF network = "sonic" THEN <<CoreSonic, LiquidStakedS, SpectraPTscUSDPool>>
                       ELSE <<CoreArbitrum, LiquidStakedETH, PendlePool>>

BlocksPerYearAsOnOpbnb(network) == 31536000

\* blocksPerYear has the same zero for both networks and for "isTimeBased".
BlocksPerYear(network) == 0

\* getMaxBorrowRateMantissa throws unless the deployment is time based or the
\* network is one of those it lists; neither configured network is.
MaxBorrowRateKnown(network, timeBased) == timeBased

\* Arbitrum One has a sequencer feed, and no CriticalTimelock in ADDRESSES.
HasSequencer(network) == network = "arbitrumone"
OracleTimelockKnown(network) == network = "sonic"
PythAddressKnown(network) == network = "sonic"
WETHAddressKnown(network) == network = "arbitrumone"
UniswapV3FactoryKnown(network) == network = "arbitrumone"

\* ADDRESSES and VWNativeInfo: who the treasury is handed to, which native
\* markets have a gateway.
TreasuryAdmin(network) == IF network = "sonic" THEN "deployer" ELSE "multisig"
NativeMarkets(network) == IF network = "sonic" THEN <<"vwS_Core", "vwS_LiquidStakedS">> ELSE << >>

\* assets: the price feeds the oracle VIP configures, each with its oracle.
Assets(network) ==
  IF network = "sonic" THEN << <<"stS", "onejumpchainlink">> >>
  ELSE << <<"WBTC", "chainlink">>, <<"USDC", "chainlink">>, <<"USDT", "chainlink">>,
          <<"ARB", "chainlink">>, <<"WETH", "chainlink">>, <<"wstETH", "onejumpchainlink">>,
          <<"weETH", "onejumpchainlink">>, <<"PTweETH", "pendle">>, <<"gmx", "univ3twap">> >>

\* getOraclesData: the contract an oracle kind stands for; a kind whose contract
\* is not deployed is missing from the table.
OracleContract(kind) ==
  CASE kind = "chainlink"        -> "ChainlinkOracle"
    [] kind = "onejumpchainlink" -> "OneJumpOracleV2"
    [] kind = "pendle"           -> "PendlePtOracle"
    [] kind = "univ2twap"        -> "TwapOracle"
    [] kind = "univ3twap"        -> "UniswapV3Oracle"
    [] kind = "pyth"             -> "PythOracle"

=============================================================================
