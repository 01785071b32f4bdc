----------------------------- MODULE MCDeployment -----------------------------
(* The runbooks of the two networks, one per part of the protocol. *)
EXTENDS Deployment

PoolScripts == <<"PoolRegistry", "Comptrollers", "ProtocolShareReserve", "VTokens", "TransferPoolsOwnership">>
MarketScripts ==
  <<"PoolRegistry", "Comptrollers", "ProtocolShareReserve", "VTokens", "VTreasuryV8", "InitialLiquidity", "VIP">>
RewardScripts == <<"PoolRegistry", "Comptrollers", "PoolLens", "Rewards", "Shortfall">>
GatewayScripts == <<"PoolRegistry", "Implementations", "IR", "NativeTokenGateway", "SwapRouter">>
UpdateScripts == <<"update-pool-registry", "PoolRegistry", "Comptrollers", "TransferPoolsOwnership">>
VaultScripts == <<"AccessControl", "RemoteTimelock", "ecl", "ecl-vault", "ecl-vault2", "Governor">>
OracleScripts ==
  <<"AccessControl", "deployResilientOracle", "deploy-onejumpv2", "deploy-redstone", "deploy-pyth-oracle",
    "VIP-Oracle", "update-resilientOracle">>

MCRunbooks ==
  [sonic |-> {PoolScripts, MarketScripts, RewardScripts, GatewayScripts, UpdateScripts, VaultScripts, OracleScripts \o <<"spectra-wstscUSD", "wOS", "configure-PTSpectrascUSD", "configure-wOS">>},
   arbitrumone |-> {PoolScripts, MarketScripts, RewardScripts, GatewayScripts, UpdateScripts, VaultScripts,
                    OracleScripts \o <<"deploy-pendlev2", "deploy-twap-oracle", "deploy-v3-twap-oracle", "wstETH_weETH_OneJumpOracles">>}]

MCExternal == {N("AccessControlManager"), N("RiskFundV2")}
=============================================================================
