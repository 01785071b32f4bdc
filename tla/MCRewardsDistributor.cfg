SPECIFICATION Spec
CONSTANTS
  AccountCount = 2
  MarketCount = 1
  DoubleScale = 4
  FirstHolding <- MCHolding
  EXP_SCALE = 4
  Factors = {3}
  Speeds = {0, 2}
  Amounts = {1}
  Fundings = {1}
  MaxSlot = 4
  MaxHolding = 3
  MaxOperations = 3
INVARIANTS
  RewardsFollowHoldings
  RewardsWithinEmission
CHECK_DEADLOCK FALSE
