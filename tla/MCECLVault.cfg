SPECIFICATION Spec
CONSTANTS
  AccountCount = 2
  Tokens <- MCTokens
  RewardTokens = {"ECL"}
  Ecl = "ECL"
  Wallet <- MCWallet
  AccScale = 2
  MaxLockPeriod = 4
  Amounts = {1, 2}
  AllocPoints = {0, 1}
  Rates = {1, 3}
  LockPeriods = {1, 2}
  Fundings = {2}
  MaxPools = 2
  MaxTime = 3
  MaxOperations = 4
INVARIANTS
  VotesMatchStake
  UnlockedFirst
  RewardsWithinEmission
  ShortfallOwed
PROPERTIES
  VotesAreHistory
CHECK_DEADLOCK FALSE
