SPECIFICATION Spec
CONSTANTS
  Runbooks <- MCRunbooks
  External <- MCExternal
  MaxInterruptions = 1
INVARIANTS
  RateModelAsConfigured
  OneTimeBase
  HandedOverConfigured
  PricedAssetsHaveFeeds
PROPERTIES
  EveryMarketListed
CHECK_DEADLOCK FALSE
