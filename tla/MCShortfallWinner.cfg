\* The base asset is worth less than a dollar and the fund does not grow.
SPECIFICATION Spec
CONSTANTS
    EXP_SCALE = 4
    NumPools = 1
    NumMarkets = 2
    NumTokens = 2
    NumUsers = 2
    PoolOf <- OnePoolOf
    Underlying <- OneUnderlying
    BaseAsset = 1
    MAX_BPS = 10
    Fee <- OneFee
    Refusing <- OneRefusing
    InitialBadDebt <- OneBadDebt
    InitialFund <- OneFund
    InitialSettings <- MCSettings
    SettingChoices <- None
    MarketPrices <- OnePrices
    BasePrices = {3}
    Bids = {8, 10}
    Claims = {2}
    Growth = {}
    MaxBadDebt = 3
    MaxFund = 5
    MaxBlock = 4
    LastBid = 1
PROPERTIES
    WinnerTakesWholeFund
