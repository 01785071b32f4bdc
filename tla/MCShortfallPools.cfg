\* Two pools' auctions share one balance; the base asset is worth a dollar.
SPECIFICATION Spec
CONSTANTS
    EXP_SCALE = 4
    NumPools = 2
    NumMarkets = 3
    NumTokens = 2
    NumUsers = 2
    PoolOf <- TwoPoolOf
    Underlying <- TwoUnderlying
    BaseAsset = 1
    MAX_BPS = 10
    Fee <- TwoFee
    Refusing <- TwoRefusing
    InitialBadDebt <- TwoBadDebt
    InitialFund <- TwoFund
    InitialSettings <- MCSettings
    SettingChoices <- None
    MarketPrices <- TwoPrices
    BasePrices = {4}
    Bids = {8, 10}
    Claims = {2}
    Growth = {}
    MaxBadDebt = 4
    MaxFund = 5
    MaxBlock = 4
    LastBid = 2
INVARIANTS
    TypeOK
    Backed
PROPERTIES
    OfferOnlyImproves
    RecoveryMatchesReceipt
