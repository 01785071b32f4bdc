\* One pool's auctions while debt, fund and settings change; the base asset is worth at most a dollar.
SPECIFICATION Spec
CONSTANTS
    EXP_SCALE = 4
    NumPools = 1
    NumMarkets = 2
    NumTokens = 2
    NumUsers = 2
    PoolOf <- OnePoolOf
    Underlying <- OneUnderlying
    BaseAsset = 1
    MAX_BPS = 10
    Fee <- OneFee
    Refusing <- OneRefusing
    InitialBadDebt <- OneBadDebt
    InitialFund <- OneFund
    InitialSettings <- MCSettings
    SettingChoices <- OneChoices
    MarketPrices <- OnePrices
    BasePrices = {3, 4}
    Bids = {8, 10}
    Claims = {2}
    Growth = {2}
    MaxBadDebt = 3
    MaxFund = 5
    MaxBlock = 4
    LastBid = 1
INVARIANTS
    FirstBidPossible
    ClosableOnceBid
PROPERTIES
    StartIdentifiesAuction
    BidCloses
