\* Account 1 borrows while governance pauses, caps, unlists and forces liquidations.
SPECIFICATION Spec
CONSTANTS
    EXP_SCALE = 4
    NumUsers = 2
    InitialExchangeRate = 4
    MaxBorrowRate = 4
    BorrowRate <- MCBorrowRate
    NumMarkets = 2
    InitialMarkets <- GovMarkets
    Receiver = 2
    Prices <- GovPrices
    InitialParameters <- GovParameters
    MintAmounts <- GovMints
    BorrowAmounts <- GovBorrows
    RepayAmounts <- GovRepays
    TokenAmounts <- GovTokens
    Borrowers = {1}
    MaxOrders = 1
    MaxBlock = 0
    ParameterChoices <- GovChoices
    PauseChoices <- GovPauses
    DelegatePairs <- GovDelegates
INVARIANTS
    AccountAssetsMatchMembership
    DebtImpliesMembership
PROPERTY
    UnlistedMarketsFrozen
    SeizedOnlyFromUnsafe
