\* An account with borrows in a listed and in an unlisted market is liquidated as a whole.
SPECIFICATION Spec
CONSTANTS
    EXP_SCALE = 4
    NumUsers = 2
    InitialExchangeRate = 4
    MaxBorrowRate = 4
    BorrowRate <- MCBorrowRate
    NumMarkets = 2
    InitialMarkets <- MCInitialMarkets
    Receiver = 2
    Prices <- SettlePrices
    InitialParameters <- SettleParameters
    MintAmounts <- GovMints
    BorrowAmounts <- SettleBorrows
    RepayAmounts <- SettleBorrows
    TokenAmounts <- GovTokens
    Borrowers = {1}
    MaxOrders = 1
    MaxBlock = 0
    ParameterChoices <- SettleChoices
    PauseChoices <- SettlePauses
    DelegatePairs <- None
PROPERTY
    SmallAccountsSettled
