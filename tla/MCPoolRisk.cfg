\* One price moves, parameters stay: accounts fall into every regime.
SPECIFICATION Spec
CONSTANTS
    EXP_SCALE = 4
    NumUsers = 2
    InitialExchangeRate = 4
    MaxBorrowRate = 4
    BorrowRate <- MCBorrowRate
    NumMarkets = 2
    InitialMarkets <- MCInitialMarkets
    Receiver = 2
    Prices <- RiskPrices
    InitialParameters <- MCParameters
    MintAmounts <- RiskMints
    BorrowAmounts <- RiskBorrows
    RepayAmounts <- RiskRepays
    TokenAmounts <- RiskTokens
    Borrowers = {1}
    MaxOrders = 2
    MaxBlock = 1
    ParameterChoices <- None
    PauseChoices <- None
    DelegatePairs <- None
INVARIANTS
    TypeOK
    NoResolutionGap
PROPERTIES
    NoSelfInflictedShortfall
    BadDebtOnlyWithoutCollateral
    DebtOnlyMovesAtFreshIndex
