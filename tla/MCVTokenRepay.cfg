SPECIFICATION VTokenSpec
CONSTANTS
    EXP_SCALE = 4
    NumUsers = 2
    InitialExchangeRate = 6
    MaxBorrowRate = 4
    BorrowRate <- MCBorrowRate
    InitialMarket <- MCInitialMarket
    Amounts = {1, 3}
    VTokenAmounts = {}
    Incentives = {}
    ReserveFactors = {}
    SeizeShares = {}
    LastBlock = 3
    MaxUnderlying = 6
    MaxDebt = 4
INVARIANT FullRepaymentPossible
