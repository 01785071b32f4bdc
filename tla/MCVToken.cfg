SPECIFICATION VTokenSpec
CONSTANTS
    EXP_SCALE = 4
    NumUsers = 2
    InitialExchangeRate = 6
    MaxBorrowRate = 4
    BorrowRate <- MCBorrowRate
    InitialMarket <- MCInitialMarket
    Amounts = {0, 3}
    VTokenAmounts = {1, 2}
    Incentives = {8}
    ReserveFactors = {4}
    SeizeShares = {4}
    LastBlock = 2
    MaxUnderlying = 4
    MaxDebt = 3
INVARIANTS VTokenTypeOK SupplyIsSumOfBalances ReservesBacked
PROPERTIES ExchangeRateNeverFalls DebtPaidOrRecognised ReservesStayLiquid
