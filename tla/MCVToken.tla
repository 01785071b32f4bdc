------------------------------ MODULE MCVToken ------------------------------
(* One market with two accounts.  EXP_SCALE is 4, so that the exchange rate,*)
(* the borrow index and every conversion truncate on amounts below ten.     *)
EXTENDS VToken

MCInitialMarket == [reserveFactor |-> 2, protocolSeizeShare |-> 4, reduceReservesBlockDelta |-> 2]

\* WhitePaperInterestRateModel with multiplierPerBlock = EXP_SCALE \div 2 and a base
\* rate of zero; it reverts when nothing is left to divide by
MCBorrowRate(cash, borrows, reserves, badDebt) ==
    LET lent == borrows + badDebt
        net  == cash + lent - reserves
    IN  IF lent = 0 THEN 0
        ELSE IF net <= 0 THEN -1
        ELSE LET util == IF lent * EXP_SCALE >= net * EXP_SCALE THEN EXP_SCALE
                         ELSE (lent * EXP_SCALE) \div net
             IN  (util * (EXP_SCALE \div 2)) \div EXP_SCALE
=============================================================================
