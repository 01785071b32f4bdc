------------------------------- MODULE MCPool -------------------------------
(* Two markets, two accounts: account 1 borrows market 2 against market 1,  *)
(* account 2 supplies both and liquidates.  EXP_SCALE is 4: a price, rate   *)
(* or factor of 4 is one.                                                   *)
EXTENDS IsolatedPool

MCInitialMarkets ==
    [m \in 1..2 |-> [reserveFactor |-> 2, protocolSeizeShare |-> 1, reduceReservesBlockDelta |-> 2,
                     initialSupply |-> IF m = 1 THEN 1 ELSE 8, price |-> IF m = 1 THEN 8 ELSE 4]]

MCParameters ==
    [collateralFactor |-> [m \in 1..2 |-> 2], liquidationThreshold |-> [m \in 1..2 |-> 2],
     borrowCap |-> [m \in 1..2 |-> 6], supplyCap |-> [m \in 1..2 |-> 8],
     closeFactor |-> 2, liquidationIncentive |-> 5, minLiquidatableCollateral |-> 6, forced |-> {}]

\* one unit of interest per slot on four units lent, none below
MCBorrowRate(cash, borrows, reserves, badDebt) == IF borrows = 0 THEN 0 ELSE 1

-----------------------------------------------------------------------------
(* prices move, parameters stay *)
RiskPrices == [m \in 1..2 |-> IF m = 1 THEN {4, 5, 6, 7, 8} ELSE {4}]
RiskMints == [m \in 1..2 |-> IF m = 1 THEN {4} ELSE {}]
RiskBorrows == [m \in 1..2 |-> IF m = 1 THEN {} ELSE {4}]
RiskRepays == [m \in 1..2 |-> IF m = 1 THEN {} ELSE {2}]
RiskTokens == [m \in 1..2 |-> IF m = 1 THEN {2} ELSE {}]
None == {}

-----------------------------------------------------------------------------
(* governance acts: markets are paused, capped and unlisted, and liquidations *)
(* forced in either, while account 1 owes in market 2 against collateral in  *)
(* market 1; a price of 1 makes that next to worthless                       *)
GovMarkets == [m \in 1..2 |-> [MCInitialMarkets[m] EXCEPT !.protocolSeizeShare = 0]]
GovParameters == [MCParameters EXCEPT !.collateralFactor[2] = 0, !.borrowCap[1] = 0]
GovPrices == [m \in 1..2 |-> IF m = 1 THEN {0, 1, 8} ELSE {4}]
GovMints == [m \in 1..2 |-> IF m = 1 THEN {4} ELSE {}]
GovBorrows == [m \in 1..2 |-> IF m = 1 THEN {} ELSE {4}]
GovRepays == [m \in 1..2 |-> IF m = 1 THEN {} ELSE {2, 4}]
GovTokens == [m \in 1..2 |-> {}]
GovChoices == {[GovParameters EXCEPT !.collateralFactor = [m \in 1..2 |-> 0],
                                     !.borrowCap = [m \in 1..2 |-> 0], !.supplyCap = [m \in 1..2 |-> 0],
                                     !.forced = f] : f \in {{}, {1, 2}}}
GovPauses == {{m} \X Actions : m \in 1..2}
GovDelegates == {<<1, 2>>}

-----------------------------------------------------------------------------
(* account 1 owes in both markets when market 2 is unlisted *)
SettleParameters == [MCParameters EXCEPT !.collateralFactor[2] = 0]
SettlePrices == [m \in 1..2 |-> IF m = 1 THEN {4} ELSE {}]
SettleBorrows == [m \in 1..2 |-> {1}]
SettleChoices == {[SettleParameters EXCEPT !.collateralFactor = [m \in 1..2 |-> 0],
                                           !.liquidationThreshold = [m \in 1..2 |-> 0],
                                           !.borrowCap[2] = 0, !.supplyCap[2] = 0]}
SettlePauses == {{2} \X Actions}
=============================================================================
