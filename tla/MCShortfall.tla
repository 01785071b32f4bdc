---------------------------- MODULE MCShortfall -----------------------------
(* Pool 1 has two markets, pool 2 one that shares its token with the first;  *)
(* that token is also the base asset.  Token 2 takes a fee of 50 %.          *)
(* MAX_BPS is 10 and EXP_SCALE 4: a price of 4 is one dollar.                *)
EXTENDS Shortfall

MCSettings == [minimumPoolBadDebt |-> 2, incentiveBps |-> 5, nextBidderBlockLimit |-> 1, waitForFirstBidder |-> 1]

-----------------------------------------------------------------------------
(* Pool 1's debt is larger than its fund, pool 2's is smaller.               *)
TwoPoolOf == <<1, 1, 2>>
TwoUnderlying == <<1, 2, 1>>
TwoFee == <<0, 5>>
TwoBadDebt == <<2, 4, 2>>
TwoFund == <<5, 4>>
TwoPrices == {<<4, 4, 4>>}
None == {}
TwoRefusing == {<<1, 1>>, <<2, 1>>}

-----------------------------------------------------------------------------
(* One pool, whose debt and fund grow during auctions; governance acts.      *)
OnePoolOf == <<1, 1>>
OneUnderlying == <<1, 2>>
OneFee == <<0, 5>>
OneBadDebt == <<3, 1>>
OneRefusing == {<<1, 1>>}
OneFund == <<3>>
OnePrices == {<<4, 4>>}
OneChoices == {[minimumPoolBadDebt |-> 0, incentiveBps |-> 2, nextBidderBlockLimit |-> 2, waitForFirstBidder |-> 0]}
=============================================================================
