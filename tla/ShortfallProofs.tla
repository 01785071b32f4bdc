--------------------------- MODULE ShortfallProofs --------------------------
(***************************************************************************)
(* The invariants and step properties of Shortfall.tla for any number of   *)
(* pools, markets, tokens and users, any amounts, prices and settings.     *)
(***************************************************************************)
EXTENDS Shortfall, SumsProofs, TLAPS

-----------------------------------------------------------------------------
(* Amounts *)

\* The value of x at the price f, which at a price of at most one is no more than x.
LEMMA ValueBound ==
    ASSUME NEW f \in Nat, NEW x \in Nat
    PROVE  MulScalarTruncate(f, x) \in Nat /\ (f <= EXP_SCALE => MulScalarTruncate(f, x) <= x)
<1>1. f * x \in Nat
  BY Product
<1>2. f <= EXP_SCALE => f * x <= x * EXP_SCALE
  BY ExpScaleAssumption, SMT
<1>3. (f * x) \div EXP_SCALE \in Nat
  BY <1>1, ExpScaleAssumption, Quotient
<1>4. f <= EXP_SCALE => (f * x) \div EXP_SCALE <= x
  BY <1>1, <1>2, ExpScaleAssumption, QuotientBound
<1> QED BY <1>3, <1>4 DEF MulScalarTruncate

LEMMA ReceivedBound ==
    ASSUME NEW t \in Tokens, NEW a \in Nat
    PROVE  /\ Received(t, a) \in Nat /\ Received(t, a) <= a
           /\ Fee[t] = 0 => Received(t, a) = a
<1>1. Fee[t] \in 0..MAX_BPS /\ MAX_BPS \in Nat \ {0}
  BY ShortfallAssumption
<1>2. a * Fee[t] \in Nat /\ a * Fee[t] <= a * MAX_BPS
  BY <1>1, SMT
<1>3. (a * Fee[t]) \div MAX_BPS \in Nat /\ (a * Fee[t]) \div MAX_BPS <= a
  BY <1>1, <1>2, Quotient, QuotientBound
<1>4. Fee[t] = 0 => (a * Fee[t]) \div MAX_BPS = 0
  BY <1>1, SMT
<1> QED
  BY <1>3, <1>4 DEF Received

(* A share in basis points of an amount is no more than the amount. *)
LEMMA Share ==
    ASSUME NEW a \in Nat, NEW bps \in 0..MAX_BPS
    PROVE  (a * bps) \div MAX_BPS \in Nat /\ (a * bps) \div MAX_BPS <= a
<1>1. MAX_BPS \in Nat \ {0}
  BY ShortfallAssumption
<1>2. a * bps \in Nat /\ a * bps <= a * MAX_BPS
  BY <1>1, SMT
<1> QED
  BY <1>1, <1>2, Quotient, QuotientBound

LEMMA OfferBound ==
    ASSUME NEW auction \in Auction, NEW bps \in 0..MAX_BPS, NEW m \in Markets
    PROVE  Offer(auction, bps, m) \in Nat /\ Offer(auction, bps, m) <= auction.marketDebt[m]
<1>1. auction.marketDebt[m] \in Nat
  BY DEF Auction
<1>2. /\ (auction.marketDebt[m] * bps) \div MAX_BPS \in Nat
      /\ (auction.marketDebt[m] * bps) \div MAX_BPS <= auction.marketDebt[m]
  BY <1>1, Share
<1>3. Offer(auction, bps, m) \in {(auction.marketDebt[m] * bps) \div MAX_BPS, auction.marketDebt[m]}
  BY Zenon DEF Offer
<1> QED
  BY <1>1, <1>2, <1>3

LEMMA PayoutBound ==
    ASSUME NEW auction \in Auction
    PROVE  Payout(auction) \in Nat /\ Payout(auction) <= auction.seizedRiskFund
<1>1. auction.seizedRiskFund \in Nat /\ auction.highestBidBps \in 0..MAX_BPS
  BY DEF Auction
<1>2. /\ (auction.seizedRiskFund * auction.highestBidBps) \div MAX_BPS \in Nat
      /\ (auction.seizedRiskFund * auction.highestBidBps) \div MAX_BPS <= auction.seizedRiskFund
  BY <1>1, Share
<1>3. Payout(auction) \in {auction.seizedRiskFund,
                          (auction.seizedRiskFund * auction.highestBidBps) \div MAX_BPS}
  BY Zenon DEF Payout
<1> QED
  BY <1>1, <1>2, <1>3

(* The minimum bid of an auction whose fund does not cover debt and incentive *)
(* is a share: the truncation of the incentive cannot push it above all bps.  *)
LEMMA StartBidBound ==
    ASSUME settings \in Settings, NEW debt \in Nat \ {0}, NEW fundValue \in Nat, DebtIsLarge(debt, fundValue)
    PROVE  StartBid(debt, fundValue) \in 0..MAX_BPS
<1> DEFINE i == settings.incentiveBps
           part == (debt * i) \div MAX_BPS
<1>1. MAX_BPS \in Nat \ {0} /\ i \in Nat \ {0}
  BY ShortfallAssumption DEF Settings
<1>2. debt * i \in Nat /\ part \in Nat /\ part * MAX_BPS <= debt * i
  BY <1>1, Product, Quotient
<1>3. fundValue <= debt + part
  BY DEF DebtIsLarge, WithIncentive
<1> HIDE DEF part
<1> HIDE DEF i
<1>4. MAX_BPS * fundValue \in Nat /\ MAX_BPS * fundValue <= debt * (MAX_BPS + i)
  <2>1. MAX_BPS * fundValue <= MAX_BPS * (debt + part)
    BY <1>1, <1>2, <1>3, SMT
  <2>2. MAX_BPS * (debt + part) <= debt * (MAX_BPS + i)
    BY <1>1, <1>2, SMT
  <2>3. MAX_BPS * fundValue \in Nat /\ MAX_BPS * (debt + part) \in Nat /\ debt * (MAX_BPS + i) \in Nat
    BY <1>1, <1>2, Product
  <2> QED
    BY <2>1, <2>2, <2>3
<1> DEFINE share == MAX_BPS * fundValue
           whole == debt * (MAX_BPS + i)
<1>5. whole \in Nat \ {0} /\ share \in Nat /\ share <= whole
  BY <1>1, <1>4, SMT
<1>6. MAX_BPS * MAX_BPS * fundValue = MAX_BPS * share
  BY <1>1, SMT
<1> HIDE DEF share, whole
<1>7. MAX_BPS * share \in Nat /\ MAX_BPS * share <= MAX_BPS * whole
  BY <1>1, <1>5, SMT
<1>8. (MAX_BPS * share) \div whole \in Nat /\ (MAX_BPS * share) \div whole <= MAX_BPS
  BY <1>1, <1>5, <1>7, Quotient, QuotientBound
<1>9. StartBid(debt, fundValue) = (MAX_BPS * share) \div whole
  BY <1>6 DEF StartBid, whole, i
<1> QED
  BY <1>1, <1>8, <1>9

-----------------------------------------------------------------------------
(* Sums over markets and users *)

\* the amounts that LiveBids adds up
LiveAmounts(as, t) ==
    [m \in Markets |-> IF Underlying[m] = t /\ HasBid(as[PoolOf[m]]) THEN as[PoolOf[m]].bidAmount[m] ELSE 0]

LEMMA PerTokenOf ==
    ASSUME NEW p \in Pools, NEW t \in Tokens, NEW amount \in [Markets -> Nat]
    PROVE  /\ PerToken(p, amount)[t] \in Nat
           /\ \A m \in MarketsOf(p) : Underlying[m] = t => PerToken(p, amount)[t] = amount[m]
           /\ (\A m \in MarketsOf(p) : Underlying[m] # t) => PerToken(p, amount)[t] = 0
<1>1. CASE MarketFor(p, t) = {}
  <2>1. PerToken(p, amount)[t] = 0
    BY <1>1 DEF PerToken
  <2> QED
    BY <1>1, <2>1 DEF MarketFor
<1>2. CASE MarketFor(p, t) # {}
  <2> DEFINE n == CHOOSE m \in MarketFor(p, t) : TRUE
  <2>1. n \in MarketFor(p, t)
    BY <1>2
  <2>2. PerToken(p, amount)[t] = amount[n]
    BY <1>2 DEF PerToken
  <2> HIDE DEF n
  <2>3. n \in Markets /\ PoolOf[n] = p /\ Underlying[n] = t
    BY <2>1 DEF MarketFor, MarketsOf
  <2>4. \A m \in MarketsOf(p) : Underlying[m] = t => m = n
    BY <2>3, ShortfallAssumption DEF MarketsOf
  <2> QED
    BY <2>2, <2>3, <2>4 DEF MarketsOf
<1> QED
  BY <1>1, <1>2

(* What a token's live bids add up to changes by what the one auction that is *)
(* replaced held before and holds now: a pool has one market per token.       *)
LEMMA LiveBidsChange ==
    ASSUME NEW as \in [Pools -> Auction], NEW p \in Pools, NEW new \in Auction, NEW t \in Tokens
    PROVE  /\ LiveAmounts(as, t) \in [Markets -> Nat]
           /\ Total(LiveAmounts([as EXCEPT ![p] = new], t), NumMarkets)
                = Total(LiveAmounts(as, t), NumMarkets) - Refund(as[p], p)[t] + Refund(new, p)[t]
           /\ Refund(as[p], p)[t] \in Nat /\ Refund(new, p)[t] \in Nat
<1> DEFINE bs  == [as EXCEPT ![p] = new]
           old == LiveAmounts(as, t)
           cur == LiveAmounts(bs, t)
<1>1. /\ PoolOf \in [Markets -> Pools] /\ NumMarkets \in Nat
      /\ bs \in [Pools -> Auction] /\ bs[p] = new /\ \A q \in Pools : q # p => bs[q] = as[q]
  BY ShortfallAssumption
<1>2. \A a \in Auction : a.bidAmount \in [Markets -> Nat]
  BY DEF Auction
<1>3. old \in [Markets -> Nat] /\ cur \in [Markets -> Nat]
  BY <1>1, <1>2, ZenonT(60) DEF LiveAmounts
<1>4. \A a \in Auction : /\ Refund(a, p)[t] \in Nat
                         /\ HasBid(a) => Refund(a, p)[t] = PerToken(p, a.bidAmount)[t]
                         /\ ~HasBid(a) => Refund(a, p)[t] = 0
  BY <1>2, PerTokenOf DEF Refund
<1>5. \A m \in Markets : PoolOf[m] # p \/ Underlying[m] # t => cur[m] = old[m]
  BY <1>1 DEF LiveAmounts
<1>6. \A n \in MarketsOf(p) : Underlying[n] = t =>
         /\ old[n] = IF HasBid(as[p]) THEN as[p].bidAmount[n] ELSE 0
         /\ cur[n] = IF HasBid(new) THEN new.bidAmount[n] ELSE 0
  BY <1>1 DEF LiveAmounts, MarketsOf
<1> HIDE DEF old, cur, bs
<1>7. /\ old \in [1..NumMarkets -> Int] /\ cur \in [1..NumMarkets -> Int]
      /\ DOMAIN old = Markets /\ DOMAIN cur = Markets
  BY <1>3 DEF Markets
<1>8. as[p] \in Auction
  OBVIOUS
<1>9. CASE \A m \in MarketsOf(p) : Underlying[m] # t
  <2>1. cur = old
    BY <1>3, <1>5, <1>9 DEF MarketsOf
  <2>2. \A a \in Auction : Refund(a, p)[t] = 0
    <3> SUFFICES ASSUME NEW a \in Auction PROVE Refund(a, p)[t] = 0
      OBVIOUS
    <3>1. PerToken(p, a.bidAmount)[t] = 0
      BY <1>2, <1>9, PerTokenOf
    <3> QED
      BY <1>4, <3>1
  <2>3. Total(old, NumMarkets) \in Int
    BY <1>1, <1>7, TotalType
  <2>4. Refund(as[p], p)[t] = 0 /\ Refund(new, p)[t] = 0
    BY <1>8, <2>2
  <2>5. /\ Total(cur, NumMarkets) = Total(old, NumMarkets) - Refund(as[p], p)[t] + Refund(new, p)[t]
        /\ Refund(as[p], p)[t] \in Nat /\ Refund(new, p)[t] \in Nat
    BY <2>1, <2>3, <2>4
  <2> QED
    BY <1>3, <2>5, Zenon DEF old, cur, bs
<1>10. CASE \E m \in MarketsOf(p) : Underlying[m] = t
  <2>1. PICK n \in MarketsOf(p) : Underlying[n] = t
    BY <1>10
  <2>2. n \in Markets /\ PoolOf[n] = p
    BY <2>1 DEF MarketsOf
  <2>3. \A m \in Markets : m # n => cur[m] = old[m]
    BY <1>5, <2>1, <2>2, ShortfallAssumption
  <2>4. cur = [old EXCEPT ![n] = cur[n]]
    BY <1>3, <2>2, <2>3
  <2>5. old[n] = Refund(as[p], p)[t] /\ cur[n] = Refund(new, p)[t]
    <3>1. /\ PerToken(p, as[p].bidAmount)[t] = as[p].bidAmount[n]
          /\ PerToken(p, new.bidAmount)[t] = new.bidAmount[n]
      BY <1>2, <1>8, <2>1, PerTokenOf
    <3> QED
      BY <1>4, <1>6, <1>8, <2>1, <3>1
  <2>6. Total(cur, NumMarkets) = Total(old, NumMarkets) - old[n] + cur[n]
    <3>1. cur[n] \in Int /\ n \in 1..NumMarkets /\ NumMarkets \in Nat
      BY <1>1, <1>7, <2>2 DEF Markets
    <3>2. Total([old EXCEPT ![n] = cur[n]], NumMarkets) = Total(old, NumMarkets) - old[n] + cur[n]
      BY <1>7, <3>1, TotalUpdate
    <3> QED
      BY <2>4, <3>2
  <2> QED
    BY <1>3, <1>4, <1>8, <2>5, <2>6 DEF old, cur, bs
<1> QED
  BY <1>9, <1>10

\* the users' debts add up to the total, token by token
AddUp(total, debt) == \A t \in Tokens : total[t] = Total(debt[t], NumUsers)

(* A refused payout raises the user's debt and the token's total alike. *)
LEMMA DebtsTracked ==
    ASSUME NEW debt \in [Tokens -> [Users -> Nat]], NEW total \in [Tokens -> Nat], NEW user \in Users,
           NEW paid \in [Tokens -> Nat], NEW refused,
           AddUp(total, debt)
    PROVE  /\ DebtTracked(debt, user, paid, refused) \in [Tokens -> [Users -> Nat]]
           /\ TotalTracked(total, paid, refused) \in [Tokens -> Nat]
           /\ AddUp(TotalTracked(total, paid, refused), DebtTracked(debt, user, paid, refused))
<1>1. DebtTracked(debt, user, paid, refused) \in [Tokens -> [Users -> Nat]]
  BY DEF DebtTracked
<1>2. TotalTracked(total, paid, refused) \in [Tokens -> Nat]
  BY DEF TotalTracked
<1>3. ASSUME NEW t \in Tokens
      PROVE  TotalTracked(total, paid, refused)[t] = Total(DebtTracked(debt, user, paid, refused)[t], NumUsers)
  <2>1. CASE t \in refused
    <3>1. /\ debt[t] \in [1..NumUsers -> Int] /\ user \in 1..NumUsers /\ NumUsers \in Nat
          /\ debt[t][user] + paid[t] \in Int /\ debt[t][user] \in Nat /\ paid[t] \in Nat
      <4>1. NumUsers \in Nat
        BY ShortfallAssumption
      <4>2. debt[t] \in [Users -> Nat] /\ paid[t] \in Nat
        OBVIOUS
      <4>3. debt[t][user] \in Nat
        BY <4>2
      <4>4. debt[t] \in [1..NumUsers -> Int]
        BY <4>2 DEF Users
      <4> QED
        BY <4>1, <4>2, <4>3, <4>4 DEF Users
    <3>2. Total([debt[t] EXCEPT ![user] = debt[t][user] + paid[t]], NumUsers)
            = Total(debt[t], NumUsers) - debt[t][user] + (debt[t][user] + paid[t])
      <4> DEFINE d == debt[t]
                 v == debt[t][user] + paid[t]
      <4>1. d \in [1..NumUsers -> Int] /\ user \in 1..NumUsers /\ NumUsers \in Nat /\ v \in Int
        BY <3>1
      <4> HIDE DEF d, v
      <4>2. Total([d EXCEPT ![user] = v], NumUsers) = Total(d, NumUsers) - d[user] + v
        BY <4>1, TotalUpdate
      <4> QED
        BY <4>2 DEF d, v
    <3>3. DebtTracked(debt, user, paid, refused)[t] = [debt[t] EXCEPT ![user] = debt[t][user] + paid[t]]
      BY <2>1 DEF DebtTracked
    <3>4. TotalTracked(total, paid, refused)[t] = total[t] + paid[t]
      BY <2>1 DEF TotalTracked
    <3>5. total[t] = Total(debt[t], NumUsers) /\ total[t] \in Nat
      BY DEF AddUp
    <3> QED
      BY <3>1, <3>2, <3>3, <3>4, <3>5
  <2>2. CASE t \notin refused
    BY <2>2 DEF DebtTracked, TotalTracked, AddUp
  <2> QED
    BY <2>1, <2>2
<1> QED
  BY <1>1, <1>2, <1>3 DEF AddUp

LEMMA RefundType ==
    ASSUME NEW a \in Auction, NEW p \in Pools
    PROVE  /\ Refund(a, p) \in [Tokens -> Nat]
           /\ ~HasBid(a) => Refund(a, p) = [t \in Tokens |-> 0]
           /\ HasBid(a) => a.highestBidder \in Users
<1>1. a.bidAmount \in [Markets -> Nat] /\ a.highestBidder \in Users \cup {Nobody}
  BY DEF Auction
<1>2. PerToken(p, a.bidAmount) \in [Tokens -> Nat]
  <2>1. \A t \in Tokens : PerToken(p, a.bidAmount)[t] \in Nat
    BY <1>1, PerTokenOf
  <2>2. PerToken(p, a.bidAmount) = [t \in Tokens |-> PerToken(p, a.bidAmount)[t]]
    BY DEF PerToken
  <2> QED
    BY <2>1, <2>2
<1> QED
  BY <1>1, <1>2 DEF Refund, HasBid

-----------------------------------------------------------------------------
(* The inductive invariant *)

Books == AddUp(totalTokenDebt, tokenDebt)

\* the terms of a running auction: a first bid exists, and no market is bid more
\* than the bad debt it still carries
Terms(p) ==
    Started(auctions[p]) =>
        /\ auctions[p].auctionType = "LARGE_POOL_DEBT" => auctions[p].startBidBps <= MAX_BPS
        /\ auctions[p].auctionType = "LARGE_RISK_FUND" => auctions[p].startBidBps = MAX_BPS
        /\ \A m \in MarketsOf(p) : auctions[p].marketDebt[m] <= badDebt[m]
        /\ HasBid(auctions[p]) =>
               \A m \in MarketsOf(p) : auctions[p].bidAmount[m] <= auctions[p].marketDebt[m]

IInv == TypeOK /\ Books /\ \A p \in Pools : Terms(p)

LEMMA InitIInv == Init => IInv
<1> SUFFICES ASSUME Init PROVE IInv
  OBVIOUS
<1> USE ShortfallAssumption
<1>1. \A p \in Pools : auctions[p] \in Auction /\ ~Started(auctions[p])
  BY DEF Init, Auction, Started
<1>2. TypeOK
  BY <1>1 DEF Init, TypeOK
<1>3. Books
  <2>1. Total([u \in 1..NumUsers |-> 0], NumUsers) = 0
    BY TotalZero
  <2> QED
    BY <2>1 DEF Init, Books, AddUp, Users
<1> QED
  BY <1>1, <1>2, <1>3 DEF IInv, Terms

LEMMA PlaceBidIInv ==
    ASSUME IInv, NEW p \in Pools, NEW u \in Users, NEW bps \in Bids, NEW start, NEW refused,
           PlaceBid(p, u, bps, start, refused)
    PROVE  IInv' /\ WithBid(auctions[p], p, u, bps) \in Auction
<1> DEFINE auction == auctions[p]
           new     == WithBid(auction, p, u, bps)
           refund  == Refund(auction, p)
           income  == Refund(new, p)
<1>1. /\ TypeOK /\ Books /\ Terms(p) /\ auction \in Auction /\ block \in Nat
      /\ bps \in 0..MAX_BPS /\ Underlying \in [Markets -> Tokens] /\ PoolOf \in [Markets -> Pools]
  BY ShortfallAssumption DEF IInv, TypeOK
<1>2. /\ Started(auction) /\ auctions' = [auctions EXCEPT ![p] = new]
      /\ \A t \in Tokens : balance[t] >= refund[t]
      /\ balance' = [t \in Tokens |-> PaidOut(balance, refund, refused)[t] + PerToken(p, new.bidAmount)[t]]
      /\ tokenDebt' = IF HasBid(auction)
                      THEN DebtTracked(tokenDebt, auction.highestBidder, refund, refused) ELSE tokenDebt
      /\ totalTokenDebt' = TotalTracked(totalTokenDebt, refund, refused)
      /\ refused \subseteq {t \in Tokens : refund[t] > 0}
      /\ UNCHANGED <<badDebt, cash, fund, settings, auctionsPaused, block>>
  BY DEF PlaceBid
<1>3. \A m \in Markets :
         /\ Received(Underlying[m], Offer(auction, bps, m)) \in Nat
         /\ Received(Underlying[m], Offer(auction, bps, m)) <= auction.marketDebt[m]
  <2> SUFFICES ASSUME NEW m \in Markets
               PROVE  /\ Received(Underlying[m], Offer(auction, bps, m)) \in Nat
                      /\ Received(Underlying[m], Offer(auction, bps, m)) <= auction.marketDebt[m]
    OBVIOUS
  <2>1. Offer(auction, bps, m) \in Nat /\ Offer(auction, bps, m) <= auction.marketDebt[m]
    BY <1>1, OfferBound
  <2>2. auction.marketDebt[m] \in Nat
    BY <1>1 DEF Auction
  <2>3. /\ Received(Underlying[m], Offer(auction, bps, m)) \in Nat
        /\ Received(Underlying[m], Offer(auction, bps, m)) <= Offer(auction, bps, m)
    BY <1>1, <2>1, ReceivedBound
  <2> QED
    BY <2>1, <2>2, <2>3
<1>4. /\ new \in Auction /\ HasBid(new) /\ new.highestBidder = u
      /\ new.marketDebt = auction.marketDebt /\ new.auctionType = auction.auctionType
      /\ new.startBidBps = auction.startBidBps
      /\ \A m \in MarketsOf(p) : new.bidAmount[m] <= new.marketDebt[m]
  <2> DEFINE amounts == [m \in Markets |-> IF PoolOf[m] = p THEN Received(Underlying[m], Offer(auction, bps, m))
                                           ELSE auction.bidAmount[m]]
  <2>1. amounts \in [Markets -> Nat]
    BY <1>1, <1>3 DEF Auction
  <2>2. \A m \in MarketsOf(p) : amounts[m] <= auction.marketDebt[m]
    BY <1>3 DEF MarketsOf
  <2>3. new = [auction EXCEPT !.highestBidder = u, !.highestBidBps = bps, !.highestBidBlock = block,
                              !.bidAmount = amounts]
    BY <1>1, Zenon DEF WithBid, Auction
  <2> HIDE DEF amounts, new
  <2>4. u \in Users \cup {Nobody} /\ u # Nobody
    BY DEF Users, Nobody
  <2>5. new \in Auction
    BY <1>1, <2>1, <2>3, <2>4, Zenon DEF Auction
  <2>6. /\ new.highestBidder = u /\ new.bidAmount = amounts /\ new.status = auction.status
        /\ new.marketDebt = auction.marketDebt /\ new.auctionType = auction.auctionType
        /\ new.startBidBps = auction.startBidBps
    BY <1>1, <2>3 DEF Auction
  <2> QED
    BY <1>2, <2>2, <2>4, <2>5, <2>6 DEF HasBid, Started
<1> HIDE DEF new
<1>5. refund \in [Tokens -> Nat] /\ income \in [Tokens -> Nat] /\ income = PerToken(p, new.bidAmount)
  BY <1>1, <1>4, RefundType DEF Refund
<1>6. /\ tokenDebt' \in [Tokens -> [Users -> Nat]] /\ totalTokenDebt' \in [Tokens -> Nat]
      /\ AddUp(totalTokenDebt', tokenDebt')
  <2>0. tokenDebt \in [Tokens -> [Users -> Nat]] /\ totalTokenDebt \in [Tokens -> Nat]
    BY <1>1 DEF TypeOK
  <2>1. CASE HasBid(auction)
    <3>1. auction.highestBidder \in Users
      BY <1>1, <2>1, RefundType
    <3>2. tokenDebt' = DebtTracked(tokenDebt, auction.highestBidder, refund, refused)
      BY <1>2, <2>1
    <3>3. AddUp(totalTokenDebt, tokenDebt)
      BY <1>1 DEF Books
    <3>4. totalTokenDebt' = TotalTracked(totalTokenDebt, refund, refused) /\ refund \in [Tokens -> Nat]
      BY <1>2, <1>5
    <3> DEFINE bidder == auction.highestBidder
    <3>5. bidder \in Users
      BY <3>1
    <3>6. tokenDebt' = DebtTracked(tokenDebt, bidder, refund, refused)
      BY <3>2
    <3> HIDE DEF refund, bidder
    <3>7. /\ DebtTracked(tokenDebt, bidder, refund, refused) \in [Tokens -> [Users -> Nat]]
          /\ TotalTracked(totalTokenDebt, refund, refused) \in [Tokens -> Nat]
          /\ AddUp(TotalTracked(totalTokenDebt, refund, refused), DebtTracked(tokenDebt, bidder, refund, refused))
      BY <2>0, <3>3, <3>4, <3>5, DebtsTracked
    <3> QED
      BY <3>4, <3>6, <3>7
  <2>2. CASE ~HasBid(auction)
    <3>1. refund = [t \in Tokens |-> 0]
      BY <1>1, <2>2, RefundType
    <3>2. refused = {}
      BY <1>2, <3>1
    <3>3. totalTokenDebt' = totalTokenDebt /\ tokenDebt' = tokenDebt
      BY <1>2, <2>0, <2>2, <3>2 DEF TotalTracked
    <3> QED
      BY <1>1, <2>0, <3>3 DEF Books
  <2> QED
    BY <2>1, <2>2
<1>7. balance' \in [Tokens -> Nat]
  <2>1. balance \in [Tokens -> Nat]
    BY <1>1 DEF TypeOK
  <2> HIDE DEF refund, income
  <2> QED
    BY <1>2, <1>5, <2>1 DEF PaidOut
<1>8. TypeOK'
  <2>1. auctions' \in [Pools -> Auction]
    BY <1>1, <1>2, <1>4 DEF TypeOK
  <2> QED
    BY <1>1, <1>2, <1>6, <1>7, <2>1 DEF TypeOK
<1>9. ASSUME NEW q \in Pools PROVE Terms(q)'
  <2>1. CASE q = p
    <3>1. auctions'[q] = new
      BY <1>1, <1>2, <2>1 DEF TypeOK
    <3> QED
      BY <1>1, <1>2, <1>4, <2>1, <3>1 DEF Terms
  <2>2. CASE q # p
    <3>1. auctions'[q] = auctions[q] /\ Terms(q) /\ badDebt' = badDebt
      BY <1>1, <1>2, <2>2 DEF TypeOK, IInv
    <3> QED
      BY <3>1 DEF Terms
  <2> QED
    BY <2>1, <2>2
<1> QED
  BY <1>4, <1>6, <1>8, <1>9 DEF IInv, Books, new

LEMMA CloseAuctionIInv ==
    ASSUME IInv, NEW p \in Pools, NEW refused, CloseAuction(p, refused)
    PROVE  IInv'
<1> DEFINE auction == auctions[p]
           sent    == PerToken(p, auction.bidAmount)
           payout  == [t \in Tokens |-> IF t = BaseAsset THEN Payout(auction) ELSE 0]
           held    == [t \in Tokens |-> balance[t] - sent[t] + Received(t, payout[t])]
           bidder  == auction.highestBidder
           new     == [auction EXCEPT !.status = "ENDED"]
<1>1. /\ TypeOK /\ Books /\ \A q \in Pools : Terms(q)
      /\ auction \in Auction /\ Underlying \in [Markets -> Tokens] /\ BaseAsset \in Tokens
  BY ShortfallAssumption DEF IInv, TypeOK
<1>2. /\ HasBid(auction)
      /\ \A t \in Tokens : balance[t] >= sent[t]
      /\ \A m \in MarketsOf(p) : Recovered(auction, m) <= badDebt[m]
      /\ Payout(auction) <= fund[p] /\ Payout(auction) <= held[BaseAsset]
      /\ refused \subseteq {t \in {BaseAsset} : <<t, bidder>> \in Refusing}
      /\ auctions' = [auctions EXCEPT ![p].status = "ENDED"]
      /\ badDebt' = [m \in Markets |-> IF PoolOf[m] = p THEN badDebt[m] - Recovered(auction, m) ELSE badDebt[m]]
      /\ cash' = [m \in Markets |->
             IF PoolOf[m] = p THEN cash[m] + Received(Underlying[m], auction.bidAmount[m]) ELSE cash[m]]
      /\ fund' = [fund EXCEPT ![p] = fund[p] - Payout(auction)]
      /\ balance' = PaidOut(held, payout, refused)
      /\ tokenDebt' = DebtTracked(tokenDebt, bidder, payout, refused)
      /\ totalTokenDebt' = TotalTracked(totalTokenDebt, payout, refused)
      /\ UNCHANGED <<settings, auctionsPaused, block>>
  BY DEF CloseAuction, MayClose
<1>3. Payout(auction) \in Nat
  BY <1>1, PayoutBound
<1>4. payout \in [Tokens -> Nat] /\ bidder \in Users
  <2>1. bidder \in Users
    BY <1>1, <1>2, RefundType
  <2> HIDE DEF auction, bidder
  <2>2. payout \in [Tokens -> Nat]
    BY <1>3
  <2> QED
    BY <2>1, <2>2
<1>5. \A m \in Markets :
         Recovered(auction, m) \in Nat /\ Received(Underlying[m], auction.bidAmount[m]) = Recovered(auction, m)
  <2> SUFFICES ASSUME NEW m \in Markets PROVE Recovered(auction, m) \in Nat
    BY DEF Recovered
  <2>1. auction.bidAmount[m] \in Nat /\ Underlying[m] \in Tokens
    BY <1>1 DEF Auction
  <2> QED
    BY <2>1, ReceivedBound DEF Recovered
<1>6. badDebt' \in [Markets -> Nat] /\ cash' \in [Markets -> Nat]
  <2>1. badDebt \in [Markets -> Nat] /\ cash \in [Markets -> Nat]
    BY <1>1 DEF TypeOK
  <2> HIDE DEF auction
  <2>2. \A m \in Markets : PoolOf[m] = p => badDebt[m] - Recovered(auction, m) \in Nat
    BY <1>2, <1>5, <2>1 DEF MarketsOf
  <2> QED
    BY <1>2, <1>5, <2>1, <2>2
<1>7. fund' \in [Pools -> Nat]
  <2>1. fund \in [Pools -> Nat]
    BY <1>1 DEF TypeOK
  <2>2. fund[p] - Payout(auction) \in Nat
    BY <1>2, <1>3, <2>1
  <2> QED
    BY <1>2, <2>1, <2>2
<1>8. balance' \in [Tokens -> Nat]
  <2>1. balance \in [Tokens -> Nat] /\ sent \in [Tokens -> Nat]
    <3>1. auction.bidAmount \in [Markets -> Nat]
      BY <1>1 DEF Auction
    <3>2. \A t \in Tokens : sent[t] \in Nat
      BY <3>1, PerTokenOf
    <3>3. sent = [t \in Tokens |-> sent[t]]
      BY DEF PerToken
    <3> HIDE DEF sent
    <3> QED
      BY <1>1, <3>2, <3>3 DEF TypeOK
  <2> HIDE DEF payout, sent
  <2>2. \A t \in Tokens : Received(t, payout[t]) \in Nat
    BY <1>4, ReceivedBound
  <2>3. \A t \in Tokens : held[t] \in Nat
    BY <1>2, <2>1, <2>2
  <2>4. \A t \in Tokens : held[t] - payout[t] \in Nat
    <3>1. payout[BaseAsset] <= held[BaseAsset]
      BY <1>1, <1>2 DEF payout
    <3>2. \A t \in Tokens : t # BaseAsset => payout[t] = 0
      BY DEF payout
    <3> HIDE DEF held
    <3> QED
      BY <1>4, <2>3, <3>1, <3>2
  <2> HIDE DEF held
  <2> QED
    BY <1>2, <2>3, <2>4 DEF PaidOut
<1>9. /\ tokenDebt' \in [Tokens -> [Users -> Nat]] /\ totalTokenDebt' \in [Tokens -> Nat]
      /\ AddUp(totalTokenDebt', tokenDebt')
  <2>1. tokenDebt \in [Tokens -> [Users -> Nat]] /\ totalTokenDebt \in [Tokens -> Nat]
    BY <1>1 DEF TypeOK
  <2>2. AddUp(totalTokenDebt, tokenDebt)
    BY <1>1 DEF Books
  <2>3. /\ totalTokenDebt' = TotalTracked(totalTokenDebt, payout, refused)
        /\ tokenDebt' = DebtTracked(tokenDebt, bidder, payout, refused)
    BY <1>2
  <2> HIDE DEF payout, bidder
  <2>4. /\ DebtTracked(tokenDebt, bidder, payout, refused) \in [Tokens -> [Users -> Nat]]
        /\ TotalTracked(totalTokenDebt, payout, refused) \in [Tokens -> Nat]
        /\ AddUp(TotalTracked(totalTokenDebt, payout, refused), DebtTracked(tokenDebt, bidder, payout, refused))
    <3>1. payout \in [Tokens -> Nat] /\ bidder \in Users
      BY <1>4
    <3> HIDE <1>4
    <3> QED
      BY <2>1, <2>2, <3>1, DebtsTracked
  <2> QED
    BY <2>3, <2>4
<1>10. auctions' = [auctions EXCEPT ![p] = new] /\ new \in Auction /\ ~Started(new)
  <2>1. auctions' = [auctions EXCEPT ![p] = new]
    BY <1>2, Zenon
  <2>2. "ENDED" \in {"NOT_STARTED", "STARTED", "ENDED"}
    OBVIOUS
  <2>3. new \in Auction
    BY <1>1, <2>2, Zenon DEF Auction
  <2>4. new.status = "ENDED"
    BY <1>1 DEF Auction
  <2> QED
    BY <2>1, <2>3, <2>4 DEF Started
<1>11. TypeOK'
  <2> HIDE DEF new
  <2>1. auctions' \in [Pools -> Auction]
    BY <1>1, <1>10 DEF TypeOK
  <2> QED
    BY <1>1, <1>2, <1>6, <1>7, <1>8, <1>9, <2>1 DEF TypeOK
<1>12. ASSUME NEW q \in Pools PROVE Terms(q)'
  <2> HIDE DEF new
  <2>1. CASE q = p
    <3>1. auctions'[q] = new
      BY <1>1, <1>10, <2>1 DEF TypeOK
    <3> QED
      BY <1>10, <3>1 DEF Terms
  <2>2. CASE q # p
    <3>1. auctions'[q] = auctions[q] /\ Terms(q)
      BY <1>1, <1>10, <2>2 DEF TypeOK
    <3>2. \A m \in MarketsOf(q) : badDebt'[m] = badDebt[m]
      BY <1>1, <1>2, <2>2 DEF TypeOK, MarketsOf
    <3> QED
      BY <3>1, <3>2 DEF Terms
  <2> QED
    BY <2>1, <2>2
<1> QED
  BY <1>9, <1>11, <1>12 DEF IInv, Books

(* What _startAuction writes: an auction without bids whose first bid is a     *)
(* share, over the markets' bad debt, and that takes at most the fund's value. *)
LEMMA StartedTerms ==
    ASSUME TypeOK, NEW p \in Pools, NEW debt \in Nat, NEW fundValue \in Nat,
           DebtIsLarge(debt, fundValue) => debt # 0
    PROVE  LET new == StartedAuction(auctions[p], p, debt, fundValue)
           IN  /\ new \in Auction /\ ~HasBid(new)
               /\ new.auctionType = "LARGE_POOL_DEBT" => new.startBidBps <= MAX_BPS
               /\ new.auctionType = "LARGE_RISK_FUND" => new.startBidBps = MAX_BPS
               /\ \A m \in MarketsOf(p) : new.marketDebt[m] = badDebt[m]
               /\ new.seizedRiskFund <= fundValue
<1> DEFINE auction == auctions[p]
           large   == DebtIsLarge(debt, fundValue)
           debts   == [m \in Markets |-> IF PoolOf[m] = p THEN badDebt[m] ELSE 0]
           kind    == IF large THEN "LARGE_POOL_DEBT" ELSE "LARGE_RISK_FUND"
           bps     == IF large THEN StartBid(debt, fundValue) ELSE MAX_BPS
           seized  == IF large THEN fundValue ELSE WithIncentive(debt)
           new     == StartedAuction(auction, p, debt, fundValue)
<1>1. /\ auction \in Auction /\ settings \in Settings /\ MAX_BPS \in Nat \ {0}
      /\ badDebt \in [Markets -> Nat] /\ block \in Nat
  BY ShortfallAssumption DEF TypeOK
<1>2. WithIncentive(debt) \in Nat
  <2>1. settings.incentiveBps \in Nat
    BY <1>1 DEF Settings
  <2>2. debt * settings.incentiveBps \in Nat
    BY <2>1, Product
  <2>3. (debt * settings.incentiveBps) \div MAX_BPS \in Nat
    BY <1>1, <2>2, Quotient
  <2> QED
    BY <2>3 DEF WithIncentive
<1>3. bps \in 0..MAX_BPS /\ (~large => bps = MAX_BPS)
  <2>1. CASE large
    <3>1. debt \in Nat \ {0} /\ large
      BY <2>1
    <3>2. StartBid(debt, fundValue) \in 0..MAX_BPS
      BY <1>1, <3>1, StartBidBound
    <3> QED
      BY <2>1, <3>2
  <2>2. CASE ~large
    BY <1>1, <2>2
  <2> QED
    BY <2>1, <2>2
<1>4. seized \in Nat /\ seized <= fundValue
  <2>1. CASE large
    BY <2>1
  <2>2. CASE ~large
    BY <1>2, <2>2 DEF DebtIsLarge
  <2> QED
    BY <2>1, <2>2
<1>5. debts \in [Markets -> Nat] /\ \A m \in MarketsOf(p) : debts[m] = badDebt[m]
  BY <1>1 DEF MarketsOf
<1>6. new = [auction EXCEPT !.status = "STARTED", !.startBlock = block,
                            !.highestBidder = Nobody, !.highestBidBps = 0, !.highestBidBlock = 0,
                            !.marketDebt = debts, !.auctionType = kind,
                            !.startBidBps = bps, !.seizedRiskFund = seized]
  BY Zenon DEF StartedAuction
<1>7. /\ kind \in {"LARGE_POOL_DEBT", "LARGE_RISK_FUND"} /\ (kind = "LARGE_RISK_FUND" => ~large)
      /\ "STARTED" \in {"NOT_STARTED", "STARTED", "ENDED"} /\ Nobody \in Users \cup {Nobody}
      /\ 0 \in 0..MAX_BPS /\ 0 \in Nat
  BY <1>1
<1>8. bps \in Nat
  BY <1>1, <1>3
<1> HIDE DEF new, kind, bps, seized, debts, large, auction
<1>9. new \in Auction
  BY <1>1, <1>3, <1>4, <1>5, <1>6, <1>7, <1>8, Zenon DEF Auction
<1>10. /\ new.highestBidder = Nobody /\ new.auctionType = kind /\ new.startBidBps = bps
       /\ new.marketDebt = debts /\ new.seizedRiskFund = seized
  BY <1>1, <1>6 DEF Auction
<1>11. /\ new \in Auction /\ ~HasBid(new)
       /\ new.auctionType = "LARGE_POOL_DEBT" => new.startBidBps <= MAX_BPS
       /\ new.auctionType = "LARGE_RISK_FUND" => new.startBidBps = MAX_BPS
       /\ \A m \in MarketsOf(p) : new.marketDebt[m] = badDebt[m]
       /\ new.seizedRiskFund <= fundValue
  BY <1>1, <1>3, <1>4, <1>5, <1>7, <1>9, <1>10 DEF HasBid
<1> QED
  BY <1>11 DEF new, auction

LEMMA StartAmounts ==
    ASSUME TypeOK, NEW p \in Pools, NEW prices \in MarketPrices, NEW basePrice \in BasePrices
    PROVE  /\ PoolBadDebt(p, prices) \in Nat
           /\ MulScalarTruncate(basePrice, fund[p]) \in Nat
<1>1. /\ badDebt \in [Markets -> Nat] /\ prices \in [Markets -> Nat] /\ NumMarkets \in Nat
      /\ basePrice \in Nat /\ fund[p] \in Nat
  BY ShortfallAssumption DEF TypeOK
<1> DEFINE values == [m \in Markets |->
                         IF PoolOf[m] = p THEN MulScalarTruncate(prices[m], badDebt[m]) ELSE 0]
<1>2. \A m \in Markets : MulScalarTruncate(prices[m], badDebt[m]) \in Nat
  BY <1>1, ValueBound
<1>3. values \in [1..NumMarkets -> Nat]
  BY <1>2 DEF Markets
<1> HIDE DEF values
<1>4. Total(values, NumMarkets) \in Nat
  BY <1>1, <1>3, TotalNat
<1>5. MulScalarTruncate(basePrice, fund[p]) \in Nat
  BY <1>1, ValueBound
<1> QED
  BY <1>4, <1>5 DEF PoolBadDebt, values

LEMMA StartIInv ==
    ASSUME IInv, NEW p \in Pools, NEW prices \in MarketPrices, NEW basePrice \in BasePrices,
           Start(p, prices, basePrice)
    PROVE  IInv'
<1> DEFINE debt      == PoolBadDebt(p, prices)
           fundValue == MulScalarTruncate(basePrice, fund[p])
           new       == StartedAuction(auctions[p], p, debt, fundValue)
<1>1. /\ TypeOK /\ Books /\ (\A q \in Pools : Terms(q))
      /\ debt \in Nat /\ fundValue \in Nat
  BY StartAmounts DEF IInv
<1>2. /\ DebtIsLarge(debt, fundValue) => debt # 0
      /\ auctions' = [auctions EXCEPT ![p] = new]
      /\ UNCHANGED <<badDebt, cash, fund, balance, tokenDebt, totalTokenDebt, settings,
                     auctionsPaused, block>>
  BY DEF Start
<1> HIDE DEF debt, fundValue
<1>3. /\ new \in Auction /\ ~HasBid(new)
      /\ new.auctionType = "LARGE_POOL_DEBT" => new.startBidBps <= MAX_BPS
      /\ new.auctionType = "LARGE_RISK_FUND" => new.startBidBps = MAX_BPS
      /\ \A m \in MarketsOf(p) : new.marketDebt[m] = badDebt[m]
  BY <1>1, <1>2, StartedTerms
<1> HIDE DEF new
<1>4. TypeOK'
  BY <1>1, <1>2, <1>3 DEF TypeOK
<1>5. ASSUME NEW q \in Pools PROVE Terms(q)'
  <2>1. CASE q = p
    <3>1. auctions'[q] = new /\ badDebt' = badDebt /\ badDebt \in [Markets -> Nat]
      BY <1>1, <1>2, <2>1 DEF TypeOK
    <3>2. \A m \in MarketsOf(p) : new.marketDebt[m] <= badDebt[m]
      BY <1>3, <3>1 DEF MarketsOf
    <3> QED
      BY <1>3, <2>1, <3>1, <3>2 DEF Terms
  <2>2. CASE q # p
    <3>1. auctions'[q] = auctions[q] /\ Terms(q) /\ badDebt' = badDebt
      BY <1>1, <1>2, <2>2 DEF TypeOK
    <3> QED
      BY <3>1 DEF Terms
  <2> QED
    BY <2>1, <2>2
<1> QED
  BY <1>1, <1>2, <1>4, <1>5 DEF IInv, Books

LEMMA ClaimIInv ==
    ASSUME IInv, NEW t \in Tokens, NEW u \in Users, NEW amount \in Nat, ClaimTokenDebt(t, u, amount)
    PROVE  IInv' /\ amount <= totalTokenDebt[t]
<1> DEFINE debt == tokenDebt[t]
           left == debt[u] - amount
<1>1. /\ TypeOK /\ Books /\ (\A q \in Pools : Terms(q)) /\ NumUsers \in Nat
      /\ tokenDebt \in [Tokens -> [Users -> Nat]] /\ totalTokenDebt \in [Tokens -> Nat]
      /\ balance \in [Tokens -> Nat]
  BY ShortfallAssumption DEF IInv, TypeOK
<1>2. /\ amount <= debt[u] /\ amount <= balance[t]
      /\ tokenDebt' = [tokenDebt EXCEPT ![t][u] = left]
      /\ totalTokenDebt' = [totalTokenDebt EXCEPT ![t] = totalTokenDebt[t] - amount]
      /\ balance' = [balance EXCEPT ![t] = balance[t] - amount]
      /\ UNCHANGED <<auctions, badDebt, cash, fund, settings, auctionsPaused, block>>
  BY DEF ClaimTokenDebt
<1>3. debt \in [1..NumUsers -> Nat] /\ debt \in [1..NumUsers -> Int] /\ u \in 1..NumUsers
  <2>1. debt \in [1..NumUsers -> Nat] /\ u \in 1..NumUsers
    BY <1>1 DEF Users
  <2> HIDE DEF debt
  <2> QED
    BY <2>1
<1>4. tokenDebt' = [tokenDebt EXCEPT ![t] = [debt EXCEPT ![u] = left]]
  BY <1>1, <1>2
<1> HIDE DEF debt
<1>5. debt[u] \in Nat /\ left \in Nat
  BY <1>2, <1>3
<1>6. Total(debt, NumUsers) \in Nat /\ debt[u] <= Total(debt, NumUsers)
  BY <1>1, <1>3, TotalNat
<1>7. totalTokenDebt[t] = Total(debt, NumUsers)
  BY <1>1 DEF Books, AddUp, debt
<1>8. totalTokenDebt[t] - amount \in Nat /\ balance[t] - amount \in Nat /\ amount <= totalTokenDebt[t]
  BY <1>1, <1>2, <1>5, <1>6, <1>7
<1> HIDE DEF left
<1>9. Total([debt EXCEPT ![u] = left], NumUsers) = totalTokenDebt[t] - amount
  <2>1. left \in Int
    BY <1>5
  <2>2. Total([debt EXCEPT ![u] = left], NumUsers) = Total(debt, NumUsers) - debt[u] + left
    BY <1>1, <1>3, <2>1, TotalUpdate
  <2> QED
    BY <1>5, <1>6, <1>7, <2>2 DEF left
<1>10. [debt EXCEPT ![u] = left] \in [Users -> Nat]
  BY <1>3, <1>5 DEF Users
<1>11. /\ tokenDebt' \in [Tokens -> [Users -> Nat]] /\ totalTokenDebt' \in [Tokens -> Nat]
       /\ balance' \in [Tokens -> Nat]
  BY <1>1, <1>2, <1>4, <1>8, <1>10
<1>12. TypeOK'
  BY <1>1, <1>2, <1>11 DEF TypeOK
<1>13. ASSUME NEW s \in Tokens PROVE totalTokenDebt'[s] = Total(tokenDebt'[s], NumUsers)
  <2>1. CASE s = t
    <3>1. tokenDebt'[s] = [debt EXCEPT ![u] = left] /\ totalTokenDebt'[s] = totalTokenDebt[t] - amount
      BY <1>1, <1>2, <1>4, <2>1
    <3> QED
      BY <1>9, <3>1
  <2>2. CASE s # t
    BY <1>1, <1>2, <1>4, <2>2 DEF Books, AddUp
  <2> QED
    BY <2>1, <2>2
<1>14. \A q \in Pools : Terms(q)'
  BY <1>1, <1>2 DEF Terms
<1> QED
  BY <1>8, <1>12, <1>13, <1>14 DEF IInv, Books, AddUp

(* The steps that touch neither an auction nor the books, and no bad debt but *)
(* to raise it.                                                               *)
LEMMA QuietIInv ==
    ASSUME IInv, UNCHANGED <<auctions, cash, balance, tokenDebt, totalTokenDebt>>,
           badDebt' \in [Markets -> Nat], \A m \in Markets : badDebt[m] <= badDebt'[m],
           fund' \in [Pools -> Nat], settings' \in Settings, auctionsPaused' \in BOOLEAN, block' \in Nat
    PROVE  IInv'
<1>1. TypeOK /\ Books /\ \A p \in Pools : Terms(p)
  BY DEF IInv
<1>2. TypeOK'
  BY <1>1 DEF TypeOK
<1>3. ASSUME NEW p \in Pools PROVE Terms(p)'
  <2>1. \A m \in MarketsOf(p) : /\ auctions[p].marketDebt[m] \in Nat
                                /\ badDebt[m] \in Nat /\ badDebt'[m] \in Nat /\ badDebt[m] <= badDebt'[m]
    BY <1>1 DEF TypeOK, Auction, MarketsOf
  <2>2. Terms(p) /\ auctions'[p] = auctions[p]
    BY <1>1
  <2> QED
    BY <2>1, <2>2 DEF Terms
<1> QED
  BY <1>1, <1>2, <1>3 DEF IInv, Books

\* the steps of QuietIInv
Quiet ==
    \/ \E new \in SettingChoices : UpdateMinimumPoolBadDebt(new)
    \/ \E new \in SettingChoices : UpdateIncentiveBps(new)
    \/ \E new \in SettingChoices : UpdateNextBidderBlockLimit(new)
    \/ \E new \in SettingChoices : UpdateWaitForFirstBidder(new)
    \/ PauseAuctions
    \/ ResumeAuctions
    \/ \E m \in Markets, amount \in Growth : BadDebtGrows(m, amount)
    \/ \E p \in Pools, amount \in Growth : FundGrows(p, amount)
    \/ Tick

LEMMA QuietSteps ==
    ASSUME TypeOK, Quiet
    PROVE  /\ UNCHANGED <<auctions, cash, balance, tokenDebt, totalTokenDebt>>
           /\ badDebt' \in [Markets -> Nat] /\ \A m \in Markets : badDebt[m] <= badDebt'[m]
           /\ fund' \in [Pools -> Nat] /\ \A p \in Pools : fund[p] <= fund'[p]
           /\ settings' \in Settings /\ auctionsPaused' \in BOOLEAN /\ block' \in Nat
<1>1. /\ settings \in Settings /\ badDebt \in [Markets -> Nat] /\ fund \in [Pools -> Nat] /\ block \in Nat
      /\ auctionsPaused \in BOOLEAN
      /\ SettingChoices \subseteq Settings /\ Growth \subseteq Nat
  BY ShortfallAssumption DEF TypeOK
<1>2. (\A m \in Markets : badDebt[m] <= badDebt[m]) /\ (\A p \in Pools : fund[p] <= fund[p])
  BY <1>1
<1>3. CASE \E new \in SettingChoices : UpdateMinimumPoolBadDebt(new)
  BY <1>1, <1>2, <1>3 DEF UpdateMinimumPoolBadDebt, Settings
<1>4. CASE \E new \in SettingChoices : UpdateIncentiveBps(new)
  BY <1>1, <1>2, <1>4 DEF UpdateIncentiveBps, Settings
<1>5. CASE \E new \in SettingChoices : UpdateNextBidderBlockLimit(new)
  BY <1>1, <1>2, <1>5 DEF UpdateNextBidderBlockLimit, Settings
<1>6. CASE \E new \in SettingChoices : UpdateWaitForFirstBidder(new)
  BY <1>1, <1>2, <1>6 DEF UpdateWaitForFirstBidder, Settings
<1>7. CASE PauseAuctions \/ ResumeAuctions
  BY <1>1, <1>2, <1>7 DEF PauseAuctions, ResumeAuctions
<1>8. CASE \E m \in Markets, amount \in Growth : BadDebtGrows(m, amount)
  BY <1>1, <1>2, <1>8 DEF BadDebtGrows
<1>9. CASE \E p \in Pools, amount \in Growth : FundGrows(p, amount)
  BY <1>1, <1>2, <1>9 DEF FundGrows
<1>10. CASE Tick
  BY <1>1, <1>2, <1>10 DEF Tick
<1> QED
  BY <1>3, <1>4, <1>5, <1>6, <1>7, <1>8, <1>9, <1>10 DEF Quiet

LEMMA NextIInv ==
    ASSUME IInv, [Next]_vars
    PROVE  IInv'
<1>1. TypeOK
  BY DEF IInv
<1>2. CASE \E p \in Pools, u \in Users, bps \in Bids, start \in 0..MaxBlock, refused \in SUBSET Tokens :
              PlaceBid(p, u, bps, start, refused)
  BY <1>2, PlaceBidIInv, Zenon
<1>3. CASE \E p \in Pools : Close(p)
  BY <1>3, CloseAuctionIInv, Zenon DEF Close
<1>4. CASE \E p \in Pools, prices \in MarketPrices, basePrice \in BasePrices :
              StartAuction(p, prices, basePrice) \/ RestartAuction(p, prices, basePrice)
  BY <1>4, StartIInv, Zenon DEF StartAuction, RestartAuction
<1>5. CASE \E t \in Tokens, u \in Users : \E amount \in Claims \cup {tokenDebt[t][u]} : ClaimTokenDebt(t, u, amount)
  <2>1. PICK t \in Tokens, u \in Users : \E amount \in Claims \cup {tokenDebt[t][u]} : ClaimTokenDebt(t, u, amount)
    BY <1>5, Zenon
  <2>2. PICK amount \in Claims \cup {tokenDebt[t][u]} : ClaimTokenDebt(t, u, amount)
    BY <2>1, Zenon
  <2>3. tokenDebt[t][u] \in Nat
    BY <1>1 DEF TypeOK
  <2>4. amount \in Nat
    BY <2>3, ShortfallAssumption
  <2> QED
    BY <2>2, <2>4, ClaimIInv
<1>6. CASE Quiet
  BY <1>1, <1>6, QuietSteps, QuietIInv
<1>7. CASE UNCHANGED vars
  BY <1>7 DEF vars, IInv, TypeOK, Books, AddUp, Terms
<1> QED
  BY <1>2, <1>3, <1>4, <1>5, <1>6, <1>7, Zenon DEF Next, Quiet

LEMMA SpecIInv == Spec => []IInv
BY InitIInv, NextIInv, PTL DEF Spec

-----------------------------------------------------------------------------
(* Theorems *)

(* The auctions and the books keep their types: in particular no balance, debt, *)
(* bad debt or fund is ever reduced below zero (placeBid, closeAuction,         *)
(* claimTokenDebt).                                                             *)
THEOREM SpecTypeOK == Spec => []TypeOK
<1>1. IInv => TypeOK
  BY DEF IInv
<1> QED
  BY <1>1, SpecIInv, PTL

(* The first bid of an auction is never out of reach (_startAuction, placeBid). *)
THEOREM SpecFirstBidPossible == Spec => []FirstBidPossible
<1>1. IInv => FirstBidPossible
  <2> SUFFICES ASSUME IInv, NEW p \in Pools, Started(auctions[p]), ~HasBid(auctions[p])
               PROVE  \E bps \in 1..MAX_BPS : Improves(auctions[p], bps)
    BY DEF FirstBidPossible
  <2>1. /\ auctions[p] \in Auction /\ Terms(p) /\ MAX_BPS \in 1..MAX_BPS
        /\ auctions[p].startBidBps \in Nat
        /\ auctions[p].auctionType \in {"LARGE_POOL_DEBT", "LARGE_RISK_FUND"}
    BY ShortfallAssumption DEF IInv, TypeOK, Auction
  <2>2. auctions[p].highestBidder = Nobody
    BY DEF HasBid
  <2>3. Improves(auctions[p], MAX_BPS)
    <3>1. CASE auctions[p].auctionType = "LARGE_POOL_DEBT"
      <4>1. MAX_BPS >= auctions[p].startBidBps
        BY <2>1, <3>1 DEF Terms
      <4> QED
        BY <2>2, <3>1, <4>1 DEF Improves
    <3>2. CASE auctions[p].auctionType = "LARGE_RISK_FUND"
      <4>1. MAX_BPS <= auctions[p].startBidBps
        BY <2>1, <3>2 DEF Terms
      <4> QED
        BY <2>2, <3>2, <4>1 DEF Improves
    <3> QED
      BY <2>1, <3>1, <3>2
  <2> QED
    BY <2>1, <2>3
<1> QED
  BY <1>1, SpecIInv, PTL

-----------------------------------------------------------------------------
(* The shared balance *)

Covered == \A t \in Tokens : balance[t] = Total(LiveAmounts(auctions, t), NumMarkets) + totalTokenDebt[t]

(* A step that replaces one auction keeps a token covered if the balance moves *)
(* by what the auction's bid and the token's debts move by.                    *)
LEMMA CoveredStep ==
    ASSUME TypeOK, Covered, NEW p \in Pools, NEW new \in Auction, NEW t \in Tokens,
           auctions' = [auctions EXCEPT ![p] = new],
           totalTokenDebt'[t] \in Nat,
           balance'[t] = balance[t] - Refund(auctions[p], p)[t] + Refund(new, p)[t]
                                    + (totalTokenDebt'[t] - totalTokenDebt[t])
    PROVE  balance'[t] = Total(LiveAmounts(auctions', t), NumMarkets) + totalTokenDebt'[t]
<1> DEFINE live == Total(LiveAmounts(auctions, t), NumMarkets)
           out  == Refund(auctions[p], p)[t]
           in   == Refund(new, p)[t]
<1>1. /\ auctions \in [Pools -> Auction] /\ balance[t] \in Nat /\ totalTokenDebt[t] \in Nat
      /\ balance[t] = live + totalTokenDebt[t]
  BY DEF TypeOK, Covered
<1>2. /\ LiveAmounts(auctions, t) \in [Markets -> Nat] /\ out \in Nat /\ in \in Nat
      /\ Total(LiveAmounts([auctions EXCEPT ![p] = new], t), NumMarkets) = live - out + in
  BY <1>1, LiveBidsChange
<1>3. live \in Nat
  <2>1. LiveAmounts(auctions, t) \in [1..NumMarkets -> Nat] /\ NumMarkets \in Nat
    BY <1>2, ShortfallAssumption DEF Markets
  <2> QED
    BY <2>1, TotalNat
<1> HIDE DEF live, out, in
<1>4. Total(LiveAmounts(auctions', t), NumMarkets) = live - out + in
  BY <1>2
<1>5. balance'[t] = balance[t] - out + in + (totalTokenDebt'[t] - totalTokenDebt[t])
  BY DEF out, in
<1> QED
  BY <1>1, <1>2, <1>3, <1>4, <1>5

LEMMA NextCovered ==
    ASSUME Fee[BaseAsset] = 0, IInv, IInv', Covered, [Next]_vars
    PROVE  Covered'
<1>1. TypeOK /\ TypeOK'
  BY DEF IInv
<1>2. ASSUME NEW p \in Pools, NEW u \in Users, NEW bps \in Bids, NEW start, NEW refused,
             PlaceBid(p, u, bps, start, refused)
      PROVE  Covered'
  <2> DEFINE new    == WithBid(auctions[p], p, u, bps)
             refund == Refund(auctions[p], p)
             income == PerToken(p, new.bidAmount)
  <2>1. /\ auctions' = [auctions EXCEPT ![p] = new]
        /\ balance' = [t \in Tokens |-> PaidOut(balance, refund, refused)[t] + income[t]]
        /\ totalTokenDebt' = TotalTracked(totalTokenDebt, refund, refused)
        /\ Started(auctions[p])
    BY <1>2 DEF PlaceBid
  <2>2. new \in Auction /\ Refund(new, p) = income
    <3>1. new \in Auction
      BY <1>2, PlaceBidIInv
    <3>2. new.status = auctions[p].status /\ new.highestBidder = u /\ u # Nobody
      BY <1>1 DEF WithBid, TypeOK, Auction, Users, Nobody
    <3> QED
      BY <2>1, <3>1, <3>2 DEF Refund, HasBid, Started
  <2>3. refund \in [Tokens -> Nat] /\ income \in [Tokens -> Nat]
    BY <1>1, <2>2, RefundType DEF TypeOK
  <2> HIDE DEF new, refund, income
  <2> SUFFICES ASSUME NEW t \in Tokens
               PROVE  balance'[t] = Total(LiveAmounts(auctions', t), NumMarkets) + totalTokenDebt'[t]
    BY DEF Covered
  <2>4. totalTokenDebt[t] \in Nat /\ totalTokenDebt'[t] \in Nat /\ balance[t] \in Nat
    BY <1>1 DEF TypeOK
  <2>5. balance'[t] = balance[t] - refund[t] + income[t] + (totalTokenDebt'[t] - totalTokenDebt[t])
    BY <2>1, <2>3, <2>4 DEF PaidOut, TotalTracked
  <2> QED
    BY <1>1, <2>1, <2>2, <2>4, <2>5, CoveredStep DEF refund
<1>3. ASSUME NEW p \in Pools, NEW refused, CloseAuction(p, refused)
      PROVE  Covered'
  <2> DEFINE auction == auctions[p]
             new     == [auction EXCEPT !.status = "ENDED"]
             sent    == PerToken(p, auction.bidAmount)
             payout  == [t \in Tokens |-> IF t = BaseAsset THEN Payout(auction) ELSE 0]
             held    == [t \in Tokens |-> balance[t] - sent[t] + Received(t, payout[t])]
  <2>1. /\ HasBid(auction) /\ auctions' = [auctions EXCEPT ![p].status = "ENDED"]
        /\ balance' = PaidOut(held, payout, refused)
        /\ totalTokenDebt' = TotalTracked(totalTokenDebt, payout, refused)
    BY <1>3 DEF CloseAuction, MayClose
  <2>2. auctions' = [auctions EXCEPT ![p] = new]
    BY <2>1, Zenon
  <2>3. auction \in Auction
    BY <1>1 DEF TypeOK
  <2>4. new \in Auction /\ ~HasBid(new)
    <3>1. "ENDED" \in {"NOT_STARTED", "STARTED", "ENDED"}
      OBVIOUS
    <3>2. new \in Auction
      BY <2>3, <3>1, Zenon DEF Auction
    <3>3. new.status = "ENDED"
      BY <2>3 DEF Auction
    <3> QED
      BY <3>2, <3>3 DEF HasBid, Started
  <2>5. Refund(auction, p) = sent /\ sent \in [Tokens -> Nat] /\ Refund(new, p) = [t \in Tokens |-> 0]
    BY <2>1, <2>3, <2>4, RefundType DEF Refund
  <2> HIDE DEF new, sent
  <2>6. \A t \in Tokens : payout[t] \in Nat /\ Received(t, payout[t]) = payout[t]
    <3>1. Payout(auction) \in Nat
      BY <2>3, PayoutBound
    <3> HIDE DEF auction
    <3> SUFFICES ASSUME NEW t \in Tokens PROVE payout[t] \in Nat /\ Received(t, payout[t]) = payout[t]
      OBVIOUS
    <3>2. payout[t] \in Nat /\ (t # BaseAsset => payout[t] = 0)
      BY <3>1
    <3> HIDE DEF payout
    <3>3. /\ Received(t, payout[t]) \in Nat /\ Received(t, payout[t]) <= payout[t]
          /\ Fee[t] = 0 => Received(t, payout[t]) = payout[t]
      BY <3>2, ReceivedBound
    <3> QED
      BY <3>2, <3>3
  <2> HIDE DEF payout, auction
  <2> SUFFICES ASSUME NEW t \in Tokens
               PROVE  balance'[t] = Total(LiveAmounts(auctions', t), NumMarkets) + totalTokenDebt'[t]
    BY DEF Covered
  <2>7. totalTokenDebt[t] \in Nat /\ totalTokenDebt'[t] \in Nat /\ balance[t] \in Nat /\ sent[t] \in Nat
    BY <1>1, <2>5 DEF TypeOK
  <2>8. held[t] = balance[t] - sent[t] + payout[t]
    BY <2>6
  <2> HIDE DEF held
  <2>9. balance'[t] = balance[t] - sent[t] + 0 + (totalTokenDebt'[t] - totalTokenDebt[t])
    BY <2>1, <2>6, <2>7, <2>8 DEF PaidOut, TotalTracked
  <2>10. balance'[t] = balance[t] - Refund(auctions[p], p)[t] + Refund(new, p)[t]
                                  + (totalTokenDebt'[t] - totalTokenDebt[t])
    BY <2>5, <2>9 DEF auction
  <2> QED
    BY <1>1, <2>2, <2>4, <2>7, <2>10, CoveredStep
<1>4. ASSUME NEW p \in Pools, NEW prices \in MarketPrices, NEW basePrice \in BasePrices,
             Start(p, prices, basePrice), ~HasBid(auctions[p])
      PROVE  Covered'
  <2> DEFINE debt      == PoolBadDebt(p, prices)
             fundValue == MulScalarTruncate(basePrice, fund[p])
             new       == StartedAuction(auctions[p], p, debt, fundValue)
  <2>1. /\ auctions' = [auctions EXCEPT ![p] = new]
        /\ DebtIsLarge(debt, fundValue) => debt # 0
        /\ debt \in Nat /\ fundValue \in Nat
        /\ UNCHANGED <<balance, totalTokenDebt>>
    BY <1>1, <1>4, StartAmounts DEF Start
  <2> HIDE DEF debt, fundValue
  <2>2. new \in Auction /\ ~HasBid(new) /\ auctions[p] \in Auction
    <3>1. auctions[p] \in Auction
      BY <1>1 DEF TypeOK
    <3>2. new \in Auction /\ ~HasBid(new)
      BY <1>1, <2>1, StartedTerms
    <3> QED
      BY <3>1, <3>2
  <2> HIDE DEF new
  <2> SUFFICES ASSUME NEW t \in Tokens
               PROVE  balance'[t] = Total(LiveAmounts(auctions', t), NumMarkets) + totalTokenDebt'[t]
    BY DEF Covered
  <2>3. Refund(auctions[p], p)[t] = 0 /\ Refund(new, p)[t] = 0
    BY <1>4, <2>2 DEF Refund
  <2>4. totalTokenDebt'[t] \in Nat /\ totalTokenDebt'[t] = totalTokenDebt[t] /\ balance'[t] = balance[t] /\ balance[t] \in Nat
    BY <1>1, <2>1 DEF TypeOK
  <2>5. balance'[t] = balance[t] - Refund(auctions[p], p)[t] + Refund(new, p)[t]
                                 + (totalTokenDebt'[t] - totalTokenDebt[t])
    BY <2>3, <2>4
  <2>6. auctions' = [auctions EXCEPT ![p] = new] /\ new \in Auction /\ totalTokenDebt'[t] \in Nat
    BY <2>1, <2>2, <2>4
  <2> QED
    BY <1>1, <2>5, <2>6, CoveredStep
<1>5. CASE \E p \in Pools, prices \in MarketPrices, basePrice \in BasePrices :
              StartAuction(p, prices, basePrice) \/ RestartAuction(p, prices, basePrice)
  <2>1. PICK p \in Pools, prices \in MarketPrices, basePrice \in BasePrices :
               StartAuction(p, prices, basePrice) \/ RestartAuction(p, prices, basePrice)
    BY <1>5
  <2>2. Start(p, prices, basePrice) /\ ~HasBid(auctions[p])
    BY <2>1, Zenon DEF StartAuction, RestartAuction, HasBid, Stale
  <2> QED
    BY <1>4, <2>2
<1>6. ASSUME NEW t \in Tokens, NEW u \in Users, NEW amount \in Nat, ClaimTokenDebt(t, u, amount)
      PROVE  Covered'
  <2>1. /\ totalTokenDebt' = [totalTokenDebt EXCEPT ![t] = totalTokenDebt[t] - amount]
        /\ balance' = [balance EXCEPT ![t] = balance[t] - amount] /\ auctions' = auctions
    BY <1>6 DEF ClaimTokenDebt
  <2> SUFFICES ASSUME NEW s \in Tokens
               PROVE  balance'[s] = Total(LiveAmounts(auctions, s), NumMarkets) + totalTokenDebt'[s]
    BY <2>1 DEF Covered
  <2> DEFINE live == Total(LiveAmounts(auctions, s), NumMarkets)
  <2>2. balance[s] \in Nat /\ totalTokenDebt[s] \in Nat /\ balance[s] = live + totalTokenDebt[s]
    BY <1>1 DEF TypeOK, Covered
  <2>3. live \in Int
    <3>1. \A q \in Pools : auctions[q].bidAmount \in [Markets -> Nat]
      BY <1>1 DEF TypeOK, Auction
    <3>2. PoolOf \in [Markets -> Pools] /\ NumMarkets \in Nat
      BY ShortfallAssumption
    <3>3. LiveAmounts(auctions, s) \in [Markets -> Int]
      BY <3>1, <3>2 DEF LiveAmounts
    <3>4. LiveAmounts(auctions, s) \in [1..NumMarkets -> Int]
      BY <3>3 DEF Markets
    <3> QED
      BY <3>2, <3>4, TotalType
  <2> HIDE DEF live
  <2>4. balance'[s] = live + totalTokenDebt'[s]
    BY <1>1, <2>1, <2>2, <2>3 DEF TypeOK
  <2> QED
    BY <2>4 DEF live
<1>7. CASE Quiet \/ UNCHANGED vars
  <2>1. UNCHANGED <<auctions, balance, totalTokenDebt>>
    BY <1>1, <1>7, QuietSteps DEF vars
  <2> QED
    BY <2>1 DEF Covered
<1>8. CASE \E t \in Tokens, u \in Users : \E amount \in Claims \cup {tokenDebt[t][u]} : ClaimTokenDebt(t, u, amount)
  <2>1. PICK t \in Tokens, u \in Users : \E amount \in Claims \cup {tokenDebt[t][u]} : ClaimTokenDebt(t, u, amount)
    BY <1>8, Zenon
  <2>2. PICK amount \in Claims \cup {tokenDebt[t][u]} : ClaimTokenDebt(t, u, amount)
    BY <2>1, Zenon
  <2>3. tokenDebt[t][u] \in Nat
    BY <1>1 DEF TypeOK
  <2>4. amount \in Nat
    BY <2>3, ShortfallAssumption
  <2> QED
    BY <1>6, <2>2, <2>4
<1>9. CASE \E p \in Pools : Close(p)
  BY <1>3, <1>9, Zenon DEF Close
<1>10. CASE \E p \in Pools, u \in Users, bps \in Bids, start \in 0..MaxBlock, refused \in SUBSET Tokens :
              PlaceBid(p, u, bps, start, refused)
  BY <1>2, <1>10, Zenon
<1> QED
  BY <1>5, <1>7, <1>8, <1>9, <1>10, Zenon DEF Next, Quiet

(* If the base asset takes no fee on transfers, the contract holds of every     *)
(* token exactly what live bids and refused payouts are owed (placeBid,         *)
(* closeAuction, claimTokenDebt).                                               *)
THEOREM SpecBacked ==
    ASSUME Fee[BaseAsset] = 0
    PROVE  Spec => []Backed
<1>1. Init => Covered
  <2> SUFFICES ASSUME Init, NEW t \in Tokens
               PROVE  balance[t] = Total(LiveAmounts(auctions, t), NumMarkets) + totalTokenDebt[t]
    BY DEF Covered
  <2>1. \A p \in Pools : ~HasBid(auctions[p])
    BY DEF Init, HasBid, Started
  <2>2. PoolOf \in [Markets -> Pools] /\ NumMarkets \in Nat
    BY ShortfallAssumption
  <2>3. LiveAmounts(auctions, t) = [m \in 1..NumMarkets |-> 0]
    BY <2>1, <2>2 DEF LiveAmounts, Markets
  <2>4. Total(LiveAmounts(auctions, t), NumMarkets) = 0
    BY <2>2, <2>3, TotalZero
  <2> QED
    BY <2>4 DEF Init
<1>2. IInv /\ IInv' /\ Covered /\ [Next]_vars => Covered'
  BY NextCovered
<1>3. IInv /\ Covered => Backed
  BY Zenon DEF IInv, Books, AddUp, Covered, Backed, LiveBids, LiveAmounts
<1> QED
  BY <1>1, <1>2, <1>3, SpecIInv, PTL DEF Spec

-----------------------------------------------------------------------------
(* Closing *)

\* a running auction takes no more than its pool's fund still holds
Funded(p) == Started(auctions[p]) => auctions[p].seizedRiskFund <= fund[p]

LEMMA NextFunded ==
    ASSUME BasePrices \subseteq 0..EXP_SCALE, IInv, \A q \in Pools : Funded(q), [Next]_vars,
           NEW p \in Pools
    PROVE  Funded(p)'
<1>1. /\ TypeOK /\ Funded(p) /\ auctions[p] \in Auction /\ auctions[p].seizedRiskFund \in Nat
      /\ auctions \in [Pools -> Auction] /\ fund \in [Pools -> Nat]
  BY DEF IInv, TypeOK, Auction
<1>2. ASSUME NEW r \in Pools, NEW u \in Users, NEW bps \in Bids, NEW start, NEW refused,
             PlaceBid(r, u, bps, start, refused)
      PROVE  Funded(p)'
  <2> DEFINE new == WithBid(auctions[r], r, u, bps)
  <2>1. auctions' = [auctions EXCEPT ![r] = new] /\ fund' = fund /\ Started(auctions[r])
    BY <1>2 DEF PlaceBid
  <2>2. new.seizedRiskFund = auctions[r].seizedRiskFund
    <3>1. auctions[r] \in Auction
      BY <1>1
    <3> QED
      BY <3>1 DEF WithBid, Auction
  <2> HIDE DEF new
  <2> QED
    BY <1>1, <2>1, <2>2 DEF Funded
<1>3. ASSUME NEW r \in Pools, NEW refused, CloseAuction(r, refused)
      PROVE  Funded(p)'
  <2>1. auctions' = [auctions EXCEPT ![r].status = "ENDED"] /\ fund' = [fund EXCEPT ![r] = fund[r] - Payout(auctions[r])]
    BY <1>3 DEF CloseAuction
  <2>2. CASE r = p
    BY <1>1, <2>1, <2>2 DEF Funded, Started, Auction
  <2>3. CASE r # p
    <3>1. auctions'[p] = auctions[p] /\ fund'[p] = fund[p]
      BY <1>1, <2>1, <2>3
    <3> QED
      BY <1>1, <3>1 DEF Funded
  <2> QED
    BY <2>2, <2>3
<1>4. ASSUME NEW r \in Pools, NEW prices \in MarketPrices, NEW basePrice \in BasePrices,
             Start(r, prices, basePrice)
      PROVE  Funded(p)'
  <2> DEFINE debt      == PoolBadDebt(r, prices)
             fundValue == MulScalarTruncate(basePrice, fund[r])
             new       == StartedAuction(auctions[r], r, debt, fundValue)
  <2>1. /\ DebtIsLarge(debt, fundValue) => debt # 0
        /\ auctions' = [auctions EXCEPT ![r] = new] /\ fund' = fund
        /\ debt \in Nat /\ fundValue \in Nat
    BY <1>1, <1>4, StartAmounts DEF Start
  <2>2. fundValue <= fund[r] /\ fund[r] \in Nat
    <3>1. basePrice \in Nat /\ basePrice <= EXP_SCALE /\ fund[r] \in Nat
      BY <1>1, ExpScaleAssumption
    <3> QED
      BY <3>1, ValueBound
  <2> HIDE DEF debt, fundValue
  <2>3. new.seizedRiskFund <= fundValue /\ new \in Auction
    BY <1>1, <2>1, StartedTerms
  <2> HIDE DEF new
  <2>4. new.seizedRiskFund \in Nat
    BY <2>3 DEF Auction
  <2>5. new.seizedRiskFund <= fund[r]
    BY <2>1, <2>2, <2>3, <2>4
  <2>6. CASE r = p
    BY <1>1, <2>1, <2>5, <2>6 DEF Funded
  <2>7. CASE r # p
    BY <1>1, <2>1, <2>7 DEF Funded
  <2> QED
    BY <2>6, <2>7
<1>5. CASE \E r \in Pools, u \in Users, bps \in Bids, start \in 0..MaxBlock, refused \in SUBSET Tokens :
              PlaceBid(r, u, bps, start, refused)
  BY <1>2, <1>5, Zenon
<1>6. CASE \E r \in Pools : Close(r)
  BY <1>3, <1>6, Zenon DEF Close
<1>7. CASE \E r \in Pools, prices \in MarketPrices, basePrice \in BasePrices :
              StartAuction(r, prices, basePrice) \/ RestartAuction(r, prices, basePrice)
  BY <1>4, <1>7, Zenon DEF StartAuction, RestartAuction
<1>8. CASE \E t \in Tokens, u \in Users : \E amount \in Claims \cup {tokenDebt[t][u]} : ClaimTokenDebt(t, u, amount)
  <2>1. UNCHANGED <<auctions, fund>>
    BY <1>8 DEF ClaimTokenDebt
  <2> QED
    BY <1>1, <2>1 DEF Funded
<1>9. CASE Quiet
  <2>1. auctions' = auctions /\ fund[p] <= fund'[p] /\ fund[p] \in Nat /\ fund'[p] \in Nat
    BY <1>1, <1>9, QuietSteps
  <2> QED
    BY <1>1, <2>1 DEF Funded
<1>10. CASE UNCHANGED vars
  BY <1>1, <1>10 DEF vars, Funded
<1> QED
  BY <1>5, <1>6, <1>7, <1>8, <1>9, <1>10, Zenon DEF Next, Quiet

(* If the base asset never trades above a dollar, no auction with a bid is stuck: *)
(* whatever happens between bid and closing, the markets still carry the debt and *)
(* the fund still holds the payout (closeAuction).                                *)
THEOREM SpecClosableOnceBid ==
    ASSUME BasePrices \subseteq 0..EXP_SCALE
    PROVE  Spec => []ClosableOnceBid
<1> DEFINE AllFunded == \A p \in Pools : Funded(p)
<1>1. Init => AllFunded
  BY DEF Init, Funded, Started
<1>2. IInv /\ AllFunded /\ [Next]_vars => AllFunded'
  BY NextFunded
<1>3. IInv /\ AllFunded => ClosableOnceBid
  <2> SUFFICES ASSUME IInv, AllFunded, NEW p \in Pools, HasBid(auctions[p])
               PROVE  /\ \A m \in MarketsOf(p) : Recovered(auctions[p], m) <= badDebt[m]
                      /\ Payout(auctions[p]) <= fund[p]
    BY DEF ClosableOnceBid
  <2>1. /\ Terms(p) /\ Funded(p) /\ Started(auctions[p]) /\ auctions[p] \in Auction
        /\ fund[p] \in Nat /\ badDebt \in [Markets -> Nat] /\ Underlying \in [Markets -> Tokens]
    BY ShortfallAssumption DEF IInv, TypeOK, HasBid
  <2>2. Payout(auctions[p]) <= fund[p]
    <3>1. /\ Payout(auctions[p]) \in Nat /\ Payout(auctions[p]) <= auctions[p].seizedRiskFund
          /\ auctions[p].seizedRiskFund \in Nat
      BY <2>1, PayoutBound DEF Auction
    <3> QED
      BY <2>1, <3>1 DEF Funded
  <2>3. ASSUME NEW m \in MarketsOf(p) PROVE Recovered(auctions[p], m) <= badDebt[m]
    <3>1. /\ auctions[p].bidAmount[m] \in Nat /\ auctions[p].marketDebt[m] \in Nat
          /\ badDebt[m] \in Nat /\ Underlying[m] \in Tokens
      BY <2>1 DEF Auction, MarketsOf
    <3>2. /\ auctions[p].bidAmount[m] <= auctions[p].marketDebt[m]
          /\ auctions[p].marketDebt[m] <= badDebt[m]
      BY <2>1 DEF Terms
    <3>3. Recovered(auctions[p], m) \in Nat /\ Recovered(auctions[p], m) <= auctions[p].bidAmount[m]
      BY <3>1, ReceivedBound DEF Recovered
    <3> QED
      BY <3>1, <3>2, <3>3
  <2> QED
    BY <2>2, <2>3
<1> HIDE DEF AllFunded
<1> QED
  BY <1>1, <1>2, <1>3, SpecIInv, PTL DEF Spec

-----------------------------------------------------------------------------
(* Steps of an auction *)

(* What arrives grows with what is sent: a fee in basis points is at most all of it. *)
LEMMA ReceivedGrows ==
    ASSUME NEW t \in Tokens, NEW a \in Nat, NEW b \in Nat, a <= b
    PROVE  Received(t, a) <= Received(t, b)
<1> DEFINE f == Fee[t]
           p == (a * f) \div MAX_BPS
           q == (b * f) \div MAX_BPS
           d == b - a
<1>1. f \in 0..MAX_BPS /\ f \in Nat /\ MAX_BPS \in Nat \ {0} /\ d \in Nat /\ b = a + d
  BY ShortfallAssumption
<1> HIDE DEF f, d
<1>2. /\ a * f \in Nat /\ b * f \in Nat /\ d * f \in Nat /\ d * MAX_BPS \in Nat
      /\ b * f = a * f + d * f /\ d * f <= d * MAX_BPS
  BY <1>1, SMT
<1>3. /\ p \in Nat /\ q \in Nat /\ q * MAX_BPS <= b * f /\ a * f < (p + 1) * MAX_BPS
  BY <1>1, <1>2, SMT
<1> HIDE DEF p, q
<1>4. q * MAX_BPS < (p + 1 + d) * MAX_BPS
  BY <1>1, <1>2, <1>3, SMT
<1>5. q < p + 1 + d
  BY <1>1, <1>3, <1>4, SMT
<1> QED
  BY <1>1, <1>3, <1>5 DEF Received, p, q, f

(* A larger share of an amount is no smaller. *)
LEMMA ShareGrows ==
    ASSUME NEW a \in Nat, NEW x \in 0..MAX_BPS, NEW y \in 0..MAX_BPS, x <= y
    PROVE  (a * x) \div MAX_BPS <= (a * y) \div MAX_BPS
<1>1. MAX_BPS \in Nat \ {0} /\ a * x \in Nat /\ a * y \in Nat /\ a * x <= a * y
  BY ShortfallAssumption, SMT
<1> QED
  BY <1>1, QuotientGrows

\* what a live bid put aside for the markets is what arrived of its offer
BidIsOffer(p) ==
    HasBid(auctions[p]) =>
        \A m \in MarketsOf(p) : auctions[p].bidAmount[m]
            = Received(Underlying[m], Offer(auctions[p], auctions[p].highestBidBps, m))

\* an auction starts before it ends, and its bids come in between
Dated(p) ==
    /\ auctions[p].startBlock <= block
    /\ HasBid(auctions[p]) => auctions[p].startBlock <= auctions[p].highestBidBlock
    /\ auctions[p].status = "ENDED" => auctions[p].startBlock < block

StepInv == IInv /\ \A p \in Pools : BidIsOffer(p) /\ Dated(p)

(* A step leaves an auction as it is, takes a bid in it, ends it once the time  *)
(* for better bids is over, or replaces one that does not run or had no bid.    *)
AuctionStep(p) ==
    \/ auctions'[p] = auctions[p]
    \/ \E u \in Users, bps \in Bids :
           /\ Started(auctions[p]) /\ Improves(auctions[p], bps)
           /\ auctions'[p] = WithBid(auctions[p], p, u, bps) /\ block' = block
    \/ /\ MayClose(auctions[p]) /\ block' = block
       /\ auctions'[p] = [auctions[p] EXCEPT !.status = "ENDED"]
    \/ \E debt \in Nat, fundValue \in Nat :
           /\ ~Started(auctions[p]) \/ Stale(auctions[p])
           /\ DebtIsLarge(debt, fundValue) => debt # 0
           /\ auctions'[p] = StartedAuction(auctions[p], p, debt, fundValue) /\ block' = block

LEMMA AuctionSteps ==
    ASSUME IInv, [Next]_vars, NEW p \in Pools
    PROVE  AuctionStep(p) /\ block \in Nat /\ block' \in Nat /\ block <= block'
<1>1. /\ TypeOK /\ auctions \in [Pools -> Auction] /\ block \in Nat
      /\ BasePrices \subseteq Nat /\ MarketPrices \subseteq [Markets -> Nat]
  BY ShortfallAssumption DEF IInv, TypeOK
<1>2. ASSUME NEW r \in Pools, NEW u \in Users, NEW bps \in Bids, NEW start, NEW refused,
             PlaceBid(r, u, bps, start, refused)
      PROVE  AuctionStep(p) /\ block' = block
  <2> DEFINE new == WithBid(auctions[r], r, u, bps)
  <2>1. /\ auctions' = [auctions EXCEPT ![r] = new] /\ block' = block
        /\ Started(auctions[r]) /\ Improves(auctions[r], bps)
    BY <1>2 DEF PlaceBid
  <2>2. CASE r = p
    <3>1. auctions'[p] = WithBid(auctions[p], p, u, bps)
      BY <1>1, <2>1, <2>2, Zenon
    <3> QED
      BY <2>1, <2>2, <3>1, Zenon DEF AuctionStep
  <2>3. CASE r # p
    BY <1>1, <2>1, <2>3 DEF AuctionStep
  <2> QED
    BY <2>1, <2>2, <2>3
<1>3. ASSUME NEW r \in Pools, NEW refused, CloseAuction(r, refused)
      PROVE  AuctionStep(p) /\ block' = block
  <2>1. /\ auctions' = [auctions EXCEPT ![r].status = "ENDED"] /\ block' = block /\ MayClose(auctions[r])
    BY <1>3 DEF CloseAuction
  <2>2. CASE r = p
    <3>1. auctions'[p] = [auctions[p] EXCEPT !.status = "ENDED"]
      BY <1>1, <2>1, <2>2, Zenon
    <3> QED
      BY <2>1, <2>2, <3>1, Zenon DEF AuctionStep
  <2>3. CASE r # p
    BY <1>1, <2>1, <2>3 DEF AuctionStep
  <2> QED
    BY <2>1, <2>2, <2>3
<1>4. ASSUME NEW r \in Pools, NEW prices \in MarketPrices, NEW basePrice \in BasePrices,
             StartAuction(r, prices, basePrice) \/ RestartAuction(r, prices, basePrice)
      PROVE  AuctionStep(p) /\ block' = block
  <2> DEFINE debt      == PoolBadDebt(r, prices)
             fundValue == MulScalarTruncate(basePrice, fund[r])
             new       == StartedAuction(auctions[r], r, debt, fundValue)
  <2>1. /\ DebtIsLarge(debt, fundValue) => debt # 0
        /\ auctions' = [auctions EXCEPT ![r] = new] /\ block' = block
        /\ ~Started(auctions[r]) \/ Stale(auctions[r])
    BY <1>4 DEF StartAuction, RestartAuction, Start
  <2>2. debt \in Nat /\ fundValue \in Nat
    BY <1>1, StartAmounts
  <2> HIDE DEF debt, fundValue
  <2>3. CASE r = p
    <3>1. auctions'[p] = StartedAuction(auctions[p], p, debt, fundValue)
      BY <1>1, <2>1, <2>3, Zenon
    <3> QED
      BY <2>1, <2>2, <2>3, <3>1, Zenon DEF AuctionStep
  <2>4. CASE r # p
    BY <1>1, <2>1, <2>4 DEF AuctionStep
  <2> QED
    BY <2>1, <2>3, <2>4
<1>5. CASE \E r \in Pools, u \in Users, bps \in Bids, start \in 0..MaxBlock, refused \in SUBSET Tokens :
              PlaceBid(r, u, bps, start, refused)
  <2>1. AuctionStep(p) /\ block' = block
    BY <1>2, <1>5, Zenon
  <2> QED
    BY <1>1, <2>1
<1>6. CASE \E r \in Pools : Close(r)
  <2>1. AuctionStep(p) /\ block' = block
    BY <1>3, <1>6, Zenon DEF Close
  <2> QED
    BY <1>1, <2>1
<1>7. CASE \E r \in Pools, prices \in MarketPrices, basePrice \in BasePrices :
              StartAuction(r, prices, basePrice) \/ RestartAuction(r, prices, basePrice)
  <2>1. AuctionStep(p) /\ block' = block
    BY <1>4, <1>7, Zenon
  <2> QED
    BY <1>1, <2>1
<1>8. CASE \E t \in Tokens, u \in Users : \E amount \in Claims \cup {tokenDebt[t][u]} : ClaimTokenDebt(t, u, amount)
  <2>1. UNCHANGED <<auctions, block>>
    BY <1>8 DEF ClaimTokenDebt
  <2> QED
    BY <1>1, <2>1 DEF AuctionStep
<1>9. CASE Quiet
  <2>1. auctions' = auctions
    BY <1>1, <1>9, QuietSteps
  <2>2. block' \in Nat /\ block <= block'
    BY <1>1, <1>9 DEF Quiet, UpdateMinimumPoolBadDebt, UpdateIncentiveBps, UpdateNextBidderBlockLimit,
                      UpdateWaitForFirstBidder, PauseAuctions, ResumeAuctions, BadDebtGrows, FundGrows, Tick
  <2> QED
    BY <1>1, <2>1, <2>2 DEF AuctionStep
<1>10. CASE UNCHANGED vars
  BY <1>1, <1>10 DEF vars, AuctionStep
<1> QED
  BY <1>5, <1>6, <1>7, <1>8, <1>9, <1>10, Zenon DEF Next, Quiet

(* The fields of an auction with a new bid, and of one that is started. *)
LEMMA BidFields ==
    ASSUME IInv, NEW p \in Pools, NEW u \in Users, NEW bps \in Bids, Started(auctions[p])
    PROVE  LET old == auctions[p]
               new == WithBid(old, p, u, bps)
           IN  /\ HasBid(new) /\ new.status = "STARTED"
               /\ new.startBlock = old.startBlock /\ new.highestBidBlock = block
               /\ new.highestBidBps = bps /\ new.highestBidder = u
               /\ new.auctionType = old.auctionType /\ new.marketDebt = old.marketDebt
               /\ new.seizedRiskFund = old.seizedRiskFund
               /\ \A m \in MarketsOf(p) : new.bidAmount[m] = Received(Underlying[m], Offer(old, bps, m))
<1>1. auctions[p] \in Auction /\ u # Nobody
  BY DEF IInv, TypeOK, Users, Nobody
<1> DEFINE new == WithBid(auctions[p], p, u, bps)
<1>2. \A m \in MarketsOf(p) : new.bidAmount[m] = Received(Underlying[m], Offer(auctions[p], bps, m))
  BY <1>1 DEF WithBid, Auction, MarketsOf
<1>3. /\ new.status = auctions[p].status
      /\ new.startBlock = auctions[p].startBlock /\ new.highestBidBlock = block
      /\ new.highestBidBps = bps /\ new.highestBidder = u
      /\ new.auctionType = auctions[p].auctionType /\ new.marketDebt = auctions[p].marketDebt
      /\ new.seizedRiskFund = auctions[p].seizedRiskFund
  BY <1>1 DEF WithBid, Auction
<1> HIDE DEF new
<1>4. HasBid(new)
  BY <1>1, <1>3 DEF HasBid, Started
<1> QED
  BY <1>2, <1>3, <1>4 DEF new, Started

LEMMA StartFields ==
    ASSUME IInv, NEW p \in Pools, NEW debt, NEW fundValue
    PROVE  LET new == StartedAuction(auctions[p], p, debt, fundValue)
           IN  ~HasBid(new) /\ new.status = "STARTED" /\ new.startBlock = block
<1>1. auctions[p] \in Auction
  BY DEF IInv, TypeOK
<1> QED
  BY <1>1 DEF StartedAuction, Auction, HasBid, Started

LEMMA NextStepInv ==
    ASSUME StepInv, IInv', [Next]_vars
    PROVE  StepInv'
<1> SUFFICES ASSUME NEW p \in Pools PROVE BidIsOffer(p)' /\ Dated(p)'
  BY DEF StepInv
<1> DEFINE old == auctions[p]
<1>1. /\ IInv /\ BidIsOffer(p) /\ Dated(p) /\ AuctionStep(p) /\ block \in Nat /\ block' \in Nat /\ block <= block'
      /\ old \in Auction /\ old.startBlock \in Nat /\ old.highestBidBlock \in Nat
  BY AuctionSteps DEF StepInv, IInv, TypeOK, Auction
<1>2. CASE auctions'[p] = old
  BY <1>1, <1>2 DEF BidIsOffer, Dated
<1>3. CASE \E u \in Users, bps \in Bids :
              /\ Started(old) /\ Improves(old, bps)
              /\ auctions'[p] = WithBid(old, p, u, bps) /\ block' = block
  <2>1. PICK u \in Users, bps \in Bids :
              /\ Started(old) /\ auctions'[p] = WithBid(old, p, u, bps) /\ block' = block
    BY <1>3
  <2> DEFINE new == WithBid(old, p, u, bps)
  <2>2. /\ HasBid(new) /\ new.status = "STARTED" /\ new.startBlock = old.startBlock
        /\ new.highestBidBlock = block /\ new.highestBidBps = bps
        /\ new.auctionType = old.auctionType /\ new.marketDebt = old.marketDebt
        /\ \A m \in MarketsOf(p) : new.bidAmount[m] = Received(Underlying[m], Offer(old, bps, m))
    BY <1>1, <2>1, BidFields
  <2> HIDE DEF new, old
  <2>3. \A m \in MarketsOf(p) : Offer(new, bps, m) = Offer(old, bps, m)
    BY <2>2 DEF Offer
  <2>4. auctions'[p] = new
    BY <2>1 DEF new
  <2>5. BidIsOffer(p)'
    BY <2>2, <2>3, <2>4 DEF BidIsOffer
  <2>6. Dated(p)'
    BY <1>1, <2>1, <2>2, <2>4 DEF Dated, old
  <2> QED
    BY <2>5, <2>6
<1>4. CASE /\ MayClose(old) /\ block' = block
           /\ auctions'[p] = [old EXCEPT !.status = "ENDED"]
  <2>1. /\ HasBid(old) /\ block > old.highestBidBlock + settings.nextBidderBlockLimit
        /\ settings.nextBidderBlockLimit \in Nat
    BY <1>1, <1>4 DEF MayClose, IInv, TypeOK, Settings
  <2>2. auctions'[p].status = "ENDED" /\ auctions'[p].startBlock = old.startBlock
    BY <1>1, <1>4 DEF Auction
  <2>3. ~HasBid(auctions'[p])
    BY <2>2 DEF HasBid, Started
  <2>4. old.startBlock < block
    BY <1>1, <2>1 DEF Dated
  <2> QED
    BY <1>1, <1>4, <2>2, <2>3, <2>4 DEF BidIsOffer, Dated
<1>5. CASE \E debt \in Nat, fundValue \in Nat :
              /\ ~Started(old) \/ Stale(old)
              /\ DebtIsLarge(debt, fundValue) => debt # 0
              /\ auctions'[p] = StartedAuction(old, p, debt, fundValue) /\ block' = block
  <2>1. ~HasBid(auctions'[p]) /\ auctions'[p].status = "STARTED" /\ auctions'[p].startBlock = block /\ block' = block
    BY <1>1, <1>5, StartFields
  <2> QED
    BY <1>1, <2>1 DEF BidIsOffer, Dated
<1> QED
  BY <1>1, <1>2, <1>3, <1>4, <1>5 DEF AuctionStep

LEMMA SpecStepInv == Spec => []StepInv
<1>1. Init => StepInv
  <2> SUFFICES ASSUME Init PROVE StepInv
    OBVIOUS
  <2>1. \A p \in Pools : ~HasBid(auctions[p]) /\ auctions[p].status = "NOT_STARTED" /\ auctions[p].startBlock = 0
    BY DEF Init, HasBid, Started
  <2>2. block = 0
    BY DEF Init
  <2> QED
    BY <2>1, <2>2, InitIInv DEF StepInv, BidIsOffer, Dated
<1>2. StepInv /\ IInv' /\ [Next]_vars => StepInv'
  BY NextStepInv
<1> QED
  BY <1>1, <1>2, SpecIInv, PTL DEF Spec

(* A live bid gives way only to one that is no worse for any market and for the *)
(* fund, under the same terms, or to the closing (placeBid).                    *)
THEOREM SpecOfferOnlyImproves == Spec => OfferOnlyImproves
<1>1. ASSUME StepInv, [Next]_vars, NEW p \in Pools, HasBid(auctions[p])
      PROVE  LET old == auctions[p]
                 new == auctions'[p]
             IN  \/ new.status = "ENDED"
                 \/ /\ HasBid(new) /\ new.startBlock = old.startBlock
                    /\ Payout(new) <= Payout(old)
                    /\ \A m \in MarketsOf(p) : new.bidAmount[m] >= old.bidAmount[m]
  <2> DEFINE old == auctions[p]
             new == auctions'[p]
  <2>1. /\ IInv /\ BidIsOffer(p) /\ AuctionStep(p) /\ old \in Auction /\ Started(old) /\ ~Stale(old)
        /\ old.highestBidder # Nobody
        /\ old.highestBidBps \in 0..MAX_BPS /\ MAX_BPS \in Nat \ {0} /\ old.bidAmount \in [Markets -> Nat]
        /\ old.auctionType \in {"LARGE_POOL_DEBT", "LARGE_RISK_FUND"}
        /\ old.marketDebt \in [Markets -> Nat] /\ old.seizedRiskFund \in Nat
    BY <1>1, AuctionSteps, ShortfallAssumption DEF StepInv, IInv, TypeOK, Auction, HasBid, Stale
  <2>2. CASE new = old
    <3>1. Payout(old) \in Nat
      BY <2>1, PayoutBound
    <3>2. \A m \in MarketsOf(p) : old.bidAmount[m] \in Nat
      BY <2>1 DEF MarketsOf
    <3> QED
      BY <1>1, <2>2, <3>1, <3>2
  <2>3. CASE \E u \in Users, bps \in Bids :
                /\ Started(old) /\ Improves(old, bps)
                /\ new = WithBid(old, p, u, bps) /\ block' = block
    <3>1. PICK u \in Users, bps \in Bids : Improves(old, bps) /\ new = WithBid(old, p, u, bps)
      BY <2>3
    <3>2. /\ HasBid(new) /\ new.startBlock = old.startBlock /\ new.highestBidBps = bps
          /\ new.auctionType = old.auctionType /\ new.seizedRiskFund = old.seizedRiskFund
          /\ \A m \in MarketsOf(p) : new.bidAmount[m] = Received(Underlying[m], Offer(old, bps, m))
      BY <2>1, <3>1, BidFields
    <3> DEFINE was == old.highestBidBps
    <3>3. bps \in 0..MAX_BPS /\ bps \in Nat /\ was \in 0..MAX_BPS /\ was \in Nat
      BY <2>1, ShortfallAssumption
    <3>4. \A m \in MarketsOf(p) : /\ old.bidAmount[m] = Received(Underlying[m], Offer(old, was, m))
                                  /\ Underlying[m] \in Tokens /\ m \in Markets /\ old.marketDebt[m] \in Nat
      BY <1>1, <2>1, ShortfallAssumption DEF BidIsOffer, MarketsOf
    <3> HIDE DEF old, new, was
    <3>5. ASSUME old.auctionType = "LARGE_POOL_DEBT"
          PROVE  Payout(new) <= Payout(old) /\ \A m \in MarketsOf(p) : new.bidAmount[m] >= old.bidAmount[m]
      <4>1. was <= bps
        BY <2>1, <3>1, <3>3, <3>5 DEF Improves, was
      <4>2. Payout(new) <= Payout(old)
        BY <2>1, <3>2, <3>5 DEF Payout
      <4>3. ASSUME NEW m \in MarketsOf(p) PROVE new.bidAmount[m] >= old.bidAmount[m]
        <5>1. Offer(old, was, m) <= Offer(old, bps, m)
          BY <3>3, <3>4, <3>5, <4>1, ShareGrows DEF Offer
        <5>2. Offer(old, was, m) \in Nat /\ Offer(old, bps, m) \in Nat
          BY <2>1, <3>3, <3>4, OfferBound
        <5>3. /\ Received(Underlying[m], Offer(old, was, m)) <= Received(Underlying[m], Offer(old, bps, m))
              /\ Received(Underlying[m], Offer(old, was, m)) \in Nat
              /\ Received(Underlying[m], Offer(old, bps, m)) \in Nat
          BY <3>4, <5>1, <5>2, ReceivedGrows, ReceivedBound
        <5> QED
          BY <3>2, <3>4, <5>3
      <4> QED
        BY <4>2, <4>3
    <3>6. ASSUME old.auctionType = "LARGE_RISK_FUND"
          PROVE  Payout(new) <= Payout(old) /\ \A m \in MarketsOf(p) : new.bidAmount[m] >= old.bidAmount[m]
      <4>1. bps <= was
        BY <2>1, <3>1, <3>3, <3>6 DEF Improves, was
      <4>2. Payout(new) <= Payout(old)
        <5>1. (old.seizedRiskFund * bps) \div MAX_BPS <= (old.seizedRiskFund * was) \div MAX_BPS
          BY <2>1, <3>3, <4>1, ShareGrows
        <5> QED
          BY <3>2, <3>6, <5>1 DEF Payout, was
      <4>3. ASSUME NEW m \in MarketsOf(p) PROVE new.bidAmount[m] >= old.bidAmount[m]
        <5>1. Offer(old, was, m) = Offer(old, bps, m)
          BY <3>6 DEF Offer
        <5>2. old.bidAmount[m] \in Nat
          BY <2>1, <3>4
        <5> QED
          BY <3>2, <3>4, <5>1, <5>2
      <4> QED
        BY <4>2, <4>3
    <3> QED
      BY <2>1, <3>2, <3>5, <3>6 DEF old, new
  <2>4. CASE new = [old EXCEPT !.status = "ENDED"]
    BY <2>1, <2>4 DEF Auction
  <2> QED
    BY <2>1, <2>2, <2>3, <2>4, Zenon DEF AuctionStep
<1>2. StepInv /\ [Next]_vars =>
        \A p \in Pools :
          LET old == auctions[p]
              new == auctions'[p]
          IN  HasBid(old) =>
                  \/ new.status = "ENDED"
                  \/ /\ HasBid(new) /\ new.startBlock = old.startBlock
                     /\ Payout(new) <= Payout(old)
                     /\ \A m \in MarketsOf(p) : new.bidAmount[m] >= old.bidAmount[m]
  BY <1>1, Zenon
<1> QED
  BY <1>2, SpecStepInv, PTL DEF Spec, OfferOnlyImproves

(* The start that a bidder names says which auction the bid is for: a restart   *)
(* comes later than the stale auction, a new start later than the one closed.   *)
THEOREM SpecStartIdentifiesAuction == Spec => StartIdentifiesAuction
<1>1. ASSUME StepInv, [Next]_vars, NEW p \in Pools,
             auctions[p].status # "NOT_STARTED", auctions'[p] # auctions[p],
             auctions'[p].status = "STARTED", ~HasBid(auctions'[p])
      PROVE  auctions'[p].startBlock > auctions[p].startBlock
  <2> DEFINE old == auctions[p]
  <2>1. /\ IInv /\ Dated(p) /\ AuctionStep(p) /\ old \in Auction /\ block \in Nat /\ old.startBlock \in Nat
        /\ settings.waitForFirstBidder \in Nat
        /\ old.status \in {"STARTED", "ENDED"}
    BY <1>1, AuctionSteps DEF StepInv, IInv, TypeOK, Auction, Settings
  <2>2. ~ \E u \in Users, bps \in Bids : Started(old) /\ auctions'[p] = WithBid(old, p, u, bps)
    BY <1>1, <2>1, BidFields
  <2>3. auctions'[p] # [old EXCEPT !.status = "ENDED"]
    BY <1>1, <2>1 DEF Auction
  <2>4. PICK debt \in Nat, fundValue \in Nat :
           /\ ~Started(old) \/ Stale(old)
           /\ auctions'[p] = StartedAuction(old, p, debt, fundValue)
    BY <1>1, <2>1, <2>2, <2>3, Zenon DEF AuctionStep
  <2>5. auctions'[p].startBlock = block
    BY <2>1, <2>4, StartFields
  <2>6. old.startBlock < block
    BY <2>1, <2>4 DEF Stale, Started, Dated
  <2> QED
    BY <2>1, <2>5, <2>6
<1>2. StepInv /\ [Next]_vars =>
        \A p \in Pools : auctions[p].status # "NOT_STARTED" /\ auctions'[p] # auctions[p]
                            /\ auctions'[p].status = "STARTED" /\ ~HasBid(auctions'[p])
                        => auctions'[p].startBlock > auctions[p].startBlock
  BY <1>1, Zenon
<1> QED
  BY <1>2, SpecStepInv, PTL DEF Spec, StartIdentifiesAuction

(* A market's bad debt falls only by what the market receives (closeAuction,    *)
(* badDebtRecovered), also when the underlying keeps a fee of the transfer.     *)
THEOREM SpecRecoveryMatchesReceipt == Spec => RecoveryMatchesReceipt
<1>1. ASSUME IInv, [Next]_vars, NEW m \in Markets, badDebt'[m] < badDebt[m]
      PROVE  badDebt[m] - badDebt'[m] = cash'[m] - cash[m]
  <2>1. TypeOK /\ badDebt[m] \in Nat /\ cash[m] \in Nat /\ PoolOf[m] \in Pools /\ Underlying[m] \in Tokens
    BY <1>1, ShortfallAssumption DEF IInv, TypeOK
  <2>2. ASSUME NEW p \in Pools, NEW refused, CloseAuction(p, refused)
        PROVE  badDebt[m] - badDebt'[m] = cash'[m] - cash[m]
    <3> DEFINE a == Received(Underlying[m], auctions[p].bidAmount[m])
    <3>1. auctions[p].bidAmount[m] \in Nat
      BY <2>1 DEF TypeOK, Auction
    <3>2. a \in Nat
      BY <2>1, <3>1, ReceivedBound
    <3> HIDE DEF a
    <3>3. /\ badDebt'[m] = IF PoolOf[m] = p THEN badDebt[m] - a ELSE badDebt[m]
          /\ cash'[m] = IF PoolOf[m] = p THEN cash[m] + a ELSE cash[m]
      BY <2>2 DEF CloseAuction, Recovered, a
    <3> QED
      BY <1>1, <2>1, <3>2, <3>3
  <2>3. ~ \E p \in Pools, u \in Users, bps \in Bids, start \in 0..MaxBlock, refused \in SUBSET Tokens :
            PlaceBid(p, u, bps, start, refused)
    BY <1>1, <2>1 DEF PlaceBid
  <2>4. ~ \E p \in Pools, prices \in MarketPrices, basePrice \in BasePrices :
            StartAuction(p, prices, basePrice) \/ RestartAuction(p, prices, basePrice)
    BY <1>1, <2>1 DEF StartAuction, RestartAuction, Start
  <2>5. ~ \E t \in Tokens, u \in Users : \E amount \in Claims \cup {tokenDebt[t][u]} : ClaimTokenDebt(t, u, amount)
    BY <1>1, <2>1 DEF ClaimTokenDebt
  <2>6. ~ Quiet
    <3>1. Quiet => badDebt'[m] \in Nat /\ badDebt[m] <= badDebt'[m]
      BY <2>1, QuietSteps
    <3> QED
      BY <1>1, <2>1, <3>1
  <2>7. ~ UNCHANGED vars
    BY <1>1, <2>1 DEF vars
  <2>8. \E p \in Pools : Close(p)
    BY <1>1, <2>3, <2>4, <2>5, <2>6, <2>7, Zenon DEF Next, Quiet
  <2> QED
    BY <2>2, <2>8, Zenon DEF Close
<1>2. IInv /\ [Next]_vars =>
        \A m \in Markets : badDebt'[m] < badDebt[m] => badDebt[m] - badDebt'[m] = cash'[m] - cash[m]
  BY <1>1, Zenon
<1> QED
  BY <1>2, SpecIInv, PTL DEF Spec, RecoveryMatchesReceipt
=============================================================================
