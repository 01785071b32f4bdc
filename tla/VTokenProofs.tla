---------------------------- MODULE VTokenProofs ----------------------------
(***************************************************************************)
(* First what every handler of VTokenOps preserves, for any market, any    *)
(* amounts, any interest rate model and any EXP_SCALE, and what it does to *)
(* the exchange rate and to the loans: facts that IsolatedPoolProofs uses  *)
(* as well.  Then the invariants and step properties of VToken.tla, proved *)
(* for any number of accounts and any comptroller.                         *)
(***************************************************************************)
EXTENDS VToken, SumsProofs, TLAPS

-----------------------------------------------------------------------------
(* Truncating arithmetic, for every scale *)

(* Multiplying by a rate of at most one does not exceed the amount. *)
LEMMA PartOf ==
    ASSUME NEW f \in 0..EXP_SCALE, NEW x \in Nat
    PROVE  MulScalarTruncate(f, x) \in Nat /\ MulScalarTruncate(f, x) <= x
<1>1. f * x \in Nat /\ f * x <= x * EXP_SCALE
  BY ExpScaleAssumption, SMT
<1>2. (f * x) \div EXP_SCALE \in Nat /\ (f * x) \div EXP_SCALE <= x
  BY <1>1, ExpScaleAssumption, Quotient, QuotientBound
<1> QED
  BY <1>2 DEF MulScalarTruncate

LEMMA TruncatedNat ==
    ASSUME NEW a \in Nat, NEW b \in Nat
    PROVE  MulScalarTruncate(a, b) \in Nat /\ MulExp(a, b) \in Nat
BY ExpScaleAssumption, Product, Quotient DEF MulScalarTruncate, MulExp

LEMMA DivExpNat ==
    ASSUME NEW a \in Nat, NEW b \in Nat \ {0}
    PROVE  DivExp(a, b) \in Nat
BY ExpScaleAssumption, Product, Quotient DEF DivExp

LEMMA TruncatedGrows ==
    ASSUME NEW a \in Nat, NEW b \in Nat, a <= b, NEW x \in Nat
    PROVE  /\ MulScalarTruncate(a, x) <= MulScalarTruncate(b, x)
           /\ MulExp(x, a) <= MulExp(x, b)
<1>1. a * x \in Nat /\ b * x \in Nat /\ a * x <= b * x /\ x * a = a * x /\ x * b = b * x
  BY SMT
<1>2. (a * x) \div EXP_SCALE <= (b * x) \div EXP_SCALE
  BY <1>1, ExpScaleAssumption, QuotientGrows
<1> QED BY <1>1, <1>2 DEF MulScalarTruncate, MulExp

\* Truncating two parts loses at most one unit more than truncating the whole.
LEMMA TruncatedSplit ==
    ASSUME NEW a \in Nat, NEW x \in Nat, NEW y \in Nat
    PROVE  MulScalarTruncate(a, x + y) <= MulScalarTruncate(a, x) + MulScalarTruncate(a, y) + 1
<1>1. a * (x + y) = a * x + a * y /\ a * x \in Nat /\ a * y \in Nat
  BY SMT
<1>2. (a * x + a * y) \div EXP_SCALE <= ((a * x) \div EXP_SCALE) + ((a * y) \div EXP_SCALE) + 1
  BY <1>1, ExpScaleAssumption, QuotientSplit
<1> QED BY <1>1, <1>2 DEF MulScalarTruncate

LEMMA TruncatedZero ==
    ASSUME NEW a \in Nat
    PROVE  MulScalarTruncate(a, 0) = 0
BY ExpScaleAssumption, SMT DEF MulScalarTruncate

-----------------------------------------------------------------------------
(* One market *)

\* A market in good order: well typed, its loans carry the index they were
\* taken at, its supply is what the accounts hold, its reserves are backed.
MarketInv(k) ==
    /\ k \in Market
    /\ \A u \in Users : k.principal[u] # 0 => k.interestIndex[u] # 0
    /\ k.totalSupply = Total(k.accountTokens, NumUsers)
    /\ NetUnderlying(k) >= 0

\* A handler that leaves the market in good order and does not touch its accrual slot.
Preserves(k, new) == MarketInv(new) /\ new.accrualBlockNumber = k.accrualBlockNumber

-----------------------------------------------------------------------------
(* What vTokens and loans are worth *)

(* The exchange rate is a natural number, and all the vTokens are worth no   *)
(* more than the underlying they stand for.                                  *)
LEMMA ExchangeRate ==
    ASSUME NEW k, MarketInv(k)
    PROVE  /\ HasExchangeRate(k)
           /\ ExchangeRateStored(k) \in Nat
           /\ ExchangeRateStored(k) * k.totalSupply <= NetUnderlying(k) * EXP_SCALE
<1>1. NetUnderlying(k) \in Nat /\ k.totalSupply \in Nat
  BY DEF MarketInv, NetUnderlying, Market
<1>2. CASE k.totalSupply = 0
  <2>1. NetUnderlying(k) * EXP_SCALE \in Nat /\ ExchangeRateStored(k) \in Nat
    BY <1>1, <1>2, ExpScaleAssumption, VTokenOpsAssumption, Product DEF ExchangeRateStored
  <2> QED
    BY <1>2, <2>1 DEF HasExchangeRate
<1>3. CASE k.totalSupply # 0
  <2>1. NetUnderlying(k) * EXP_SCALE \in Nat
    BY <1>1, ExpScaleAssumption, Product
  <2>2. /\ (NetUnderlying(k) * EXP_SCALE) \div k.totalSupply \in Nat
        /\ ((NetUnderlying(k) * EXP_SCALE) \div k.totalSupply) * k.totalSupply <= NetUnderlying(k) * EXP_SCALE
    BY <1>1, <1>3, <2>1, Quotient
  <2> QED
    BY <1>1, <1>3, <2>2 DEF HasExchangeRate, ExchangeRateStored
<1> QED
  BY <1>2, <1>3

(* No part of the supply is worth more than the underlying all of it stands for. *)
LEMMA ValueBacked ==
    ASSUME NEW k, MarketInv(k), NEW tokens \in Nat, tokens <= k.totalSupply
    PROVE  /\ RedeemAmount(k, tokens) \in Nat
           /\ RedeemAmount(k, tokens) <= NetUnderlying(k)
<1> DEFINE rate == ExchangeRateStored(k)
<1>1. NetUnderlying(k) \in Nat /\ k.totalSupply \in Nat
  BY DEF MarketInv, NetUnderlying, Market
<1>2. rate \in Nat /\ rate * k.totalSupply <= NetUnderlying(k) * EXP_SCALE
  BY ExchangeRate
<1> HIDE DEF rate
<1>3. rate * tokens \in Nat /\ rate * tokens <= rate * k.totalSupply
  BY <1>1, <1>2, SMT
<1>4. rate * k.totalSupply \in Nat /\ NetUnderlying(k) * EXP_SCALE \in Nat
  BY <1>1, <1>2, ExpScaleAssumption, Product
<1>5. rate * tokens <= NetUnderlying(k) * EXP_SCALE
  BY <1>2, <1>3, <1>4
<1>6. (rate * tokens) \div EXP_SCALE \in Nat /\ (rate * tokens) \div EXP_SCALE <= NetUnderlying(k)
  BY <1>1, <1>3, <1>5, ExpScaleAssumption, Quotient, QuotientBound
<1> QED
  BY <1>6 DEF rate, RedeemAmount, MulScalarTruncate

LEMMA BorrowBalance ==
    ASSUME NEW k, MarketInv(k), NEW u \in Users
    PROVE  BorrowBalanceStored(k, u) \in Nat
<1>1. k.principal[u] \in Nat /\ k.borrowIndex \in Nat /\ k.interestIndex[u] \in Nat
  BY DEF MarketInv, Market
<1>2. k.principal[u] * k.borrowIndex \in Nat
  BY <1>1, Product
<1>3. CASE k.principal[u] = 0
  BY <1>3 DEF BorrowBalanceStored
<1>4. CASE k.principal[u] # 0
  <2>1. k.interestIndex[u] \in Nat \ {0}
    BY <1>1, <1>4 DEF MarketInv
  <2> QED
    BY <1>2, <1>4, <2>1, Quotient DEF BorrowBalanceStored
<1> QED
  BY <1>3, <1>4
-----------------------------------------------------------------------------
(* Handlers *)

(* Changing one account's tokens and the supply by the same amount. *)
LEMMA SupplyMoves ==
    ASSUME NEW k, MarketInv(k), NEW u \in Users, NEW v \in Nat
    PROVE  /\ [k.accountTokens EXCEPT ![u] = v] \in [Users -> Nat]
           /\ Total([k.accountTokens EXCEPT ![u] = v], NumUsers)
                 = k.totalSupply - k.accountTokens[u] + v
<1>1. k.accountTokens \in [1..NumUsers -> Nat]
  BY DEF MarketInv, Market, Users
<1>2. k.accountTokens \in [1..NumUsers -> Int]
  BY <1>1
<1>3. Total([k.accountTokens EXCEPT ![u] = v], NumUsers)
        = Total(k.accountTokens, NumUsers) - k.accountTokens[u] + v
  BY <1>2, VTokenOpsAssumption, TotalUpdate DEF Users
<1>4. [k.accountTokens EXCEPT ![u] = v] \in [Users -> Nat]
  BY <1>1 DEF Users
<1> QED
  BY <1>3, <1>4 DEF MarketInv

(* The sum bounds every account's balance. *)
LEMMA BalanceWithinSupply ==
    ASSUME NEW k, MarketInv(k), NEW u \in Users
    PROVE  k.accountTokens[u] \in Nat /\ k.accountTokens[u] <= k.totalSupply
<1>1. k.accountTokens \in [1..NumUsers -> Nat]
  BY DEF MarketInv, Market, Users
<1> QED
  BY <1>1, VTokenOpsAssumption, TotalNat DEF MarketInv, Users

(* What a handler that touches no account must show. *)
LEMMA PreservesIfAccountsKept ==
    ASSUME NEW k, MarketInv(k), NEW new \in Market,
           new.principal = k.principal, new.interestIndex = k.interestIndex,
           new.accountTokens = k.accountTokens, new.totalSupply = k.totalSupply,
           NetUnderlying(new) >= NetUnderlying(k)
    PROVE  MarketInv(new)
<1>1. NetUnderlying(new) \in Int /\ NetUnderlying(k) \in Int
  BY DEF MarketInv, Market, NetUnderlying
<1> QED
  BY <1>1 DEF MarketInv

LEMMA ReduceReservesInv ==
    ASSUME NEW k, MarketInv(k), NEW a \in Nat, CanReduceReserves(k, a)
    PROVE  Preserves(k, ReduceReservesFresh(k, a))
<1> DEFINE new == ReduceReservesFresh(k, a)
<1>0. k \in Market
  BY DEF MarketInv
<1>1. k.totalReserves - a \in Nat /\ k.cash - a \in Nat /\ k.income + a \in Nat
  BY <1>0 DEF CanReduceReserves, Market
<1>2. new \in Market
  BY <1>0, <1>1, Zenon DEF ReduceReservesFresh, Market
<1>3. /\ new.principal = k.principal /\ new.interestIndex = k.interestIndex
      /\ new.totalSupply = k.totalSupply /\ new.accountTokens = k.accountTokens
      /\ new.accrualBlockNumber = k.accrualBlockNumber
      /\ NetUnderlying(new) = NetUnderlying(k) /\ NetUnderlying(k) \in Int
  BY <1>0 DEF ReduceReservesFresh, Market, NetUnderlying
<1> HIDE DEF new
<1> QED
  BY <1>2, <1>3, PreservesIfAccountsKept DEF Preserves, new

LEMMA InterestAccruedInv ==
    ASSUME NEW k, MarketInv(k), NEW now \in Nat, k.accrualBlockNumber <= now,
           RateNow(k) \in 0..MaxBorrowRate
    PROVE  MarketInv(InterestAccrued(k, now)) /\ InterestAccrued(k, now).accrualBlockNumber = now
<1> DEFINE factor   == RateNow(k) * (now - k.accrualBlockNumber)
           interest == MulScalarTruncate(factor, k.totalBorrows)
<1>1. /\ k.totalBorrows \in Nat /\ k.borrowIndex \in Nat \ {0} /\ k.totalReserves \in Nat
      /\ k.reserveFactor \in 0..EXP_SCALE /\ k.accrualBlockNumber \in Nat
  BY DEF MarketInv, Market
<1>2. factor \in Nat
  BY <1>1, VTokenOpsAssumption, Product
<1> HIDE DEF factor
<1>3. interest \in Nat
  BY <1>1, <1>2, TruncatedNat
<1>4. MulScalarTruncate(factor, k.borrowIndex) \in Nat
  BY <1>1, <1>2, TruncatedNat
<1> HIDE DEF interest
<1>5. MulScalarTruncate(k.reserveFactor, interest) \in Nat
      /\ MulScalarTruncate(k.reserveFactor, interest) <= interest
  BY <1>1, <1>3, PartOf
<1> DEFINE new == InterestAccrued(k, now)
<1>6. k \in Market
  BY DEF MarketInv
<1>7. new = [k EXCEPT !.accrualBlockNumber = now,
                      !.totalBorrows  = @ + interest,
                      !.totalReserves = MulScalarTruncate(k.reserveFactor, interest) + @,
                      !.borrowIndex   = MulScalarTruncate(factor, @) + @]
  BY Zenon DEF InterestAccrued, MulScalarTruncateAdd, factor, interest
<1>8. /\ k.totalBorrows + interest \in Nat
      /\ MulScalarTruncate(k.reserveFactor, interest) + k.totalReserves \in Nat
      /\ MulScalarTruncate(factor, k.borrowIndex) + k.borrowIndex \in Nat \ {0}
  BY <1>1, <1>3, <1>4, <1>5
<1>9. new \in Market
  BY <1>6, <1>7, <1>8, ZenonT(60) DEF Market
<1>10. /\ new.principal = k.principal /\ new.interestIndex = k.interestIndex
       /\ new.totalSupply = k.totalSupply /\ new.accountTokens = k.accountTokens
       /\ new.accrualBlockNumber = now
       /\ NetUnderlying(new) >= NetUnderlying(k)
  BY <1>1, <1>3, <1>5, <1>6, <1>7 DEF Market, NetUnderlying
<1> HIDE DEF new
<1> QED
  BY <1>9, <1>10, PreservesIfAccountsKept DEF new

LEMMA AccrueInterestInv ==
    ASSUME NEW k, MarketInv(k), NEW now \in Nat, k.accrualBlockNumber <= now, CanAccrue(k, now)
    PROVE  MarketInv(AccrueInterest(k, now)) /\ AccrueInterest(k, now).accrualBlockNumber = now
<1>1. CASE k.accrualBlockNumber = now
  BY <1>1 DEF AccrueInterest
<1>2. CASE k.accrualBlockNumber # now
  <2> DEFINE i == InterestAccrued(k, now)
             sweep == IF i.cash < i.totalReserves THEN i.cash ELSE i.totalReserves
             j == [i EXCEPT !.reduceReservesBlockNumber = now]
  <2>1. MarketInv(i) /\ i.accrualBlockNumber = now
    BY <1>2, InterestAccruedInv DEF CanAccrue
  <2> HIDE DEF i
  <2>2. MarketInv(j) /\ j.accrualBlockNumber = now
        /\ j.cash = i.cash /\ j.totalReserves = i.totalReserves
    BY <2>1 DEF MarketInv, Market, NetUnderlying
  <2>3. sweep \in Nat /\ CanReduceReserves(j, sweep)
    BY <2>1, <2>2 DEF MarketInv, Market, CanReduceReserves
  <2>4. AutoReduceReserves(i, now) = i \/ AutoReduceReserves(i, now) = ReduceReservesFresh(j, sweep)
    BY DEF AutoReduceReserves
  <2>5. MarketInv(AutoReduceReserves(i, now)) /\ AutoReduceReserves(i, now).accrualBlockNumber = now
    <3> HIDE DEF j, sweep
    <3>1. Preserves(j, ReduceReservesFresh(j, sweep))
      BY <2>2, <2>3, ReduceReservesInv
    <3> QED
      BY <2>1, <2>2, <2>4, <3>1 DEF Preserves
  <2> QED
    BY <1>2, <2>5 DEF AccrueInterest, i
<1> QED
  BY <1>1, <1>2

LEMMA AddReservesInv ==
    ASSUME NEW k, MarketInv(k), NEW a \in Nat
    PROVE  Preserves(k, AddReservesFresh(k, a))
<1> DEFINE new == AddReservesFresh(k, a)
<1>0. k \in Market
  BY DEF MarketInv
<1>1. k.cash + a \in Nat /\ k.totalReserves + a \in Nat
  BY <1>0 DEF Market
<1>2. new \in Market
  BY <1>0, <1>1, Zenon DEF AddReservesFresh, Market
<1>3. /\ new.principal = k.principal /\ new.interestIndex = k.interestIndex
      /\ new.totalSupply = k.totalSupply /\ new.accountTokens = k.accountTokens
      /\ new.accrualBlockNumber = k.accrualBlockNumber
      /\ NetUnderlying(new) = NetUnderlying(k) /\ NetUnderlying(k) \in Int
  BY <1>0 DEF AddReservesFresh, Market, NetUnderlying
<1> HIDE DEF new
<1> QED
  BY <1>2, <1>3, PreservesIfAccountsKept DEF Preserves, new

LEMMA BadDebtRecoveredInv ==
    ASSUME NEW k, MarketInv(k), NEW a \in Nat, CanRecoverBadDebt(k, a)
    PROVE  Preserves(k, BadDebtRecovered(k, a))
<1> DEFINE new == BadDebtRecovered(k, a)
<1>0. k \in Market
  BY DEF MarketInv
<1>1. k.cash + a \in Nat /\ k.badDebt - a \in Nat
  BY <1>0 DEF CanRecoverBadDebt, Market
<1>2. new \in Market
  BY <1>0, <1>1, Zenon DEF BadDebtRecovered, Market
<1>3. /\ new.principal = k.principal /\ new.interestIndex = k.interestIndex
      /\ new.totalSupply = k.totalSupply /\ new.accountTokens = k.accountTokens
      /\ new.accrualBlockNumber = k.accrualBlockNumber
      /\ NetUnderlying(new) = NetUnderlying(k) /\ NetUnderlying(k) \in Int
  BY <1>0 DEF BadDebtRecovered, Market, NetUnderlying
<1> HIDE DEF new
<1> QED
  BY <1>2, <1>3, PreservesIfAccountsKept DEF Preserves, new

LEMMA MintInv ==
    ASSUME NEW k, MarketInv(k), NEW u \in Users, NEW a \in Nat, CanMint(k)
    PROVE  Preserves(k, MintFresh(k, u, a))
<1> DEFINE new == MintFresh(k, u, a)
           tokens == MintTokens(k, a)
<1>0. k \in Market /\ k.accountTokens[u] \in Nat
  BY DEF MarketInv, Market
<1>1. tokens \in Nat
  BY ExchangeRate, DivExpNat DEF CanMint, MintTokens
<1> HIDE DEF tokens
<1>2. /\ [k.accountTokens EXCEPT ![u] = k.accountTokens[u] + tokens] \in [Users -> Nat]
      /\ Total([k.accountTokens EXCEPT ![u] = k.accountTokens[u] + tokens], NumUsers)
           = k.totalSupply - k.accountTokens[u] + (k.accountTokens[u] + tokens)
  BY <1>0, <1>1, SupplyMoves
<1>3. k.cash + a \in Nat /\ k.totalSupply + tokens \in Nat
  BY <1>0, <1>1 DEF Market
<1>4. new = [k EXCEPT !.cash = k.cash + a, !.totalSupply = k.totalSupply + tokens,
                      !.accountTokens = [k.accountTokens EXCEPT ![u] = k.accountTokens[u] + tokens]]
  BY <1>0, Zenon DEF MintFresh, tokens, Market
<1>5. new \in Market
  BY <1>0, <1>2, <1>3, <1>4, ZenonT(60) DEF Market
<1>6. /\ new.principal = k.principal /\ new.interestIndex = k.interestIndex
      /\ new.totalSupply = k.totalSupply + tokens
      /\ new.accountTokens = [k.accountTokens EXCEPT ![u] = k.accountTokens[u] + tokens]
      /\ new.accrualBlockNumber = k.accrualBlockNumber
      /\ NetUnderlying(new) = NetUnderlying(k) + a /\ NetUnderlying(k) \in Int
  BY <1>0, <1>4 DEF Market, NetUnderlying
<1>7. new.totalSupply = Total(new.accountTokens, NumUsers)
  BY <1>0, <1>1, <1>2, <1>6 DEF Market
<1> HIDE DEF new
<1> QED
  BY <1>5, <1>6, <1>7 DEF MarketInv, Preserves, new

LEMMA RedeemInv ==
    ASSUME NEW k, MarketInv(k), NEW u \in Users, NEW t \in Nat, NEW a \in Nat, CanRedeem(k, u, t, a)
    PROVE  Preserves(k, RedeemFresh(k, u, t, a))
<1> DEFINE new == RedeemFresh(k, u, t, a)
           tokens == RedeemTokens(k, t, a)
           amount == RedeemAmount(k, tokens)
<1>0. k \in Market /\ k.accountTokens[u] \in Nat
  BY DEF MarketInv, Market
<1>1. tokens \in Nat
  <2>1. CASE t > 0
    BY <2>1 DEF RedeemTokens
  <2>2. CASE ~ (t > 0)
    <3>1. ExchangeRateStored(k) \in Nat \ {0}
      BY <2>2, ExchangeRate DEF CanRedeem
    <3>2. DivExp(a, ExchangeRateStored(k)) \in Nat
      BY <3>1, DivExpNat
    <3> QED
      BY <2>2, <3>2 DEF RedeemTokens, TokensForUnderlying
  <2> QED
    BY <2>1, <2>2
<1> HIDE DEF tokens
<1>2. tokens <= k.accountTokens[u] /\ tokens <= k.totalSupply /\ k.cash - k.totalReserves >= amount
  BY DEF CanRedeem, tokens
<1>3. amount \in Nat /\ amount <= NetUnderlying(k)
  BY <1>1, <1>2, ValueBacked
<1> HIDE DEF amount
<1>4. /\ [k.accountTokens EXCEPT ![u] = k.accountTokens[u] - tokens] \in [Users -> Nat]
      /\ Total([k.accountTokens EXCEPT ![u] = k.accountTokens[u] - tokens], NumUsers)
           = k.totalSupply - k.accountTokens[u] + (k.accountTokens[u] - tokens)
  <2>1. k.accountTokens[u] - tokens \in Nat
    BY <1>0, <1>1, <1>2
  <2> QED
    BY <2>1, SupplyMoves
<1>5. k.cash - amount \in Nat /\ k.totalSupply - tokens \in Nat
  BY <1>0, <1>1, <1>2, <1>3 DEF Market
<1>6. new = [k EXCEPT !.totalSupply = k.totalSupply - tokens,
                      !.accountTokens = [k.accountTokens EXCEPT ![u] = k.accountTokens[u] - tokens],
                      !.cash = k.cash - amount]
  BY <1>0, Zenon DEF RedeemFresh, tokens, amount, Market
<1>7. new \in Market
  BY <1>0, <1>4, <1>5, <1>6, ZenonT(60) DEF Market
<1>8. /\ new.principal = k.principal /\ new.interestIndex = k.interestIndex
      /\ new.totalSupply = k.totalSupply - tokens
      /\ new.accountTokens = [k.accountTokens EXCEPT ![u] = k.accountTokens[u] - tokens]
      /\ new.accrualBlockNumber = k.accrualBlockNumber
      /\ NetUnderlying(new) = NetUnderlying(k) - amount /\ NetUnderlying(k) \in Int
  BY <1>0, <1>3, <1>6 DEF Market, NetUnderlying
<1>9. new.totalSupply = Total(new.accountTokens, NumUsers)
  BY <1>0, <1>1, <1>4, <1>8 DEF Market
<1> HIDE DEF new
<1> QED
  BY <1>3, <1>7, <1>8, <1>9 DEF MarketInv, Preserves, new

LEMMA TransferInv ==
    ASSUME NEW k, MarketInv(k), NEW u \in Users, NEW v \in Users, NEW t \in Nat, CanTransfer(k, u, v, t)
    PROVE  Preserves(k, TransferTokens(k, u, v, t))
<1> DEFINE mid  == [k.accountTokens EXCEPT ![u] = k.accountTokens[u] - t]
           last == [mid EXCEPT ![v] = k.accountTokens[v] + t]
           new  == TransferTokens(k, u, v, t)
<1>0. /\ k \in Market /\ k.accountTokens \in [Users -> Nat] /\ k.totalSupply \in Nat
      /\ u # v /\ t <= k.accountTokens[u]
  BY DEF MarketInv, Market, CanTransfer
<1>1. /\ mid \in [Users -> Nat] /\ mid[v] = k.accountTokens[v]
      /\ Total(mid, NumUsers) = k.totalSupply - k.accountTokens[u] + (k.accountTokens[u] - t)
  <2>1. k.accountTokens[u] - t \in Nat
    BY <1>0
  <2> QED
    BY <1>0, <2>1, SupplyMoves
<1> HIDE DEF mid
<1>2. /\ last \in [Users -> Nat]
      /\ Total(last, NumUsers) = Total(mid, NumUsers) - mid[v] + (k.accountTokens[v] + t)
  <2> DEFINE x == k.accountTokens[v] + t
  <2>1. mid \in [1..NumUsers -> Int] /\ v \in 1..NumUsers /\ x \in Nat /\ x \in Int
    BY <1>0, <1>1, SMTT(40) DEF Users
  <2>2. last \in [Users -> Nat]
    BY <1>1, <2>1
  <2> HIDE DEF x
  <2>3. Total([mid EXCEPT ![v] = x], NumUsers) = Total(mid, NumUsers) - mid[v] + x
    BY <2>1, VTokenOpsAssumption, TotalUpdate, Zenon
  <2> QED
    BY <2>2, <2>3 DEF x
<1>3. Total(last, NumUsers) = k.totalSupply
  BY <1>0, <1>1, <1>2
<1>4. new = [k EXCEPT !.accountTokens = last]
  BY <1>0, Zenon DEF TransferTokens, last, mid, Market
<1> HIDE DEF last
<1>5. new \in Market
  BY <1>0, <1>2, <1>4, Zenon DEF Market
<1>6. /\ new.principal = k.principal /\ new.interestIndex = k.interestIndex
      /\ new.totalSupply = k.totalSupply /\ new.accountTokens = last
      /\ new.accrualBlockNumber = k.accrualBlockNumber
      /\ NetUnderlying(new) = NetUnderlying(k)
  BY <1>0, <1>4 DEF Market, NetUnderlying
<1> HIDE DEF new
<1> QED
  BY <1>3, <1>5, <1>6 DEF MarketInv, Preserves, new

(* What a handler that writes the loan of one account must show. *)
LEMMA PreservesIfLoanSet ==
    ASSUME NEW k, MarketInv(k), NEW u \in Users, NEW x \in Nat, NEW new \in Market,
           new.principal = [k.principal EXCEPT ![u] = x],
           new.interestIndex = [k.interestIndex EXCEPT ![u] = k.borrowIndex],
           new.accountTokens = k.accountTokens, new.totalSupply = k.totalSupply,
           NetUnderlying(new) >= NetUnderlying(k)
    PROVE  MarketInv(new)
<1>1. NetUnderlying(new) \in Int /\ NetUnderlying(k) \in Int
  BY DEF MarketInv, Market, NetUnderlying
<1>2. \A w \in Users : new.principal[w] # 0 => new.interestIndex[w] # 0
  <2>1. /\ k.principal \in [Users -> Nat] /\ k.interestIndex \in [Users -> Nat] /\ k.borrowIndex # 0
        /\ \A w \in Users : k.principal[w] # 0 => k.interestIndex[w] # 0
    BY DEF MarketInv, Market
  <2> QED
    BY <2>1
<1> QED
  BY <1>1, <1>2 DEF MarketInv

\* recording a loan keeps the market typed
LEMMA SetBorrowTyped ==
    ASSUME NEW k \in Market, NEW u \in Users, NEW x \in Nat
    PROVE  SetBorrow(k, u, x) \in Market
<1>1. /\ [k.principal EXCEPT ![u] = x] \in [Users -> Nat]
      /\ [k.interestIndex EXCEPT ![u] = k.borrowIndex] \in [Users -> Nat]
  BY DEF Market
<1>2. SetBorrow(k, u, x) = [k EXCEPT !.principal = [k.principal EXCEPT ![u] = x],
                                     !.interestIndex = [k.interestIndex EXCEPT ![u] = k.borrowIndex]]
  BY Zenon DEF SetBorrow, Market
<1> QED
  BY <1>1, <1>2, ZenonT(60) DEF Market

LEMMA BorrowInv ==
    ASSUME NEW k, MarketInv(k), NEW u \in Users, NEW a \in Nat, CanBorrow(k, a)
    PROVE  Preserves(k, BorrowFresh(k, u, a))
<1> DEFINE owed == BorrowBalanceStored(k, u)
           new  == BorrowFresh(k, u, a)
<1>0. k \in Market /\ owed \in Nat
  BY BorrowBalance DEF MarketInv
<1> HIDE DEF owed
<1>1. k.totalBorrows + a \in Nat /\ k.cash - a \in Nat /\ owed + a \in Nat
  BY <1>0 DEF CanBorrow, Market
<1>2. new = [k EXCEPT !.principal = [k.principal EXCEPT ![u] = owed + a],
                      !.interestIndex = [k.interestIndex EXCEPT ![u] = k.borrowIndex],
                      !.totalBorrows = k.totalBorrows + a, !.cash = k.cash - a]
  BY <1>0, Zenon DEF BorrowFresh, SetBorrow, owed, Market
<1>3. /\ [k.principal EXCEPT ![u] = owed + a] \in [Users -> Nat]
      /\ [k.interestIndex EXCEPT ![u] = k.borrowIndex] \in [Users -> Nat]
  BY <1>0, <1>1 DEF Market
<1>4. new \in Market
  <2> DEFINE loan == SetBorrow(k, u, owed + a)
  <2>1. loan \in Market
    BY <1>0, <1>1, SetBorrowTyped
  <2>2. new = [loan EXCEPT !.totalBorrows = k.totalBorrows + a, !.cash = k.cash - a]
    BY <1>0, <1>1, Zenon DEF BorrowFresh, SetBorrow, owed, Market
  <2> HIDE DEF loan
  <2> QED
    BY <1>0, <1>1, <2>1, <2>2, ZenonT(60) DEF Market
<1>5. /\ new.principal = [k.principal EXCEPT ![u] = owed + a]
      /\ new.interestIndex = [k.interestIndex EXCEPT ![u] = k.borrowIndex]
      /\ new.totalSupply = k.totalSupply /\ new.accountTokens = k.accountTokens
      /\ new.accrualBlockNumber = k.accrualBlockNumber
      /\ NetUnderlying(new) = NetUnderlying(k) /\ NetUnderlying(k) \in Int
  BY <1>0, <1>2 DEF Market, NetUnderlying
<1> HIDE DEF new
<1> QED
  BY <1>1, <1>4, <1>5, PreservesIfLoanSet DEF Preserves, new

LEMMA RepayInv ==
    ASSUME NEW k, MarketInv(k), NEW u \in Users, NEW a \in Nat, CanRepay(k, u, a)
    PROVE  Preserves(k, RepayBorrowFresh(k, u, a))
<1> DEFINE owed   == BorrowBalanceStored(k, u)
           repaid == RepayFinal(k, u, a)
           left   == owed - repaid
           new    == RepayBorrowFresh(k, u, a)
<1>0. k \in Market /\ owed \in Nat
  BY BorrowBalance DEF MarketInv
<1>1. repaid \in Nat /\ repaid <= owed /\ repaid <= k.totalBorrows
  BY <1>0 DEF RepayFinal, CanRepay
<1> HIDE DEF owed, repaid
<1>2. k.totalBorrows - repaid \in Nat /\ k.cash + repaid \in Nat /\ left \in Nat
  BY <1>0, <1>1 DEF Market
<1>3. new = [k EXCEPT !.principal = [k.principal EXCEPT ![u] = left],
                      !.interestIndex = [k.interestIndex EXCEPT ![u] = k.borrowIndex],
                      !.totalBorrows = k.totalBorrows - repaid, !.cash = k.cash + repaid]
  BY <1>0, Zenon DEF RepayBorrowFresh, SetBorrow, owed, repaid, Market
<1>4. /\ [k.principal EXCEPT ![u] = left] \in [Users -> Nat]
      /\ [k.interestIndex EXCEPT ![u] = k.borrowIndex] \in [Users -> Nat]
  BY <1>0, <1>2 DEF Market
<1>5. new \in Market
  <2> DEFINE loan == SetBorrow(k, u, left)
  <2>1. loan \in Market
    BY <1>0, <1>2, SetBorrowTyped
  <2>2. new = [loan EXCEPT !.totalBorrows = k.totalBorrows - repaid, !.cash = k.cash + repaid]
    BY <1>0, <1>2, Zenon DEF RepayBorrowFresh, SetBorrow, owed, repaid, Market
  <2> HIDE DEF loan
  <2> QED
    BY <1>0, <1>2, <2>1, <2>2, ZenonT(60) DEF Market
<1>6. /\ new.principal = [k.principal EXCEPT ![u] = left]
      /\ new.interestIndex = [k.interestIndex EXCEPT ![u] = k.borrowIndex]
      /\ new.totalSupply = k.totalSupply /\ new.accountTokens = k.accountTokens
      /\ new.accrualBlockNumber = k.accrualBlockNumber
      /\ NetUnderlying(new) = NetUnderlying(k) /\ NetUnderlying(k) \in Int
  BY <1>0, <1>1, <1>3 DEF Market, NetUnderlying
<1> HIDE DEF new, left
<1> QED
  BY <1>2, <1>5, <1>6, PreservesIfLoanSet DEF Preserves, new

LEMMA HealInv ==
    ASSUME NEW k, MarketInv(k), NEW u \in Users, NEW a \in Nat, CanHealBorrow(k, u, a)
    PROVE  Preserves(k, HealBorrow(k, u, a))
<1> DEFINE owed == BorrowBalanceStored(k, u)
           new  == HealBorrow(k, u, a)
<1>0. k \in Market /\ owed \in Nat
  BY BorrowBalance DEF MarketInv
<1>1. a <= owed /\ owed <= k.totalBorrows
  BY DEF CanHealBorrow
<1> HIDE DEF owed
<1>2. /\ k.totalBorrows - owed \in Nat /\ k.cash + a \in Nat
      /\ k.badDebt + (owed - a) \in Nat
  BY <1>0, <1>1 DEF Market
<1>3. new = [k EXCEPT !.principal = [k.principal EXCEPT ![u] = 0],
                      !.interestIndex = [k.interestIndex EXCEPT ![u] = k.borrowIndex],
                      !.totalBorrows = k.totalBorrows - owed,
                      !.badDebt = k.badDebt + (owed - a), !.cash = k.cash + a]
  BY <1>0, Zenon DEF HealBorrow, SetBorrow, owed, Market
<1>4. /\ [k.principal EXCEPT ![u] = 0] \in [Users -> Nat]
      /\ [k.interestIndex EXCEPT ![u] = k.borrowIndex] \in [Users -> Nat]
  BY <1>0 DEF Market
<1>5. new \in Market
  <2> DEFINE loan == SetBorrow(k, u, 0)
  <2>1. loan \in Market
    BY <1>0, <1>2, SetBorrowTyped
  <2>2. new = [loan EXCEPT !.totalBorrows = k.totalBorrows - owed,
                         !.badDebt = k.badDebt + (owed - a), !.cash = k.cash + a]
    BY <1>0, <1>2, Zenon DEF HealBorrow, SetBorrow, owed, Market
  <2> HIDE DEF loan
  <2> QED
    BY <1>0, <1>2, <2>1, <2>2, ZenonT(60) DEF Market
<1>6. /\ new.principal = [k.principal EXCEPT ![u] = 0]
      /\ new.interestIndex = [k.interestIndex EXCEPT ![u] = k.borrowIndex]
      /\ new.totalSupply = k.totalSupply /\ new.accountTokens = k.accountTokens
      /\ new.accrualBlockNumber = k.accrualBlockNumber
      /\ NetUnderlying(new) = NetUnderlying(k) /\ NetUnderlying(k) \in Int
  BY <1>0, <1>3 DEF Market, NetUnderlying
<1> HIDE DEF new
<1> QED
  BY <1>5, <1>6, PreservesIfLoanSet DEF Preserves, new

LEMMA SeizeInv ==
    ASSUME NEW k, MarketInv(k), NEW u \in Users, NEW v \in Users, NEW t \in Nat,
           NEW incentive \in Nat \ {0}, CanSeize(k, v, u, t, incentive)
    PROVE  Preserves(k, Seize(k, v, u, t, incentive))
<1> DEFINE burnt  == ProtocolSeizeTokens(k, t, incentive)
           amount == ProtocolSeizeAmount(k, t, incentive)
           mid    == [k.accountTokens EXCEPT ![u] = k.accountTokens[u] - burnt]
           new    == Seize(k, v, u, t, incentive)
           \* the burning and the payout, before the rest is transferred
           half   == [k EXCEPT !.accountTokens = mid, !.totalSupply = k.totalSupply - burnt,
                               !.cash = k.cash - amount, !.income = k.income + amount]
<1>0. /\ k \in Market /\ k.accountTokens \in [Users -> Nat] /\ k.totalSupply \in Nat
      /\ k.protocolSeizeShare \in Nat
      /\ u # v /\ t <= k.accountTokens[u] /\ burnt <= t /\ burnt <= k.totalSupply /\ amount <= k.cash
  BY DEF MarketInv, Market, CanSeize
<1>1. burnt \in Nat
  BY <1>0, TruncatedNat, DivExpNat DEF ProtocolSeizeTokens
<1>2. amount \in Nat /\ amount <= NetUnderlying(k)
  BY <1>0, <1>1, ValueBacked DEF ProtocolSeizeAmount, RedeemAmount
<1> HIDE DEF burnt, amount
<1>3. /\ mid \in [Users -> Nat] /\ mid[u] = k.accountTokens[u] - burnt
      /\ Total(mid, NumUsers) = k.totalSupply - k.accountTokens[u] + (k.accountTokens[u] - burnt)
  <2>1. k.accountTokens[u] - burnt \in Nat
    BY <1>0, <1>1
  <2> QED
    BY <1>0, <2>1, SupplyMoves
<1>4. k.totalSupply - burnt \in Nat /\ k.cash - amount \in Nat /\ k.income + amount \in Nat
  BY <1>0, <1>1, <1>2 DEF Market
<1> HIDE DEF mid
<1>5. half \in Market
  BY <1>0, <1>3, <1>4, Zenon DEF Market
<1>6. /\ half.principal = k.principal /\ half.interestIndex = k.interestIndex
      /\ half.totalSupply = k.totalSupply - burnt /\ half.accountTokens = mid
      /\ half.accrualBlockNumber = k.accrualBlockNumber
      /\ NetUnderlying(half) = NetUnderlying(k) - amount /\ NetUnderlying(k) \in Int
  BY <1>0, <1>2 DEF Market, NetUnderlying
<1>7. MarketInv(half)
  BY <1>0, <1>1, <1>2, <1>3, <1>5, <1>6 DEF MarketInv
<1>8. t - burnt \in Nat /\ CanTransfer(half, u, v, t - burnt)
  BY <1>0, <1>1, <1>3, <1>6 DEF CanTransfer
<1>9. new = TransferTokens(half, u, v, t - burnt)
  BY <1>0, Zenon DEF Seize, TransferTokens, burnt, amount, mid, Market
<1> HIDE DEF half
<1>10. Preserves(half, TransferTokens(half, u, v, t - burnt))
  BY <1>7, <1>8, TransferInv
<1> QED
  BY <1>6, <1>9, <1>10 DEF Preserves

-----------------------------------------------------------------------------
(* The exchange rate and the loans after a handler *)

RateHeld(k, new) ==
    k.totalSupply > 0 /\ new.totalSupply > 0 => ExchangeRateStored(k) <= ExchangeRateStored(new)

LoansKept(k, new) ==
    /\ new.principal = k.principal /\ new.interestIndex = k.interestIndex
    /\ new.borrowIndex = k.borrowIndex

LEMMA MarketFields ==
    ASSUME NEW k, MarketInv(k)
    PROVE  /\ k.cash \in Nat /\ k.income \in Nat /\ k.badDebt \in Nat /\ k.totalSupply \in Nat
           /\ k.totalBorrows \in Nat /\ k.totalReserves \in Nat /\ k.borrowIndex \in Nat \ {0}
           /\ NetUnderlying(k) \in Nat /\ ExchangeRateStored(k) \in Nat
           /\ \A u \in Users : /\ BorrowBalanceStored(k, u) \in Nat
                               /\ k.principal[u] \in Nat /\ k.interestIndex[u] \in Nat
<1>1. \A u \in Users : BorrowBalanceStored(k, u) \in Nat
  BY BorrowBalance
<1>2. ExchangeRateStored(k) \in Nat
  BY ExchangeRate
<1>3. NetUnderlying(k) \in Nat
  BY DEF MarketInv, Market, NetUnderlying
<1> QED BY <1>1, <1>2, <1>3 DEF MarketInv, Market

\* The rate does not fall if the vTokens after the call, at the rate before it, are backed.
LEMMA RateHeldIfBacked ==
    ASSUME NEW k, MarketInv(k), NEW new, MarketInv(new),
           k.totalSupply > 0 => ExchangeRateStored(k) * new.totalSupply <= NetUnderlying(new) * EXP_SCALE
    PROVE  RateHeld(k, new)
<1> SUFFICES ASSUME k.totalSupply > 0, new.totalSupply > 0
             PROVE  ExchangeRateStored(k) <= ExchangeRateStored(new)
  BY DEF RateHeld
<1> DEFINE r == ExchangeRateStored(k)
           n == NetUnderlying(new) * EXP_SCALE
           t == new.totalSupply
<1>1. r \in Nat /\ n \in Nat /\ t \in Nat \ {0} /\ r * t <= n
  BY MarketFields, ExpScaleAssumption, Product
<1>2. ExchangeRateStored(new) = n \div t
  BY DEF ExchangeRateStored
<1> HIDE DEF r, n, t
<1>3. r <= n \div t
  BY <1>1, QuotientAtLeast
<1> QED BY <1>2, <1>3 DEF r

LEMMA RateHeldIfSupplyKept ==
    ASSUME NEW k, MarketInv(k), NEW new, MarketInv(new),
           new.totalSupply = k.totalSupply, NetUnderlying(k) <= NetUnderlying(new)
    PROVE  RateHeld(k, new)
<1> DEFINE r == ExchangeRateStored(k)
           n == NetUnderlying(k)
           m == NetUnderlying(new)
           t == k.totalSupply
<1>1. r \in Nat /\ n \in Nat /\ m \in Nat /\ t \in Nat /\ n <= m /\ r * t <= n * EXP_SCALE
  BY MarketFields, ExchangeRate
<1> HIDE DEF r, n, m, t
<1>2. n * EXP_SCALE \in Nat /\ m * EXP_SCALE \in Nat /\ n * EXP_SCALE <= m * EXP_SCALE
  BY <1>1, ExpScaleAssumption, SMT
<1>3. r * t <= m * EXP_SCALE
  BY <1>1, <1>2, Product
<1> QED BY <1>3, RateHeldIfBacked DEF r, m, t

\* What is owed once one loan has been written anew at the current index.
LEMMA LoanSet ==
    ASSUME NEW k, MarketInv(k), NEW u \in Users, NEW x \in Nat, NEW new,
           new.principal = [k.principal EXCEPT ![u] = x],
           new.interestIndex = [k.interestIndex EXCEPT ![u] = k.borrowIndex],
           new.borrowIndex = k.borrowIndex
    PROVE  /\ BorrowBalanceStored(new, u) = x
           /\ \A w \in Users \ {u} : BorrowBalanceStored(new, w) = BorrowBalanceStored(k, w)
<1>1. k.borrowIndex \in Nat \ {0} /\ k.principal \in [Users -> Nat] /\ k.interestIndex \in [Users -> Nat]
  BY DEF MarketInv, Market
<1>2. new.principal[u] = x /\ new.interestIndex[u] = k.borrowIndex
  BY <1>1
<1>3. (x * k.borrowIndex) \div k.borrowIndex = x
  BY <1>1, SMT
<1>4. BorrowBalanceStored(new, u) = x
  BY <1>2, <1>3 DEF BorrowBalanceStored
<1>5. \A w \in Users \ {u} : new.principal[w] = k.principal[w] /\ new.interestIndex[w] = k.interestIndex[w]
  BY <1>1
<1> QED BY <1>4, <1>5 DEF BorrowBalanceStored

\* Burning tokens for their value at the rate: what is left is backed at that rate.
LEMMA BackedAfterBurn ==
    ASSUME NEW k, MarketInv(k), NEW tokens \in Nat, tokens <= k.totalSupply
    PROVE  ExchangeRateStored(k) * (k.totalSupply - tokens)
             <= (NetUnderlying(k) - RedeemAmount(k, tokens)) * EXP_SCALE
<1> DEFINE r == ExchangeRateStored(k)
           n == NetUnderlying(k)
           t == k.totalSupply
           a == RedeemAmount(k, tokens)
<1>1. r \in Nat /\ n \in Nat /\ t \in Nat /\ r * t <= n * EXP_SCALE
  BY MarketFields, ExchangeRate
<1>2. a = (r * tokens) \div EXP_SCALE
  BY DEF RedeemAmount, MulScalarTruncate
<1> HIDE DEF r, n, t, a
<1>3. a \in Nat /\ a * EXP_SCALE <= r * tokens
  <2>1. r * tokens \in Nat
    BY <1>1, Product
  <2> QED BY <1>2, <2>1, ExpScaleAssumption, Quotient
<1>4. r * (t - tokens) = r * t - r * tokens /\ (n - a) * EXP_SCALE = n * EXP_SCALE - a * EXP_SCALE
  BY <1>1, <1>3, ExpScaleAssumption, SMT
<1>5. r * t \in Nat /\ r * tokens \in Nat /\ n * EXP_SCALE \in Nat /\ a * EXP_SCALE \in Nat
  BY <1>1, <1>3, ExpScaleAssumption, Product
<1>6. r * (t - tokens) <= (n - a) * EXP_SCALE
  BY <1>1, <1>3, <1>4, <1>5
<1> QED BY <1>6 DEF r, n, t, a

\* A redemption pays at most what the burnt vTokens are worth.
LEMMA RedeemRate ==
    ASSUME NEW k, MarketInv(k), NEW u \in Users, NEW t \in Nat, NEW a \in Nat, CanRedeem(k, u, t, a)
    PROVE  /\ RateHeld(k, RedeemFresh(k, u, t, a)) /\ LoansKept(k, RedeemFresh(k, u, t, a))
           /\ RedeemAmount(k, RedeemTokens(k, t, a)) \in Nat
           /\ RedeemFresh(k, u, t, a).cash = k.cash - RedeemAmount(k, RedeemTokens(k, t, a))
           /\ RedeemFresh(k, u, t, a).income = k.income
           /\ RedeemFresh(k, u, t, a).badDebt = k.badDebt
           /\ RedeemFresh(k, u, t, a).totalReserves = k.totalReserves
<1> DEFINE new == RedeemFresh(k, u, t, a)
           tokens == RedeemTokens(k, t, a)
           amount == RedeemAmount(k, tokens)
<1>0. k \in Market
  BY DEF MarketInv
<1>1. MarketInv(new)
  BY RedeemInv DEF Preserves
<1>2. tokens \in Nat /\ tokens <= k.totalSupply
  <2>1. CASE t > 0
    BY <2>1 DEF RedeemTokens, CanRedeem
  <2>2. CASE ~ (t > 0)
    <3>1. DivExp(a, ExchangeRateStored(k)) \in Nat
      BY <2>2, MarketFields, DivExpNat DEF CanRedeem
    <3> QED BY <2>2, <3>1 DEF RedeemTokens, TokensForUnderlying, CanRedeem
  <2> QED BY <2>1, <2>2
<1> HIDE DEF tokens
<1>3. amount \in Nat
  BY <1>2, ValueBacked
<1>4. ExchangeRateStored(k) * (k.totalSupply - tokens) <= (NetUnderlying(k) - amount) * EXP_SCALE
  BY <1>2, BackedAfterBurn
<1> HIDE DEF amount
<1>5. /\ new.cash = k.cash - amount /\ new.income = k.income /\ new.totalReserves = k.totalReserves
      /\ new.totalSupply = k.totalSupply - tokens /\ LoansKept(k, new) /\ new.badDebt = k.badDebt
      /\ NetUnderlying(new) = NetUnderlying(k) - amount
  BY <1>0, <1>3 DEF RedeemFresh, tokens, amount, Market, LoansKept, NetUnderlying
<1> HIDE DEF new
<1>6. RateHeld(k, new)
  BY <1>1, <1>4, <1>5, RateHeldIfBacked
<1> QED BY <1>3, <1>5, <1>6 DEF new, amount, tokens

-----------------------------------------------------------------------------
(* One market *)

\* The inductive invariant: TypeOK alone is not preserved, because a loan without
\* an index would make its balance a division by zero, and because seize and
\* redeem stay within cash and supply only if these match what they stand for.
VTokenIInv ==
    /\ MarketInv(market)
    /\ blockNumber \in Nat
    /\ market.accrualBlockNumber <= blockNumber

LEMMA VTokenInitIInv == VTokenInit => VTokenIInv
<1> SUFFICES ASSUME VTokenInit PROVE VTokenIInv
  OBVIOUS
<1> DEFINE k == InitializedMarket(InitialMarket)
<1>1. /\ InitialMarket.reserveFactor \in 0..EXP_SCALE /\ InitialMarket.protocolSeizeShare \in Nat
      /\ InitialMarket.reduceReservesBlockDelta \in Nat \ {0}
  BY VTokenAssumption
<1>2. [u \in Users |-> 0] \in [Users -> Nat]
  OBVIOUS
<1>3. k \in Market
  BY <1>1, <1>2, ExpScaleAssumption DEF InitializedMarket, Market
<1>4. /\ k.principal = [u \in Users |-> 0] /\ k.accountTokens = [u \in Users |-> 0]
      /\ k.totalSupply = 0 /\ k.accrualBlockNumber = 0 /\ NetUnderlying(k) = 0
  BY DEF InitializedMarket, NetUnderlying
<1>5. k.totalSupply = Total(k.accountTokens, NumUsers)
  BY <1>4, VTokenOpsAssumption, TotalZero DEF Users
<1> HIDE DEF k
<1>6. MarketInv(k)
  BY <1>3, <1>4, <1>5 DEF MarketInv
<1> QED
  BY <1>4, <1>6 DEF VTokenInit, VTokenIInv, k

(* accrueInterest, which opens most calls, keeps the invariant. *)
LEMMA AccruedIInv ==
    ASSUME VTokenIInv, CanAccrue(market, blockNumber)
    PROVE  MarketInv(accrued) /\ accrued.accrualBlockNumber = blockNumber
BY AccrueInterestInv DEF VTokenIInv, accrued

LEMMA AccountCallIInv ==
    ASSUME VTokenIInv, VTokenAccountCall
    PROVE  VTokenIInv'
<1>1. ASSUME VTokenAccrue PROVE VTokenIInv'
  BY <1>1, AccruedIInv DEF VTokenAccrue, VTokenIInv
<1>2. ASSUME NEW u \in Users, NEW a \in Amounts, VTokenMint(u, a) PROVE VTokenIInv'
  <2>1. MarketInv(accrued) /\ accrued.accrualBlockNumber = blockNumber /\ CanMint(accrued) /\ a \in Nat
    BY <1>2, AccruedIInv, VTokenAssumption DEF VTokenMint
  <2>2. Preserves(accrued, MintFresh(accrued, u, a))
    BY <2>1, MintInv
  <2> QED
    BY <1>2, <2>1, <2>2 DEF VTokenMint, VTokenIInv, Preserves
<1>3. ASSUME NEW u \in Users, NEW t \in Nat, NEW a \in Nat, VTokenRedeem(u, t, a) PROVE VTokenIInv'
  <2>1. MarketInv(accrued) /\ accrued.accrualBlockNumber = blockNumber /\ CanRedeem(accrued, u, t, a)
    BY <1>3, AccruedIInv DEF VTokenRedeem
  <2>2. Preserves(accrued, RedeemFresh(accrued, u, t, a))
    BY <2>1, RedeemInv
  <2> QED
    BY <1>3, <2>1, <2>2 DEF VTokenRedeem, VTokenIInv, Preserves
<1>4. ASSUME NEW u \in Users, NEW a \in Amounts, VTokenBorrow(u, a) PROVE VTokenIInv'
  <2>1. MarketInv(accrued) /\ accrued.accrualBlockNumber = blockNumber /\ CanBorrow(accrued, a) /\ a \in Nat
    BY <1>4, AccruedIInv, VTokenAssumption DEF VTokenBorrow
  <2>2. Preserves(accrued, BorrowFresh(accrued, u, a))
    BY <2>1, BorrowInv
  <2> QED
    BY <1>4, <2>1, <2>2 DEF VTokenBorrow, VTokenIInv, Preserves
<1>5. ASSUME NEW u \in Users, NEW a \in Amounts, VTokenRepayBorrow(u, a) PROVE VTokenIInv'
  <2>1. MarketInv(accrued) /\ accrued.accrualBlockNumber = blockNumber /\ CanRepay(accrued, u, a) /\ a \in Nat
    BY <1>5, AccruedIInv, VTokenAssumption DEF VTokenRepayBorrow
  <2>2. Preserves(accrued, RepayBorrowFresh(accrued, u, a))
    BY <2>1, RepayInv
  <2> QED
    BY <1>5, <2>1, <2>2 DEF VTokenRepayBorrow, VTokenIInv, Preserves
<1>6. ASSUME NEW u \in Users, NEW v \in Users, NEW t \in VTokenAmounts, VTokenTransfer(u, v, t) PROVE VTokenIInv'
  <2>1. Preserves(market, TransferTokens(market, u, v, t))
    BY <1>6, TransferInv, VTokenAssumption DEF VTokenTransfer, VTokenIInv
  <2> QED
    BY <1>6, <2>1 DEF VTokenTransfer, VTokenIInv, Preserves
<1>7. ASSUME NEW v \in Users, NEW u \in Users, NEW a \in Amounts, NEW t \in VTokenAmounts,
             NEW i \in Incentives, LiquidateInKind(v, u, a, t, i)
      PROVE VTokenIInv'
  <2> DEFINE repaid == RepayBorrowFresh(accrued, u, a)
  <2>1. /\ MarketInv(accrued) /\ accrued.accrualBlockNumber = blockNumber /\ CanRepay(accrued, u, a)
        /\ a \in Nat /\ t \in Nat /\ i \in Nat \ {0} /\ CanSeize(repaid, v, u, t, i)
        /\ market' = Seize(repaid, v, u, t, i) /\ blockNumber' = blockNumber
    BY <1>7, AccruedIInv, VTokenAssumption DEF LiquidateInKind
  <2>2. Preserves(accrued, repaid)
    BY <2>1, RepayInv
  <2> HIDE DEF repaid
  <2>3. Preserves(repaid, Seize(repaid, v, u, t, i))
    BY <2>1, <2>2, SeizeInv DEF Preserves
  <2> QED
    BY <2>1, <2>2, <2>3 DEF VTokenIInv, Preserves
<1>8. ASSUME NEW a \in Amounts, AddReserves(a) PROVE VTokenIInv'
  <2>1. MarketInv(accrued) /\ accrued.accrualBlockNumber = blockNumber /\ a \in Nat
    BY <1>8, AccruedIInv, VTokenAssumption DEF AddReserves
  <2>2. Preserves(accrued, AddReservesFresh(accrued, a))
    BY <2>1, AddReservesInv
  <2> QED
    BY <1>8, <2>1, <2>2 DEF AddReserves, VTokenIInv, Preserves
<1>9. ASSUME NEW a \in Amounts, ReduceReserves(a) PROVE VTokenIInv'
  <2>1. MarketInv(accrued) /\ accrued.accrualBlockNumber = blockNumber /\ a \in Nat
    BY <1>9, AccruedIInv, VTokenAssumption DEF ReduceReserves
  <2>2. CanReduceReserves(accrued, a) => Preserves(accrued, ReduceReservesFresh(accrued, a))
    BY <2>1, ReduceReservesInv
  <2> QED
    BY <1>9, <2>1, <2>2 DEF ReduceReserves, VTokenIInv, Preserves
<1>10. ASSUME NEW a \in Amounts, Donate(a) PROVE VTokenIInv'
  <2> DEFINE new == [market EXCEPT !.cash = @ + a]
  <2>0. market \in Market /\ a \in Nat
    BY VTokenAssumption DEF VTokenIInv, MarketInv
  <2>1. market.cash + a \in Nat
    BY <2>0 DEF Market
  <2>2. new \in Market
    BY <2>0, <2>1, Zenon DEF Market
  <2>3. /\ new.principal = market.principal /\ new.interestIndex = market.interestIndex
        /\ new.totalSupply = market.totalSupply /\ new.accountTokens = market.accountTokens
        /\ new.accrualBlockNumber = market.accrualBlockNumber
        /\ NetUnderlying(new) >= NetUnderlying(market)
    BY <2>0 DEF Market, NetUnderlying
  <2> HIDE DEF new
  <2>4. MarketInv(new)
    BY <2>2, <2>3, PreservesIfAccountsKept DEF VTokenIInv
  <2> QED
    BY <1>10, <2>3, <2>4 DEF Donate, VTokenIInv, new
<1>11. ASSUME NEW u \in Users, NEW a \in Amounts, VTokenRedeem(u, 0, a) PROVE VTokenIInv'
  BY <1>3, <1>11, VTokenAssumption
<1>12. ASSUME NEW u \in Users, NEW t \in VTokenAmounts, VTokenRedeem(u, t, 0) PROVE VTokenIInv'
  BY <1>3, <1>12, VTokenAssumption
<1> QED
  BY <1>1, <1>2, <1>4, <1>5, <1>6, <1>7, <1>8, <1>9, <1>10, <1>11, <1>12 DEF VTokenAccountCall

LEMMA ProtocolCallIInv ==
    ASSUME VTokenIInv, ProtocolCall
    PROVE  VTokenIInv'
<1>1. ASSUME NEW u \in Users, NEW a \in Amounts, Heal(u, a) PROVE VTokenIInv'
  <2>1. Preserves(market, HealBorrow(market, u, a))
    BY <1>1, HealInv, VTokenAssumption DEF Heal, VTokenIInv
  <2> QED
    BY <1>1, <2>1 DEF Heal, VTokenIInv, Preserves
<1>2. ASSUME NEW v \in Users, NEW u \in Users, NEW t \in VTokenAmounts, NEW i \in Incentives,
             SeizeCollateral(v, u, t, i)
      PROVE VTokenIInv'
  <2>1. t \in Nat /\ i \in Nat \ {0}
    BY VTokenAssumption
  <2>2. Preserves(market, Seize(market, v, u, t, i))
    BY <1>2, <2>1, SeizeInv DEF SeizeCollateral, VTokenIInv
  <2> QED
    BY <1>2, <2>2 DEF SeizeCollateral, VTokenIInv, Preserves
<1>3. ASSUME NEW a \in Amounts, RecoverBadDebt(a) PROVE VTokenIInv'
  <2>1. Preserves(market, BadDebtRecovered(market, a))
    BY <1>3, BadDebtRecoveredInv, VTokenAssumption DEF RecoverBadDebt, VTokenIInv
  <2> QED
    BY <1>3, <2>1 DEF RecoverBadDebt, VTokenIInv, Preserves
<1>4. ASSUME NEW f \in ReserveFactors, SetReserveFactor(f) PROVE VTokenIInv'
  <2> DEFINE new == [accrued EXCEPT !.reserveFactor = f]
  <2>0. MarketInv(accrued) /\ accrued.accrualBlockNumber = blockNumber /\ f \in 0..EXP_SCALE
    BY <1>4, AccruedIInv, VTokenAssumption, ExpScaleAssumption DEF SetReserveFactor
  <2> HIDE DEF accrued
  <2>1. accrued \in Market
    BY <2>0 DEF MarketInv
  <2>2. new \in Market
    BY <2>0, <2>1, Zenon DEF Market
  <2>3. /\ new.principal = accrued.principal /\ new.interestIndex = accrued.interestIndex
        /\ new.totalSupply = accrued.totalSupply /\ new.accountTokens = accrued.accountTokens
        /\ new.accrualBlockNumber = accrued.accrualBlockNumber
        /\ NetUnderlying(new) = NetUnderlying(accrued) /\ NetUnderlying(accrued) \in Int
    BY <2>1 DEF Market, NetUnderlying
  <2> HIDE DEF new
  <2>4. MarketInv(new)
    BY <2>0, <2>2, <2>3, PreservesIfAccountsKept
  <2>5. market' = new /\ blockNumber' = blockNumber
    BY <1>4 DEF SetReserveFactor, new
  <2> QED
    BY <2>0, <2>3, <2>4, <2>5 DEF VTokenIInv
<1>5. ASSUME NEW s \in SeizeShares, NEW i \in Incentives, SetProtocolSeizeShare(s, i) PROVE VTokenIInv'
  <2> DEFINE new == [market EXCEPT !.protocolSeizeShare = s]
  <2>1. market \in Market /\ s \in Nat
    BY VTokenAssumption DEF VTokenIInv, MarketInv
  <2>2. new \in Market
    BY <2>1, Zenon DEF Market
  <2>3. /\ new.principal = market.principal /\ new.interestIndex = market.interestIndex
        /\ new.totalSupply = market.totalSupply /\ new.accountTokens = market.accountTokens
        /\ new.accrualBlockNumber = market.accrualBlockNumber
        /\ NetUnderlying(new) = NetUnderlying(market) /\ NetUnderlying(market) \in Int
    BY <2>1 DEF Market, NetUnderlying
  <2> HIDE DEF new
  <2>4. MarketInv(new)
    BY <2>2, <2>3, PreservesIfAccountsKept DEF VTokenIInv
  <2> QED
    BY <1>5, <2>3, <2>4 DEF SetProtocolSeizeShare, VTokenIInv, new
<1> QED
  BY <1>1, <1>2, <1>3, <1>4, <1>5 DEF ProtocolCall

LEMMA NextIInv == VTokenIInv /\ [VTokenNext]_vtokenVars => VTokenIInv'
<1> SUFFICES ASSUME VTokenIInv, [VTokenNext]_vtokenVars PROVE VTokenIInv'
  OBVIOUS
<1>1. CASE VTokenTick
  <2>1. market' = market /\ blockNumber' = blockNumber + 1 /\ market.accrualBlockNumber \in Nat
    BY <1>1 DEF VTokenTick, VTokenIInv, MarketInv, Market
  <2> QED
    BY <2>1 DEF VTokenIInv
<1>2. CASE VTokenAccountCall
  BY <1>2, AccountCallIInv
<1>3. CASE ProtocolCall
  BY <1>3, ProtocolCallIInv
<1>4. CASE UNCHANGED vtokenVars
  BY <1>4 DEF vtokenVars, VTokenIInv
<1> QED
  BY <1>1, <1>2, <1>3, <1>4 DEF VTokenNext

LEMMA VTokenSpecIInv == VTokenSpec => []VTokenIInv
BY VTokenInitIInv, NextIInv, PTL DEF VTokenSpec

-----------------------------------------------------------------------------

(* Every counter of the market stays an unsigned number through any sequence *)
(* of calls: no handler of VToken.sol subtracts more than there is.          *)
THEOREM TypeCorrect == VTokenSpec => []VTokenTypeOK
<1>1. VTokenIInv => VTokenTypeOK
  BY DEF VTokenIInv, MarketInv, VTokenTypeOK
<1> QED
  BY <1>1, VTokenSpecIInv, PTL

(* totalSupply is the sum of the balances, for any number of accounts.       *)
THEOREM SupplyCorrect == VTokenSpec => []SupplyIsSumOfBalances
<1>1. VTokenIInv => SupplyIsSumOfBalances
  BY DEF VTokenIInv, MarketInv, SupplyIsSumOfBalances
<1> QED
  BY <1>1, VTokenSpecIInv, PTL

(* Whatever the comptroller lets happen, reserves never exceed cash, loans   *)
(* and bad debt together, so _exchangeRateStored never reverts.              *)
THEOREM ReservesCorrect == VTokenSpec => []ReservesBacked
<1>1. VTokenIInv => ReservesBacked
  BY DEF VTokenIInv, MarketInv, ReservesBacked
<1> QED
  BY <1>1, VTokenSpecIInv, PTL

-----------------------------------------------------------------------------
(* What a call may do to the exchange rate, to debts and to the cash *)

Received(k, new) == (new.cash + new.income) - (k.cash + k.income)

DebtsHeld(k, new) ==
    \A u \in Users :
        LET forgiven == BorrowBalanceStored(k, u) - BorrowBalanceStored(new, u)
        IN  forgiven > 0 => Received(k, new) + (new.badDebt - k.badDebt) >= forgiven

ReservesHeld(k, new) == Received(k, new) < 0 => new.cash >= new.totalReserves

Fair(k, new) == RateHeld(k, new) /\ DebtsHeld(k, new) /\ ReservesHeld(k, new)

\* What accrueInterest does: it moves no underlying across the border of the protocol.
Accrues(k, new) ==
    /\ MarketInv(new)
    /\ new.totalSupply = k.totalSupply /\ new.badDebt = k.badDebt
    /\ Received(k, new) = 0
    /\ \A u \in Users : BorrowBalanceStored(k, u) <= BorrowBalanceStored(new, u)
    /\ RateHeld(k, new)

LEMMA DebtsHeldIfLoansKept ==
    ASSUME NEW k, MarketInv(k), NEW new, LoansKept(k, new)
    PROVE  DebtsHeld(k, new) /\ \A u \in Users : BorrowBalanceStored(new, u) = BorrowBalanceStored(k, u)
<1>1. \A u \in Users : BorrowBalanceStored(new, u) = BorrowBalanceStored(k, u)
  BY DEF LoansKept, BorrowBalanceStored
<1>2. \A u \in Users : BorrowBalanceStored(k, u) - BorrowBalanceStored(new, u) = 0
  BY <1>1, MarketFields
<1> QED BY <1>1, <1>2 DEF DebtsHeld

\* A call is fair if it is so after the accrual it starts with.
LEMMA FairAfterAccrual ==
    ASSUME NEW k, MarketInv(k), NEW mid, Accrues(k, mid), NEW new, MarketInv(new), Fair(mid, new)
    PROVE  Fair(k, new)
<1>1. MarketInv(mid)
  BY DEF Accrues
<1>2. /\ k.cash + k.income \in Nat /\ mid.cash + mid.income \in Nat /\ new.cash + new.income \in Nat
      /\ k.badDebt \in Nat /\ mid.badDebt \in Nat /\ new.badDebt \in Nat
  BY <1>1, MarketFields
<1>3. mid.cash + mid.income = k.cash + k.income
  BY <1>2 DEF Accrues, Received
<1>4. RateHeld(k, new)
  <2>1. /\ ExchangeRateStored(k) \in Nat /\ ExchangeRateStored(mid) \in Nat
        /\ ExchangeRateStored(new) \in Nat
    BY <1>1, MarketFields
  <2> QED BY <2>1 DEF Accrues, Fair, RateHeld
<1>5. Received(k, new) = Received(mid, new)
  BY <1>3 DEF Received
<1>6. DebtsHeld(k, new)
  <2> SUFFICES ASSUME NEW u \in Users, BorrowBalanceStored(k, u) - BorrowBalanceStored(new, u) > 0
               PROVE  Received(k, new) + (new.badDebt - k.badDebt)
                        >= BorrowBalanceStored(k, u) - BorrowBalanceStored(new, u)
    BY DEF DebtsHeld
  <2>1. /\ BorrowBalanceStored(k, u) \in Nat /\ BorrowBalanceStored(mid, u) \in Nat
        /\ BorrowBalanceStored(new, u) \in Nat
    BY <1>1, MarketFields
  <2>2. BorrowBalanceStored(k, u) <= BorrowBalanceStored(mid, u) /\ mid.badDebt = k.badDebt
    BY DEF Accrues
  <2>3. BorrowBalanceStored(mid, u) - BorrowBalanceStored(new, u) > 0
    BY <2>1, <2>2
  <2>4. Received(mid, new) + (new.badDebt - mid.badDebt)
          >= BorrowBalanceStored(mid, u) - BorrowBalanceStored(new, u)
    BY <2>3 DEF Fair, DebtsHeld
  <2>5. Received(mid, new) \in Int
    BY <1>2 DEF Received
  <2> QED BY <1>2, <1>5, <2>1, <2>2, <2>4, <2>5
<1> QED BY <1>4, <1>5, <1>6 DEF Fair, ReservesHeld

LEMMA ReservesHeldIfReceived ==
    ASSUME NEW k, MarketInv(k), NEW new, MarketInv(new), Received(k, new) >= 0
    PROVE  ReservesHeld(k, new)
<1>1. Received(k, new) \in Int
  BY MarketFields DEF Received
<1> QED BY <1>1 DEF ReservesHeld

\* Calls that keep supply and loans, and take no underlying out.
LEMMA FairIfNothingLeaves ==
    ASSUME NEW k, MarketInv(k), NEW new, MarketInv(new), LoansKept(k, new),
           new.totalSupply = k.totalSupply, NetUnderlying(k) <= NetUnderlying(new),
           Received(k, new) >= 0
    PROVE  Fair(k, new)
BY RateHeldIfSupplyKept, DebtsHeldIfLoansKept, ReservesHeldIfReceived DEF Fair

\* With a higher borrow index nobody owes less.
LEMMA DebtsGrow ==
    ASSUME NEW k, MarketInv(k), NEW new, new.principal = k.principal,
           new.interestIndex = k.interestIndex, new.borrowIndex \in Nat, k.borrowIndex <= new.borrowIndex
    PROVE  \A u \in Users : BorrowBalanceStored(k, u) <= BorrowBalanceStored(new, u)
<1> SUFFICES ASSUME NEW u \in Users, k.principal[u] # 0
             PROVE  BorrowBalanceStored(k, u) <= BorrowBalanceStored(new, u)
  BY DEF BorrowBalanceStored
<1> DEFINE p == k.principal[u]
           d == k.interestIndex[u]
           x == k.borrowIndex
           y == new.borrowIndex
<1>1. p \in Nat /\ d \in Nat \ {0} /\ x \in Nat /\ y \in Nat /\ x <= y
  BY MarketFields DEF MarketInv
<1>2. BorrowBalanceStored(k, u) = (p * x) \div d /\ BorrowBalanceStored(new, u) = (p * y) \div d
  BY DEF BorrowBalanceStored
<1> HIDE DEF p, d, x, y
<1>3. p * x \in Nat /\ p * y \in Nat /\ p * x <= p * y
  BY <1>1, SMT
<1>4. (p * x) \div d <= (p * y) \div d
  BY <1>1, <1>3, QuotientGrows
<1> QED BY <1>2, <1>4

LEMMA AccrueFair ==
    ASSUME NEW k, MarketInv(k), NEW now \in Nat, k.accrualBlockNumber <= now, CanAccrue(k, now)
    PROVE  Accrues(k, AccrueInterest(k, now))
<1> DEFINE new == AccrueInterest(k, now)
<1>1. MarketInv(new)
  BY AccrueInterestInv
<1>2. CASE k.accrualBlockNumber = now
  <2>1. new = k
    BY <1>2 DEF AccrueInterest
  <2>2. RateHeld(k, k) /\ Received(k, k) = 0
    BY RateHeldIfSupplyKept, MarketFields DEF Received
  <2> QED BY <1>1, <2>1, <2>2, MarketFields DEF Accrues
<1>3. CASE k.accrualBlockNumber # now
  <2> DEFINE i == InterestAccrued(k, now)
             factor == RateNow(k) * (now - k.accrualBlockNumber)
             interest == MulScalarTruncate(factor, k.totalBorrows)
             part == MulScalarTruncate(k.reserveFactor, interest)
  <2>1. k \in Market /\ k.accrualBlockNumber \in Nat /\ RateNow(k) \in Nat
    BY <1>3, VTokenOpsAssumption DEF MarketInv, Market, CanAccrue
  <2>2. factor \in Nat
    BY <2>1, Product
  <2> HIDE DEF factor
  <2>3. interest \in Nat /\ MulScalarTruncate(factor, k.borrowIndex) \in Nat
    BY <2>2, TruncatedNat, MarketFields
  <2> HIDE DEF interest
  <2>4. part \in Nat /\ part <= interest
    <3>1. k.reserveFactor \in 0..EXP_SCALE
      BY <2>1 DEF Market
    <3> QED BY <2>3, <3>1, PartOf
  <2> HIDE DEF part
  <2>5. /\ i.principal = k.principal /\ i.interestIndex = k.interestIndex
        /\ i.totalSupply = k.totalSupply /\ i.badDebt = k.badDebt
        /\ i.cash = k.cash /\ i.income = k.income
        /\ i.totalBorrows = k.totalBorrows + interest
        /\ i.totalReserves = part + k.totalReserves
        /\ i.borrowIndex = MulScalarTruncate(factor, k.borrowIndex) + k.borrowIndex
    BY <2>1 DEF InterestAccrued, MulScalarTruncateAdd, factor, interest, part, Market
  <2>6. MarketInv(i)
    BY <1>3, InterestAccruedInv DEF CanAccrue
  <2> HIDE DEF i
  <2>7. /\ new.principal = i.principal /\ new.interestIndex = i.interestIndex
        /\ new.borrowIndex = i.borrowIndex /\ new.totalSupply = i.totalSupply
        /\ new.badDebt = i.badDebt /\ new.totalBorrows = i.totalBorrows
        /\ new.cash + new.income = i.cash + i.income
        /\ new.cash - new.totalReserves = i.cash - i.totalReserves
    <3>1. new = AutoReduceReserves(i, now)
      BY <1>3 DEF AccrueInterest, i
    <3>2. i \in Market
      BY <2>6 DEF MarketInv
    <3> HIDE DEF new
    <3> QED BY <3>1, <3>2 DEF AutoReduceReserves, ReduceReservesFresh, Market
  <2> HIDE DEF new
  <2>8. Received(k, new) = 0
    <3>1. new.cash + new.income = k.cash + k.income /\ k.cash + k.income \in Nat
      BY <2>5, <2>7, MarketFields
    <3> QED BY <3>1 DEF Received
  <2>9. NetUnderlying(k) <= NetUnderlying(new)
    BY <1>1, <2>3, <2>4, <2>5, <2>6, <2>7, MarketFields DEF NetUnderlying
  <2>10. \A u \in Users : BorrowBalanceStored(k, u) <= BorrowBalanceStored(new, u)
    <3>1. new.borrowIndex \in Nat /\ k.borrowIndex <= new.borrowIndex
      BY <2>3, <2>5, <2>7, MarketFields
    <3> QED BY <2>5, <2>7, <3>1, DebtsGrow
  <2>11. RateHeld(k, new)
    BY <1>1, <2>5, <2>7, <2>9, RateHeldIfSupplyKept
  <2> QED BY <1>1, <2>5, <2>7, <2>8, <2>10, <2>11 DEF Accrues, new
<1> QED BY <1>2, <1>3

-----------------------------------------------------------------------------
(* Handlers *)

LEMMA MintFair ==
    ASSUME NEW k, MarketInv(k), NEW u \in Users, NEW a \in Nat, CanMint(k)
    PROVE  Fair(k, MintFresh(k, u, a))
<1> DEFINE new == MintFresh(k, u, a)
           tokens == MintTokens(k, a)
           r == ExchangeRateStored(k)
           n == NetUnderlying(k)
           t == k.totalSupply
<1>0. k \in Market
  BY DEF MarketInv
<1>1. MarketInv(new)
  BY MintInv DEF Preserves
<1>2. /\ new.cash = k.cash + a /\ new.income = k.income /\ new.badDebt = k.badDebt
      /\ new.totalSupply = t + tokens /\ LoansKept(k, new)
      /\ NetUnderlying(new) = n + a
  BY <1>0 DEF MintFresh, Market, LoansKept, NetUnderlying
<1>3. /\ r \in Nat \ {0} /\ n \in Nat /\ t \in Nat /\ r * t <= n * EXP_SCALE
      /\ tokens = (a * EXP_SCALE) \div r
  BY MarketFields, ExchangeRate DEF CanMint, MintTokens, DivExp
<1> HIDE DEF r, n, t, tokens
<1>4. tokens \in Nat /\ tokens * r <= a * EXP_SCALE
  <2>1. a * EXP_SCALE \in Nat
    BY ExpScaleAssumption, Product
  <2> QED BY <1>3, <2>1, Quotient
<1>5. r * (t + tokens) <= (n + a) * EXP_SCALE
  <2>1. r * (t + tokens) = r * t + tokens * r /\ (n + a) * EXP_SCALE = n * EXP_SCALE + a * EXP_SCALE
    BY <1>3, <1>4, ExpScaleAssumption, SMT
  <2>2. r * t \in Nat /\ tokens * r \in Nat /\ n * EXP_SCALE \in Nat /\ a * EXP_SCALE \in Nat
    BY <1>3, <1>4, ExpScaleAssumption, Product
  <2> QED BY <1>3, <1>4, <2>1, <2>2
<1>6. RateHeld(k, new)
  <2> HIDE DEF new
  <2> QED BY <1>1, <1>2, <1>5, RateHeldIfBacked DEF r
<1>7. Received(k, new) >= 0
  <2> HIDE DEF new
  <2> QED BY <1>2, MarketFields DEF Received
<1> HIDE DEF new
<1> QED BY <1>1, <1>2, <1>6, <1>7, DebtsHeldIfLoansKept, ReservesHeldIfReceived DEF Fair, new

LEMMA RedeemFair ==
    ASSUME NEW k, MarketInv(k), NEW u \in Users, NEW t \in Nat, NEW a \in Nat, CanRedeem(k, u, t, a)
    PROVE  Fair(k, RedeemFresh(k, u, t, a))
<1>1. /\ RateHeld(k, RedeemFresh(k, u, t, a)) /\ LoansKept(k, RedeemFresh(k, u, t, a))
      /\ RedeemAmount(k, RedeemTokens(k, t, a)) \in Nat
      /\ RedeemFresh(k, u, t, a).cash = k.cash - RedeemAmount(k, RedeemTokens(k, t, a))
      /\ RedeemFresh(k, u, t, a).totalReserves = k.totalReserves
  BY RedeemRate
<1>2. k.cash - k.totalReserves >= RedeemAmount(k, RedeemTokens(k, t, a))
  BY DEF CanRedeem
<1> DEFINE new == RedeemFresh(k, u, t, a)
           amount == RedeemAmount(k, RedeemTokens(k, t, a))
<1> HIDE DEF new, amount
<1>3. ReservesHeld(k, new)
  BY <1>1, <1>2, MarketFields DEF ReservesHeld, new, amount
<1> QED BY <1>1, <1>3, DebtsHeldIfLoansKept DEF Fair, new

LEMMA SeizeFair ==
    ASSUME NEW k, MarketInv(k), NEW u \in Users, NEW v \in Users, NEW t \in Nat,
           NEW incentive \in Nat \ {0}, CanSeize(k, v, u, t, incentive)
    PROVE  Fair(k, Seize(k, v, u, t, incentive))
<1> DEFINE new == Seize(k, v, u, t, incentive)
           burnt == ProtocolSeizeTokens(k, t, incentive)
           amount == RedeemAmount(k, burnt)
<1>0. k \in Market
  BY DEF MarketInv
<1>1. MarketInv(new)
  BY SeizeInv DEF Preserves
<1>2. burnt \in Nat /\ burnt <= k.totalSupply
  <2>1. k.protocolSeizeShare \in Nat
    BY <1>0 DEF Market
  <2> QED BY <2>1, TruncatedNat, DivExpNat DEF ProtocolSeizeTokens, CanSeize
<1>3. amount = ProtocolSeizeAmount(k, t, incentive)
  BY DEF RedeemAmount, ProtocolSeizeAmount
<1> HIDE DEF burnt
<1>4. amount \in Nat
  BY <1>2, ValueBacked
<1>5. ExchangeRateStored(k) * (k.totalSupply - burnt) <= (NetUnderlying(k) - amount) * EXP_SCALE
  BY <1>2, BackedAfterBurn
<1> HIDE DEF amount
<1>6. /\ new.cash = k.cash - amount /\ new.income = k.income + amount
      /\ new.totalSupply = k.totalSupply - burnt /\ LoansKept(k, new)
      /\ NetUnderlying(new) = NetUnderlying(k) - amount
  BY <1>0, <1>3, <1>4 DEF Seize, TransferTokens, burnt, Market, LoansKept, NetUnderlying
<1> HIDE DEF new
<1>7. RateHeld(k, new)
  BY <1>1, <1>5, <1>6, RateHeldIfBacked
<1>8. Received(k, new) >= 0
  BY <1>4, <1>6, MarketFields DEF Received
<1> QED BY <1>1, <1>6, <1>7, <1>8, DebtsHeldIfLoansKept, ReservesHeldIfReceived DEF Fair, new

\* One loan is written anew; what it lost was received or written off.
LEMMA FairIfLoanSet ==
    ASSUME NEW k, MarketInv(k), NEW u \in Users, NEW x \in Nat, NEW new, MarketInv(new),
           new.principal = [k.principal EXCEPT ![u] = x],
           new.interestIndex = [k.interestIndex EXCEPT ![u] = k.borrowIndex],
           new.borrowIndex = k.borrowIndex, new.totalSupply = k.totalSupply,
           NetUnderlying(k) <= NetUnderlying(new), ReservesHeld(k, new),
           x < BorrowBalanceStored(k, u) =>
               Received(k, new) + (new.badDebt - k.badDebt) >= BorrowBalanceStored(k, u) - x
    PROVE  Fair(k, new)
<1>1. /\ BorrowBalanceStored(new, u) = x
      /\ \A w \in Users \ {u} : BorrowBalanceStored(new, w) = BorrowBalanceStored(k, w)
  BY LoanSet
<1>2. DebtsHeld(k, new)
  <2> SUFFICES ASSUME NEW w \in Users, BorrowBalanceStored(k, w) - BorrowBalanceStored(new, w) > 0
               PROVE  Received(k, new) + (new.badDebt - k.badDebt)
                        >= BorrowBalanceStored(k, w) - BorrowBalanceStored(new, w)
    BY DEF DebtsHeld
  <2>1. BorrowBalanceStored(k, w) \in Nat /\ BorrowBalanceStored(new, w) \in Nat
    BY MarketFields
  <2>2. w = u
    BY <1>1, <2>1
  <2> QED BY <1>1, <2>1, <2>2
<1> QED BY <1>2, RateHeldIfSupplyKept DEF Fair

LEMMA BorrowFair ==
    ASSUME NEW k, MarketInv(k), NEW u \in Users, NEW a \in Nat, CanBorrow(k, a)
    PROVE  Fair(k, BorrowFresh(k, u, a))
<1> DEFINE owed == BorrowBalanceStored(k, u)
           new  == BorrowFresh(k, u, a)
<1>0. k \in Market /\ owed \in Nat
  BY MarketFields DEF MarketInv
<1>1. MarketInv(new)
  BY BorrowInv DEF Preserves
<1> HIDE DEF owed
<1>2. /\ new.principal = [k.principal EXCEPT ![u] = owed + a]
      /\ new.interestIndex = [k.interestIndex EXCEPT ![u] = k.borrowIndex]
      /\ new.borrowIndex = k.borrowIndex /\ new.totalSupply = k.totalSupply
      /\ new.cash = k.cash - a /\ new.income = k.income /\ new.totalReserves = k.totalReserves
      /\ NetUnderlying(new) = NetUnderlying(k)
  BY <1>0 DEF BorrowFresh, SetBorrow, owed, Market, NetUnderlying
<1> HIDE DEF new
<1>3. ReservesHeld(k, new)
  BY <1>2, MarketFields DEF ReservesHeld, CanBorrow
<1>4. owed + a \in Nat /\ ~ (owed + a < owed)
  BY <1>0
<1>5. NetUnderlying(k) <= NetUnderlying(new)
  BY <1>2, MarketFields
<1> QED BY <1>1, <1>2, <1>3, <1>4, <1>5, FairIfLoanSet DEF owed, new

LEMMA RepayFair ==
    ASSUME NEW k, MarketInv(k), NEW u \in Users, NEW a \in Nat, CanRepay(k, u, a)
    PROVE  Fair(k, RepayBorrowFresh(k, u, a))
<1> DEFINE owed   == BorrowBalanceStored(k, u)
           repaid == RepayFinal(k, u, a)
           new    == RepayBorrowFresh(k, u, a)
<1>0. k \in Market /\ owed \in Nat
  BY MarketFields DEF MarketInv
<1>1. repaid \in Nat /\ repaid <= owed
  BY <1>0 DEF RepayFinal
<1>2. MarketInv(new)
  BY RepayInv DEF Preserves
<1> HIDE DEF owed, repaid
<1>3. /\ new.principal = [k.principal EXCEPT ![u] = owed - repaid]
      /\ new.interestIndex = [k.interestIndex EXCEPT ![u] = k.borrowIndex]
      /\ new.borrowIndex = k.borrowIndex /\ new.totalSupply = k.totalSupply
      /\ new.cash = k.cash + repaid /\ new.income = k.income /\ new.badDebt = k.badDebt
      /\ NetUnderlying(new) = NetUnderlying(k)
  BY <1>0, <1>1 DEF RepayBorrowFresh, SetBorrow, owed, repaid, Market, NetUnderlying
<1> HIDE DEF new
<1>4. Received(k, new) = repaid /\ new.badDebt - k.badDebt = 0
  BY <1>1, <1>3, MarketFields DEF Received
<1>5. ReservesHeld(k, new)
  BY <1>1, <1>4 DEF ReservesHeld
<1>6. owed - repaid \in Nat /\ Received(k, new) + (new.badDebt - k.badDebt) >= owed - (owed - repaid)
  BY <1>0, <1>1, <1>4
<1>7. NetUnderlying(k) <= NetUnderlying(new)
  BY <1>3, MarketFields
<1> QED BY <1>2, <1>3, <1>5, <1>6, <1>7, FairIfLoanSet DEF owed, new

LEMMA HealFair ==
    ASSUME NEW k, MarketInv(k), NEW u \in Users, NEW a \in Nat, CanHealBorrow(k, u, a)
    PROVE  Fair(k, HealBorrow(k, u, a))
<1> DEFINE owed == BorrowBalanceStored(k, u)
           new  == HealBorrow(k, u, a)
<1>0. k \in Market /\ owed \in Nat /\ a <= owed
  BY MarketFields DEF MarketInv, CanHealBorrow
<1>1. MarketInv(new)
  BY HealInv DEF Preserves
<1> HIDE DEF owed
<1>2. /\ new.principal = [k.principal EXCEPT ![u] = 0]
      /\ new.interestIndex = [k.interestIndex EXCEPT ![u] = k.borrowIndex]
      /\ new.borrowIndex = k.borrowIndex /\ new.totalSupply = k.totalSupply
      /\ new.cash = k.cash + a /\ new.income = k.income /\ new.badDebt = k.badDebt + (owed - a)
      /\ NetUnderlying(new) = NetUnderlying(k)
  BY <1>0 DEF HealBorrow, SetBorrow, owed, Market, NetUnderlying
<1> HIDE DEF new
<1>3. Received(k, new) = a /\ new.badDebt - k.badDebt = owed - a
  BY <1>0, <1>2, MarketFields DEF Received
<1>4. ReservesHeld(k, new)
  BY <1>3 DEF ReservesHeld
<1>5. Received(k, new) + (new.badDebt - k.badDebt) >= owed - 0
  BY <1>0, <1>3
<1>6. NetUnderlying(k) <= NetUnderlying(new)
  BY <1>2, MarketFields
<1> QED BY <1>1, <1>2, <1>4, <1>5, <1>6, FairIfLoanSet DEF owed, new

-----------------------------------------------------------------------------
(* Every step is fair *)

\* Calls that change neither supply nor loans, for an underlying that arrives or stays.
LEMMA PlainCallFair ==
    ASSUME NEW k, MarketInv(k), NEW new, MarketInv(new), NEW a \in Nat,
           \/ new = AddReservesFresh(k, a) \/ new = ReduceReservesFresh(k, a)
           \/ new = [k EXCEPT !.cash = @ + a] \/ new = BadDebtRecovered(k, a)
           \/ new = [k EXCEPT !.reserveFactor = a] \/ new = [k EXCEPT !.protocolSeizeShare = a]
    PROVE  Fair(k, new)
<1>1. k \in Market
  BY DEF MarketInv
<1>0. /\ {k.cash, k.totalBorrows, k.badDebt, k.totalReserves, k.income} \subseteq Nat
      /\ {k.cash - a, k.totalReserves - a, k.badDebt - a} \subseteq Int
  BY <1>1, MarketFields
\* what keeps supply and loans, and moves cash no more than the bad debt and the reserves
<1> DEFINE Keeps == /\ LoansKept(k, new) /\ new.totalSupply = k.totalSupply
                    /\ NetUnderlying(k) <= NetUnderlying(new) /\ Received(k, new) >= 0
<1>2. CASE new = AddReservesFresh(k, a)
  <2>1. Keeps
    BY <1>0, <1>1, <1>2 DEF AddReservesFresh, Market, LoansKept, NetUnderlying, Received
  <2> QED BY <2>1, FairIfNothingLeaves
<1>3. CASE new = ReduceReservesFresh(k, a)
  <2>1. Keeps
    BY <1>0, <1>1, <1>3 DEF ReduceReservesFresh, Market, LoansKept, NetUnderlying, Received
  <2> QED BY <2>1, FairIfNothingLeaves
<1>4. CASE new = [k EXCEPT !.cash = @ + a]
  <2>1. Keeps
    BY <1>0, <1>1, <1>4 DEF Market, LoansKept, NetUnderlying, Received
  <2> QED BY <2>1, FairIfNothingLeaves
<1>5. CASE new = BadDebtRecovered(k, a)
  <2>1. Keeps
    BY <1>0, <1>1, <1>5 DEF BadDebtRecovered, Market, LoansKept, NetUnderlying, Received
  <2> QED BY <2>1, FairIfNothingLeaves
<1>6. CASE new = [k EXCEPT !.reserveFactor = a] \/ new = [k EXCEPT !.protocolSeizeShare = a]
  <2>1. Keeps
    BY <1>0, <1>1, <1>6 DEF Market, LoansKept, NetUnderlying, Received
  <2> QED BY <2>1, FairIfNothingLeaves
<1> QED BY <1>2, <1>3, <1>4, <1>5, <1>6

LEMMA AccruedFair ==
    ASSUME VTokenIInv, CanAccrue(market, blockNumber)
    PROVE  Accrues(market, accrued)
BY AccrueFair DEF VTokenIInv, accrued

LEMMA AccountCallFair ==
    ASSUME VTokenIInv, VTokenIInv', VTokenAccountCall
    PROVE  Fair(market, market')
<1>0. MarketInv(market) /\ MarketInv(market')
  BY DEF VTokenIInv
\* what is left to show of a call that begins with accrueInterest
<1>1. ASSUME CanAccrue(market, blockNumber), MarketInv(accrued) => Fair(accrued, market')
      PROVE  Fair(market, market')
  BY <1>0, <1>1, AccruedFair, AccruedIInv, FairAfterAccrual
<1>2. ASSUME VTokenAccrue PROVE Fair(market, market')
  <2>1. market' = accrued /\ CanAccrue(market, blockNumber)
    BY <1>2 DEF VTokenAccrue
  <2>2. MarketInv(accrued) => Fair(accrued, accrued)
    <3> HIDE DEF accrued
    <3>1. ASSUME MarketInv(accrued) PROVE LoansKept(accrued, accrued) /\ Received(accrued, accrued) >= 0
                                          /\ NetUnderlying(accrued) <= NetUnderlying(accrued)
      BY <3>1, MarketFields DEF LoansKept, Received
    <3> QED BY <3>1, FairIfNothingLeaves
  <2> QED BY <1>1, <2>1, <2>2
<1>3. ASSUME NEW u \in Users, NEW a \in Amounts, VTokenMint(u, a) PROVE Fair(market, market')
  BY <1>1, <1>3, MintFair, VTokenAssumption DEF VTokenMint
<1>4. ASSUME NEW u \in Users, NEW t \in Nat, NEW a \in Nat, VTokenRedeem(u, t, a) PROVE Fair(market, market')
  BY <1>1, <1>4, RedeemFair DEF VTokenRedeem
<1>5. ASSUME NEW u \in Users, NEW a \in Amounts, VTokenBorrow(u, a) PROVE Fair(market, market')
  BY <1>1, <1>5, BorrowFair, VTokenAssumption DEF VTokenBorrow
<1>6. ASSUME NEW u \in Users, NEW a \in Amounts, VTokenRepayBorrow(u, a) PROVE Fair(market, market')
  BY <1>1, <1>6, RepayFair, VTokenAssumption DEF VTokenRepayBorrow
<1>7. ASSUME NEW u \in Users, NEW v \in Users, NEW t \in VTokenAmounts, VTokenTransfer(u, v, t)
      PROVE  Fair(market, market')
  <2>1. market' = TransferTokens(market, u, v, t) /\ market \in Market
    BY <1>0, <1>7 DEF VTokenTransfer, MarketInv
  <2>2. /\ LoansKept(market, market') /\ market'.totalSupply = market.totalSupply
        /\ market'.cash = market.cash /\ market'.income = market.income
        /\ NetUnderlying(market') = NetUnderlying(market)
    BY <2>1 DEF TransferTokens, Market, LoansKept, NetUnderlying
  <2>3. NetUnderlying(market) <= NetUnderlying(market') /\ Received(market, market') >= 0
    BY <1>0, <2>2, MarketFields DEF Received
  <2> QED BY <1>0, <2>2, <2>3, FairIfNothingLeaves
<1>8. ASSUME NEW v \in Users, NEW u \in Users, NEW a \in Amounts, NEW t \in VTokenAmounts,
             NEW i \in Incentives, LiquidateInKind(v, u, a, t, i)
      PROVE  Fair(market, market')
  <2> DEFINE repaid == RepayBorrowFresh(accrued, u, a)
  <2>1. /\ CanAccrue(market, blockNumber) /\ CanRepay(accrued, u, a)
        /\ a \in Nat /\ t \in Nat /\ i \in Nat \ {0} /\ CanSeize(repaid, v, u, t, i)
        /\ market' = Seize(repaid, v, u, t, i)
    BY <1>8, VTokenAssumption DEF LiquidateInKind
  <2>2. ASSUME MarketInv(accrued) PROVE Fair(accrued, market')
    <3>1. MarketInv(repaid)
      BY <2>1, <2>2, RepayInv DEF Preserves
    <3>2. Fair(accrued, repaid)
      BY <2>1, <2>2, RepayFair
    <3>3. Fair(repaid, market')
      BY <2>1, <3>1, SeizeFair
    <3>4. /\ accrued \in Market /\ repaid \in Market
          /\ repaid.totalSupply = accrued.totalSupply
      BY <2>2, <3>1 DEF MarketInv, RepayBorrowFresh, SetBorrow, Market
    <3>5. LoansKept(repaid, market') /\ Received(repaid, market') = 0 /\ market'.badDebt = repaid.badDebt
      <4> HIDE DEF repaid
      <4>1. LoansKept(repaid, market') /\ market'.badDebt = repaid.badDebt
        BY <2>1, <3>4 DEF Seize, TransferTokens, Market, LoansKept
      <4>2. market'.cash = repaid.cash - ProtocolSeizeAmount(repaid, t, i)
            /\ market'.income = repaid.income + ProtocolSeizeAmount(repaid, t, i)
        BY <2>1, <3>4 DEF Seize, TransferTokens, Market
      <4>3. market'.cash \in Nat /\ market'.income \in Nat /\ repaid.cash \in Nat /\ repaid.income \in Nat
        BY <1>0, <3>1, MarketFields
      <4>4. ProtocolSeizeAmount(repaid, t, i) \in Nat
        <5>1. ExchangeRateStored(repaid) \in Nat /\ repaid.protocolSeizeShare \in Nat
          BY <3>1, <3>4, MarketFields DEF Market
        <5>2. ProtocolSeizeTokens(repaid, t, i) \in Nat
          BY <2>1, <5>1, TruncatedNat, DivExpNat DEF ProtocolSeizeTokens
        <5> QED BY <5>1, <5>2, TruncatedNat DEF ProtocolSeizeAmount
      <4> QED BY <4>1, <4>2, <4>3, <4>4 DEF Received
    <3> HIDE DEF repaid
    <3>6. RateHeld(accrued, market')
      <4>1. /\ ExchangeRateStored(accrued) \in Nat /\ ExchangeRateStored(repaid) \in Nat
            /\ ExchangeRateStored(market') \in Nat
        BY <1>0, <2>2, <3>1, MarketFields
      <4> QED BY <3>2, <3>3, <3>4, <4>1 DEF Fair, RateHeld
    <3>7. Received(accrued, market') = Received(accrued, repaid)
      <4>1. /\ accrued.cash \in Nat /\ accrued.income \in Nat /\ repaid.cash \in Nat
            /\ repaid.income \in Nat /\ market'.cash \in Nat /\ market'.income \in Nat
        BY <1>0, <2>2, <3>1, MarketFields
      <4> QED BY <3>5, <4>1 DEF Received
    <3>8. DebtsHeld(accrued, market')
      <4>1. \A w \in Users : BorrowBalanceStored(market', w) = BorrowBalanceStored(repaid, w)
        BY <3>1, <3>5, DebtsHeldIfLoansKept
      <4> QED BY <3>2, <3>5, <3>7, <4>1 DEF Fair, DebtsHeld
    <3>9. ReservesHeld(accrued, market')
      <4>1. Received(accrued, repaid) >= 0
        <5>1. RepayFinal(accrued, u, a) \in Nat
          BY <2>1, <2>2, MarketFields DEF RepayFinal
        <5>2. repaid.cash = accrued.cash + RepayFinal(accrued, u, a) /\ repaid.income = accrued.income
          BY <3>4 DEF repaid, RepayBorrowFresh, SetBorrow, Market
        <5> QED BY <2>2, <5>1, <5>2, MarketFields DEF Received
      <4> QED BY <1>0, <2>2, <3>7, <4>1, ReservesHeldIfReceived
    <3> QED BY <3>6, <3>8, <3>9 DEF Fair
  <2> QED BY <1>1, <2>1, <2>2
<1>9. ASSUME NEW a \in Amounts, AddReserves(a) PROVE Fair(market, market')
  BY <1>0, <1>1, <1>9, PlainCallFair, VTokenAssumption DEF AddReserves
<1>10. ASSUME NEW a \in Amounts, ReduceReserves(a) PROVE Fair(market, market')
  <2>1. CASE market' = accrued
    BY <1>2, <1>10, <2>1 DEF VTokenAccrue, ReduceReserves
  <2>2. CASE market' = ReduceReservesFresh(accrued, a)
    BY <1>0, <1>1, <1>10, <2>2, PlainCallFair, VTokenAssumption DEF ReduceReserves
  <2> QED BY <1>10, <2>1, <2>2 DEF ReduceReserves
<1>11. ASSUME NEW a \in Amounts, Donate(a) PROVE Fair(market, market')
  BY <1>0, <1>11, PlainCallFair, VTokenAssumption DEF Donate
<1>12. ASSUME NEW u \in Users, NEW a \in Amounts, VTokenRedeem(u, 0, a) PROVE Fair(market, market')
  BY <1>4, <1>12, VTokenAssumption
<1>13. ASSUME NEW u \in Users, NEW t \in VTokenAmounts, VTokenRedeem(u, t, 0) PROVE Fair(market, market')
  BY <1>4, <1>13, VTokenAssumption
<1> QED
  BY <1>2, <1>3, <1>5, <1>6, <1>7, <1>8, <1>9, <1>10, <1>11, <1>12, <1>13 DEF VTokenAccountCall

LEMMA ProtocolCallFair ==
    ASSUME VTokenIInv, VTokenIInv', ProtocolCall
    PROVE  Fair(market, market')
<1>0. MarketInv(market) /\ MarketInv(market')
  BY DEF VTokenIInv
<1>1. ASSUME NEW u \in Users, NEW a \in Amounts, Heal(u, a) PROVE Fair(market, market')
  BY <1>0, <1>1, HealFair, VTokenAssumption DEF Heal
<1>2. ASSUME NEW v \in Users, NEW u \in Users, NEW t \in VTokenAmounts, NEW i \in Incentives,
             SeizeCollateral(v, u, t, i)
      PROVE  Fair(market, market')
  <2>1. t \in Nat /\ i \in Nat \ {0}
    BY VTokenAssumption
  <2> QED BY <1>0, <1>2, <2>1, SeizeFair DEF SeizeCollateral
<1>3. ASSUME NEW a \in Amounts, RecoverBadDebt(a) PROVE Fair(market, market')
  BY <1>0, <1>3, PlainCallFair, VTokenAssumption DEF RecoverBadDebt
<1>4. ASSUME NEW f \in ReserveFactors, SetReserveFactor(f) PROVE Fair(market, market')
  <2>1. CanAccrue(market, blockNumber) /\ market' = [accrued EXCEPT !.reserveFactor = f] /\ f \in Nat
    BY <1>4, VTokenAssumption DEF SetReserveFactor
  <2>2. MarketInv(accrued) => Fair(accrued, market')
    BY <1>0, <2>1, PlainCallFair
  <2> QED BY <1>0, <2>1, <2>2, AccruedFair, AccruedIInv, FairAfterAccrual
<1>5. ASSUME NEW s \in SeizeShares, NEW i \in Incentives, SetProtocolSeizeShare(s, i)
      PROVE  Fair(market, market')
  BY <1>0, <1>5, PlainCallFair, VTokenAssumption DEF SetProtocolSeizeShare
<1> QED
  BY <1>1, <1>2, <1>3, <1>4, <1>5 DEF ProtocolCall

LEMMA NextFair ==
    ASSUME VTokenIInv, VTokenNext
    PROVE  Fair(market, market')
<1>1. VTokenIInv'
  BY NextIInv
<1>2. CASE VTokenTick
  <2>1. market' = market /\ MarketInv(market)
    BY <1>2 DEF VTokenTick, VTokenIInv
  <2>2. LoansKept(market, market') /\ Received(market, market') >= 0
        /\ NetUnderlying(market) <= NetUnderlying(market')
    BY <2>1, MarketFields DEF LoansKept, Received
  <2> QED BY <2>1, <2>2, FairIfNothingLeaves
<1>3. CASE VTokenAccountCall
  BY <1>1, <1>3, AccountCallFair
<1>4. CASE ProtocolCall
  BY <1>1, <1>4, ProtocolCallFair
<1> QED BY <1>2, <1>3, <1>4 DEF VTokenNext

-----------------------------------------------------------------------------

(* Truncation never works against those who stay: minting, redeeming, seizing,  *)
(* healing, recovery and reserves leave every vToken worth at least as much.    *)
THEOREM RateNeverFalls == VTokenSpec => ExchangeRateNeverFalls
<1>1. VTokenIInv /\ [VTokenNext]_vtokenVars =>
          [market.totalSupply > 0 /\ market'.totalSupply > 0
              => ExchangeRateStored(market) <= ExchangeRateStored(market')]_vtokenVars
  BY NextFair DEF Fair, RateHeld
<1> QED BY <1>1, VTokenSpecIInv, PTL DEF VTokenSpec, ExchangeRateNeverFalls

(* Nobody's debt falls by more than the market got for it or booked as bad debt, *)
(* whatever a repayment, a liquidation or a healing truncates.                   *)
THEOREM DebtsPaidOrRecognised == VTokenSpec => DebtPaidOrRecognised
<1>1. VTokenIInv /\ [VTokenNext]_vtokenVars =>
          [\A u \in Users :
              LET forgiven == BorrowBalanceStored(market, u) - BorrowBalanceStored(market', u)
                  received == (market'.cash + market'.income) - (market.cash + market.income)
                  written  == market'.badDebt - market.badDebt
              IN  forgiven > 0 => received + written >= forgiven]_vtokenVars
  BY NextFair DEF Fair, DebtsHeld, Received
<1> QED BY <1>1, VTokenSpecIInv, PTL DEF VTokenSpec, DebtPaidOrRecognised

(* The reserves are neither lent nor redeemed: when underlying leaves the        *)
(* protocol, the cash that stays covers them.                                    *)
THEOREM ReservesLiquid == VTokenSpec => ReservesStayLiquid
<1>1. VTokenIInv /\ [VTokenNext]_vtokenVars =>
          [market'.cash + market'.income < market.cash + market.income
              => market'.cash >= market'.totalReserves]_vtokenVars
  <2> SUFFICES ASSUME VTokenIInv, VTokenNext,
                      market'.cash + market'.income < market.cash + market.income
               PROVE  market'.cash >= market'.totalReserves
    OBVIOUS
  <2>1. MarketInv(market) /\ MarketInv(market') /\ Fair(market, market')
    BY NextIInv, NextFair DEF VTokenIInv
  <2> QED BY <2>1, MarketFields DEF Fair, ReservesHeld, Received
<1> QED BY <1>1, VTokenSpecIInv, PTL DEF VTokenSpec, ReservesStayLiquid
=============================================================================
