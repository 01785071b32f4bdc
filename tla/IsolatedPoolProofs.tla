------------------------ MODULE IsolatedPoolProofs ------------------------
(***************************************************************************)
(* Invariants and step properties of IsolatedPool.tla, proved for any      *)
(* number of accounts and markets, any prices, rates and parameters, and   *)
(* any number of orders in liquidateAccount.                               *)
(*                                                                         *)
(* First what each handler of VTokenOps does to one market, then what the  *)
(* transactions do to all of them, then the membership lists, and last     *)
(* whose collateral and debt each transaction may reduce: no account walks *)
(* into a shortfall, and none is liquidated that was not unsafe.           *)
(***************************************************************************)
EXTENDS IsolatedPool, VTokenProofs, SequenceTheorems

\* A market in good order whose loans are not ahead of its borrow index: what an
\* account owes is then at least its principal, so only who has no principal owes nothing.
Sound(k) == MarketInv(k) /\ \A u \in Users : k.interestIndex[u] <= k.borrowIndex

\* Nobody's tokens or debt moved.
Kept(k, new) ==
    /\ new.accountTokens = k.accountTokens
    /\ new.principal = k.principal /\ new.interestIndex = k.interestIndex

\* What every handler but borrow and healBorrow does to a market in slot b.
Calm(k, new, b) ==
    /\ Sound(new)
    /\ new.accrualBlockNumber \in {k.accrualBlockNumber, b}
    /\ new.badDebt = k.badDebt
    /\ \A u \in Users : new.principal[u] # 0 => k.principal[u] # 0
    /\ new.principal # k.principal => new.accrualBlockNumber = b

LEMMA CalmRefl ==
    ASSUME NEW k, Sound(k), NEW b
    PROVE  Calm(k, k, b)
BY DEF Calm

LEMMA CalmTrans ==
    ASSUME NEW k, NEW mid, NEW new, NEW b, Calm(k, mid, b), Calm(mid, new, b)
    PROVE  Calm(k, new, b)
BY Zenon DEF Calm

LEMMA CalmIfLoansKept ==
    ASSUME NEW k, Sound(k), NEW new, Preserves(k, new), NEW b,
           new.principal = k.principal, new.interestIndex = k.interestIndex,
           new.borrowIndex = k.borrowIndex, new.badDebt = k.badDebt
    PROVE  Calm(k, new, b)
BY Zenon DEF Calm, Sound, Preserves

-----------------------------------------------------------------------------
(* What is owed *)

\* Whoever has a principal owes something.
LEMMA NothingOwed ==
    ASSUME NEW k, Sound(k), NEW u \in Users
    PROVE  BorrowBalanceStored(k, u) = 0 <=> k.principal[u] = 0
<1>1. /\ k.principal[u] \in Nat /\ k.borrowIndex \in Nat /\ k.interestIndex[u] \in Nat
      /\ k.interestIndex[u] <= k.borrowIndex
      /\ k.principal[u] # 0 => k.interestIndex[u] # 0
  BY DEF Sound, MarketInv, Market
<1>2. ASSUME k.principal[u] # 0 PROVE (k.principal[u] * k.borrowIndex) \div k.interestIndex[u] # 0
  <2> DEFINE p == k.principal[u]
             i == k.interestIndex[u]
             x == k.borrowIndex
  <2>1. p \in Nat \ {0} /\ i \in Nat \ {0} /\ x \in Nat /\ i <= x
    BY <1>1, <1>2
  <2> HIDE DEF p, i, x
  <2>2. p * x \in Nat /\ x <= p * x
    BY <2>1, SMT
  <2>3. i <= p * x
    BY <2>1, <2>2
  <2> DEFINE a == p * x
  <2>4. a \in Nat /\ i <= a
    BY <2>2, <2>3
  <2> HIDE DEF a
  <2>5. a \div i # 0
    BY <2>1, <2>4, SMT
  <2> QED BY <2>5 DEF a, p, i, x
<1> QED BY <1>2 DEF BorrowBalanceStored

-----------------------------------------------------------------------------
(* Handlers *)

LEMMA AccrueCalm ==
    ASSUME NEW k, Sound(k), NEW b \in Nat, k.accrualBlockNumber <= b, CanAccrue(k, b)
    PROVE  /\ Calm(k, AccrueInterest(k, b), b) /\ Kept(k, AccrueInterest(k, b))
           /\ AccrueInterest(k, b).accrualBlockNumber = b
<1> DEFINE new == AccrueInterest(k, b)
<1>1. MarketInv(new) /\ new.accrualBlockNumber = b
  BY AccrueInterestInv DEF Sound
<1>2. CASE k.accrualBlockNumber = b
  BY <1>1, <1>2, CalmRefl DEF AccrueInterest, Kept
<1>3. CASE k.accrualBlockNumber # b
  <2> DEFINE i == InterestAccrued(k, b)
             factor == RateNow(k) * (b - k.accrualBlockNumber)
  <2>1. k \in Market /\ k.borrowIndex \in Nat /\ k.accrualBlockNumber \in Nat
    BY DEF Sound, MarketInv, Market
  <2>2. factor \in Nat
    BY <1>3, <2>1, VTokenOpsAssumption, Product DEF CanAccrue
  <2> HIDE DEF factor
  <2>3. /\ i.principal = k.principal /\ i.interestIndex = k.interestIndex
        /\ i.accountTokens = k.accountTokens /\ i.badDebt = k.badDebt
        /\ i.borrowIndex = MulScalarTruncate(factor, k.borrowIndex) + k.borrowIndex
    BY <2>1 DEF InterestAccrued, MulScalarTruncateAdd, factor, Market
  <2>4. i.borrowIndex >= k.borrowIndex
    <3>1. MulScalarTruncate(factor, k.borrowIndex) \in Nat
      BY <2>1, <2>2, TruncatedNat
    <3> QED BY <2>1, <2>3, <3>1
  <2>5. MarketInv(i)
    BY <1>3, InterestAccruedInv DEF Sound, CanAccrue
  <2> HIDE DEF i
  <2>6. /\ new.principal = i.principal /\ new.interestIndex = i.interestIndex
        /\ new.accountTokens = i.accountTokens /\ new.badDebt = i.badDebt
        /\ new.borrowIndex = i.borrowIndex
    <3>1. new = AutoReduceReserves(i, b)
      BY <1>3 DEF AccrueInterest, i
    <3>2. i \in Market
      BY <2>5 DEF MarketInv
    <3> HIDE DEF new
    <3> QED BY <3>1, <3>2 DEF AutoReduceReserves, ReduceReservesFresh, Market
  <2> HIDE DEF new
  <2>7. \A u \in Users : k.interestIndex[u] \in Nat /\ k.interestIndex[u] <= k.borrowIndex
    BY <2>1 DEF Sound, Market
  <2>8. \A u \in Users : new.interestIndex[u] <= new.borrowIndex
    <3>1. new.borrowIndex \in Nat
      BY <1>1 DEF MarketInv, Market
    <3> QED BY <2>1, <2>3, <2>4, <2>6, <2>7, <3>1
  <2> QED BY <1>1, <2>3, <2>6, <2>8 DEF Calm, Sound, Kept, new
<1> QED BY <1>2, <1>3

LEMMA MintCalm ==
    ASSUME NEW k, Sound(k), NEW u \in Users, NEW a \in Nat, CanMint(k), NEW b
    PROVE  Calm(k, MintFresh(k, u, a), b)
<1>1. Preserves(k, MintFresh(k, u, a)) /\ k \in Market
  BY MintInv DEF Sound, MarketInv
<1>2. /\ MintFresh(k, u, a).principal = k.principal /\ MintFresh(k, u, a).badDebt = k.badDebt
      /\ MintFresh(k, u, a).interestIndex = k.interestIndex
      /\ MintFresh(k, u, a).borrowIndex = k.borrowIndex
  BY <1>1 DEF MintFresh, Market
<1> QED BY <1>1, <1>2, CalmIfLoansKept

LEMMA RedeemCalm ==
    ASSUME NEW k, Sound(k), NEW u \in Users, NEW t \in Nat, CanRedeem(k, u, t, 0), NEW b
    PROVE  Calm(k, RedeemFresh(k, u, t, 0), b)
<1>1. Preserves(k, RedeemFresh(k, u, t, 0)) /\ k \in Market
  BY RedeemInv DEF Sound, MarketInv
<1>2. /\ RedeemFresh(k, u, t, 0).principal = k.principal /\ RedeemFresh(k, u, t, 0).badDebt = k.badDebt
      /\ RedeemFresh(k, u, t, 0).interestIndex = k.interestIndex
      /\ RedeemFresh(k, u, t, 0).borrowIndex = k.borrowIndex
  BY <1>1 DEF RedeemFresh, Market
<1> QED BY <1>1, <1>2, CalmIfLoansKept

LEMMA TransferCalm ==
    ASSUME NEW k, Sound(k), NEW u \in Users, NEW v \in Users, NEW t \in Nat, CanTransfer(k, u, v, t), NEW b
    PROVE  Calm(k, TransferTokens(k, u, v, t), b)
<1>1. Preserves(k, TransferTokens(k, u, v, t)) /\ k \in Market
  BY TransferInv DEF Sound, MarketInv
<1>2. /\ TransferTokens(k, u, v, t).principal = k.principal /\ TransferTokens(k, u, v, t).badDebt = k.badDebt
      /\ TransferTokens(k, u, v, t).interestIndex = k.interestIndex
      /\ TransferTokens(k, u, v, t).borrowIndex = k.borrowIndex
  BY <1>1 DEF TransferTokens, Market
<1> QED BY <1>1, <1>2, CalmIfLoansKept

\* A seizure, and when the borrower loses all he has nothing is left to him.
LEMMA SeizeCalm ==
    ASSUME NEW k, Sound(k), NEW v \in Users, NEW u \in Users, NEW t \in Nat,
           NEW incentive \in Nat \ {0}, CanSeize(k, v, u, t, incentive), NEW b
    PROVE  /\ Calm(k, Seize(k, v, u, t, incentive), b)
           /\ Seize(k, v, u, t, incentive).principal = k.principal
           /\ Seize(k, v, u, t, incentive).interestIndex = k.interestIndex
           /\ Seize(k, v, u, t, incentive).borrowIndex = k.borrowIndex
           /\ Seize(k, v, u, t, incentive).accrualBlockNumber = k.accrualBlockNumber
           /\ t = k.accountTokens[u] => Seize(k, v, u, t, incentive).accountTokens[u] = 0
<1> DEFINE new == Seize(k, v, u, t, incentive)
           burnt == ProtocolSeizeTokens(k, t, incentive)
<1>1. Preserves(k, new) /\ k \in Market
  BY SeizeInv DEF Sound, MarketInv
<1>2. burnt \in Nat
  BY <1>1, TruncatedNat, DivExpNat DEF ProtocolSeizeTokens, Market
<1>3. u # v
  BY DEF CanSeize
<1> HIDE DEF burnt
<1>4. /\ new.principal = k.principal /\ new.badDebt = k.badDebt
      /\ new.interestIndex = k.interestIndex /\ new.borrowIndex = k.borrowIndex
  BY <1>1 DEF Seize, TransferTokens, Market
<1>5. new.accountTokens[u] = k.accountTokens[u] - burnt - (t - burnt)
  BY <1>1, <1>3, Zenon DEF Seize, TransferTokens, burnt, Market
<1>6. k.accountTokens[u] \in Nat
  BY <1>1 DEF Market
<1>7. t = k.accountTokens[u] => new.accountTokens[u] = 0
  BY <1>2, <1>5, <1>6
<1> HIDE DEF new
<1>8. Calm(k, new, b)
  BY <1>1, <1>4, CalmIfLoansKept
<1> QED BY <1>1, <1>4, <1>7, <1>8 DEF new, Preserves

\* Recording a loan at the current index keeps the indices in order.
LEMMA SoundIfLoanSet ==
    ASSUME NEW k, Sound(k), NEW u \in Users, NEW new, Preserves(k, new),
           new.interestIndex = [k.interestIndex EXCEPT ![u] = k.borrowIndex],
           new.borrowIndex = k.borrowIndex
    PROVE  Sound(new)
<1>1. k.interestIndex \in [Users -> Nat] /\ k.borrowIndex \in Nat
  BY DEF Sound, MarketInv, Market
<1>2. \A w \in Users : new.interestIndex[w] <= new.borrowIndex
  BY <1>1 DEF Sound
<1> QED BY <1>2 DEF Sound, Preserves

LEMMA BorrowEffect ==
    ASSUME NEW k, Sound(k), NEW u \in Users, NEW a \in Nat, CanBorrow(k, a)
    PROVE  /\ Sound(BorrowFresh(k, u, a))
           /\ BorrowFresh(k, u, a).accrualBlockNumber = k.accrualBlockNumber
           /\ BorrowFresh(k, u, a).badDebt = k.badDebt
           /\ \A w \in Users \ {u} : BorrowFresh(k, u, a).principal[w] = k.principal[w]
<1> DEFINE new == BorrowFresh(k, u, a)
<1>1. Preserves(k, new) /\ k \in Market
  BY BorrowInv DEF Sound, MarketInv
<1>2. /\ new.interestIndex = [k.interestIndex EXCEPT ![u] = k.borrowIndex]
      /\ new.borrowIndex = k.borrowIndex /\ new.badDebt = k.badDebt
      /\ new.principal = [k.principal EXCEPT ![u] = BorrowBalanceStored(k, u) + a]
  BY <1>1 DEF BorrowFresh, SetBorrow, Market
<1> HIDE DEF new
<1>3. \A w \in Users \ {u} : new.principal[w] = k.principal[w]
  BY <1>1, <1>2 DEF Market
<1>4. Sound(new)
  BY <1>1, <1>2, SoundIfLoanSet
<1> QED BY <1>1, <1>2, <1>3, <1>4 DEF new, Preserves

LEMMA RepayCalm ==
    ASSUME NEW k, Sound(k), NEW u \in Users, NEW a \in Nat, CanRepay(k, u, a)
    PROVE  /\ Calm(k, RepayBorrowFresh(k, u, a), k.accrualBlockNumber)
           /\ RepayBorrowFresh(k, u, a).accountTokens = k.accountTokens
<1> DEFINE new == RepayBorrowFresh(k, u, a)
           left == BorrowBalanceStored(k, u) - RepayFinal(k, u, a)
<1>1. Preserves(k, new) /\ k \in Market
  BY RepayInv DEF Sound, MarketInv
<1>2. /\ new.interestIndex = [k.interestIndex EXCEPT ![u] = k.borrowIndex]
      /\ new.borrowIndex = k.borrowIndex /\ new.badDebt = k.badDebt
      /\ new.principal = [k.principal EXCEPT ![u] = left]
      /\ new.accountTokens = k.accountTokens
  BY <1>1 DEF RepayBorrowFresh, SetBorrow, Market
<1>3. k.principal[u] = 0 => left = 0
  BY DEF RepayFinal, BorrowBalanceStored
<1> HIDE DEF new, left
<1>4. \A w \in Users : new.principal[w] # 0 => k.principal[w] # 0
  BY <1>1, <1>2, <1>3 DEF Market
<1>5. Sound(new)
  BY <1>1, <1>2, SoundIfLoanSet
<1> QED BY <1>1, <1>2, <1>4, <1>5 DEF new, Preserves, Calm

LEMMA HealEffect ==
    ASSUME NEW k, Sound(k), NEW u \in Users, NEW a \in Nat, CanHealBorrow(k, u, a)
    PROVE  /\ Sound(HealBorrow(k, u, a))
           /\ HealBorrow(k, u, a).accrualBlockNumber = k.accrualBlockNumber
           /\ HealBorrow(k, u, a).accountTokens = k.accountTokens
           /\ HealBorrow(k, u, a).principal = [k.principal EXCEPT ![u] = 0]
<1> DEFINE new == HealBorrow(k, u, a)
<1>1. Preserves(k, new) /\ k \in Market
  BY HealInv DEF Sound, MarketInv
<1>2. /\ new.interestIndex = [k.interestIndex EXCEPT ![u] = k.borrowIndex]
      /\ new.borrowIndex = k.borrowIndex
      /\ new.principal = [k.principal EXCEPT ![u] = 0]
      /\ new.accountTokens = k.accountTokens
  BY <1>1 DEF HealBorrow, SetBorrow, Market
<1> HIDE DEF new
<1>3. Sound(new)
  BY <1>1, <1>2, SoundIfLoanSet
<1> QED BY <1>1, <1>2, <1>3 DEF new, Preserves

-----------------------------------------------------------------------------
(* The inductive invariant *)

MarketsSound ==
    /\ markets \in [Markets -> Market]
    /\ \A m \in Markets : Sound(markets[m]) /\ markets[m].accrualBlockNumber <= block

SettingsTyped ==
    /\ block \in Nat
    /\ price \in [Markets -> Nat]
    /\ listed \subseteq Markets
    /\ parameters \in Parameters
    /\ parameters.liquidationIncentive >= EXP_SCALE
    /\ paused \subseteq Markets \X Actions
    /\ delegates \subseteq Users \X Users

ListsTyped ==
    /\ membership \in [Markets -> SUBSET Users]
    /\ accountAssets \in [Users -> Seq(Markets)]

IInv ==
    /\ MarketsSound /\ SettingsTyped /\ ListsTyped
    /\ AccountAssetsMatchMembership /\ DebtImpliesMembership

-----------------------------------------------------------------------------
(* What every step shows *)

FreshMoves ==
    \A m \in Markets : markets'[m].principal # markets[m].principal => Fresh(markets'[m], block)

FrozenOnes ==
    \A m \in Markets \ listed :
        /\ m \notin listed'
        /\ markets'[m].accountTokens = markets[m].accountTokens
        /\ markets'[m].principal = markets[m].principal

WriteOffs ==
    \A m \in Markets : markets'[m].badDebt > markets[m].badDebt =>
        \E u \in Users :
            /\ markets[m].principal[u] > 0
            /\ \A n \in AssetsIn(accountAssets[u]) :
                  markets'[n].accountTokens[u] = 0 /\ markets'[n].principal[u] = 0

GoodStep == IInv' /\ FreshMoves /\ FrozenOnes /\ WriteOffs

OnlyMarketsMove == UNCHANGED <<block, membership, accountAssets, price, listed, parameters, paused, delegates>>

\* A step that leaves every market in order, and takes no new debt.
LEMMA LoansStep ==
    ASSUME IInv, OnlyMarketsMove, markets' \in [Markets -> Market], WriteOffs,
           \A m \in Markets :
              /\ Sound(markets'[m])
              /\ markets'[m].accrualBlockNumber \in {markets[m].accrualBlockNumber, block}
              /\ \A u \in Users : markets'[m].principal[u] # 0 => markets[m].principal[u] # 0
              /\ markets'[m].principal # markets[m].principal => markets'[m].accrualBlockNumber = block,
           \A m \in Markets \ listed : Kept(markets[m], markets'[m])
    PROVE  GoodStep
<1>1. MarketsSound'
  BY DEF IInv, MarketsSound, SettingsTyped, OnlyMarketsMove
<1>2. SettingsTyped' /\ ListsTyped' /\ AccountAssetsMatchMembership'
  BY DEF IInv, SettingsTyped, ListsTyped, AccountAssetsMatchMembership, InList, OnlyMarketsMove
<1>3. DebtImpliesMembership'
  <2> SUFFICES ASSUME NEW m \in Markets, NEW u \in Users, markets'[m].principal[u] > 0
               PROVE  u \in membership[m]
    BY DEF DebtImpliesMembership, OnlyMarketsMove
  <2>1. markets[m].principal[u] # 0
    OBVIOUS
  <2>2. markets[m].principal[u] \in Nat
    BY DEF IInv, MarketsSound, Market
  <2> QED BY <2>1, <2>2 DEF IInv, DebtImpliesMembership
<1>4. FreshMoves
  BY DEF FreshMoves, Fresh
<1>5. FrozenOnes
  BY DEF FrozenOnes, Kept, OnlyMarketsMove
<1> QED BY <1>1, <1>2, <1>3, <1>4, <1>5 DEF GoodStep, IInv

\* The same for a step in which no bad debt is recognised.
LEMMA CalmStep ==
    ASSUME IInv, OnlyMarketsMove, DOMAIN markets' = Markets, markets' = [m \in Markets |-> markets'[m]],
           \A m \in Markets : Calm(markets[m], markets'[m], block),
           \A m \in Markets \ listed : Kept(markets[m], markets'[m])
    PROVE  GoodStep
<1>1. markets' \in [Markets -> Market]
  BY DEF Calm, Sound, MarketInv
<1>2. WriteOffs
  <2>1. \A m \in Markets : markets'[m].badDebt = markets[m].badDebt /\ markets[m].badDebt \in Nat
    BY DEF Calm, IInv, MarketsSound, Market
  <2> QED BY <2>1 DEF WriteOffs
<1>3. \A m \in Markets :
              /\ Sound(markets'[m])
              /\ markets'[m].accrualBlockNumber \in {markets[m].accrualBlockNumber, block}
              /\ \A u \in Users : markets'[m].principal[u] # 0 => markets[m].principal[u] # 0
              /\ markets'[m].principal # markets[m].principal => markets'[m].accrualBlockNumber = block
  BY Zenon DEF Calm
<1> QED BY <1>1, <1>2, <1>3, LoansStep

-----------------------------------------------------------------------------
(* Accruing interest *)

\* The accrued markets: those of S are fresh, and nobody's balance moved.
AccruedAll(ks, S) ==
    /\ ks \in [Markets -> Market]
    /\ \A m \in Markets : Calm(markets[m], ks[m], block) /\ Kept(markets[m], ks[m])
    /\ \A m \in S : ks[m].accrualBlockNumber = block /\ ks[m] = AccrueInterest(markets[m], block)
    /\ \A m \in Markets \ S : ks[m] = markets[m]

LEMMA AccrueInAll ==
    ASSUME IInv, NEW S \in SUBSET Markets, CanAccrueIn(S)
    PROVE  AccruedAll(AccrueIn(S), S)
<1>1. ASSUME NEW m \in S
      PROVE  /\ Calm(markets[m], AccrueInterest(markets[m], block), block)
             /\ Kept(markets[m], AccrueInterest(markets[m], block))
             /\ AccrueInterest(markets[m], block).accrualBlockNumber = block
  <2>1. /\ Sound(markets[m]) /\ markets[m].accrualBlockNumber <= block /\ block \in Nat
        /\ CanAccrue(markets[m], block)
    BY DEF IInv, MarketsSound, SettingsTyped, CanAccrueIn
  <2> QED BY <2>1, AccrueCalm
<1>2. ASSUME NEW m \in Markets
      PROVE  Calm(markets[m], markets[m], block) /\ Kept(markets[m], markets[m])
  BY CalmRefl DEF IInv, MarketsSound, Kept
<1> DEFINE ks == AccrueIn(S)
<1>3. ks = [m \in Markets |-> IF m \in S THEN AccrueInterest(markets[m], block) ELSE markets[m]]
  BY DEF AccrueIn
<1> HIDE DEF ks
<1>4. \A m \in Markets : Calm(markets[m], ks[m], block) /\ Kept(markets[m], ks[m])
  BY <1>1, <1>2, <1>3
<1>5. ks \in [Markets -> Market]
  <2>1. \A m \in Markets : ks[m] \in Market
    BY <1>4 DEF Calm, Sound, MarketInv
  <2> QED BY <1>3, <2>1
<1>6. \A m \in S : ks[m].accrualBlockNumber = block /\ ks[m] = AccrueInterest(markets[m], block)
  BY <1>1, <1>3
<1>7. \A m \in Markets \ S : ks[m] = markets[m]
  BY <1>3
<1> QED BY <1>4, <1>5, <1>6, <1>7 DEF AccruedAll, ks

LEMMA AccruedOne ==
    ASSUME IInv, NEW m \in Markets, CanAccrueIn({m})
    PROVE  AccruedAll(Accrued(m), {m})
<1>1. Accrued(m) = AccrueIn({m})
  BY DEF Accrued, AccrueIn, IInv, MarketsSound
<1> QED BY <1>1, AccrueInAll

LEMMA AccruedTwo ==
    ASSUME IInv, NEW order \in Orders, CanAccrueIn({order.debt, order.collateral})
    PROVE  AccruedAll(AccruedFor(order), {order.debt, order.collateral})
<1>1. order.debt \in Markets /\ order.collateral \in Markets
  BY DEF Orders
<1>2. AccruedFor(order) = AccrueIn({order.debt, order.collateral})
  <2> DEFINE d == order.debt
             c == order.collateral
             ks == Accrued(d)
  <2>1. ks \in [Markets -> Market] /\ ks[d].accrualBlockNumber = block
    <3>1. CanAccrueIn({d})
      BY DEF CanAccrueIn
    <3> QED BY <1>1, <3>1, AccruedOne DEF AccruedAll
  <2>2. ks = [m \in Markets |-> IF m = d THEN AccrueInterest(markets[m], block) ELSE markets[m]]
    BY <1>1 DEF Accrued, IInv, MarketsSound
  <2>3. AccrueInterest(ks[d], block) = ks[d]
    BY <2>1 DEF AccrueInterest
  <2> HIDE DEF ks
  <2>4. [ks EXCEPT ![c] = AccrueInterest(@, block)]
          = [m \in Markets |-> IF m \in {d, c} THEN AccrueInterest(markets[m], block) ELSE markets[m]]
    BY <1>1, <2>1, <2>2, <2>3
  <2> QED BY <2>4 DEF AccruedFor, AccrueIn, ks
<1> QED BY <1>1, <1>2, AccrueInAll

\* One listed market is accrued and handled.
LEMMA OneMarketStep ==
    ASSUME IInv, OnlyMarketsMove, NEW m \in listed, CanAccrueIn({m}),
           NEW new, Calm(Accrued(m)[m], new, block), markets' = [Accrued(m) EXCEPT ![m] = new]
    PROVE  GoodStep
<1>1. m \in Markets
  BY DEF IInv, SettingsTyped
<1>2. AccruedAll(Accrued(m), {m})
  BY <1>1, AccruedOne
<1> DEFINE ks == Accrued(m)
<1>3. ks \in [Markets -> Market] /\ \A n \in Markets : Calm(markets[n], ks[n], block) /\ Kept(markets[n], ks[n])
  BY <1>2 DEF AccruedAll
<1> HIDE DEF ks
<1>4. Calm(markets[m], new, block)
  BY <1>1, <1>3, CalmTrans DEF ks
<1>5. /\ markets' = [n \in Markets |-> IF n = m THEN new ELSE ks[n]]
      /\ DOMAIN markets' = Markets /\ markets' = [n \in Markets |-> markets'[n]]
  BY <1>1, <1>3 DEF ks
<1>6. \A n \in Markets : Calm(markets[n], markets'[n], block)
  BY <1>3, <1>4, <1>5
<1>7. \A n \in Markets \ listed : Kept(markets[n], markets'[n])
  BY <1>3, <1>5
<1> QED BY <1>5, <1>6, <1>7, CalmStep

\* What is known of the market that is handled.
LEMMA AccruedHere ==
    ASSUME IInv, NEW m \in Markets, CanAccrueIn({m})
    PROVE  Sound(Accrued(m)[m]) /\ Accrued(m)[m].accrualBlockNumber = block
BY AccruedOne DEF AccruedAll, Calm

-----------------------------------------------------------------------------
(* Transactions of accounts *)

LEMMA InputsNat ==
    ASSUME NEW m \in Markets
    PROVE  /\ MintAmounts[m] \subseteq Nat /\ BorrowAmounts[m] \subseteq Nat
           /\ RepayAmounts[m] \subseteq Nat /\ TokenAmounts[m] \subseteq Nat /\ Prices[m] \subseteq Nat
BY IsolatedPoolAssumption

LEMMA AccrueStep ==
    ASSUME IInv, NEW m \in Markets, Accrue(m)
    PROVE  GoodStep
<1>1. AccruedAll(markets', {m}) /\ OnlyMarketsMove
  BY AccruedOne DEF Accrue, poolVars, OnlyMarketsMove
<1>2. DOMAIN markets' = Markets /\ markets' = [n \in Markets |-> markets'[n]]
  BY <1>1 DEF AccruedAll
<1> QED BY <1>1, <1>2, CalmStep DEF AccruedAll

LEMMA MintStep ==
    ASSUME IInv, NEW u \in Users, NEW m \in Markets, NEW amount \in MintAmounts[m], Mint(u, m, amount)
    PROVE  GoodStep
<1> DEFINE k == Accrued(m)[m]
<1>1. /\ m \in listed /\ CanAccrueIn({m}) /\ CanMint(k) /\ OnlyMarketsMove
      /\ markets' = [Accrued(m) EXCEPT ![m] = MintFresh(k, u, amount)]
  BY DEF Mint, PreMint, poolVars, OnlyMarketsMove
<1>2. Sound(k) /\ amount \in Nat
  BY <1>1, AccruedHere, InputsNat
<1>3. Calm(k, MintFresh(k, u, amount), block)
  <2> HIDE DEF k
  <2> QED BY <1>1, <1>2, MintCalm
<1> QED BY <1>1, <1>3, OneMarketStep

LEMMA RedeemStep ==
    ASSUME IInv, NEW sender, NEW u \in Users, NEW m \in Markets, NEW tokens \in TokenAmounts[m],
           Redeem(sender, u, m, tokens)
    PROVE  GoodStep
<1> DEFINE k == Accrued(m)[m]
<1>1. /\ m \in listed /\ CanAccrueIn({m}) /\ CanRedeem(k, u, tokens, 0) /\ OnlyMarketsMove
      /\ markets' = [Accrued(m) EXCEPT ![m] = RedeemFresh(k, u, tokens, 0)]
  BY DEF Redeem, CheckRedeemAllowed, poolVars, OnlyMarketsMove
<1>2. Sound(k) /\ tokens \in Nat
  BY <1>1, AccruedHere, InputsNat
<1>3. Calm(k, RedeemFresh(k, u, tokens, 0), block)
  <2> HIDE DEF k
  <2> QED BY <1>1, <1>2, RedeemCalm
<1> QED BY <1>1, <1>3, OneMarketStep

LEMMA RepayStep ==
    ASSUME IInv, NEW u \in Users, NEW m \in Markets, NEW amount \in RepayAmounts[m],
           RepayBorrow(u, m, amount)
    PROVE  GoodStep
<1> DEFINE k == Accrued(m)[m]
<1>1. /\ m \in listed /\ CanAccrueIn({m}) /\ CanRepay(k, u, amount) /\ OnlyMarketsMove
      /\ markets' = [Accrued(m) EXCEPT ![m] = RepayBorrowFresh(k, u, amount)]
  BY DEF RepayBorrow, PreRepay, poolVars, OnlyMarketsMove
<1>2. Sound(k) /\ amount \in Nat /\ k.accrualBlockNumber = block
  BY <1>1, AccruedHere, InputsNat
<1>3. Calm(k, RepayBorrowFresh(k, u, amount), block)
  <2> HIDE DEF k
  <2> QED BY <1>1, <1>2, RepayCalm
<1> QED BY <1>1, <1>3, OneMarketStep

LEMMA TransferStep ==
    ASSUME IInv, NEW u \in Users, NEW v \in Users, NEW m \in Markets, NEW tokens \in TokenAmounts[m],
           Transfer(u, v, m, tokens)
    PROVE  GoodStep
<1> DEFINE new == TransferTokens(markets[m], u, v, tokens)
<1>1. /\ m \in listed /\ CanTransfer(markets[m], u, v, tokens) /\ OnlyMarketsMove
      /\ markets' = [markets EXCEPT ![m] = new]
  BY DEF Transfer, PreTransfer, CheckRedeemAllowed, poolVars, OnlyMarketsMove
<1>2. tokens \in Nat /\ markets \in [Markets -> Market] /\ \A n \in Markets : Sound(markets[n])
  BY InputsNat DEF IInv, MarketsSound
<1>3. Calm(markets[m], new, block)
  BY <1>1, <1>2, TransferCalm
<1> HIDE DEF new
<1>4. /\ markets' = [n \in Markets |-> IF n = m THEN new ELSE markets[n]]
      /\ DOMAIN markets' = Markets /\ markets' = [n \in Markets |-> markets'[n]]
  BY <1>1, <1>2
<1>5. \A n \in Markets : Calm(markets[n], markets'[n], block)
  BY <1>2, <1>3, <1>4, CalmRefl
<1>6. \A n \in Markets \ listed : Kept(markets[n], markets'[n])
  BY <1>1, <1>4 DEF Kept
<1> QED BY <1>1, <1>4, <1>5, <1>6, CalmStep

-----------------------------------------------------------------------------
(* Liquidations *)

\* Sound markets, those called fresh, after handlers that touched listed ones only.
InCall(ks, called) ==
    /\ ks \in [Markets -> Market]
    /\ \A m \in Markets : Calm(markets[m], ks[m], block)
    /\ \A m \in Markets \ listed : Kept(markets[m], ks[m])
    /\ \A m \in called : ks[m].accrualBlockNumber = block

LEMMA SeizeTokensNat ==
    ASSUME IInv, NEW k, Sound(k), NEW d \in Markets, NEW c \in Markets, SeizePrice(k, c) # 0,
           NEW repaid \in Nat
    PROVE  SeizeTokens(k, d, c, repaid) \in Nat
<1>1. /\ parameters.liquidationIncentive \in Nat /\ price[d] \in Nat /\ price[c] \in Nat
  BY DEF IInv, SettingsTyped, Parameters
<1>2. SeizePrice(k, c) \in Nat
  BY <1>1, ExchangeRate, TruncatedNat DEF Sound, SeizePrice
<1>3. DivExp(MulExp(parameters.liquidationIncentive, price[d]), SeizePrice(k, c)) \in Nat
  BY <1>1, <1>2, TruncatedNat, DivExpNat
<1> QED BY <1>3, TruncatedNat DEF SeizeTokens

\* One order keeps the markets in order.
LEMMA OrderCalm ==
    ASSUME IInv, NEW order \in Orders, NEW called \in SUBSET Markets,
           {order.debt, order.collateral} \subseteq called,
           NEW ks, InCall(ks, called), NEW liquidator \in Users, NEW u \in Users, NEW skip,
           CanLiquidate(ks, liquidator, u, order, skip)
    PROVE  InCall(Liquidated(ks, liquidator, u, order), called)
<1> DEFINE d == order.debt
           c == order.collateral
           mid == Repaid(ks, u, order)
           t == Seized(ks, u, order)
           incentive == parameters.liquidationIncentive
           paidUp == RepayBorrowFresh(ks[d], u, order.amount)
           seized == Seize(mid[c], liquidator, u, t, incentive)
           new == Liquidated(ks, liquidator, u, order)
<1>1. d \in Markets /\ c \in Markets /\ order.amount \in Nat
  BY InputsNat DEF Orders
<1>2. /\ d \in listed /\ c \in listed /\ CanRepay(ks[d], u, order.amount)
      /\ SeizePrice(mid[c], c) # 0 /\ CanSeize(mid[c], liquidator, u, t, incentive)
  BY DEF CanLiquidate, PreLiquidate
<1>3. /\ ks \in [Markets -> Market] /\ \A m \in Markets : Sound(ks[m])
      /\ ks[d].accrualBlockNumber = block /\ ks[c].accrualBlockNumber = block
  BY DEF InCall, Calm
<1>4. mid = [ks EXCEPT ![d] = paidUp] /\ new = [mid EXCEPT ![c] = seized]
  BY DEF Repaid, Liquidated
<1>5. t = SeizeTokens(mid[c], d, c, RepayFinal(ks[d], u, order.amount))
  BY DEF Seized
<1>6. Calm(ks[d], paidUp, block)
  BY <1>1, <1>2, <1>3, RepayCalm
<1>7. RepayFinal(ks[d], u, order.amount) \in Nat
  BY <1>1, <1>3, BorrowBalance DEF RepayFinal, Sound
<1> HIDE DEF mid, paidUp, new, t, incentive
<1>8. \A m \in Markets : Calm(ks[m], mid[m], block)
  BY <1>1, <1>3, <1>4, <1>6, CalmRefl
<1>9. t \in Nat
  BY <1>1, <1>2, <1>5, <1>7, <1>8, SeizeTokensNat DEF Calm
<1>10. incentive \in Nat \ {0}
  BY DEF IInv, SettingsTyped, Parameters, incentive
<1>11. Calm(mid[c], seized, block)
  BY <1>1, <1>2, <1>8, <1>9, <1>10, SeizeCalm, SMTT(40) DEF Calm
<1> HIDE DEF seized
<1>12. new = [m \in Markets |-> IF m = c THEN seized ELSE IF m = d THEN paidUp ELSE ks[m]]
  BY <1>1, <1>3, <1>4
<1>13. \A m \in Markets : Calm(mid[m], new[m], block)
  BY <1>1, <1>3, <1>4, <1>8, <1>11, CalmRefl DEF Calm
<1>14. \A m \in Markets : Calm(ks[m], new[m], block)
  BY <1>8, <1>13, CalmTrans
<1>15. \A m \in Markets : Calm(markets[m], new[m], block)
  BY <1>14, CalmTrans DEF InCall
<1>16. new \in [Markets -> Market]
  <2>1. \A m \in Markets : new[m] \in Market
    BY <1>15 DEF Calm, Sound, MarketInv
  <2> QED BY <1>12, <2>1
<1>17. \A m \in Markets \ listed : Kept(markets[m], new[m])
  BY <1>2, <1>12 DEF InCall
<1>18. \A m \in called : new[m].accrualBlockNumber = block
  BY <1>14 DEF Calm, InCall
<1> QED BY <1>15, <1>16, <1>17, <1>18 DEF InCall, new

\* A step that ends with such markets is a good one.
LEMMA InCallStep ==
    ASSUME IInv, OnlyMarketsMove, NEW called, InCall(markets', called)
    PROVE  GoodStep
<1>1. DOMAIN markets' = Markets /\ markets' = [m \in Markets |-> markets'[m]]
  BY DEF InCall
<1> QED BY <1>1, CalmStep DEF InCall

LEMMA AccruedInCall ==
    ASSUME NEW ks, NEW called, AccruedAll(ks, called)
    PROVE  InCall(ks, called)
BY DEF AccruedAll, InCall

LEMMA LiquidateBorrowStep ==
    ASSUME IInv, NEW liquidator \in Users, NEW u \in Users, NEW order \in Orders,
           LiquidateBorrow(liquidator, u, order)
    PROVE  GoodStep
<1> DEFINE ks == AccruedFor(order)
           called == {order.debt, order.collateral}
<1>1. /\ CanAccrueIn(called) /\ CanLiquidate(ks, liquidator, u, order, FALSE)
      /\ markets' = Liquidated(ks, liquidator, u, order) /\ OnlyMarketsMove
  BY DEF LiquidateBorrow, poolVars, OnlyMarketsMove
<1>2. called \in SUBSET Markets
  BY DEF Orders
<1>3. InCall(ks, called)
  BY <1>1, AccruedTwo, AccruedInCall
<1> HIDE DEF ks
<1>4. InCall(markets', called)
  BY <1>1, <1>2, <1>3, OrderCalm
<1> QED BY <1>1, <1>4, InCallStep

\* The equation of FillOrders for the first k orders.
IsFill(f, ks, liquidator, u, orders, k) ==
    f = [i \in 0..k |-> IF i = 0 THEN ks ELSE Liquidated(f[i - 1], liquidator, u, orders[i])]

LEMMA FillExists ==
    ASSUME NEW n \in Nat, NEW ks, NEW liquidator, NEW u, NEW orders
    PROVE  \E f : IsFill(f, ks, liquidator, u, orders, n)
<1> DEFINE S == {k \in 0..n : \E f : IsFill(f, ks, liquidator, u, orders, k)}
<1>1. 0 \in S
  <2> DEFINE z == [i \in 0..0 |-> ks]
  <2>1. IsFill(z, ks, liquidator, u, orders, 0)
    BY DEF IsFill
  <2> QED BY <2>1
<1>2. ASSUME NEW m \in 1..n, m - 1 \in S PROVE m \in S
  <2>1. PICK s : IsFill(s, ks, liquidator, u, orders, m - 1)
    BY <1>2
  <2> DEFINE t == [i \in 0..m |-> IF i = m THEN Liquidated(s[m - 1], liquidator, u, orders[m]) ELSE s[i]]
  <2>2. ASSUME NEW i \in 0..m
        PROVE  t[i] = IF i = 0 THEN ks ELSE Liquidated(t[i - 1], liquidator, u, orders[i])
    BY <2>1, <2>2 DEF IsFill
  <2>3. IsFill(t, ks, liquidator, u, orders, m)
    BY <2>2 DEF IsFill
  <2> QED BY <2>3
<1>3. S = 0..n
  BY <1>1, <1>2, InductiveInterval
<1> QED BY <1>3

\* FillOrders starts from ks and fills one order after the other.
LEMMA FillOrdersDef ==
    ASSUME NEW n \in Nat, NEW T, NEW orders \in [1..n -> T], NEW ks, NEW liquidator, NEW u
    PROVE  /\ FillOrders(ks, liquidator, u, orders)[0] = ks
           /\ \A i \in 1..n : FillOrders(ks, liquidator, u, orders)[i]
                = Liquidated(FillOrders(ks, liquidator, u, orders)[i - 1], liquidator, u, orders[i])
<1> DEFINE after == FillOrders(ks, liquidator, u, orders)
<1>1. Len(orders) = n
  <2>1. Seq(T) = UNION {[1..k -> T] : k \in Nat}
    BY SeqDef, Zenon
  <2>2. orders \in UNION {[1..k -> T] : k \in Nat}
    BY Zenon
  <2>3. orders \in Seq(T)
    BY <2>1, <2>2, Zenon
  <2>4. Len(orders) \in Nat /\ 1..Len(orders) = 1..n
    BY <2>3, LenProperties
  <2>5. (n > 0 => n \in 1..Len(orders)) /\ (Len(orders) > 0 => Len(orders) \in 1..n)
    BY <2>4
  <2> QED BY <2>4, <2>5
<1>2. after = CHOOSE f : IsFill(f, ks, liquidator, u, orders, n)
  BY <1>1 DEF FillOrders, IsFill
<1>3. IsFill(after, ks, liquidator, u, orders, n)
  BY <1>2, FillExists, Zenon
<1> HIDE DEF after
<1>4. after[0] = ks
  BY <1>3 DEF IsFill
<1>5. \A i \in 1..n : after[i] = Liquidated(after[i - 1], liquidator, u, orders[i])
  BY <1>3 DEF IsFill
<1> QED BY <1>4, <1>5 DEF after

\* However many orders are filled.
LEMMA FillCalm ==
    ASSUME IInv, NEW n \in Nat, NEW orders \in [1..n -> Orders], NEW called \in SUBSET Markets,
           \A i \in 1..n : orders[i].debt \in called /\ orders[i].collateral \in called,
           NEW ks, InCall(ks, called), NEW liquidator \in Users, NEW u \in Users, NEW after,
           after[0] = ks,
           \A i \in 1..n : /\ after[i] = Liquidated(after[i - 1], liquidator, u, orders[i])
                           /\ CanLiquidate(after[i - 1], liquidator, u, orders[i], TRUE)
    PROVE  InCall(after[n], called)
<1> DEFINE S == {i \in 0..n : InCall(after[i], called)}
<1>1. 0 \in S
  OBVIOUS
<1>2. ASSUME NEW m \in 1..n, m - 1 \in S PROVE m \in S
  <2>1. /\ InCall(after[m - 1], called) /\ orders[m] \in Orders
        /\ {orders[m].debt, orders[m].collateral} \subseteq called
        /\ CanLiquidate(after[m - 1], liquidator, u, orders[m], TRUE)
        /\ after[m] = Liquidated(after[m - 1], liquidator, u, orders[m])
    BY <1>2
  <2>2. InCall(Liquidated(after[m - 1], liquidator, u, orders[m]), called)
    BY <2>1, OrderCalm, Zenon
  <2>3. InCall(after[m], called)
    BY <2>1, <2>2, Zenon
  <2> QED BY <2>3
<1>3. S = 0..n
  BY <1>1, <1>2, InductiveInterval
<1> QED BY <1>3

LEMMA LiquidateAccountStep ==
    ASSUME IInv, NEW liquidator \in Users, NEW u \in Users, LiquidateAccount(liquidator, u)
    PROVE  GoodStep
<1>1. OnlyMarketsMove
  BY DEF LiquidateAccount, poolVars, OnlyMarketsMove
<1>2. PICK n \in 1..MaxOrders : \E orders \in [1..n -> Orders] :
              LET called == {orders[i].debt : i \in 1..n} \cup {orders[i].collateral : i \in 1..n}
                  after  == FillOrders(AccrueIn(called), liquidator, u, orders)
              IN  /\ CanAccrueIn(called)
                  /\ \A i \in 1..n : CanLiquidate(after[i - 1], liquidator, u, orders[i], TRUE)
                  /\ markets' = after[n]
  BY DEF LiquidateAccount
<1>3. PICK orders \in [1..n -> Orders] :
              LET called == {orders[i].debt : i \in 1..n} \cup {orders[i].collateral : i \in 1..n}
                  after  == FillOrders(AccrueIn(called), liquidator, u, orders)
              IN  /\ CanAccrueIn(called)
                  /\ \A i \in 1..n : CanLiquidate(after[i - 1], liquidator, u, orders[i], TRUE)
                  /\ markets' = after[n]
  BY <1>2
<1> DEFINE called == {orders[i].debt : i \in 1..n} \cup {orders[i].collateral : i \in 1..n}
           ks == AccrueIn(called)
           after == FillOrders(ks, liquidator, u, orders)
<1>4. n \in Nat
  BY IsolatedPoolAssumption
<1>5. called \in SUBSET Markets /\ \A i \in 1..n : orders[i].debt \in called /\ orders[i].collateral \in called
  BY DEF Orders
<1>6. CanAccrueIn(called) /\ markets' = after[n]
      /\ \A i \in 1..n : CanLiquidate(after[i - 1], liquidator, u, orders[i], TRUE)
  BY <1>3
<1> HIDE DEF called
<1>7. InCall(ks, called)
  BY <1>5, <1>6, AccrueInAll, AccruedInCall
<1> HIDE DEF ks
<1>8. after[0] = ks /\ \A i \in 1..n : after[i] = Liquidated(after[i - 1], liquidator, u, orders[i])
  <2>1. n \in Nat /\ orders \in [1..n -> Orders]
    BY <1>4
  <2> HIDE DEF after
  <2>2. /\ FillOrders(ks, liquidator, u, orders)[0] = ks
        /\ \A i \in 1..n : FillOrders(ks, liquidator, u, orders)[i]
             = Liquidated(FillOrders(ks, liquidator, u, orders)[i - 1], liquidator, u, orders[i])
    BY <2>1, FillOrdersDef
  <2> QED BY <2>2, Zenon DEF after
<1> HIDE DEF after
<1>9. InCall(after[n], called)
  BY <1>4, <1>5, <1>6, <1>7, <1>8, FillCalm, ZenonT(60)
<1> QED BY <1>1, <1>6, <1>9, InCallStep

-----------------------------------------------------------------------------
(* What positions are worth *)

LEMMA SumOverNat ==
    ASSUME NEW S \in SUBSET Markets, NEW value \in [S -> Nat]
    PROVE  SumOver(S, value) \in Nat
<1> DEFINE f == [m \in Markets |-> IF m \in S THEN value[m] ELSE 0]
<1>1. f \in [1..NumMarkets -> Nat] /\ NumMarkets \in Nat
  BY IsolatedPoolAssumption DEF Markets
<1> HIDE DEF f
<1>2. Total(f, NumMarkets) \in Nat
  BY <1>1, TotalNat
<1> QED BY <1>2 DEF SumOver, f

LEMMA PositionNat ==
    ASSUME IInv, NEW S \in SUBSET Markets, NEW ks, \A m \in S : Sound(ks[m]), NEW u \in Users
    PROVE  /\ Position(ks, S, u).weightedCollateral \in Nat
           /\ Position(ks, S, u).totalCollateral \in Nat
           /\ Position(ks, S, u).borrows \in Nat
<1> DEFINE weight == parameters.liquidationThreshold
           weighted   == [m \in S |-> MulScalarTruncate(MulExp(weight[m], VTokenPrice(ks[m], m)),
                                                        ks[m].accountTokens[u])]
           collateral == [m \in S |-> MulScalarTruncate(VTokenPrice(ks[m], m), ks[m].accountTokens[u])]
           borrow     == [m \in S |-> MulScalarTruncate(price[m], BorrowBalanceStored(ks[m], u))]
<1>1. ASSUME NEW m \in S
      PROVE  /\ price[m] \in Nat /\ weight[m] \in Nat /\ ks[m].accountTokens[u] \in Nat
             /\ VTokenPrice(ks[m], m) \in Nat /\ BorrowBalanceStored(ks[m], u) \in Nat
  <2>1. /\ price[m] \in Nat /\ weight[m] \in Nat
    BY DEF IInv, SettingsTyped, Parameters
  <2>2. MarketInv(ks[m]) /\ ks[m].accountTokens[u] \in Nat
    BY DEF Sound, MarketInv, Market
  <2>3. ExchangeRateStored(ks[m]) \in Nat /\ BorrowBalanceStored(ks[m], u) \in Nat
    BY <2>2, ExchangeRate, BorrowBalance
  <2> QED BY <2>1, <2>2, <2>3, TruncatedNat DEF VTokenPrice
<1> HIDE DEF weight
<1>2. weighted \in [S -> Nat]
  BY <1>1, TruncatedNat
<1>3. collateral \in [S -> Nat]
  BY <1>1, TruncatedNat
<1>4. borrow \in [S -> Nat]
  BY <1>1, TruncatedNat
<1>5. /\ Position(ks, S, u).weightedCollateral = SumOver(S, weighted)
      /\ Position(ks, S, u).totalCollateral = SumOver(S, collateral)
      /\ Position(ks, S, u).borrows = SumOver(S, borrow)
  BY DEF Position, Snapshot, weight
<1> HIDE DEF weighted, collateral, borrow
<1> QED BY <1>2, <1>3, <1>4, <1>5, SumOverNat

LEMMA AssetsListed ==
    ASSUME IInv, NEW assets
    PROVE  AssetsIn(assets) \in SUBSET Markets /\ AssetsIn(assets) \subseteq listed
BY DEF AssetsIn, IInv, SettingsTyped

-----------------------------------------------------------------------------
(* healAccount *)

\* In a market that is healed nothing is left to the account and nothing is owed by it.
LEMMA HealedEffect ==
    ASSUME IInv, NEW k, Sound(k), NEW m \in Markets, NEW liquidator \in Users, NEW u \in Users,
           NEW percentage \in Nat, CanHealIn(k, m, liquidator, u, percentage)
    PROVE  /\ Sound(Healed(k, liquidator, u, percentage))
           /\ Healed(k, liquidator, u, percentage).accrualBlockNumber = k.accrualBlockNumber
           /\ \A w \in Users : Healed(k, liquidator, u, percentage).principal[w] # 0 => k.principal[w] # 0
           /\ Healed(k, liquidator, u, percentage).principal[u] = 0
           /\ Healed(k, liquidator, u, percentage).accountTokens[u] = 0
           /\ Healed(k, liquidator, u, percentage).badDebt # k.badDebt => k.principal[u] # 0
<1> DEFINE mid == AllSeized(k, liquidator, u)
           owed == BorrowBalanceStored(k, u)
           repaid == MulScalarTruncate(percentage, owed)
           incentive == parameters.liquidationIncentive
           new == Healed(k, liquidator, u, percentage)
<1>1. /\ k.accountTokens[u] \in Nat /\ k.principal \in [Users -> Nat] /\ owed \in Nat
      /\ owed = 0 <=> k.principal[u] = 0
      /\ incentive \in Nat \ {0}
  BY BorrowBalance, NothingOwed DEF Sound, MarketInv, Market, IInv, SettingsTyped, Parameters
<1>2. repaid \in Nat
  BY <1>1, TruncatedNat
<1>3. /\ Sound(mid) /\ mid.accrualBlockNumber = k.accrualBlockNumber /\ mid.badDebt = k.badDebt
      /\ mid.principal = k.principal /\ mid.accountTokens[u] = 0
  <2>1. CASE k.accountTokens[u] = 0
    BY <2>1 DEF AllSeized
  <2>2. CASE k.accountTokens[u] # 0
    <3> DEFINE t == k.accountTokens[u]
               seized == Seize(k, liquidator, u, t, incentive)
    <3>1. mid = seized
      BY <2>2 DEF AllSeized
    <3>2. CanSeize(k, liquidator, u, t, incentive)
      BY <2>2 DEF CanHealIn
    <3>3. t = k.accountTokens[u]
      OBVIOUS
    <3>4. t \in Nat
      BY <1>1
    <3>5. incentive \in Nat \ {0}
      BY <1>1
    <3> HIDE DEF incentive, mid, t
    <3>6. /\ Calm(k, seized, 0) /\ seized.principal = k.principal
          /\ seized.accrualBlockNumber = k.accrualBlockNumber /\ seized.accountTokens[u] = 0
      BY <3>2, <3>3, <3>4, <3>5, SeizeCalm
    <3> HIDE DEF seized
    <3> QED BY <3>1, <3>6 DEF Calm
  <2> QED BY <2>1, <2>2
<1>4. CASE owed = 0
  <2>1. new = mid
    BY <1>4 DEF Healed
  <2> HIDE DEF mid, new, owed
  <2> QED BY <1>1, <1>3, <1>4, <2>1 DEF new
<1>5. CASE owed # 0
  <2>1. new = HealBorrow(mid, u, repaid) /\ CanHealBorrow(mid, u, repaid)
    BY <1>5 DEF Healed, CanHealIn
  <2> HIDE DEF mid, new, owed, repaid
  <2>2. /\ Sound(new) /\ new.accrualBlockNumber = mid.accrualBlockNumber
        /\ new.accountTokens = mid.accountTokens
        /\ new.principal = [mid.principal EXCEPT ![u] = 0]
    BY <1>2, <1>3, <2>1, HealEffect
  <2> QED BY <1>1, <1>3, <1>5, <2>2 DEF new
<1> QED BY <1>4, <1>5

LEMMA HealAccountStep ==
    ASSUME IInv, NEW liquidator \in Users, NEW u \in Users, HealAccount(liquidator, u)
    PROVE  GoodStep
<1> DEFINE assets     == AssetsIn(accountAssets[u])
           ks         == AccrueIn(assets)
           position   == Position(ks, assets, u)
           percentage == HealPercentage(position)
<1>1. /\ CanAccrueIn(assets) /\ Healable(position) /\ OnlyMarketsMove
      /\ \A m \in assets : CanHealIn(ks[m], m, liquidator, u, percentage)
      /\ markets' = [m \in Markets |-> IF m \in assets THEN Healed(ks[m], liquidator, u, percentage) ELSE ks[m]]
  BY DEF HealAccount, poolVars, OnlyMarketsMove
<1>2. assets \in SUBSET Markets /\ assets \subseteq listed
  BY AssetsListed
<1> HIDE DEF assets
<1>3. AccruedAll(ks, assets)
  BY <1>1, <1>2, AccrueInAll
<1> HIDE DEF ks
<1>4. \A m \in Markets : Sound(ks[m])
  BY <1>3 DEF AccruedAll, Calm
<1>5. percentage \in Nat
  <2>1. position.totalCollateral \in Nat /\ position.borrows \in Nat
    BY <1>2, <1>4, PositionNat
  <2>2. parameters.liquidationIncentive \in Nat
    BY DEF IInv, SettingsTyped, Parameters
  <2>3. MulExp(position.borrows, parameters.liquidationIncentive) \in Nat \ {0}
    BY <1>1, <2>1, <2>2, TruncatedNat DEF Healable
  <2> HIDE DEF position
  <2> QED BY <2>1, <2>3, DivExpNat DEF HealPercentage
<1> HIDE DEF percentage, position
<1> DEFINE new(m) == Healed(ks[m], liquidator, u, percentage)
<1>6. \A m \in assets :
          /\ Sound(new(m)) /\ new(m).accrualBlockNumber = block
          /\ \A w \in Users : new(m).principal[w] # 0 => ks[m].principal[w] # 0
          /\ new(m).principal[u] = 0 /\ new(m).accountTokens[u] = 0
          /\ new(m).badDebt # ks[m].badDebt => ks[m].principal[u] # 0
  BY <1>1, <1>2, <1>3, <1>4, <1>5, HealedEffect DEF AccruedAll
<1>7. \A m \in assets : markets'[m] = new(m)
  BY <1>1, <1>2
<1>8. \A m \in Markets \ assets : markets'[m] = markets[m]
  BY <1>1, <1>3 DEF AccruedAll
<1> HIDE DEF new
<1>9. \A m \in Markets :
          /\ Sound(markets[m]) /\ ks[m].badDebt = markets[m].badDebt
          /\ \A w \in Users : ks[m].principal[w] # 0 => markets[m].principal[w] # 0
  BY <1>3 DEF AccruedAll, Calm, IInv, MarketsSound
<1>10. \A m \in Markets :
          /\ Sound(markets'[m])
          /\ markets'[m].accrualBlockNumber \in {markets[m].accrualBlockNumber, block}
          /\ \A w \in Users : markets'[m].principal[w] # 0 => markets[m].principal[w] # 0
          /\ markets'[m].principal # markets[m].principal => markets'[m].accrualBlockNumber = block
  BY <1>6, <1>7, <1>8, <1>9
<1>11. markets' \in [Markets -> Market]
  <2>1. \A m \in Markets : markets'[m] \in Market
    BY <1>10 DEF Sound, MarketInv
  <2>2. DOMAIN markets' = Markets /\ markets' = [m \in Markets |-> markets'[m]]
    BY <1>1
  <2> QED BY <2>1, <2>2
<1>12. \A m \in Markets \ listed : Kept(markets[m], markets'[m])
  BY <1>2, <1>8 DEF Kept
<1>13. WriteOffs
  <2> SUFFICES ASSUME NEW m \in Markets, markets'[m].badDebt > markets[m].badDebt
               PROVE  /\ markets[m].principal[u] > 0
                      /\ \A n \in assets : markets'[n].accountTokens[u] = 0 /\ markets'[n].principal[u] = 0
    BY DEF WriteOffs, assets
  <2>1. markets[m].principal[u] \in Nat /\ markets[m].badDebt \in Nat
    BY DEF IInv, MarketsSound, Market
  <2>2. markets'[m].badDebt # markets[m].badDebt
    BY <2>1
  <2>3. m \in assets
    BY <1>8, <2>2
  <2>4. markets[m].principal[u] # 0
    BY <1>6, <1>7, <1>9, <2>2, <2>3
  <2>5. \A n \in assets : markets'[n].accountTokens[u] = 0 /\ markets'[n].principal[u] = 0
    BY <1>6, <1>7
  <2> QED BY <2>1, <2>4, <2>5
<1> QED BY <1>1, <1>10, <1>11, <1>12, <1>13, LoansStep

-----------------------------------------------------------------------------
(* The list of markets an account is in *)

\* A list of the markets of M, without repetitions.
Lists(assets, M) ==
    /\ assets \in Seq(Markets)
    /\ \A i, j \in DOMAIN assets : assets[i] = assets[j] => i = j
    /\ \A m \in Markets : InList(assets, m) <=> m \in M

LEMMA AppendLists ==
    ASSUME NEW M, NEW assets, Lists(assets, M), NEW m \in Markets \ M
    PROVE  Lists(Append(assets, m), M \cup {m})
<1> DEFINE n == Len(assets)
           new == Append(assets, m)
<1>1. /\ assets \in Seq(Markets) /\ n \in Nat /\ DOMAIN assets = 1..n
      /\ \A i \in 1..n : assets[i] \in Markets
  BY DEF Lists
<1>2. /\ new \in Seq(Markets) /\ Len(new) = n + 1 /\ DOMAIN new = 1..(n + 1)
      /\ \A i \in 1..n : new[i] = assets[i]
      /\ new[n + 1] = m
  BY <1>1, AppendProperties
<1>3. \A i \in 1..n : assets[i] # m
  BY <1>1 DEF Lists, InList
<1> HIDE DEF n, new
<1>4. \A i, j \in 1..(n + 1) : new[i] = new[j] => i = j
  <2> SUFFICES ASSUME NEW i \in 1..(n + 1), NEW j \in 1..(n + 1), new[i] = new[j] PROVE i = j
    OBVIOUS
  <2>1. CASE i \in 1..n /\ j \in 1..n
    BY <1>1, <1>2, <2>1 DEF Lists
  <2>2. CASE i = n + 1 /\ j \in 1..n
    BY <1>2, <1>3, <2>2
  <2>3. CASE i \in 1..n /\ j = n + 1
    BY <1>2, <1>3, <2>3
  <2>4. CASE i = n + 1 /\ j = n + 1
    BY <2>4
  <2> QED BY <1>1, <2>1, <2>2, <2>3, <2>4
<1>5. ASSUME NEW k \in Markets PROVE InList(new, k) <=> k \in M \cup {m}
  <2>1. CASE k = m
    <3>1. n + 1 \in 1..(n + 1)
      BY <1>1
    <3> QED BY <1>2, <2>1, <3>1 DEF InList
  <2>2. CASE k # m
    <3>1. InList(new, k) <=> InList(assets, k)
      BY <1>1, <1>2, <2>2 DEF InList
    <3> QED BY <2>2, <3>1 DEF Lists
  <2> QED BY <2>1, <2>2
<1> QED BY <1>2, <1>4, <1>5 DEF Lists, new

\* Swapping the last item into the place of the removed one loses nothing else.
LEMMA SwapAndPopLists ==
    ASSUME NEW M, NEW assets, Lists(assets, M), NEW m \in M, m \in Markets
    PROVE  Lists(SwapAndPop(assets, m), M \ {m})
<1> DEFINE n == Len(assets)
           at == CHOOSE i \in DOMAIN assets : assets[i] = m /\ \A j \in 1..(i - 1) : assets[j] # m
           swapped == [assets EXCEPT ![at] = assets[n]]
           new == SubSeq(swapped, 1, n - 1)
<1>0. SwapAndPop(assets, m) = new
  BY DEF SwapAndPop
<1>1. /\ assets \in Seq(Markets) /\ n \in Nat /\ DOMAIN assets = 1..n
      /\ \A i \in 1..n : assets[i] \in Markets
      /\ \A i, j \in 1..n : assets[i] = assets[j] => i = j
  BY DEF Lists
<1>2. at \in 1..n /\ assets[at] = m
  <2>1. PICK i \in 1..n : assets[i] = m
    BY <1>1 DEF Lists, InList
  <2>2. \A j \in 1..(i - 1) : assets[j] # m
    BY <1>1, <2>1
  <2> QED BY <1>1, <2>1, <2>2
<1> HIDE DEF at
<1>3. /\ \A i \in 1..n : swapped[i] = IF i = at THEN assets[n] ELSE assets[i]
      /\ n \in 1..n
  BY <1>1, <1>2
<1> HIDE DEF swapped
<1>4. /\ new \in Seq(Markets) /\ Len(new) = n - 1 /\ DOMAIN new = 1..(n - 1)
      /\ \A i \in 1..(n - 1) : new[i] = swapped[i]
  <2>1. \A i \in 1..(n - 1) : swapped[i] \in Markets
    BY <1>1, <1>3
  <2>2. /\ new \in Seq(Markets) /\ Len(new) = IF 1 <= n - 1 THEN (n - 1) - 1 + 1 ELSE 0
        /\ \A i \in 1..((n - 1) - 1 + 1) : new[i] = swapped[1 + i - 1]
    <3>1. 1 \in Int /\ n - 1 \in Int
      BY <1>1
    <3> HIDE DEF n
    <3> QED BY <2>1, <3>1, SubSeqProperties
  <2> HIDE DEF new, n
  <2> QED BY <1>1, <1>3, <2>2
<1> HIDE DEF new, n
<1>5. \A i \in 1..(n - 1) : new[i] = IF i = at THEN assets[n] ELSE assets[i]
  BY <1>1, <1>3, <1>4
<1>6. \A i, j \in 1..(n - 1) : new[i] = new[j] => i = j
  <2> SUFFICES ASSUME NEW i \in 1..(n - 1), NEW j \in 1..(n - 1), new[i] = new[j] PROVE i = j
    OBVIOUS
  <2>1. i \in 1..n /\ j \in 1..n /\ i # n /\ j # n
    BY <1>1
  <2>2. CASE i = at /\ j # at
    BY <1>1, <1>3, <1>5, <2>1, <2>2
  <2>3. CASE i # at /\ j = at
    BY <1>1, <1>3, <1>5, <2>1, <2>3
  <2>4. CASE i # at /\ j # at
    BY <1>1, <1>5, <2>1, <2>4
  <2> QED BY <2>2, <2>3, <2>4
<1>7. ASSUME NEW k \in Markets PROVE InList(new, k) <=> k \in M \ {m}
  <2>1. InList(new, m) => FALSE
    <3> SUFFICES ASSUME NEW i \in 1..(n - 1), new[i] = m PROVE FALSE
      BY <1>4 DEF InList
    <3>1. i \in 1..n /\ i # n
      BY <1>1
    <3>2. CASE i = at
      BY <1>1, <1>2, <1>3, <1>5, <3>1, <3>2
    <3>3. CASE i # at
      BY <1>1, <1>2, <1>5, <3>1, <3>3
    <3> QED BY <3>2, <3>3
  <2>2. ASSUME k # m, InList(assets, k) PROVE InList(new, k)
    <3>1. PICK i \in 1..n : assets[i] = k
      BY <1>1, <2>2 DEF InList
    <3>2. i # at
      BY <1>2, <2>2, <3>1
    <3>3. CASE i = n
      <4>1. at \in 1..(n - 1) /\ new[at] = k
        BY <1>1, <1>2, <1>5, <3>1, <3>2, <3>3
      <4> QED BY <1>4, <4>1 DEF InList
    <3>4. CASE i # n
      <4>1. i \in 1..(n - 1) /\ new[i] = k
        BY <1>1, <1>5, <3>1, <3>2, <3>4
      <4> QED BY <1>4, <4>1 DEF InList
    <3> QED BY <3>3, <3>4
  <2>3. ASSUME InList(new, k) PROVE InList(assets, k)
    <3>1. PICK i \in 1..(n - 1) : new[i] = k
      BY <1>4, <2>3 DEF InList
    <3>2. i \in 1..n /\ n \in 1..n
      BY <1>1, <1>3
    <3> QED BY <1>1, <1>5, <3>1, <3>2 DEF InList
  <2>4. InList(assets, k) <=> k \in M
    BY DEF Lists
  <2> QED BY <2>1, <2>2, <2>3, <2>4
<1> QED BY <1>0, <1>4, <1>6, <1>7 DEF Lists

-----------------------------------------------------------------------------
(* Entering, leaving and borrowing *)

MarketsOf(u) == {m \in Markets : u \in membership[m]}

LEMMA ListsOf ==
    ASSUME IInv, NEW u \in Users
    PROVE  Lists(accountAssets[u], MarketsOf(u))
BY DEF IInv, ListsTyped, AccountAssetsMatchMembership, Lists, MarketsOf

\* Only the markets of u and his list change, together.
LEMMA MembersStep ==
    ASSUME IInv, NEW u \in Users, NEW N \in SUBSET Markets, NEW new, Lists(new, N),
           membership' \in [Markets -> SUBSET Users],
           \A m \in Markets : /\ u \in membership'[m] <=> m \in N
                              /\ \A w \in Users \ {u} : w \in membership'[m] <=> w \in membership[m],
           accountAssets' = [accountAssets EXCEPT ![u] = new]
    PROVE  ListsTyped' /\ AccountAssetsMatchMembership'
<1>1. accountAssets \in [Users -> Seq(Markets)] /\ new \in Seq(Markets)
  BY DEF IInv, ListsTyped, Lists
<1>2. accountAssets' \in [Users -> Seq(Markets)]
  BY <1>1
<1>3. accountAssets'[u] = new /\ \A w \in Users \ {u} : accountAssets'[w] = accountAssets[w]
  BY <1>1
<1>4. ASSUME NEW w \in Users
      PROVE  /\ \A i, j \in DOMAIN accountAssets'[w] : accountAssets'[w][i] = accountAssets'[w][j] => i = j
             /\ \A m \in Markets : InList(accountAssets'[w], m) <=> w \in membership'[m]
  <2>1. CASE w = u
    BY <1>3, <2>1 DEF Lists
  <2>2. CASE w # u
    <3>1. Lists(accountAssets[w], MarketsOf(w)) /\ accountAssets'[w] = accountAssets[w]
      BY <1>3, <2>2, ListsOf
    <3> QED BY <2>2, <3>1 DEF Lists, MarketsOf
  <2> QED BY <2>1, <2>2
<1> QED BY <1>2, <1>4 DEF ListsTyped, AccountAssetsMatchMembership

\* _addToMarket keeps the two records together.
LEMMA EntryLists ==
    ASSUME IInv, NEW u \in Users, NEW m \in Markets,
           membership' = [membership EXCEPT ![m] = @ \cup {u}],
           accountAssets' = [accountAssets EXCEPT ![u] = AssetsAfterEntry(u, m)]
    PROVE  ListsTyped' /\ AccountAssetsMatchMembership'
<1> DEFINE M == MarketsOf(u)
           new == AssetsAfterEntry(u, m)
<1>1. membership \in [Markets -> SUBSET Users] /\ Lists(accountAssets[u], M) /\ M \in SUBSET Markets
  BY ListsOf DEF IInv, ListsTyped, MarketsOf
<1>2. Lists(new, M \cup {m})
  <2>1. CASE u \in membership[m]
    <3>1. M \cup {m} = M /\ new = accountAssets[u]
      BY <2>1 DEF MarketsOf, AssetsAfterEntry
    <3> QED BY <1>1, <3>1
  <2>2. CASE u \notin membership[m]
    <3>1. m \in Markets \ M /\ new = Append(accountAssets[u], m)
      BY <2>2 DEF MarketsOf, AssetsAfterEntry
    <3> HIDE DEF M, new
    <3> QED BY <1>1, <3>1, AppendLists
  <2> QED BY <2>1, <2>2
<1>3. membership' \in [Markets -> SUBSET Users]
  BY <1>1
<1>4. \A n \in Markets : /\ u \in membership'[n] <=> n \in M \cup {m}
                         /\ \A w \in Users \ {u} : w \in membership'[n] <=> w \in membership[n]
  BY <1>1 DEF MarketsOf
<1>5. M \cup {m} \in SUBSET Markets
  BY <1>1
<1> HIDE DEF M, new
<1> QED BY <1>2, <1>3, <1>4, <1>5, MembersStep DEF new

\* A step that leaves the markets alone and unlists at most.
LEMMA MarketsKept ==
    ASSUME IInv, IInv', markets' = markets, listed' \subseteq listed
    PROVE  GoodStep
<1>1. \A m \in Markets : markets[m].badDebt \in Nat
  BY DEF IInv, MarketsSound, Market
<1>2. WriteOffs
  BY <1>1 DEF WriteOffs
<1> QED BY <1>2 DEF GoodStep, FreshMoves, FrozenOnes

LEMMA EnterMarketStep ==
    ASSUME IInv, NEW u \in Users, NEW m \in Markets, EnterMarket(u, m)
    PROVE  GoodStep
<1>1. /\ membership' = [membership EXCEPT ![m] = @ \cup {u}]
      /\ accountAssets' = [accountAssets EXCEPT ![u] = AssetsAfterEntry(u, m)]
      /\ UNCHANGED <<markets, block, price, listed, parameters, paused, delegates>>
  BY DEF EnterMarket, poolVars
<1>2. ListsTyped' /\ AccountAssetsMatchMembership'
  BY <1>1, EntryLists
<1>3. MarketsSound' /\ SettingsTyped'
  BY <1>1 DEF IInv, MarketsSound, SettingsTyped
<1>4. DebtImpliesMembership'
  BY <1>1 DEF IInv, ListsTyped, DebtImpliesMembership
<1> QED BY <1>1, <1>2, <1>3, <1>4, MarketsKept DEF IInv

\* Who leaves owes nothing, hence has no principal.
LEMMA ExitMarketStep ==
    ASSUME IInv, NEW u \in Users, NEW m \in Markets, ExitMarket(u, m)
    PROVE  GoodStep
<1> DEFINE M == MarketsOf(u)
           new == SwapAndPop(accountAssets[u], m)
<1>1. /\ u \in membership[m] /\ BorrowBalanceStored(markets[m], u) = 0
      /\ membership' = [membership EXCEPT ![m] = @ \ {u}]
      /\ accountAssets' = [accountAssets EXCEPT ![u] = new]
      /\ UNCHANGED <<markets, block, price, listed, parameters, paused, delegates>>
  BY DEF ExitMarket, CanExit, poolVars
<1>2. membership \in [Markets -> SUBSET Users] /\ Lists(accountAssets[u], M) /\ m \in M
  BY <1>1, ListsOf DEF IInv, ListsTyped, MarketsOf
<1>3. Lists(new, M \ {m})
  <2> HIDE DEF M
  <2> QED BY <1>2, SwapAndPopLists
<1>4. membership' \in [Markets -> SUBSET Users] /\ M \ {m} \in SUBSET Markets
  BY <1>1, <1>2 DEF MarketsOf
<1>5. \A n \in Markets : /\ u \in membership'[n] <=> n \in M \ {m}
                         /\ \A w \in Users \ {u} : w \in membership'[n] <=> w \in membership[n]
  BY <1>1, <1>2 DEF MarketsOf
<1>6. ListsTyped' /\ AccountAssetsMatchMembership'
  <2> HIDE DEF M, new
  <2> QED BY <1>1, <1>3, <1>4, <1>5, MembersStep
<1>7. MarketsSound' /\ SettingsTyped'
  BY <1>1 DEF IInv, MarketsSound, SettingsTyped
<1>8. markets[m].principal[u] = 0
  BY <1>1, NothingOwed DEF IInv, MarketsSound
<1>9. DebtImpliesMembership'
  BY <1>1, <1>2, <1>8 DEF IInv, DebtImpliesMembership
<1> QED BY <1>1, <1>6, <1>7, <1>9, MarketsKept DEF IInv

LEMMA BorrowStep ==
    ASSUME IInv, NEW sender, NEW u \in Users, NEW m \in Markets, NEW amount \in BorrowAmounts[m],
           Borrow(sender, u, m, amount)
    PROVE  GoodStep
<1> DEFINE ks == Accrued(m)
           k == ks[m]
           new == BorrowFresh(k, u, amount)
<1>1. /\ CanAccrueIn({m}) /\ m \in listed /\ CanBorrow(k, amount)
      /\ markets' = [ks EXCEPT ![m] = new]
      /\ membership' = [membership EXCEPT ![m] = @ \cup {u}]
      /\ accountAssets' = [accountAssets EXCEPT ![u] = AssetsAfterEntry(u, m)]
      /\ UNCHANGED <<block, price, listed, parameters, paused, delegates>>
  BY DEF Borrow, PreBorrow, poolVars
<1>2. AccruedAll(ks, {m}) /\ amount \in Nat
  BY <1>1, AccruedOne, InputsNat
<1> HIDE DEF ks
<1>3. Sound(k) /\ k.accrualBlockNumber = block
  BY <1>2 DEF AccruedAll, Calm
<1> HIDE DEF k
<1>4. /\ Sound(new) /\ new.accrualBlockNumber = block /\ new.badDebt = k.badDebt
      /\ \A w \in Users \ {u} : new.principal[w] = k.principal[w]
  BY <1>1, <1>2, <1>3, BorrowEffect
<1> HIDE DEF new
<1>5. /\ markets'[m] = new /\ \A n \in Markets \ {m} : markets'[n] = markets[n]
      /\ DOMAIN markets' = Markets /\ markets' = [n \in Markets |-> markets'[n]]
  BY <1>1, <1>2 DEF AccruedAll
<1>6. /\ k.badDebt = markets[m].badDebt /\ k.principal = markets[m].principal
  BY <1>2 DEF AccruedAll, Calm, Kept, k
<1>7. MarketsSound'
  <2>1. block' = block /\ block \in Nat
    BY <1>1 DEF IInv, SettingsTyped
  <2>2. \A n \in Markets : Sound(markets'[n]) /\ markets'[n].accrualBlockNumber <= block'
    BY <1>4, <1>5, <2>1 DEF IInv, MarketsSound
  <2>3. markets' \in [Markets -> Market]
    BY <1>5, <2>2 DEF Sound, MarketInv
  <2> QED BY <2>2, <2>3 DEF MarketsSound
<1>8. SettingsTyped'
  BY <1>1 DEF IInv, SettingsTyped
<1>9. ListsTyped' /\ AccountAssetsMatchMembership'
  BY <1>1, EntryLists
<1>10. DebtImpliesMembership'
  <2> SUFFICES ASSUME NEW n \in Markets, NEW w \in Users, markets'[n].principal[w] > 0
               PROVE  w \in membership'[n]
    BY DEF DebtImpliesMembership
  <2>1. CASE n = m /\ w = u
    BY <1>1, <2>1 DEF IInv, ListsTyped
  <2>2. CASE ~ (n = m /\ w = u)
    <3>1. markets'[n].principal[w] = markets[n].principal[w]
      BY <1>4, <1>5, <1>6, <2>2
    <3>2. w \in membership[n]
      BY <3>1 DEF IInv, DebtImpliesMembership
    <3> QED BY <1>1, <3>2 DEF IInv, ListsTyped
  <2> QED BY <2>1, <2>2
<1>11. FreshMoves
  BY <1>4, <1>5 DEF FreshMoves, Fresh
<1>12. FrozenOnes
  BY <1>1, <1>5 DEF FrozenOnes
<1>13. WriteOffs
  <2>1. \A n \in Markets : markets'[n].badDebt = markets[n].badDebt /\ markets[n].badDebt \in Nat
    BY <1>4, <1>5, <1>6 DEF IInv, MarketsSound, Market
  <2> QED BY <2>1 DEF WriteOffs
<1> QED BY <1>7, <1>8, <1>9, <1>10, <1>11, <1>12, <1>13 DEF GoodStep, IInv

-----------------------------------------------------------------------------
(* The oracle and governance *)

\* A step of the clock, the oracle or governance.
LEMMA SettingsStep ==
    ASSUME IInv, UNCHANGED <<markets, membership, accountAssets>>, block <= block',
           listed' \subseteq listed, SettingsTyped'
    PROVE  GoodStep
<1>1. MarketsSound'
  <2>1. \A m \in Markets : markets[m].accrualBlockNumber \in Nat
    BY DEF IInv, MarketsSound, Market
  <2> QED BY <2>1 DEF IInv, MarketsSound, SettingsTyped
<1>2. ListsTyped' /\ AccountAssetsMatchMembership' /\ DebtImpliesMembership'
  BY DEF IInv, ListsTyped, AccountAssetsMatchMembership, DebtImpliesMembership, InList
<1> QED BY <1>1, <1>2, MarketsKept DEF IInv

LEMMA ParametersStep ==
    ASSUME IInv, NEW new \in Parameters, new.liquidationIncentive >= EXP_SCALE, SetParameters(new)
    PROVE  GoodStep
<1>1. /\ parameters' = new
      /\ UNCHANGED <<markets, block, membership, accountAssets, price, listed, paused, delegates>>
  BY DEF SetParameters
<1>2. SettingsTyped' /\ block <= block' /\ listed' \subseteq listed
  BY <1>1 DEF IInv, SettingsTyped
<1> QED BY <1>1, <1>2, SettingsStep

\* The parameters that a setter leaves are parameters again.
WithFactors(p, m, x, y) == [p EXCEPT !.collateralFactor[m] = x, !.liquidationThreshold[m] = y]

LEMMA FactorsTyped ==
    ASSUME NEW p \in Parameters, NEW m \in Markets, NEW x \in Nat, NEW y \in Nat
    PROVE  /\ WithFactors(p, m, x, y) \in Parameters
           /\ WithFactors(p, m, x, y).liquidationIncentive = p.liquidationIncentive
<1> DEFINE cf == [p.collateralFactor EXCEPT ![m] = x]
           lt == [p.liquidationThreshold EXCEPT ![m] = y]
<1>1. cf \in [Markets -> Nat] /\ lt \in [Markets -> Nat]
  BY DEF Parameters
<1>2. WithFactors(p, m, x, y) = [p EXCEPT !.collateralFactor = cf, !.liquidationThreshold = lt]
  BY DEF Parameters, WithFactors
<1> HIDE DEF cf, lt
<1> QED BY <1>1, <1>2 DEF Parameters

LEMMA CapsTyped ==
    ASSUME NEW p \in Parameters, NEW m \in Markets, NEW x \in Nat
    PROVE  /\ [p EXCEPT !.borrowCap[m] = x] \in Parameters
           /\ [p EXCEPT !.borrowCap[m] = x].liquidationIncentive = p.liquidationIncentive
           /\ [p EXCEPT !.supplyCap[m] = x] \in Parameters
           /\ [p EXCEPT !.supplyCap[m] = x].liquidationIncentive = p.liquidationIncentive
<1> DEFINE bc == [p.borrowCap EXCEPT ![m] = x]
           sc == [p.supplyCap EXCEPT ![m] = x]
<1>1. bc \in [Markets -> Nat] /\ sc \in [Markets -> Nat]
  BY DEF Parameters
<1>2. /\ [p EXCEPT !.borrowCap[m] = x] = [p EXCEPT !.borrowCap = bc]
      /\ [p EXCEPT !.supplyCap[m] = x] = [p EXCEPT !.supplyCap = sc]
  BY DEF Parameters
<1> HIDE DEF bc, sc
<1> QED BY <1>1, <1>2 DEF Parameters

LEMMA GovernanceStep ==
    ASSUME IInv, Governance
    PROVE  GoodStep
<1>0. parameters \in Parameters /\ parameters.liquidationIncentive >= EXP_SCALE
  BY DEF IInv, SettingsTyped
<1>1. ASSUME NEW choice \in PauseChoices, NEW pause \in BOOLEAN, SetActionsPaused(choice, pause)
      PROVE  GoodStep
  <2>1. choice \in SUBSET (Markets \X Actions)
    BY IsolatedPoolAssumption
  <2>2. /\ UNCHANGED <<markets, block, membership, accountAssets, price, listed, parameters, delegates>>
        /\ paused' = IF pause THEN paused \cup choice ELSE paused \ choice
    BY <1>1 DEF SetActionsPaused
  <2>3. SettingsTyped' /\ block <= block' /\ listed' \subseteq listed
    BY <2>1, <2>2 DEF IInv, SettingsTyped
  <2> QED BY <2>2, <2>3, SettingsStep
<1>2. ASSUME NEW m \in Markets, UnlistMarket(m) PROVE GoodStep
  <2>1. /\ UNCHANGED <<markets, block, membership, accountAssets, price, parameters, paused, delegates>>
        /\ listed' = listed \ {m}
    BY <1>2 DEF UnlistMarket
  <2>2. SettingsTyped' /\ block <= block' /\ listed' \subseteq listed
    BY <2>1 DEF IInv, SettingsTyped
  <2> QED BY <2>1, <2>2, SettingsStep
<1>3. ASSUME NEW new \in ParameterChoices,
             \/ SetCloseFactor(new.closeFactor)
             \/ SetLiquidationIncentive(new.liquidationIncentive)
             \/ SetMinLiquidatableCollateral(new.minLiquidatableCollateral)
             \/ \E m \in Markets :
                   \/ SetCollateralFactor(m, new.collateralFactor[m], new.liquidationThreshold[m])
                   \/ SetCaps(m, new.borrowCap[m], new.supplyCap[m])
                   \/ SetForcedLiquidation(m, m \in new.forced)
      PROVE  GoodStep
  <2>0. new \in Parameters
    BY IsolatedPoolAssumption
  <2>1. CASE SetCloseFactor(new.closeFactor)
    <3> DEFINE p == [parameters EXCEPT !.closeFactor = new.closeFactor]
    <3>1. p \in Parameters /\ p.liquidationIncentive = parameters.liquidationIncentive
      BY <1>0, <2>0 DEF Parameters
    <3>2. SetParameters(p)
      BY <2>1 DEF SetCloseFactor
    <3> HIDE DEF p
    <3> QED BY <1>0, <3>1, <3>2, ParametersStep
  <2>2. CASE SetLiquidationIncentive(new.liquidationIncentive)
    <3> DEFINE p == [parameters EXCEPT !.liquidationIncentive = new.liquidationIncentive]
    <3>1. SetParameters(p) /\ new.liquidationIncentive >= EXP_SCALE
      BY <2>2 DEF SetLiquidationIncentive
    <3>2. p \in Parameters /\ p.liquidationIncentive = new.liquidationIncentive
      BY <1>0, <2>0 DEF Parameters
    <3> HIDE DEF p
    <3> QED BY <3>1, <3>2, ParametersStep
  <2>3. CASE SetMinLiquidatableCollateral(new.minLiquidatableCollateral)
    <3> DEFINE p == [parameters EXCEPT !.minLiquidatableCollateral = new.minLiquidatableCollateral]
    <3>1. p \in Parameters /\ p.liquidationIncentive = parameters.liquidationIncentive
      BY <1>0, <2>0 DEF Parameters
    <3>2. SetParameters(p)
      BY <2>3 DEF SetMinLiquidatableCollateral
    <3> HIDE DEF p
    <3> QED BY <1>0, <3>1, <3>2, ParametersStep
  <2>4. ASSUME NEW m \in Markets, SetCollateralFactor(m, new.collateralFactor[m], new.liquidationThreshold[m])
        PROVE  GoodStep
    <3> DEFINE x == new.collateralFactor[m]
               y == new.liquidationThreshold[m]
               p == WithFactors(parameters, m, x, y)
    <3>1. x \in Nat /\ y \in Nat
      BY <2>0 DEF Parameters
    <3>2. SetParameters(p)
      BY <2>4 DEF SetCollateralFactor, WithFactors
    <3> HIDE DEF x, y
    <3>3. p \in Parameters /\ p.liquidationIncentive = parameters.liquidationIncentive
      BY <1>0, <3>1, FactorsTyped
    <3> HIDE DEF p
    <3> QED BY <1>0, <3>2, <3>3, ParametersStep
  <2>5. ASSUME NEW m \in Markets, SetCaps(m, new.borrowCap[m], new.supplyCap[m])
        PROVE  GoodStep
    <3> DEFINE x == new.borrowCap[m]
               y == new.supplyCap[m]
               p == [parameters EXCEPT !.borrowCap[m] = x]
               q == [parameters EXCEPT !.supplyCap[m] = y]
    <3>1. x \in Nat /\ y \in Nat
      BY <2>0 DEF Parameters
    <3>2. SetParameters(p) \/ SetParameters(q)
      BY <2>5 DEF SetCaps
    <3> HIDE DEF x, y
    <3>3. /\ p \in Parameters /\ p.liquidationIncentive = parameters.liquidationIncentive
          /\ q \in Parameters /\ q.liquidationIncentive = parameters.liquidationIncentive
      BY <1>0, <3>1, CapsTyped
    <3> HIDE DEF p, q
    <3> QED BY <1>0, <3>2, <3>3, ParametersStep
  <2>6. ASSUME NEW m \in Markets, SetForcedLiquidation(m, m \in new.forced)
        PROVE  GoodStep
    <3> DEFINE f == IF m \in new.forced THEN parameters.forced \cup {m} ELSE parameters.forced \ {m}
               p == [parameters EXCEPT !.forced = f]
    <3>1. f \in SUBSET Markets
      BY <1>0, <2>6 DEF Parameters
    <3>2. SetParameters(p)
      BY <2>6 DEF SetForcedLiquidation
    <3> HIDE DEF f
    <3>3. p \in Parameters /\ p.liquidationIncentive = parameters.liquidationIncentive
      BY <1>0, <3>1 DEF Parameters
    <3> HIDE DEF p
    <3> QED BY <1>0, <3>2, <3>3, ParametersStep
  <2> QED BY <1>3, <2>1, <2>2, <2>3, <2>4, <2>5, <2>6
<1> QED BY <1>1, <1>2, <1>3 DEF Governance

-----------------------------------------------------------------------------
(* The specification *)

\* A market into which addMarket has minted the initial supply is sound.
LEMMA NewMarketSound ==
    ASSUME NEW settings \in [reserveFactor : 0..EXP_SCALE, protocolSeizeShare : Nat,
                             reduceReservesBlockDelta : Nat \ {0}, initialSupply : Nat \ {0}, price : Nat]
    PROVE  /\ Sound(NewMarket(settings)) /\ NewMarket(settings).accrualBlockNumber = 0
           /\ \A u \in Users : NewMarket(settings).principal[u] = 0
<1> DEFINE zero == [u \in Users |-> 0]
           k == [cash |-> 0, totalBorrows |-> 0, totalReserves |-> 0, badDebt |-> 0,
                 borrowIndex |-> EXP_SCALE, totalSupply |-> 0, income |-> 0,
                 accrualBlockNumber |-> 0, reduceReservesBlockNumber |-> 0,
                 reduceReservesBlockDelta |-> settings.reduceReservesBlockDelta,
                 reserveFactor |-> settings.reserveFactor,
                 protocolSeizeShare |-> settings.protocolSeizeShare,
                 accountTokens |-> zero, principal |-> zero, interestIndex |-> zero]
<1>1. NewMarket(settings) = MintFresh(k, Receiver, settings.initialSupply)
  BY DEF NewMarket
<1>2. zero \in [Users -> Nat] /\ \A u \in Users : zero[u] = 0
  OBVIOUS
<1>3. Total(zero, NumUsers) = 0
  BY VTokenOpsAssumption, TotalZero DEF Users
<1> HIDE DEF zero
<1>4. k \in Market
  BY <1>2, ExpScaleAssumption DEF Market
<1>5. /\ k.principal = zero /\ k.interestIndex = zero /\ k.accountTokens = zero /\ k.totalSupply = 0
      /\ k.borrowIndex = EXP_SCALE /\ k.accrualBlockNumber = 0 /\ NetUnderlying(k) = 0
  BY DEF NetUnderlying
<1> HIDE DEF k
<1>6. Sound(k)
  BY <1>2, <1>3, <1>4, <1>5, ExpScaleAssumption DEF Sound, MarketInv
<1>7. CanMint(k)
  BY <1>5, VTokenOpsAssumption DEF CanMint, HasExchangeRate, ExchangeRateStored
<1>8. Receiver \in Users /\ settings.initialSupply \in Nat
  BY IsolatedPoolAssumption
<1>9. Calm(k, MintFresh(k, Receiver, settings.initialSupply), 0)
  BY <1>6, <1>7, <1>8, MintCalm
<1> QED BY <1>1, <1>2, <1>5, <1>9 DEF Calm

LEMMA InitIInv == Init => IInv
<1> SUFFICES ASSUME Init PROVE IInv
  OBVIOUS
<1>1. ASSUME NEW m \in Markets
      PROVE  /\ Sound(markets[m]) /\ markets[m].accrualBlockNumber = 0
             /\ \A u \in Users : markets[m].principal[u] = 0
  <2>1. InitialMarkets[m] \in [reserveFactor : 0..EXP_SCALE, protocolSeizeShare : Nat,
                               reduceReservesBlockDelta : Nat \ {0}, initialSupply : Nat \ {0}, price : Nat]
    BY IsolatedPoolAssumption
  <2>2. markets[m] = NewMarket(InitialMarkets[m])
    BY DEF Init
  <2> QED BY <2>1, <2>2, NewMarketSound
<1>2. MarketsSound
  <2>1. markets = [m \in Markets |-> markets[m]] /\ DOMAIN markets = Markets /\ block = 0
    BY DEF Init
  <2>2. \A m \in Markets : markets[m] \in Market
    BY <1>1 DEF Sound, MarketInv
  <2> QED BY <1>1, <2>1, <2>2 DEF MarketsSound
<1>3. SettingsTyped
  BY IsolatedPoolAssumption DEF Init, SettingsTyped
<1>4. ListsTyped /\ AccountAssetsMatchMembership
  BY DEF Init, ListsTyped, AccountAssetsMatchMembership, InList
<1>5. DebtImpliesMembership
  BY <1>1 DEF DebtImpliesMembership
<1> QED BY <1>2, <1>3, <1>4, <1>5 DEF IInv

LEMMA NextGood ==
    ASSUME IInv, Next
    PROVE  GoodStep
<1>1. CASE Tick
  <2>1. UNCHANGED <<markets, membership, accountAssets, poolVars>> /\ block' = block + 1
    BY <1>1 DEF Tick
  <2>2. SettingsTyped' /\ block <= block' /\ listed' \subseteq listed
    BY <2>1 DEF IInv, SettingsTyped, poolVars
  <2> QED BY <2>1, <2>2, SettingsStep
<1>2. CASE \E m \in Markets : Accrue(m)
  BY <1>2, AccrueStep
<1>3. CASE \E u \in Users : AccountCall(u)
  BY <1>3, MintStep, RedeemStep, TransferStep, RepayStep DEF AccountCall
<1>4. CASE \E u \in Borrowers : BorrowerCall(u)
  <2>1. Borrowers \subseteq Users
    BY IsolatedPoolAssumption
  <2> QED BY <1>4, <2>1, EnterMarketStep, ExitMarketStep, BorrowStep DEF BorrowerCall
<1>5. CASE \E liquidator, u \in Users : Liquidation(liquidator, u)
  BY <1>5, LiquidateBorrowStep, LiquidateAccountStep, HealAccountStep DEF Liquidation
<1>6. CASE \E pair \in DelegatePairs : UpdateDelegate(pair[1], pair[2])
  <2>1. PICK pair \in DelegatePairs : UpdateDelegate(pair[1], pair[2])
    BY <1>6
  <2>2. <<pair[1], pair[2]>> \in Users \X Users
    BY IsolatedPoolAssumption
  <2>3. SettingsTyped' /\ block <= block' /\ listed' \subseteq listed
        /\ UNCHANGED <<markets, membership, accountAssets>>
    BY <2>1, <2>2 DEF UpdateDelegate, IInv, SettingsTyped
  <2> QED BY <2>3, SettingsStep
<1>7. CASE \E m \in Markets : \E p \in Prices[m] : ReportPrice(m, p)
  <2> PICK m \in Markets : \E p \in Prices[m] : ReportPrice(m, p)
    BY <1>7
  <2>1. PICK p \in Prices[m] : ReportPrice(m, p)
    OBVIOUS
  <2>2. p \in Nat
    BY InputsNat
  <2>3. SettingsTyped' /\ block <= block' /\ listed' \subseteq listed
        /\ UNCHANGED <<markets, membership, accountAssets>>
    BY <2>1, <2>2 DEF ReportPrice, IInv, SettingsTyped
  <2> QED BY <2>3, SettingsStep
<1>8. CASE Governance
  BY <1>8, GovernanceStep
<1> QED BY <1>1, <1>2, <1>3, <1>4, <1>5, <1>6, <1>7, <1>8 DEF Next

LEMMA StepIInv == IInv /\ [Next]_vars => IInv'
<1>1. ASSUME IInv, UNCHANGED vars PROVE IInv'
  BY <1>1 DEF vars, IInv, MarketsSound, SettingsTyped, ListsTyped, AccountAssetsMatchMembership,
              DebtImpliesMembership, InList
<1> QED BY <1>1, NextGood DEF GoodStep

LEMMA SpecIInv == Spec => []IInv
BY InitIInv, StepIInv, PTL DEF Spec

-----------------------------------------------------------------------------
(* The theorems *)

\* Type correctness: along every run of the pool each market is a record of the
\* vToken's amounts, all naturals, and the lists hold markets only.
THEOREM SpecTypeOK == Spec => []TypeOK
<1>1. IInv => TypeOK
  BY DEF IInv, TypeOK, MarketsSound, SettingsTyped, ListsTyped
<1> QED BY <1>1, SpecIInv, PTL

\* In every market the vTokens of all accounts add up to the supply and the reserves
\* are backed, after any liquidation, batch of orders or healing: MarketInv.
THEOREM SpecMarketsSound == Spec => [](\A m \in Markets : MarketInv(markets[m]))
<1>1. IInv => \A m \in Markets : MarketInv(markets[m])
  BY DEF IInv, MarketsSound, Sound
<1> QED BY <1>1, SpecIInv, PTL

\* accountAssets lists exactly the markets an account is a member of, each once:
\* the assertion of exitMarket never fails and no liquidity computation misses a market.
THEOREM SpecAccountAssetsMatchMembership == Spec => []AccountAssetsMatchMembership
<1>1. IInv => AccountAssetsMatchMembership
  BY DEF IInv
<1> QED BY <1>1, SpecIInv, PTL

\* Whoever owes something in a market is a member of it, whatever he did since.
THEOREM SpecDebtImpliesMembership == Spec => []DebtImpliesMembership
<1>1. IInv => DebtImpliesMembership
  BY DEF IInv
<1> QED BY <1>1, SpecIInv, PTL

\* Debts move only in markets that accrued interest in the same slot, in healAccount
\* and liquidateAccount too.
THEOREM SpecDebtOnlyMovesAtFreshIndex == Spec => DebtOnlyMovesAtFreshIndex
<1>1. IInv /\ [Next]_vars =>
          [\A m \in Markets :
              markets'[m].principal # markets[m].principal => Fresh(markets'[m], block)]_vars
  BY NextGood DEF GoodStep, FreshMoves
<1> QED BY <1>1, SpecIInv, PTL DEF Spec, DebtOnlyMovesAtFreshIndex

\* No transaction of a live pool reaches a market that governance has unlisted.
THEOREM SpecUnlistedMarketsFrozen == Spec => UnlistedMarketsFrozen
<1>1. IInv /\ [Next]_vars =>
          [\A m \in Markets \ listed :
              /\ m \notin listed'
              /\ markets'[m].accountTokens = markets[m].accountTokens
              /\ markets'[m].principal = markets[m].principal]_vars
  BY NextGood DEF GoodStep, FrozenOnes
<1> QED BY <1>1, SpecIInv, PTL DEF Spec, UnlistedMarketsFrozen

\* Debt is written off only of an account that healAccount leaves without any vToken
\* and without any debt in the markets it was in.
THEOREM SpecBadDebtOnlyWithoutCollateral == Spec => BadDebtOnlyWithoutCollateral
<1>1. IInv /\ [Next]_vars =>
          [\A m \in Markets : markets'[m].badDebt > markets[m].badDebt =>
              \E u \in Users :
                  /\ markets[m].principal[u] > 0
                  /\ \A n \in AssetsIn(accountAssets[u]) :
                        markets'[n].accountTokens[u] = 0 /\ markets'[n].principal[u] = 0]_vars
  BY NextGood DEF GoodStep, WriteOffs
<1> QED BY <1>1, SpecIInv, PTL DEF Spec, BadDebtOnlyWithoutCollateral

-----------------------------------------------------------------------------
(* Every shortfall has a way out *)

\* The three ways are chosen by arithmetic on truncated amounts: what the collateral
\* must cover is at least one unit, and a share of it is at most the whole.
LEMMA ShareAtMostWhole ==
    ASSUME NEW incentive \in Nat, incentive >= EXP_SCALE, NEW borrows \in Nat \ {0},
           NEW collateral \in Nat, collateral <= MulScalarTruncate(incentive, borrows)
    PROVE  /\ MulExp(borrows, incentive) # 0
           /\ DivExp(collateral, MulExp(borrows, incentive)) <= EXP_SCALE
<1> DEFINE required == MulScalarTruncate(incentive, borrows)
<1>1. MulExp(borrows, incentive) = required
  BY DEF MulExp, MulScalarTruncate
<1>2. required \in Nat
  BY TruncatedNat
<1>3. required # 0
  <2> DEFINE a == incentive * borrows
  <2>1. a \in Nat /\ EXP_SCALE <= a
    <3>1. a \in Nat /\ incentive <= a
      BY SMT
    <3> HIDE DEF a
    <3> QED BY <3>1, ExpScaleAssumption
  <2> HIDE DEF a
  <2>2. a \div EXP_SCALE # 0
    BY <2>1, ExpScaleAssumption, SMT
  <2> QED BY <2>2 DEF a, MulScalarTruncate
<1> HIDE DEF required
<1>4. (collateral * EXP_SCALE) \div required <= EXP_SCALE
  <2>1. collateral <= required
    BY DEF required
  <2>2. collateral * EXP_SCALE <= EXP_SCALE * required
    BY <1>2, <2>1, ExpScaleAssumption, SMT
  <2> DEFINE a == collateral * EXP_SCALE
             c == EXP_SCALE * required
  <2>3. a \in Nat /\ a <= c
    BY <2>2, ExpScaleAssumption, Product
  <2>4. a \div required <= EXP_SCALE
    BY <1>2, <1>3, <2>3, ExpScaleAssumption, QuotientBound DEF c
  <2> QED BY <2>4 DEF a
<1> QED BY <1>1, <1>3, <1>4 DEF DivExp

\* An account in shortfall is liquidatable, settled in a batch or healed: there is no
\* amount of collateral, at the threshold or between the tests, that leaves it to nobody.
THEOREM SpecNoResolutionGap == Spec => []NoResolutionGap
<1>1. ASSUME IInv PROVE NoResolutionGap
  <2> SUFFICES ASSUME NEW u \in Users, NEW assets, assets = AssetsIn(accountAssets[u]),
                      NEW position, position = Position(markets, assets, u), Unsafe(position)
               PROVE  Liquidatable(position) \/ BatchLiquidatable(position) \/ Healable(position)
    BY DEF NoResolutionGap
  <2>1. /\ position.weightedCollateral \in Nat
        /\ position.totalCollateral \in Nat
        /\ position.borrows \in Nat
    <3>1. assets \in SUBSET Markets
      BY <1>1, AssetsListed
    <3>2. \A m \in assets : Sound(markets[m])
      BY <1>1, <3>1 DEF IInv, MarketsSound
    <3> QED BY <1>1, <3>1, <3>2, PositionNat
  <2>2. position.borrows # 0
    BY <2>1 DEF Unsafe, Shortfall
  <2>3. parameters.liquidationIncentive \in Nat /\ parameters.liquidationIncentive >= EXP_SCALE
    BY <1>1 DEF IInv, SettingsTyped, Parameters
  <2>4. CASE LargeEnough(position)
    BY <2>4 DEF Liquidatable
  <2>5. CASE ~ LargeEnough(position) /\ RequiredCollateral(position) < position.totalCollateral
    BY <2>5 DEF BatchLiquidatable
  <2>6. CASE ~ LargeEnough(position) /\ ~ (RequiredCollateral(position) < position.totalCollateral)
    <3>1. RequiredCollateral(position) \in Nat
      BY <2>1, <2>3, TruncatedNat DEF RequiredCollateral
    <3>2. position.totalCollateral <= MulScalarTruncate(parameters.liquidationIncentive, position.borrows)
      BY <2>1, <2>6, <3>1 DEF RequiredCollateral
    <3> QED BY <2>1, <2>2, <2>3, <2>6, <3>2, ShareAtMostWhole DEF Healable, HealPercentage
  <2> QED BY <2>4, <2>5, <2>6
<1> QED BY <1>1, SpecIInv, PTL


-----------------------------------------------------------------------------
(* Whose tokens and debts a transaction takes *)

\* What a liquidation of u does to a market: only u's tokens and debt may fall.
Collects(k, new, u) ==
    /\ new.borrowIndex = k.borrowIndex
    /\ BorrowBalanceStored(new, u) <= BorrowBalanceStored(k, u)
    /\ \A w \in Users \ {u} :
          /\ new.principal[w] = k.principal[w] /\ new.interestIndex[w] = k.interestIndex[w]
          /\ new.accountTokens[w] >= k.accountTokens[w]

LEMMA CollectsRefl ==
    ASSUME NEW k, MarketInv(k), NEW u \in Users
    PROVE  Collects(k, k, u)
<1>1. \A w \in Users : k.accountTokens[w] \in Nat
  BY DEF MarketInv, Market
<1> QED BY <1>1, MarketFields DEF Collects

LEMMA CollectsTrans ==
    ASSUME NEW k, MarketInv(k), NEW mid, MarketInv(mid), NEW new, MarketInv(new), NEW u \in Users,
           Collects(k, mid, u), Collects(mid, new, u)
    PROVE  Collects(k, new, u)
<1>1. ASSUME NEW w \in Users \ {u}
      PROVE  /\ new.principal[w] = k.principal[w] /\ new.interestIndex[w] = k.interestIndex[w]
             /\ new.accountTokens[w] >= k.accountTokens[w]
  <2>1. k.accountTokens[w] \in Nat /\ mid.accountTokens[w] \in Nat /\ new.accountTokens[w] \in Nat
    BY DEF MarketInv, Market
  <2>2. /\ mid.accountTokens[w] >= k.accountTokens[w] /\ new.accountTokens[w] >= mid.accountTokens[w]
        /\ mid.principal[w] = k.principal[w] /\ mid.interestIndex[w] = k.interestIndex[w]
        /\ new.principal[w] = mid.principal[w] /\ new.interestIndex[w] = mid.interestIndex[w]
    BY DEF Collects
  <2> QED BY <2>1, <2>2
<1>2. BorrowBalanceStored(new, u) <= BorrowBalanceStored(k, u)
  <2>1. /\ BorrowBalanceStored(mid, u) <= BorrowBalanceStored(k, u)
        /\ BorrowBalanceStored(new, u) <= BorrowBalanceStored(mid, u)
    BY DEF Collects
  <2>2. /\ BorrowBalanceStored(k, u) \in Nat /\ BorrowBalanceStored(mid, u) \in Nat
        /\ BorrowBalanceStored(new, u) \in Nat
    BY BorrowBalance
  <2> QED BY <2>1, <2>2
<1>3. new.borrowIndex = k.borrowIndex
  BY DEF Collects
<1> QED BY <1>1, <1>2, <1>3 DEF Collects

\* Repaying for u: his debt falls by what is repaid, and no other account is touched.
LEMMA RepayCollects ==
    ASSUME NEW k, Sound(k), NEW u \in Users, NEW a \in Nat, CanRepay(k, u, a)
    PROVE  /\ Collects(k, RepayBorrowFresh(k, u, a), u)
           /\ BorrowBalanceStored(RepayBorrowFresh(k, u, a), u) = BorrowBalanceStored(k, u) - RepayFinal(k, u, a)
<1> DEFINE new == RepayBorrowFresh(k, u, a)
           owed == BorrowBalanceStored(k, u)
           repaid == RepayFinal(k, u, a)
<1>1. k \in Market /\ owed \in Nat /\ MarketInv(k)
  BY BorrowBalance DEF Sound, MarketInv
<1>2. /\ new.interestIndex = [k.interestIndex EXCEPT ![u] = k.borrowIndex]
      /\ new.borrowIndex = k.borrowIndex
      /\ new.principal = [k.principal EXCEPT ![u] = owed - repaid]
      /\ new.accountTokens = k.accountTokens
  BY <1>1 DEF RepayBorrowFresh, SetBorrow, Market
<1>3. owed - repaid \in Nat /\ repaid \in Nat
  BY <1>1 DEF RepayFinal
<1> HIDE DEF new, repaid
<1>4. BorrowBalanceStored(new, u) = owed - repaid
  <2> DEFINE x == owed - repaid
  <2> HIDE DEF x, owed
  <2>1. new.principal = [k.principal EXCEPT ![u] = x] /\ x \in Nat
    BY <1>2, <1>3 DEF x
  <2>2. BorrowBalanceStored(new, u) = x
    BY <1>1, <1>2, <2>1, LoanSet
  <2> QED BY <2>2 DEF x
<1>5. ASSUME NEW w \in Users \ {u}
      PROVE  /\ new.principal[w] = k.principal[w] /\ new.interestIndex[w] = k.interestIndex[w]
             /\ new.accountTokens[w] >= k.accountTokens[w]
  <2>1. k.accountTokens[w] \in Nat /\ k.principal \in [Users -> Nat] /\ k.interestIndex \in [Users -> Nat]
    BY <1>1 DEF Market
  <2> QED BY <1>2, <2>1
<1> HIDE DEF owed
<1>6. Collects(k, new, u)
  <2>1. BorrowBalanceStored(new, u) <= owed
    BY <1>1, <1>3, <1>4
  <2> QED BY <1>2, <1>5, <2>1 DEF Collects, owed
<1> QED BY <1>4, <1>6 DEF new, owed, repaid

\* A seizure from u: the liquidator's tokens grow, the loans stay.
LEMMA SeizeCollects ==
    ASSUME NEW k, Sound(k), NEW v \in Users, NEW u \in Users, NEW t \in Nat,
           NEW incentive \in Nat \ {0}, CanSeize(k, v, u, t, incentive)
    PROVE  /\ Collects(k, Seize(k, v, u, t, incentive), u)
           /\ BorrowBalanceStored(Seize(k, v, u, t, incentive), u) = BorrowBalanceStored(k, u)
<1> DEFINE new == Seize(k, v, u, t, incentive)
           burnt == ProtocolSeizeTokens(k, t, incentive)
<1>1. k \in Market /\ MarketInv(k) /\ BorrowBalanceStored(k, u) \in Nat
  BY BorrowBalance DEF Sound, MarketInv
<1>2. /\ new.principal = k.principal /\ new.interestIndex = k.interestIndex
      /\ new.borrowIndex = k.borrowIndex
  BY SeizeCalm
<1>3. u # v /\ burnt <= t
  BY DEF CanSeize
<1>4. burnt \in Nat
  BY <1>1, TruncatedNat, DivExpNat DEF ProtocolSeizeTokens, Market
<1> HIDE DEF burnt
<1>5. new.accountTokens = [[k.accountTokens EXCEPT ![u] = new.accountTokens[u]]
                              EXCEPT ![v] = k.accountTokens[v] + (t - burnt)]
  <2>1. k.accountTokens \in [Users -> Nat]
    BY <1>1 DEF Market
  <2>2. new.accountTokens = [[[k.accountTokens EXCEPT ![u] = @ - burnt] EXCEPT ![u] = @ - (t - burnt)]
                                EXCEPT ![v] = k.accountTokens[v] + (t - burnt)]
    BY <1>1, <1>3, <2>1, Zenon DEF Seize, TransferTokens, burnt, Market
  <2> HIDE DEF new
  <2> QED BY <1>3, <2>1, <2>2
<1> HIDE DEF new
<1>6. ASSUME NEW w \in Users \ {u}
      PROVE  /\ new.principal[w] = k.principal[w] /\ new.interestIndex[w] = k.interestIndex[w]
             /\ new.accountTokens[w] >= k.accountTokens[w]
  <2>1. k.accountTokens \in [Users -> Nat] /\ k.accountTokens[w] \in Nat
    BY <1>1 DEF Market
  <2>2. new.accountTokens[w] = IF w = v THEN k.accountTokens[w] + (t - burnt) ELSE k.accountTokens[w]
    BY <1>5, <2>1
  <2> QED BY <1>2, <1>3, <1>4, <2>1, <2>2
<1>7. BorrowBalanceStored(new, u) = BorrowBalanceStored(k, u)
  BY <1>2 DEF BorrowBalanceStored
<1>8. Collects(k, new, u)
  BY <1>1, <1>2, <1>6, <1>7 DEF Collects
<1> QED BY <1>7, <1>8 DEF new

\* Healing u's debt.
LEMMA HealCollects ==
    ASSUME NEW k, Sound(k), NEW u \in Users, NEW a \in Nat, CanHealBorrow(k, u, a)
    PROVE  Collects(k, HealBorrow(k, u, a), u)
<1> DEFINE new == HealBorrow(k, u, a)
<1>1. k \in Market /\ MarketInv(k) /\ BorrowBalanceStored(k, u) \in Nat
  BY BorrowBalance DEF Sound, MarketInv
<1>2. /\ new.interestIndex = [k.interestIndex EXCEPT ![u] = k.borrowIndex]
      /\ new.borrowIndex = k.borrowIndex
      /\ new.principal = [k.principal EXCEPT ![u] = 0]
      /\ new.accountTokens = k.accountTokens
  BY <1>1 DEF HealBorrow, SetBorrow, Market
<1> HIDE DEF new
<1>3. BorrowBalanceStored(new, u) = 0
  BY <1>1, <1>2, LoanSet
<1>4. ASSUME NEW w \in Users \ {u}
      PROVE  /\ new.principal[w] = k.principal[w] /\ new.interestIndex[w] = k.interestIndex[w]
             /\ new.accountTokens[w] >= k.accountTokens[w]
  <2>1. k.accountTokens[w] \in Nat /\ k.principal \in [Users -> Nat] /\ k.interestIndex \in [Users -> Nat]
    BY <1>1 DEF Market
  <2> QED BY <1>2, <2>1
<1> QED BY <1>1, <1>2, <1>3, <1>4 DEF Collects, new


\* Orders filled for u, in the markets called.
Filled(ks, new, called, u) ==
    /\ \A m \in Markets : Collects(ks[m], new[m], u)
    /\ \A m \in Markets \ called : new[m] = ks[m]

\* A liquidation repays something, so something was owed.
LEMMA SomethingOwed ==
    ASSUME IInv, NEW ks, NEW d \in Markets, Sound(ks[d]), NEW c, NEW u \in Users,
           NEW amount \in Nat \ {0}, NEW skip, PreLiquidate(ks, d, c, u, amount, skip)
    PROVE  BorrowBalanceStored(ks[d], u) \in Nat \ {0} /\ RepayFinal(ks[d], u, amount) \in Nat \ {0}
<1> DEFINE owed == BorrowBalanceStored(ks[d], u)
<1>1. owed \in Nat
  BY BorrowBalance DEF Sound
<1>2. amount <= owed \/ amount <= MulScalarTruncate(parameters.closeFactor, owed)
  BY DEF PreLiquidate
<1>3. parameters.closeFactor \in Nat
  BY DEF IInv, SettingsTyped, Parameters
<1>4. RepayFinal(ks[d], u, amount) = IF amount >= owed THEN owed ELSE amount
  BY DEF RepayFinal
<1> HIDE DEF owed
<1>5. owed # 0
  <2>1. MulScalarTruncate(parameters.closeFactor, 0) = 0
    BY <1>3, ExpScaleAssumption, SMT DEF MulScalarTruncate
  <2> QED BY <1>1, <1>2, <2>1
<1> QED BY <1>1, <1>4, <1>5 DEF owed

LEMMA OrderCollects ==
    ASSUME IInv, NEW order \in Orders, NEW called \in SUBSET Markets,
           {order.debt, order.collateral} \subseteq called,
           NEW ks, InCall(ks, called), NEW liquidator \in Users, NEW u \in Users, NEW skip,
           CanLiquidate(ks, liquidator, u, order, skip)
    PROVE  /\ Filled(ks, Liquidated(ks, liquidator, u, order), called, u)
           /\ BorrowBalanceStored(Liquidated(ks, liquidator, u, order)[order.debt], u)
                < BorrowBalanceStored(ks[order.debt], u)
<1> DEFINE d == order.debt
           c == order.collateral
           mid == Repaid(ks, u, order)
           t == Seized(ks, u, order)
           incentive == parameters.liquidationIncentive
           paidUp == RepayBorrowFresh(ks[d], u, order.amount)
           seized == Seize(mid[c], liquidator, u, t, incentive)
           new == Liquidated(ks, liquidator, u, order)
           repaid == RepayFinal(ks[d], u, order.amount)
<1>1. d \in Markets /\ c \in Markets /\ order.amount \in Nat \ {0} /\ d \in called /\ c \in called
  BY InputsNat DEF Orders, CanLiquidate
<1>2. /\ CanRepay(ks[d], u, order.amount) /\ PreLiquidate(ks, d, c, u, order.amount, skip)
      /\ SeizePrice(mid[c], c) # 0 /\ CanSeize(mid[c], liquidator, u, t, incentive)
  BY DEF CanLiquidate
<1>3. ks \in [Markets -> Market] /\ \A m \in Markets : Sound(ks[m]) /\ MarketInv(ks[m])
  BY DEF InCall, Calm, Sound
<1>4. mid = [ks EXCEPT ![d] = paidUp] /\ new = [mid EXCEPT ![c] = seized]
  BY DEF Repaid, Liquidated
<1>5. t = SeizeTokens(mid[c], d, c, repaid)
  BY DEF Seized
<1>6. repaid \in Nat \ {0} /\ BorrowBalanceStored(ks[d], u) \in Nat
  BY <1>1, <1>2, <1>3, SomethingOwed
<1>7. Sound(paidUp) /\ Collects(ks[d], paidUp, u)
      /\ BorrowBalanceStored(paidUp, u) = BorrowBalanceStored(ks[d], u) - repaid
  BY <1>1, <1>2, <1>3, RepayCollects, RepayCalm DEF Calm
<1> HIDE DEF mid, paidUp, new, t, incentive, repaid
<1>8. \A m \in Markets : Sound(mid[m]) /\ MarketInv(mid[m]) /\ Collects(ks[m], mid[m], u)
  BY <1>1, <1>3, <1>4, <1>7, CollectsRefl DEF Sound
<1>9. t \in Nat
  BY <1>1, <1>2, <1>5, <1>6, <1>8, SeizeTokensNat
<1>10. incentive \in Nat \ {0}
  BY DEF IInv, SettingsTyped, Parameters, incentive
<1>11. Sound(seized) /\ MarketInv(seized) /\ Collects(mid[c], seized, u)
       /\ BorrowBalanceStored(seized, u) = BorrowBalanceStored(mid[c], u)
  <2>1. Calm(mid[c], seized, 0)
    BY <1>1, <1>2, <1>8, <1>9, <1>10, SeizeCalm
  <2> QED BY <1>1, <1>2, <1>8, <1>9, <1>10, <2>1, SeizeCollects DEF Calm, Sound
<1> HIDE DEF seized
<1>12. new = [m \in Markets |-> IF m = c THEN seized ELSE mid[m]]
  BY <1>1, <1>3, <1>4
<1>13. \A m \in Markets : MarketInv(new[m]) /\ Collects(mid[m], new[m], u)
  BY <1>8, <1>11, <1>12, CollectsRefl
<1>14. \A m \in Markets : Collects(ks[m], new[m], u)
  BY <1>3, <1>8, <1>13, CollectsTrans
<1>15. \A m \in Markets \ called : new[m] = ks[m]
  BY <1>1, <1>3, <1>4, <1>12
<1>16. BorrowBalanceStored(new[d], u) = BorrowBalanceStored(mid[d], u) /\ mid[d] = paidUp
  BY <1>1, <1>3, <1>4, <1>11, <1>12
<1>17. BorrowBalanceStored(new[d], u) < BorrowBalanceStored(ks[d], u)
  BY <1>6, <1>7, <1>16
<1> QED BY <1>14, <1>15, <1>17 DEF Filled, new

\* However many orders are filled for u.
LEMMA FillCollects ==
    ASSUME IInv, NEW n \in Nat, NEW orders \in [1..n -> Orders], NEW called \in SUBSET Markets,
           \A i \in 1..n : orders[i].debt \in called /\ orders[i].collateral \in called,
           NEW ks, InCall(ks, called), NEW liquidator \in Users, NEW u \in Users, NEW after,
           after[0] = ks,
           \A i \in 1..n : /\ after[i] = Liquidated(after[i - 1], liquidator, u, orders[i])
                           /\ CanLiquidate(after[i - 1], liquidator, u, orders[i], TRUE)
    PROVE  InCall(after[n], called) /\ Filled(ks, after[n], called, u)
<1> DEFINE S == {i \in 0..n : InCall(after[i], called) /\ Filled(ks, after[i], called, u)}
<1>1. 0 \in S
  <2>1. \A m \in Markets : MarketInv(ks[m])
    BY DEF InCall, Calm, Sound
  <2>2. Filled(ks, ks, called, u)
    BY <2>1, CollectsRefl DEF Filled
  <2> QED BY <2>2
<1>2. ASSUME NEW m \in 1..n, m - 1 \in S PROVE m \in S
  <2> DEFINE mid == after[m - 1]
             new == after[m]
             order == orders[m]
  <2>1. InCall(mid, called) /\ Filled(ks, mid, called, u)
    BY <1>2
  <2>2. /\ order \in Orders /\ {order.debt, order.collateral} \subseteq called
        /\ CanLiquidate(mid, liquidator, u, order, TRUE)
        /\ new = Liquidated(mid, liquidator, u, order)
    BY <1>2
  <2> HIDE DEF mid, new, order
  <2>3. InCall(new, called) /\ Filled(mid, new, called, u)
    BY <2>1, <2>2, OrderCalm, OrderCollects, ZenonT(60)
  <2>4. \A q \in Markets : MarketInv(ks[q]) /\ MarketInv(mid[q]) /\ MarketInv(new[q])
    BY <2>1, <2>3 DEF InCall, Calm, Sound
  <2>5. \A q \in Markets : Collects(ks[q], new[q], u)
    BY <2>1, <2>3, <2>4, CollectsTrans DEF Filled
  <2>6. Filled(ks, new, called, u)
    BY <2>1, <2>3, <2>5 DEF Filled
  <2> QED BY <2>3, <2>6 DEF new
<1>3. S = 0..n
  BY <1>1, <1>2, InductiveInterval
<1> QED BY <1>3


\* The two things a step has to answer for: what an account did to itself, and what was
\* taken from it.
CoveredAfter(u) ==
    DebtGrew(u) \/ (CollateralFell(u) /\ ~ DebtFell(u))
      => (Shortfall(Snapshot(markets, AssetsIn(accountAssets[u]), u, parameters.collateralFactor), 0) <= 1)'

TakenFromUnsafe(u) ==
    CollateralFell(u) /\ DebtFell(u) =>
        LET touched == {m \in Markets : markets'[m] # markets[m]}
            assets  == AssetsIn(accountAssets[u])
        IN  \/ \A m \in Markets : DebtFellIn(m, u) => m \in parameters.forced
            \/ Unsafe(Position(markets, assets, u))
            \/ Unsafe(Position(AccrueIn(touched), assets, u))

Answered == \A u \in Users : CoveredAfter(u) /\ TakenFromUnsafe(u)

\* An account whose debts stand and whose tokens do not fall.
Spared(u) ==
    \A m \in Markets :
        /\ ~ DebtMoved(m, u)
        /\ markets'[m].accountTokens[u] >= markets[m].accountTokens[u]
        /\ u \in membership[m] => u \in membership'[m]

LEMMA SparedAnswered ==
    ASSUME IInv, MarketsSound', NEW u \in Users, Spared(u)
    PROVE  CoveredAfter(u) /\ TakenFromUnsafe(u)
<1>1. ~ DebtGrew(u)
  BY DEF DebtGrew, Spared
<1>2. ~ CollateralFell(u)
  <2> SUFFICES ASSUME NEW m \in listed, u \in membership[m],
                      u \notin membership'[m] \/ markets'[m].accountTokens[u] < markets[m].accountTokens[u]
               PROVE  FALSE
    BY DEF CollateralFell
  <2>1. m \in Markets
    BY DEF IInv, SettingsTyped
  <2>2. markets'[m].accountTokens[u] \in Nat /\ markets[m].accountTokens[u] \in Nat
    BY <2>1 DEF IInv, MarketsSound, Market
  <2> QED BY <2>1, <2>2 DEF Spared
<1> QED BY <1>1, <1>2 DEF CoveredAfter, TakenFromUnsafe

\* Collecting from u takes from nobody else, and does not add to what u has to pay.
LEMMA CollectedOnly ==
    ASSUME IInv, MarketsSound', NEW u \in Users, NEW called \in SUBSET Markets,
           NEW ks, AccruedAll(ks, called), Filled(ks, markets', called, u), membership' = membership
    PROVE  (\A w \in Users \ {u} : Spared(w)) /\ ~ DebtGrew(u)
<1>1. ASSUME NEW w \in Users \ {u} PROVE Spared(w)
  <2> SUFFICES ASSUME NEW m \in Markets
               PROVE  /\ ~ DebtMoved(m, w)
                      /\ markets'[m].accountTokens[w] >= markets[m].accountTokens[w]
    BY DEF Spared
  <2>1. Kept(markets[m], ks[m]) /\ Collects(ks[m], markets'[m], u)
    BY DEF AccruedAll, Filled
  <2> QED BY <2>1 DEF Kept, Collects, DebtMoved
<1>2. \A m \in called : OwedNow(m, u) = BorrowBalanceStored(ks[m], u)
  BY DEF AccruedAll, OwedNow
<1>3. ~ DebtGrew(u)
  <2> SUFFICES ASSUME NEW m \in Markets, DebtMoved(m, u),
                      BorrowBalanceStored(markets'[m], u) > OwedNow(m, u)
               PROVE  FALSE
    BY DEF DebtGrew
  <2>1. m \in called
    BY DEF AccruedAll, Filled, DebtMoved
  <2>2. MarketInv(ks[m]) /\ BorrowBalanceStored(markets'[m], u) <= BorrowBalanceStored(ks[m], u)
    BY DEF AccruedAll, Calm, Sound, Filled, Collects
  <2>3. BorrowBalanceStored(ks[m], u) \in Nat /\ BorrowBalanceStored(markets'[m], u) \in Nat
    BY <2>2, BorrowBalance DEF MarketsSound, Sound
  <2>4. BorrowBalanceStored(markets'[m], u) > BorrowBalanceStored(ks[m], u)
    BY <1>2, <2>1
  <2> QED BY <2>2, <2>3, <2>4
<1> QED BY <1>1, <1>3

\* A liquidation leaves u less to pay.
LEMMA CollectedFromOne ==
    ASSUME IInv, MarketsSound', NEW u \in Users, NEW called \in SUBSET Markets,
           NEW ks, AccruedAll(ks, called), Filled(ks, markets', called, u), membership' = membership,
           NEW d \in called, BorrowBalanceStored(markets'[d], u) < BorrowBalanceStored(ks[d], u)
    PROVE  (\A w \in Users \ {u} : Spared(w)) /\ ~ DebtGrew(u) /\ DebtFell(u)
<1>1. (\A w \in Users \ {u} : Spared(w)) /\ ~ DebtGrew(u)
  BY CollectedOnly
<1>2. OwedNow(d, u) = BorrowBalanceStored(ks[d], u)
  BY DEF AccruedAll, OwedNow
<1>3. DebtFell(u)
  <2>1. DebtMoved(d, u)
    <3> SUFFICES ASSUME markets'[d].principal[u] = markets[d].principal[u],
                        markets'[d].interestIndex[u] = markets[d].interestIndex[u]
                 PROVE  FALSE
      BY DEF DebtMoved
    <3>1. Kept(markets[d], ks[d]) /\ Collects(ks[d], markets'[d], u) /\ MarketInv(ks[d])
      BY DEF AccruedAll, Filled, Calm, Sound
    <3>2. BorrowBalanceStored(markets'[d], u) = BorrowBalanceStored(ks[d], u)
      BY <3>1 DEF Kept, Collects, BorrowBalanceStored
    <3>3. BorrowBalanceStored(ks[d], u) \in Nat
      BY <3>1, BorrowBalance
    <3> QED BY <3>2, <3>3
  <2>2. BorrowBalanceStored(markets'[d], u) < OwedNow(d, u)
    BY <1>2
  <2> QED BY <2>1, <2>2 DEF DebtFell, DebtFellIn
<1> QED BY <1>1, <1>3

\* The markets a transaction touched, once accrued, are the ones it accrued: those of them
\* that it left as they were had accrued before.
LEMMA TouchedAccrued ==
    ASSUME IInv, NEW S \in SUBSET Markets, NEW ks, AccruedAll(ks, S),
           \A m \in S : markets'[m].accrualBlockNumber = block,
           \A m \in Markets \ S : markets'[m] = markets[m]
    PROVE  AccrueIn({m \in Markets : markets'[m] # markets[m]}) = ks
<1> DEFINE touched == {m \in Markets : markets'[m] # markets[m]}
<1>1. ks \in [Markets -> Market] /\ markets \in [Markets -> Market]
  BY DEF AccruedAll, IInv, MarketsSound
<1>2. ASSUME NEW m \in Markets
      PROVE  (IF m \in touched THEN AccrueInterest(markets[m], block) ELSE markets[m]) = ks[m]
  <2>1. CASE m \in touched
    BY <2>1 DEF AccruedAll
  <2>2. CASE m \notin touched /\ m \in S
    <3>1. markets[m].accrualBlockNumber = block
      BY <2>2
    <3>2. AccrueInterest(markets[m], block) = markets[m]
      BY <3>1 DEF AccrueInterest
    <3> QED BY <2>2, <3>2 DEF AccruedAll
  <2>3. CASE m \notin touched /\ m \notin S
    BY <2>3 DEF AccruedAll
  <2> QED BY <2>1, <2>2, <2>3
<1> HIDE DEF touched
<1>3. AccrueIn(touched) = [m \in Markets |-> ks[m]]
  BY <1>2 DEF AccrueIn
<1> QED BY <1>1, <1>3 DEF touched


LEMMA LiquidationAnswered ==
    ASSUME IInv, MarketsSound', NEW u \in Users, \A w \in Users \ {u} : Spared(w),
           ~ DebtGrew(u), DebtFell(u), TakenFromUnsafe(u)
    PROVE  Answered
<1>1. CoveredAfter(u)
  BY DEF CoveredAfter
<1> QED BY <1>1, SparedAnswered DEF Answered

\* An order moves debts of the market it repays only.
LEMMA OtherDebtsKept ==
    ASSUME NEW ks \in [Markets -> Market], NEW liquidator \in Users, NEW u \in Users, NEW order \in Orders,
           NEW m \in Markets, m # order.debt
    PROVE  LET new == Liquidated(ks, liquidator, u, order)
           IN  new[m].principal = ks[m].principal /\ new[m].interestIndex = ks[m].interestIndex
<1> DEFINE c == order.collateral
           mid == Repaid(ks, u, order)
           seized == Seize(mid[c], liquidator, u, Seized(ks, u, order), parameters.liquidationIncentive)
           new == Liquidated(ks, liquidator, u, order)
<1>1. c \in Markets /\ order.debt \in Markets
  BY DEF Orders
<1>2. mid = [k \in Markets |-> IF k = order.debt THEN RepayBorrowFresh(ks[k], u, order.amount) ELSE ks[k]]
  BY <1>1 DEF Repaid
<1>3. new = [k \in Markets |-> IF k = c THEN seized ELSE mid[k]]
  BY <1>1, <1>2 DEF Liquidated
<1>4. c = m => seized.principal = mid[m].principal /\ seized.interestIndex = mid[m].interestIndex
  <2> SUFFICES ASSUME c = m PROVE seized.principal = mid[m].principal /\ seized.interestIndex = mid[m].interestIndex
    OBVIOUS
  <2>1. mid[c] = ks[m] /\ ks[m] \in Market
    BY <1>2
  <2> HIDE DEF mid, c
  <2> QED BY <2>1 DEF Seize, TransferTokens, Market
<1> HIDE DEF seized, mid
<1> QED BY <1>2, <1>3, <1>4

LEMMA LiquidateBorrowAnswered ==
    ASSUME IInv, NEW liquidator \in Users, NEW u \in Users, NEW order \in Orders,
           LiquidateBorrow(liquidator, u, order)
    PROVE  Answered
<1> DEFINE ks == AccruedFor(order)
           d == order.debt
           c == order.collateral
           called == {d, c}
           assets == AssetsIn(accountAssets[u])
<1>1. /\ CanAccrueIn(called) /\ CanLiquidate(ks, liquidator, u, order, FALSE)
      /\ markets' = Liquidated(ks, liquidator, u, order) /\ membership' = membership
  BY DEF LiquidateBorrow
<1>2. called \in SUBSET Markets /\ d \in Markets /\ order.amount \in Nat \ {0}
  BY <1>1, InputsNat DEF Orders, CanLiquidate
<1>3. AccruedAll(ks, called) /\ InCall(ks, called)
  BY <1>1, AccruedTwo, AccruedInCall
<1>4. PreLiquidate(ks, d, c, u, order.amount, FALSE)
  BY <1>1 DEF CanLiquidate
<1> HIDE DEF ks
<1>5. /\ Filled(ks, markets', called, u) /\ InCall(markets', called)
      /\ BorrowBalanceStored(markets'[d], u) < BorrowBalanceStored(ks[d], u)
  BY <1>1, <1>2, <1>3, OrderCollects, OrderCalm
<1>6. MarketsSound'
  <2>1. GoodStep
    BY LiquidateBorrowStep
  <2> QED BY <2>1 DEF GoodStep, IInv
<1>7. (\A w \in Users \ {u} : Spared(w)) /\ ~ DebtGrew(u) /\ DebtFell(u)
  <2>1. d \in called
    OBVIOUS
  <2> HIDE DEF called, d
  <2> QED BY <1>1, <1>2, <1>3, <1>5, <1>6, <2>1, CollectedFromOne
<1>8. AccrueIn({m \in Markets : markets'[m] # markets[m]}) = ks
  <2>1. \A m \in called : markets'[m].accrualBlockNumber = block
    BY <1>5 DEF InCall
  <2>2. \A m \in Markets \ called : markets'[m] = markets[m]
    BY <1>3, <1>5 DEF Filled, AccruedAll
  <2> HIDE DEF called
  <2> QED BY <1>2, <1>3, <2>1, <2>2, TouchedAccrued
<1>9. CASE d \in parameters.forced
  <2>1. ASSUME NEW m \in Markets, m # d PROVE ~ DebtMoved(m, u)
    <3>0. ks \in [Markets -> Market] /\ m # order.debt
      BY <1>3, <2>1 DEF AccruedAll
    <3>1. markets'[m].principal = ks[m].principal /\ markets'[m].interestIndex = ks[m].interestIndex
      <4>1. LET new == Liquidated(ks, liquidator, u, order)
            IN  new[m].principal = ks[m].principal /\ new[m].interestIndex = ks[m].interestIndex
        BY <3>0, OtherDebtsKept
      <4> QED BY <1>1, <4>1
    <3>2. ks[m].principal = markets[m].principal /\ ks[m].interestIndex = markets[m].interestIndex
      BY <1>3 DEF AccruedAll, Kept
    <3> QED BY <3>1, <3>2 DEF DebtMoved
  <2>2. \A m \in Markets : DebtFellIn(m, u) => m \in parameters.forced
    BY <1>9, <2>1 DEF DebtFellIn
  <2>3. TakenFromUnsafe(u)
    BY <2>2 DEF TakenFromUnsafe
  <2> QED BY <1>6, <1>7, <2>3, LiquidationAnswered
<1>10. CASE d \notin parameters.forced
  <2>1. Unsafe(Position(ks, assets, u))
    BY <1>4, <1>10 DEF PreLiquidate, Liquidatable, Forced
  <2>2. TakenFromUnsafe(u)
    BY <1>8, <2>1 DEF TakenFromUnsafe
  <2> QED BY <1>6, <1>7, <2>2, LiquidationAnswered
<1> QED BY <1>9, <1>10

\* liquidateAccount's first order repays something, and in the end nothing is owed.
LEMMA LiquidateAccountAnswered ==
    ASSUME IInv, NEW liquidator \in Users, NEW u \in Users, LiquidateAccount(liquidator, u)
    PROVE  Answered
<1> DEFINE assets == AssetsIn(accountAssets[u])
<1>1. /\ Unsafe(Position(markets, assets, u)) /\ membership' = membership
  BY DEF LiquidateAccount, BatchLiquidatable
<1>2. PICK n \in 1..MaxOrders : \E orders \in [1..n -> Orders] :
              LET called == {orders[i].debt : i \in 1..n} \cup {orders[i].collateral : i \in 1..n}
                  after  == FillOrders(AccrueIn(called), liquidator, u, orders)
              IN  /\ CanAccrueIn(called)
                  /\ \A i \in 1..n : CanLiquidate(after[i - 1], liquidator, u, orders[i], TRUE)
                  /\ \A m \in assets : /\ HasExchangeRate(after[n][m])
                                        /\ BorrowBalanceStored(after[n][m], u) = 0
                  /\ markets' = after[n]
  BY DEF LiquidateAccount
<1>3. PICK orders \in [1..n -> Orders] :
              LET called == {orders[i].debt : i \in 1..n} \cup {orders[i].collateral : i \in 1..n}
                  after  == FillOrders(AccrueIn(called), liquidator, u, orders)
              IN  /\ CanAccrueIn(called)
                  /\ \A i \in 1..n : CanLiquidate(after[i - 1], liquidator, u, orders[i], TRUE)
                  /\ \A m \in assets : /\ HasExchangeRate(after[n][m])
                                        /\ BorrowBalanceStored(after[n][m], u) = 0
                  /\ markets' = after[n]
  BY <1>2
<1> DEFINE called == {orders[i].debt : i \in 1..n} \cup {orders[i].collateral : i \in 1..n}
           ks == AccrueIn(called)
           after == FillOrders(ks, liquidator, u, orders)
           d == orders[1].debt
<1>4. n \in Nat /\ 1 \in 1..n
  BY IsolatedPoolAssumption
<1>5. called \in SUBSET Markets /\ \A i \in 1..n : orders[i].debt \in called /\ orders[i].collateral \in called
  BY DEF Orders
<1>6. /\ CanAccrueIn(called) /\ markets' = after[n]
      /\ \A i \in 1..n : CanLiquidate(after[i - 1], liquidator, u, orders[i], TRUE)
      /\ \A m \in assets : BorrowBalanceStored(after[n][m], u) = 0
  BY <1>3
<1>7. d \in Markets /\ d \in called /\ orders[1].amount \in Nat
  BY <1>4, <1>5, InputsNat DEF Orders
<1> HIDE DEF called
<1>8. AccruedAll(ks, called) /\ InCall(ks, called)
  BY <1>5, <1>6, AccrueInAll, AccruedInCall
<1> HIDE DEF ks
<1>9. after[0] = ks /\ \A i \in 1..n : after[i] = Liquidated(after[i - 1], liquidator, u, orders[i])
  <2>1. n \in Nat /\ orders \in [1..n -> Orders]
    BY <1>4
  <2> HIDE DEF after
  <2>2. /\ FillOrders(ks, liquidator, u, orders)[0] = ks
        /\ \A i \in 1..n : FillOrders(ks, liquidator, u, orders)[i]
             = Liquidated(FillOrders(ks, liquidator, u, orders)[i - 1], liquidator, u, orders[i])
    BY <2>1, FillOrdersDef
  <2> QED BY <2>2, Zenon DEF after
<1> HIDE DEF after
<1>10. Filled(ks, markets', called, u)
  <2>1. Filled(ks, after[n], called, u)
    BY <1>4, <1>5, <1>6, <1>8, <1>9, FillCollects, ZenonT(60)
  <2> QED BY <1>6, <2>1
<1>11. PreLiquidate(ks, d, orders[1].collateral, u, orders[1].amount, TRUE)
       /\ orders[1].amount # 0 /\ d \in listed
  <2>1. CanLiquidate(after[1 - 1], liquidator, u, orders[1], TRUE)
    BY <1>4, <1>6, Zenon
  <2>2. after[1 - 1] = ks
    BY <1>9
  <2>3. CanLiquidate(ks, liquidator, u, orders[1], TRUE)
    BY <2>1, <2>2
  <2> QED BY <2>3 DEF CanLiquidate, PreLiquidate
<1> HIDE DEF d
<1>12. BorrowBalanceStored(ks[d], u) \in Nat \ {0} /\ ks[d].principal[u] # 0
  <2>1. Sound(ks[d])
    BY <1>7, <1>8 DEF AccruedAll, Calm
  <2>2. BorrowBalanceStored(ks[d], u) \in Nat \ {0}
    BY <1>7, <1>11, <2>1, SomethingOwed
  <2> QED BY <2>1, <2>2, NothingOwed
<1>13. d \in assets
  <2>1. ks[d].principal = markets[d].principal
    BY <1>7, <1>8 DEF AccruedAll, Kept
  <2>2. markets[d].principal[u] \in Nat /\ markets[d].principal[u] # 0
    BY <1>7, <1>12, <2>1 DEF IInv, MarketsSound, Market
  <2>3. InList(accountAssets[u], d)
    BY <1>7, <2>2 DEF IInv, DebtImpliesMembership, AccountAssetsMatchMembership
  <2> QED BY <1>11, <2>3 DEF AssetsIn
<1>14. BorrowBalanceStored(markets'[d], u) < BorrowBalanceStored(ks[d], u)
  <2>1. BorrowBalanceStored(markets'[d], u) = 0
    BY <1>6, <1>13
  <2> QED BY <1>12, <2>1
<1>15. MarketsSound'
  <2>1. GoodStep
    BY LiquidateAccountStep
  <2> QED BY <2>1 DEF GoodStep, IInv
<1>16. (\A w \in Users \ {u} : Spared(w)) /\ ~ DebtGrew(u) /\ DebtFell(u)
  BY <1>1, <1>5, <1>7, <1>8, <1>10, <1>14, <1>15, CollectedFromOne
<1>17. TakenFromUnsafe(u)
  BY <1>1 DEF TakenFromUnsafe
<1> QED BY <1>15, <1>16, <1>17, LiquidationAnswered


LEMMA SumOverNonzero ==
    ASSUME NEW S \in SUBSET Markets, NEW value, SumOver(S, value) # 0
    PROVE  \E m \in S : value[m] # 0
<1> SUFFICES ASSUME \A m \in S : value[m] = 0 PROVE FALSE
  OBVIOUS
<1>1. [m \in Markets |-> IF m \in S THEN value[m] ELSE 0] = [m \in 1..NumMarkets |-> 0]
  BY DEF Markets
<1>2. Total([m \in 1..NumMarkets |-> 0], NumMarkets) = 0
  BY IsolatedPoolAssumption, TotalZero
<1> QED BY <1>1, <1>2 DEF SumOver

\* Who is unsafe owes something in one of his markets.
LEMMA UnsafeOwes ==
    ASSUME IInv, NEW S \in SUBSET Markets, NEW ks, \A m \in S : Sound(ks[m]), NEW u \in Users,
           Unsafe(Position(ks, S, u))
    PROVE  \E m \in S : BorrowBalanceStored(ks[m], u) # 0
<1> DEFINE borrow == [m \in S |-> MulScalarTruncate(price[m], BorrowBalanceStored(ks[m], u))]
<1>1. Position(ks, S, u).borrows # 0
  BY PositionNat DEF Unsafe, Shortfall
<1>2. Position(ks, S, u).borrows = SumOver(S, borrow)
  BY DEF Position, Snapshot
<1>3. PICK m \in S : borrow[m] # 0
  <2> HIDE DEF borrow
  <2> QED BY <1>1, <1>2, SumOverNonzero
<1>4. MulScalarTruncate(price[m], 0) = 0
  <2>1. price[m] \in Nat
    BY DEF IInv, SettingsTyped
  <2> QED BY <2>1, ExpScaleAssumption, SMT DEF MulScalarTruncate
<1> QED BY <1>3, <1>4

\* In a market that is healed only u's tokens and debt fall, to nothing.
LEMMA HealedCollects ==
    ASSUME IInv, NEW k, Sound(k), NEW m \in Markets, NEW liquidator \in Users, NEW u \in Users,
           NEW percentage \in Nat, CanHealIn(k, m, liquidator, u, percentage)
    PROVE  /\ Collects(k, Healed(k, liquidator, u, percentage), u)
           /\ BorrowBalanceStored(Healed(k, liquidator, u, percentage), u) = 0
<1> DEFINE mid == AllSeized(k, liquidator, u)
           owed == BorrowBalanceStored(k, u)
           repaid == MulScalarTruncate(percentage, owed)
           incentive == parameters.liquidationIncentive
           new == Healed(k, liquidator, u, percentage)
           t == k.accountTokens[u]
           seized == Seize(k, liquidator, u, t, incentive)
<1>1. /\ t \in Nat /\ owed \in Nat /\ incentive \in Nat \ {0} /\ MarketInv(k)
  BY BorrowBalance DEF Sound, MarketInv, Market, IInv, SettingsTyped, Parameters
<1>2. repaid \in Nat
  BY <1>1, TruncatedNat
<1>3. BorrowBalanceStored(new, u) = 0
  BY HealedEffect DEF BorrowBalanceStored
<1>4. Sound(mid) /\ MarketInv(mid) /\ Collects(k, mid, u)
  <2>1. CASE t = 0
    <3>1. mid = k
      BY <2>1 DEF AllSeized
    <3> HIDE DEF mid
    <3> QED BY <1>1, <3>1, CollectsRefl
  <2>2. CASE t # 0
    <3>1. mid = seized /\ CanSeize(k, liquidator, u, t, incentive)
      BY <2>2 DEF AllSeized, CanHealIn
    <3> HIDE DEF incentive, mid, t
    <3>2. Calm(k, seized, 0) /\ Collects(k, seized, u)
      BY <1>1, <3>1, SeizeCalm, SeizeCollects
    <3> HIDE DEF seized
    <3> QED BY <3>1, <3>2 DEF Calm, Sound
  <2> QED BY <2>1, <2>2
<1>5. CASE owed = 0
  <2>1. new = mid
    BY <1>5 DEF Healed
  <2> HIDE DEF mid, new, owed
  <2> QED BY <1>3, <1>4, <2>1 DEF new
<1>6. CASE owed # 0
  <2>1. new = HealBorrow(mid, u, repaid) /\ CanHealBorrow(mid, u, repaid)
    BY <1>6 DEF Healed, CanHealIn
  <2> HIDE DEF mid, new, owed, repaid
  <2>2. Sound(new) /\ Collects(mid, new, u)
    BY <1>2, <1>4, <2>1, HealEffect, HealCollects
  <2>3. Collects(k, new, u)
    BY <1>1, <1>4, <2>2, CollectsTrans DEF Sound
  <2> QED BY <1>3, <2>3 DEF new
<1> QED BY <1>5, <1>6

LEMMA HealAccountAnswered ==
    ASSUME IInv, NEW liquidator \in Users, NEW u \in Users, HealAccount(liquidator, u)
    PROVE  Answered
<1> DEFINE assets     == AssetsIn(accountAssets[u])
           ks         == AccrueIn(assets)
           position   == Position(ks, assets, u)
           percentage == HealPercentage(position)
<1>1. /\ CanAccrueIn(assets) /\ Healable(position) /\ membership' = membership
      /\ \A m \in assets : CanHealIn(ks[m], m, liquidator, u, percentage)
      /\ markets' = [m \in Markets |-> IF m \in assets THEN Healed(ks[m], liquidator, u, percentage) ELSE ks[m]]
  BY DEF HealAccount
<1>2. assets \in SUBSET Markets
  BY AssetsListed
<1> HIDE DEF assets
<1>3. AccruedAll(ks, assets)
  BY <1>1, <1>2, AccrueInAll
<1> HIDE DEF ks
<1>4. \A m \in Markets : Sound(ks[m]) /\ MarketInv(ks[m])
  BY <1>3 DEF AccruedAll, Calm, Sound
<1>5. percentage \in Nat
  <2>1. position.totalCollateral \in Nat /\ position.borrows \in Nat
    BY <1>2, <1>4, PositionNat
  <2>2. parameters.liquidationIncentive \in Nat
    BY DEF IInv, SettingsTyped, Parameters
  <2>3. MulExp(position.borrows, parameters.liquidationIncentive) \in Nat \ {0}
    BY <1>1, <2>1, <2>2, TruncatedNat DEF Healable
  <2> HIDE DEF position
  <2> QED BY <2>1, <2>3, DivExpNat DEF HealPercentage
<1> HIDE DEF percentage
<1>6. Unsafe(position)
  BY <1>1 DEF Healable
<1>7. \A m \in assets :
          /\ Collects(ks[m], markets'[m], u) /\ BorrowBalanceStored(markets'[m], u) = 0
          /\ markets'[m].accrualBlockNumber = block
  <2> SUFFICES ASSUME NEW m \in assets
               PROVE  /\ Collects(ks[m], markets'[m], u) /\ BorrowBalanceStored(markets'[m], u) = 0
                      /\ markets'[m].accrualBlockNumber = block
    OBVIOUS
  <2>1. markets'[m] = Healed(ks[m], liquidator, u, percentage) /\ Sound(ks[m]) /\ m \in Markets
        /\ CanHealIn(ks[m], m, liquidator, u, percentage)
    BY <1>1, <1>2, <1>4
  <2>2. Collects(ks[m], markets'[m], u) /\ BorrowBalanceStored(markets'[m], u) = 0
    BY <1>5, <2>1, HealedCollects
  <2>3. markets'[m].accrualBlockNumber = ks[m].accrualBlockNumber
    BY <1>5, <2>1, HealedEffect
  <2> QED BY <1>3, <2>2, <2>3 DEF AccruedAll
<1>8. \A m \in Markets \ assets : markets'[m] = ks[m] /\ ks[m] = markets[m]
  BY <1>1, <1>3 DEF AccruedAll
<1>9. Filled(ks, markets', assets, u)
  BY <1>2, <1>4, <1>7, <1>8, CollectsRefl DEF Filled
<1>10. PICK d \in assets : BorrowBalanceStored(ks[d], u) # 0
  BY <1>2, <1>4, <1>6, UnsafeOwes
<1>11. BorrowBalanceStored(markets'[d], u) < BorrowBalanceStored(ks[d], u)
  <2>1. BorrowBalanceStored(ks[d], u) \in Nat
    BY <1>2, <1>4, BorrowBalance
  <2> QED BY <1>7, <1>10, <2>1
<1>12. MarketsSound'
  <2>1. GoodStep
    BY HealAccountStep
  <2> QED BY <2>1 DEF GoodStep, IInv
<1>13. (\A w \in Users \ {u} : Spared(w)) /\ ~ DebtGrew(u) /\ DebtFell(u)
  BY <1>1, <1>2, <1>3, <1>9, <1>11, <1>12, CollectedFromOne
<1>14. AccrueIn({m \in Markets : markets'[m] # markets[m]}) = ks
  BY <1>2, <1>3, <1>7, <1>8, TouchedAccrued
<1>15. TakenFromUnsafe(u)
  BY <1>6, <1>14 DEF TakenFromUnsafe, assets
<1> QED BY <1>12, <1>13, <1>15, LiquidationAnswered


LEMMA SnapshotAfter ==
    ASSUME NEW u, UNCHANGED <<price, listed, parameters>>
    PROVE  (Shortfall(Snapshot(markets, AssetsIn(accountAssets[u]), u, parameters.collateralFactor), 0) <= 1)'
             <=> Shortfall(Snapshot(markets', AssetsIn(accountAssets'[u]), u, parameters.collateralFactor), 0) <= 1
<1>1. AssetsIn(accountAssets[u])' = AssetsIn(accountAssets'[u])
  BY DEF AssetsIn
<1>2. \A k, m : VTokenPrice(k, m)' = VTokenPrice(k, m)
  BY DEF VTokenPrice
<1> QED BY <1>1, <1>2 DEF Snapshot, Shortfall, VTokenPrice, AssetsIn


\* A sum over markets in which one summand changes, or goes.
LEMMA SumOverAt ==
    ASSUME NEW S \in SUBSET Markets, NEW f \in [S -> Nat], NEW g \in [S -> Nat], NEW m \in S,
           \A n \in S \ {m} : g[n] = f[n]
    PROVE  SumOver(S, g) = SumOver(S, f) - f[m] + g[m]
<1> DEFINE F == [n \in Markets |-> IF n \in S THEN f[n] ELSE 0]
           G == [n \in Markets |-> IF n \in S THEN g[n] ELSE 0]
<1>1. F \in [1..NumMarkets -> Int] /\ G = [F EXCEPT ![m] = g[m]] /\ m \in 1..NumMarkets /\ F[m] = f[m]
      /\ g[m] \in Int
  <2>1. m \in Markets /\ g[m] \in Nat /\ F[m] = f[m] /\ F \in [Markets -> Nat]
    OBVIOUS
  <2>2. \A n \in Markets : G[n] = IF n = m THEN g[m] ELSE F[n]
    OBVIOUS
  <2>3. DOMAIN G = Markets /\ G = [n \in Markets |-> G[n]]
    OBVIOUS
  <2> HIDE DEF F, G
  <2>4. G = [F EXCEPT ![m] = g[m]]
    BY <2>1, <2>2, <2>3
  <2>5. F \in [Markets -> Int]
    BY <2>1
  <2> QED BY <2>1, <2>4, <2>5 DEF Markets
<1>2. NumMarkets \in Nat
  BY IsolatedPoolAssumption
<1>3. SumOver(S, f) = Total(F, NumMarkets) /\ SumOver(S, g) = Total(G, NumMarkets)
  BY DEF SumOver
<1> HIDE DEF F, G
<1>4. Total([F EXCEPT ![m] = g[m]], NumMarkets) = Total(F, NumMarkets) - F[m] + g[m]
  BY <1>1, <1>2, TotalUpdate
<1> QED BY <1>1, <1>3, <1>4

LEMMA SumOverWithout ==
    ASSUME NEW S \in SUBSET Markets, NEW f \in [S -> Nat], NEW m \in S, NEW g \in [S \ {m} -> Nat],
           \A n \in S \ {m} : g[n] = f[n]
    PROVE  SumOver(S \ {m}, g) = SumOver(S, f) - f[m]
<1> DEFINE F == [n \in Markets |-> IF n \in S THEN f[n] ELSE 0]
           G == [n \in Markets |-> IF n \in S \ {m} THEN g[n] ELSE 0]
<1> DEFINE none == 0
<1>1. F \in [1..NumMarkets -> Int] /\ G = [F EXCEPT ![m] = none] /\ m \in 1..NumMarkets /\ F[m] = f[m]
      /\ none \in Int
  <2>1. m \in Markets /\ F[m] = f[m] /\ F \in [Markets -> Nat]
    OBVIOUS
  <2>2. \A n \in Markets : G[n] = IF n = m THEN none ELSE F[n]
    OBVIOUS
  <2>3. DOMAIN G = Markets /\ G = [n \in Markets |-> G[n]]
    OBVIOUS
  <2> HIDE DEF F, G
  <2>4. G = [F EXCEPT ![m] = none]
    BY <2>1, <2>2, <2>3
  <2>5. F \in [Markets -> Int]
    BY <2>1
  <2> QED BY <2>1, <2>4, <2>5 DEF Markets
<1>2. NumMarkets \in Nat
  BY IsolatedPoolAssumption
<1>3. SumOver(S, f) = Total(F, NumMarkets) /\ SumOver(S \ {m}, g) = Total(G, NumMarkets)
  BY DEF SumOver
<1> HIDE DEF F, G, none
<1>4. Total([F EXCEPT ![m] = none], NumMarkets) = Total(F, NumMarkets) - F[m] + none
  BY <1>1, <1>2, TotalUpdate
<1>5. Total(F, NumMarkets) \in Int /\ f[m] \in Int
  BY <1>1, <1>2, TotalType
<1> QED BY <1>1, <1>3, <1>4, <1>5 DEF none

\* What a market adds to a snapshot.
Weighted(k, m, u, weight) == MulScalarTruncate(MulExp(weight[m], VTokenPrice(k, m)), k.accountTokens[u])

Borrowed(k, m, u) == MulScalarTruncate(price[m], BorrowBalanceStored(k, u))

AllWeighted(ks, S, u, weight) == [m \in S |-> Weighted(ks[m], m, u, weight)]

AllBorrowed(ks, S, u) == [m \in S |-> Borrowed(ks[m], m, u)]

LEMMA SummandsNat ==
    ASSUME IInv, NEW m \in Markets, NEW k, MarketInv(k), NEW u \in Users,
           NEW weight \in [Markets -> Nat]
    PROVE  /\ MulExp(weight[m], VTokenPrice(k, m)) \in Nat /\ VTokenPrice(k, m) \in Nat
           /\ Weighted(k, m, u, weight) \in Nat /\ Borrowed(k, m, u) \in Nat
<1>1. price[m] \in Nat /\ weight[m] \in Nat /\ k.accountTokens[u] \in Nat
  BY DEF IInv, SettingsTyped, MarketInv, Market
<1>2. ExchangeRateStored(k) \in Nat /\ BorrowBalanceStored(k, u) \in Nat
  BY ExchangeRate, BorrowBalance
<1>3. VTokenPrice(k, m) \in Nat
  BY <1>1, <1>2, TruncatedNat DEF VTokenPrice
<1>4. MulExp(weight[m], VTokenPrice(k, m)) \in Nat
  BY <1>1, <1>3, TruncatedNat
<1> QED BY <1>1, <1>2, <1>3, <1>4, TruncatedNat DEF Weighted, Borrowed

LEMMA SnapshotSums ==
    ASSUME IInv, NEW S \in SUBSET Markets, NEW ks, \A m \in S : MarketInv(ks[m]), NEW u \in Users,
           NEW weight \in [Markets -> Nat]
    PROVE  /\ AllWeighted(ks, S, u, weight) \in [S -> Nat] /\ AllBorrowed(ks, S, u) \in [S -> Nat]
           /\ Snapshot(ks, S, u, weight).weightedCollateral = SumOver(S, AllWeighted(ks, S, u, weight))
           /\ Snapshot(ks, S, u, weight).borrows = SumOver(S, AllBorrowed(ks, S, u))
           /\ Snapshot(ks, S, u, weight).weightedCollateral \in Nat
           /\ Snapshot(ks, S, u, weight).borrows \in Nat
<1> DEFINE f == AllWeighted(ks, S, u, weight)
           g == AllBorrowed(ks, S, u)
<1>1. f \in [S -> Nat] /\ g \in [S -> Nat]
  BY SummandsNat DEF AllWeighted, AllBorrowed
<1>2. /\ Snapshot(ks, S, u, weight).weightedCollateral = SumOver(S, f)
      /\ Snapshot(ks, S, u, weight).borrows = SumOver(S, g)
  BY DEF Snapshot, AllWeighted, AllBorrowed, Weighted, Borrowed
<1>3. SumOver(S, f) \in Nat /\ SumOver(S, g) \in Nat
  <2> HIDE DEF f, g
  <2> QED BY <1>1, SumOverNat
<1> QED BY <1>1, <1>2, <1>3

\* What changes in a snapshot when one market changes.
LEMMA SnapshotMoves ==
    ASSUME IInv, NEW S \in SUBSET Markets, NEW ks, \A m \in S : MarketInv(ks[m]),
           NEW new, \A m \in S : MarketInv(new[m]), NEW d \in S, \A m \in S \ {d} : new[m] = ks[m],
           NEW u \in Users, NEW weight \in [Markets -> Nat]
    PROVE  /\ Snapshot(new, S, u, weight).weightedCollateral
                = Snapshot(ks, S, u, weight).weightedCollateral
                    - Weighted(ks[d], d, u, weight) + Weighted(new[d], d, u, weight)
           /\ Snapshot(new, S, u, weight).borrows
                = Snapshot(ks, S, u, weight).borrows - Borrowed(ks[d], d, u) + Borrowed(new[d], d, u)
<1> DEFINE f == AllWeighted(ks, S, u, weight)
           g == AllBorrowed(ks, S, u)
           ff == AllWeighted(new, S, u, weight)
           gg == AllBorrowed(new, S, u)
<1>1. /\ f \in [S -> Nat] /\ g \in [S -> Nat] /\ ff \in [S -> Nat] /\ gg \in [S -> Nat]
      /\ Snapshot(ks, S, u, weight).weightedCollateral = SumOver(S, f)
      /\ Snapshot(ks, S, u, weight).borrows = SumOver(S, g)
      /\ Snapshot(new, S, u, weight).weightedCollateral = SumOver(S, ff)
      /\ Snapshot(new, S, u, weight).borrows = SumOver(S, gg)
  BY SnapshotSums
<1>2. /\ \A m \in S \ {d} : ff[m] = f[m] /\ gg[m] = g[m]
      /\ f[d] = Weighted(ks[d], d, u, weight) /\ ff[d] = Weighted(new[d], d, u, weight)
      /\ g[d] = Borrowed(ks[d], d, u) /\ gg[d] = Borrowed(new[d], d, u)
  BY DEF AllWeighted, AllBorrowed
<1> HIDE DEF f, g, ff, gg
<1>3. SumOver(S, ff) = SumOver(S, f) - f[d] + ff[d] /\ SumOver(S, gg) = SumOver(S, g) - g[d] + gg[d]
  BY <1>1, <1>2, SumOverAt
<1> QED BY <1>1, <1>2, <1>3


\* What tokens that leave were worth covers what is missing, up to one unit of truncation;
\* the tokens that stay are worth no less.
LEMMA TokensLeave ==
    ASSUME IInv, NEW m \in Markets, NEW k, MarketInv(k), NEW new, MarketInv(new), RateHeld(k, new),
           NEW u \in Users, NEW t \in Nat, t <= k.accountTokens[u],
           new.accountTokens[u] = k.accountTokens[u] - t, NEW weight \in [Markets -> Nat]
    PROVE  Weighted(k, m, u, weight)
             <= Weighted(new, m, u, weight) + MulScalarTruncate(MulExp(weight[m], VTokenPrice(k, m)), t) + 1
<1> DEFINE before == MulExp(weight[m], VTokenPrice(k, m))
           after == MulExp(weight[m], VTokenPrice(new, m))
           x == new.accountTokens[u]
<1>1. /\ before \in Nat /\ after \in Nat /\ x \in Nat
      /\ VTokenPrice(k, m) \in Nat /\ VTokenPrice(new, m) \in Nat
  BY SummandsNat DEF MarketInv, Market
<1>2. Weighted(k, m, u, weight) = MulScalarTruncate(before, x + t)
  <2>1. k.accountTokens[u] \in Nat
    BY DEF MarketInv, Market
  <2>2. k.accountTokens[u] = x + t
    BY <2>1
  <2> QED BY <2>2 DEF Weighted
<1>3. Weighted(new, m, u, weight) = MulScalarTruncate(after, x)
  BY DEF Weighted
<1>4. MulScalarTruncate(before, x + t) <= MulScalarTruncate(before, x) + MulScalarTruncate(before, t) + 1
  BY <1>1, TruncatedSplit
<1>5. MulScalarTruncate(before, x) <= MulScalarTruncate(after, x)
  <2>1. CASE x = 0
    BY <1>1, <2>1, TruncatedZero
  <2>2. CASE x # 0
    <3>1. k.totalSupply > 0 /\ new.totalSupply > 0
      <4>1. /\ k.accountTokens[u] \in Nat /\ k.accountTokens[u] <= k.totalSupply
            /\ x <= new.totalSupply
        BY BalanceWithinSupply
      <4>2. k.totalSupply \in Nat /\ new.totalSupply \in Nat
        BY MarketFields
      <4> QED BY <1>1, <2>2, <4>1, <4>2
    <3>2. ExchangeRateStored(k) <= ExchangeRateStored(new)
      BY <3>1 DEF RateHeld
    <3>3. ExchangeRateStored(k) \in Nat /\ ExchangeRateStored(new) \in Nat /\ price[m] \in Nat /\ weight[m] \in Nat
      BY MarketFields DEF IInv, SettingsTyped
    <3>4. VTokenPrice(k, m) <= VTokenPrice(new, m)
      <4>1. \A a, b \in Nat : MulExp(a, b) = MulExp(b, a)
        BY SMT DEF MulExp
      <4> QED BY <3>2, <3>3, <4>1, TruncatedGrows DEF VTokenPrice
    <3>5. before <= after
      BY <1>1, <3>3, <3>4, TruncatedGrows
    <3> HIDE DEF before, after, x
    <3> QED BY <1>1, <3>5, TruncatedGrows
  <2> QED BY <2>1, <2>2
<1> HIDE DEF before, after, x
<1>6. /\ MulScalarTruncate(before, x) \in Nat /\ MulScalarTruncate(after, x) \in Nat
      /\ MulScalarTruncate(before, t) \in Nat /\ MulScalarTruncate(before, x + t) \in Nat
  <2> DEFINE whole == x + t
  <2>1. whole \in Nat
    BY <1>1
  <2> HIDE DEF whole
  <2>2. MulScalarTruncate(before, whole) \in Nat
    BY <1>1, <2>1, TruncatedNat
  <2> QED BY <1>1, <2>2, TruncatedNat DEF whole
<1>7. MulScalarTruncate(before, x + t) <= MulScalarTruncate(after, x) + MulScalarTruncate(before, t) + 1
  BY <1>4, <1>5, <1>6
<1> QED BY <1>2, <1>3, <1>7 DEF before

\* Nothing falls short when the collateral is within one unit of the borrows.
LEMMA WithinOne ==
    ASSUME NEW s, s.weightedCollateral \in Nat, s.borrows \in Nat, s.borrows <= s.weightedCollateral + 1
    PROVE  Shortfall(s, 0) <= 1
BY DEF Shortfall

\* What the check found affordable, before the effects of an operation.
LEMMA Afforded ==
    ASSUME IInv, NEW S \in SUBSET Markets, NEW ks, \A n \in S : MarketInv(ks[n]), NEW m \in S,
           NEW u \in Users, NEW t \in Nat, NEW a \in Nat, CanAfford(ks, S, u, m, t, a)
    PROVE  LET cf == parameters.collateralFactor
           IN  Snapshot(ks, S, u, cf).borrows
                 + MulScalarTruncate(MulExp(cf[m], VTokenPrice(ks[m], m)), t) + MulScalarTruncate(price[m], a)
                 <= Snapshot(ks, S, u, cf).weightedCollateral
<1> DEFINE cf == parameters.collateralFactor
           s == Snapshot(ks, S, u, cf)
           x == MulScalarTruncate(MulExp(cf[m], VTokenPrice(ks[m], m)), t)
           y == MulScalarTruncate(price[m], a)
<1>1. cf \in [Markets -> Nat] /\ price[m] \in Nat /\ m \in Markets
  BY DEF IInv, SettingsTyped, Parameters
<1>2. Shortfall(s, x + y) = 0
  BY DEF CanAfford, Effects
<1>3. x \in Nat /\ y \in Nat
  BY <1>1, SummandsNat, TruncatedNat
<1>4. s.weightedCollateral \in Nat /\ s.borrows \in Nat
  BY <1>1, SnapshotSums
<1> HIDE DEF s, x, y
<1>5. s.borrows + x + y <= s.weightedCollateral
  BY <1>2, <1>3, <1>4 DEF Shortfall
<1> QED BY <1>5 DEF s, x, y

LEMMA ShortByOneAtMost ==
    ASSUME IInv, NEW S \in SUBSET Markets, NEW ks, \A n \in S : MarketInv(ks[n]),
           NEW new, \A n \in S : MarketInv(new[n]), NEW m \in S, \A n \in S \ {m} : new[n] = ks[n],
           NEW u \in Users, NEW t \in Nat, CanAfford(ks, S, u, m, t, 0),
           RateHeld(ks[m], new[m]), BorrowBalanceStored(new[m], u) = BorrowBalanceStored(ks[m], u),
           t <= ks[m].accountTokens[u], new[m].accountTokens[u] = ks[m].accountTokens[u] - t
    PROVE  Shortfall(Snapshot(new, S, u, parameters.collateralFactor), 0) <= 1
<1> DEFINE cf == parameters.collateralFactor
           s == Snapshot(ks, S, u, cf)
           after == Snapshot(new, S, u, cf)
           x == MulScalarTruncate(MulExp(cf[m], VTokenPrice(ks[m], m)), t)
           y == MulScalarTruncate(price[m], 0)
           w == Weighted(ks[m], m, u, cf)
           v == Weighted(new[m], m, u, cf)
           b == Borrowed(ks[m], m, u)
<1>1. cf \in [Markets -> Nat] /\ price[m] \in Nat /\ m \in Markets
  BY DEF IInv, SettingsTyped, Parameters
<1> HIDE DEF cf
<1>2. s.borrows + x + y <= s.weightedCollateral
  BY Afforded DEF cf
<1>3. w <= v + x + 1
  BY <1>1, TokensLeave
<1>4. Borrowed(new[m], m, u) = b
  BY DEF Borrowed
<1>5. after.weightedCollateral = s.weightedCollateral - w + v /\ after.borrows = s.borrows - b + b
  BY <1>1, <1>4, SnapshotMoves
<1>6. /\ s.weightedCollateral \in Nat /\ s.borrows \in Nat
      /\ after.weightedCollateral \in Nat /\ after.borrows \in Nat
  BY <1>1, SnapshotSums
<1>7. x \in Nat /\ y \in Nat /\ w \in Nat /\ v \in Nat /\ b \in Nat
  BY <1>1, SummandsNat, TruncatedNat
<1> HIDE DEF s, after, x, y, w, v, b
<1>8. after.borrows <= after.weightedCollateral + 1
  BY <1>2, <1>3, <1>5, <1>6, <1>7
<1>9. Shortfall(after, 0) <= 1
  BY <1>6, <1>8, WithinOne
<1> QED BY <1>9 DEF after, cf


-----------------------------------------------------------------------------
(* Every transaction answers for what it did *)

LEMMA AllSparedAnswered ==
    ASSUME IInv, MarketsSound', \A w \in Users : Spared(w)
    PROVE  Answered
BY SparedAnswered DEF Answered

\* A step in which no market moves and nobody leaves one.
LEMMA MarketsStand ==
    ASSUME IInv, MarketsSound', markets' = markets,
           \A m \in Markets : membership[m] \subseteq membership'[m]
    PROVE  Answered
<1>1. ASSUME NEW w \in Users PROVE Spared(w)
  <2>1. \A m \in Markets : markets[m].accountTokens[w] \in Nat
    BY DEF IInv, MarketsSound, Market
  <2> QED BY <2>1 DEF Spared, DebtMoved
<1> QED BY <1>1, AllSparedAnswered

\* A transaction in one market spares whom the handler spares.
LEMMA OneMarketSpares ==
    ASSUME IInv, NEW m \in Markets, CanAccrueIn({m}), NEW new, markets' = [Accrued(m) EXCEPT ![m] = new],
           \A n \in Markets : membership[n] \subseteq membership'[n], NEW w \in Users,
           new.principal[w] = Accrued(m)[m].principal[w],
           new.interestIndex[w] = Accrued(m)[m].interestIndex[w],
           new.accountTokens[w] >= Accrued(m)[m].accountTokens[w]
    PROVE  Spared(w)
<1> DEFINE ks == Accrued(m)
<1>1. AccruedAll(ks, {m})
  BY AccruedOne
<1> HIDE DEF ks
<1>2. \A n \in Markets : /\ ks[n].principal = markets[n].principal
                         /\ ks[n].interestIndex = markets[n].interestIndex
                         /\ ks[n].accountTokens = markets[n].accountTokens
                         /\ markets[n].accountTokens[w] \in Nat
  BY <1>1 DEF AccruedAll, Kept, IInv, MarketsSound, Market
<1>3. \A n \in Markets : markets'[n] = IF n = m THEN new ELSE ks[n]
  BY <1>1 DEF AccruedAll, ks
<1>4. ASSUME NEW n \in Markets
      PROVE  ~ DebtMoved(n, w) /\ markets'[n].accountTokens[w] >= markets[n].accountTokens[w]
  <2>1. CASE n = m
    BY <1>2, <1>3, <2>1 DEF DebtMoved, ks
  <2>2. CASE n # m
    BY <1>2, <1>3, <2>2 DEF DebtMoved
  <2> QED BY <2>1, <2>2
<1> QED BY <1>4 DEF Spared

LEMMA AccrueAnswered ==
    ASSUME IInv, MarketsSound', NEW m \in Markets, Accrue(m)
    PROVE  Answered
<1>1. AccruedAll(markets', {m}) /\ membership' = membership
  BY AccruedOne DEF Accrue
<1>2. ASSUME NEW w \in Users PROVE Spared(w)
  <2>1. \A n \in Markets : markets[n].accountTokens[w] \in Nat
    BY DEF IInv, MarketsSound, Market
  <2> QED BY <1>1, <2>1 DEF AccruedAll, Kept, Spared, DebtMoved
<1> QED BY <1>2, AllSparedAnswered

LEMMA MintAnswered ==
    ASSUME IInv, MarketsSound', NEW u \in Users, NEW m \in Markets, NEW amount \in MintAmounts[m],
           Mint(u, m, amount)
    PROVE  Answered
<1> DEFINE k == Accrued(m)[m]
           new == MintFresh(k, u, amount)
<1>1. /\ CanAccrueIn({m}) /\ CanMint(k) /\ membership' = membership
      /\ markets' = [Accrued(m) EXCEPT ![m] = new]
  BY DEF Mint
<1>2. Sound(k) /\ amount \in Nat
  BY <1>1, AccruedHere, InputsNat
<1> HIDE DEF k
<1>3. k \in Market /\ ExchangeRateStored(k) \in Nat \ {0}
  BY <1>1, <1>2, MarketFields DEF Sound, MarketInv, CanMint
<1>4. MintTokens(k, amount) \in Nat
  BY <1>2, <1>3, DivExpNat DEF MintTokens
<1>5. ASSUME NEW w \in Users
      PROVE  /\ new.principal[w] = k.principal[w] /\ new.interestIndex[w] = k.interestIndex[w]
             /\ new.accountTokens[w] >= k.accountTokens[w]
  <2>1. /\ new.principal = k.principal /\ new.interestIndex = k.interestIndex
        /\ new.accountTokens = [k.accountTokens EXCEPT ![u] = k.accountTokens[u] + MintTokens(k, amount)]
    BY <1>3 DEF MintFresh, Market
  <2>2. k.accountTokens \in [Users -> Nat] /\ k.accountTokens[w] \in Nat
    BY <1>3 DEF Market
  <2> HIDE DEF new
  <2> QED BY <1>4, <2>1, <2>2
<1> HIDE DEF new
<1>6. ASSUME NEW w \in Users PROVE Spared(w)
  BY <1>1, <1>5, OneMarketSpares DEF k
<1> QED BY <1>6, AllSparedAnswered

LEMMA RepayAnswered ==
    ASSUME IInv, MarketsSound', NEW u \in Users, NEW m \in Markets, NEW amount \in RepayAmounts[m],
           RepayBorrow(u, m, amount)
    PROVE  Answered
<1> DEFINE ks == Accrued(m)
           k == ks[m]
           new == RepayBorrowFresh(k, u, amount)
<1>1. /\ CanAccrueIn({m}) /\ CanRepay(k, u, amount) /\ membership' = membership
      /\ markets' = [ks EXCEPT ![m] = new]
  BY DEF RepayBorrow
<1>2. Sound(k) /\ amount \in Nat /\ AccruedAll(ks, {m})
  BY <1>1, AccruedHere, AccruedOne, InputsNat
<1> HIDE DEF ks
<1>3. Collects(k, new, u) /\ new.accountTokens = k.accountTokens
  BY <1>1, <1>2, RepayCollects, RepayCalm
<1>4. /\ \A n \in Markets : MarketInv(ks[n]) /\ Kept(markets[n], ks[n])
      /\ \A n \in Markets : markets'[n] = IF n = m THEN new ELSE ks[n]
  BY <1>1, <1>2 DEF AccruedAll, Calm, Sound
<1> HIDE DEF new
<1>5. Filled(ks, markets', {m}, u)
  BY <1>3, <1>4, CollectsRefl DEF Filled
<1>6. (\A w \in Users \ {u} : Spared(w)) /\ ~ DebtGrew(u)
  <2>1. {m} \in SUBSET Markets
    OBVIOUS
  <2> QED BY <1>1, <1>2, <1>5, <2>1, CollectedOnly
<1>7. ~ CollateralFell(u)
  <2> SUFFICES ASSUME NEW n \in listed, markets'[n].accountTokens[u] < markets[n].accountTokens[u]
               PROVE  FALSE
    BY <1>1 DEF CollateralFell
  <2>1. n \in Markets
    BY DEF IInv, SettingsTyped
  <2>2. markets'[n].accountTokens = markets[n].accountTokens
    BY <1>3, <1>4, <2>1 DEF Kept
  <2>3. markets[n].accountTokens[u] \in Nat
    BY <2>1 DEF IInv, MarketsSound, Market
  <2> QED BY <2>2, <2>3
<1>8. CoveredAfter(u) /\ TakenFromUnsafe(u)
  BY <1>6, <1>7 DEF CoveredAfter, TakenFromUnsafe
<1> QED BY <1>6, <1>8, SparedAnswered DEF Answered


\* Whose vTokens left a market he is in, past the check on redeeming, is covered.
LEMMA TakenOut ==
    ASSUME IInv, MarketsSound', UNCHANGED <<price, listed, parameters, accountAssets, membership>>,
           NEW m \in Markets, NEW u \in Users, NEW t \in Nat,
           NEW ks, \A n \in Markets : MarketInv(ks[n]) /\ Kept(markets[n], ks[n]),
           CheckRedeemAllowed(ks, m, u, t), \A n \in Markets \ {m} : markets'[n] = ks[n],
           RateHeld(ks[m], markets'[m]), LoansKept(ks[m], markets'[m]),
           t <= ks[m].accountTokens[u], markets'[m].accountTokens[u] = ks[m].accountTokens[u] - t
    PROVE  CoveredAfter(u) /\ TakenFromUnsafe(u)
<1> DEFINE S == AssetsIn(accountAssets[u])
<1>1. \A n \in Markets : ~ DebtMoved(n, u)
  <2> SUFFICES ASSUME NEW n \in Markets PROVE ~ DebtMoved(n, u)
    OBVIOUS
  <2>1. CASE n = m
    BY <2>1 DEF Kept, LoansKept, DebtMoved
  <2>2. CASE n # m
    BY <2>2 DEF Kept, DebtMoved
  <2> QED BY <2>1, <2>2
<1>2. ~ DebtGrew(u) /\ ~ DebtFell(u)
  BY <1>1 DEF DebtGrew, DebtFell, DebtFellIn
<1>3. ASSUME CollateralFell(u)
      PROVE  Shortfall(Snapshot(markets', S, u, parameters.collateralFactor), 0) <= 1
  <2>1. PICK n \in listed : u \in membership[n] /\ markets'[n].accountTokens[u] < markets[n].accountTokens[u]
    BY <1>3 DEF CollateralFell
  <2>2. n \in Markets
    BY DEF IInv, SettingsTyped
  <2>3. n = m
    <3> SUFFICES ASSUME n # m PROVE FALSE
      OBVIOUS
    <3>1. markets'[n].accountTokens = markets[n].accountTokens
      BY <2>2 DEF Kept
    <3>2. markets[n].accountTokens[u] \in Nat
      BY <2>2 DEF IInv, MarketsSound, Market
    <3> QED BY <2>1, <3>1, <3>2
  <2>4. u \in membership[m] /\ m \in listed
    BY <2>1, <2>3
  <2>5. CanAfford(ks, S, u, m, t, 0)
    BY <2>4 DEF CheckRedeemAllowed
  <2>6. m \in S
    BY <2>4 DEF AssetsIn, IInv, AccountAssetsMatchMembership
  <2>7. S \in SUBSET Markets
    BY AssetsListed
  <2>8. \A q \in S : MarketInv(ks[q]) /\ MarketInv(markets'[q])
    BY <2>7 DEF MarketsSound, Sound
  <2>9. \A q \in S \ {m} : markets'[q] = ks[q]
    BY <2>7
  <2>10. BorrowBalanceStored(markets'[m], u) = BorrowBalanceStored(ks[m], u)
    BY DEF LoansKept, BorrowBalanceStored
  <2> HIDE DEF S
  <2> QED BY <2>5, <2>6, <2>7, <2>8, <2>9, <2>10, ShortByOneAtMost
<1>4. CollateralFell(u) =>
        (Shortfall(Snapshot(markets, AssetsIn(accountAssets[u]), u, parameters.collateralFactor), 0) <= 1)'
  <2>1. accountAssets'[u] = accountAssets[u]
    OBVIOUS
  <2>2. (Shortfall(Snapshot(markets, AssetsIn(accountAssets[u]), u, parameters.collateralFactor), 0) <= 1)'
          <=> Shortfall(Snapshot(markets', AssetsIn(accountAssets'[u]), u, parameters.collateralFactor), 0) <= 1
    BY SnapshotAfter
  <2> QED BY <1>3, <2>1, <2>2
<1> QED BY <1>2, <1>4 DEF CoveredAfter, TakenFromUnsafe

LEMMA RedeemTokensIn ==
    ASSUME NEW k, MarketInv(k), NEW u, NEW t \in Nat, CanRedeem(k, u, t, 0)
    PROVE  RedeemTokens(k, t, 0) = t
<1>1. CASE t > 0
  BY <1>1 DEF RedeemTokens
<1>2. CASE t = 0
  <2> DEFINE r == ExchangeRateStored(k)
  <2>1. r \in Nat \ {0}
    BY <1>2, MarketFields DEF CanRedeem
  <2> HIDE DEF r
  <2>2. DivExp(0, r) = 0 /\ MulExp(0, r) = 0
    BY <2>1, ExpScaleAssumption, SMT DEF DivExp, MulExp
  <2>3. TokensForUnderlying(r, 0) = 0
    BY <2>2 DEF TokensForUnderlying
  <2> QED BY <1>2, <2>3 DEF RedeemTokens, r
<1> QED BY <1>1, <1>2

LEMMA RedeemAnswered ==
    ASSUME IInv, MarketsSound', NEW sender, NEW u \in Users, NEW m \in Markets,
           NEW tokens \in TokenAmounts[m], Redeem(sender, u, m, tokens)
    PROVE  Answered
<1> DEFINE ks == Accrued(m)
           k == ks[m]
           new == RedeemFresh(k, u, tokens, 0)
<1>1. /\ CanAccrueIn({m}) /\ CanRedeem(k, u, tokens, 0) /\ CheckRedeemAllowed(ks, m, u, tokens)
      /\ markets' = [ks EXCEPT ![m] = new]
      /\ UNCHANGED <<price, listed, parameters, accountAssets, membership>>
  BY DEF Redeem, poolVars
<1>2. Sound(k) /\ MarketInv(k) /\ tokens \in Nat /\ AccruedAll(ks, {m})
  BY <1>1, AccruedHere, AccruedOne, InputsNat DEF Sound
<1>3. RateHeld(k, new) /\ LoansKept(k, new)
  BY <1>1, <1>2, RedeemRate
<1>4. /\ new.accountTokens = [k.accountTokens EXCEPT ![u] = k.accountTokens[u] - tokens]
      /\ tokens <= k.accountTokens[u] /\ k.accountTokens \in [Users -> Nat]
  <2>1. RedeemTokens(k, tokens, 0) = tokens
    BY <1>1, <1>2, RedeemTokensIn
  <2>2. k \in Market
    BY <1>2 DEF MarketInv
  <2> HIDE DEF k
  <2> QED BY <1>1, <2>1, <2>2 DEF RedeemFresh, CanRedeem, Market
<1> HIDE DEF ks, new
<1>5. /\ \A n \in Markets : MarketInv(ks[n]) /\ Kept(markets[n], ks[n])
      /\ \A n \in Markets : markets'[n] = IF n = m THEN new ELSE ks[n]
  BY <1>1, <1>2 DEF AccruedAll, Calm, Sound
<1>6. CoveredAfter(u) /\ TakenFromUnsafe(u)
  <2>1. markets'[m] = new /\ \A n \in Markets \ {m} : markets'[n] = ks[n]
    BY <1>5
  <2>2. new.accountTokens[u] = k.accountTokens[u] - tokens
    BY <1>4
  <2> QED BY <1>1, <1>2, <1>3, <1>4, <1>5, <2>1, <2>2, TakenOut
<1>7. ASSUME NEW w \in Users \ {u} PROVE Spared(w)
  <2>1. /\ new.principal[w] = k.principal[w] /\ new.interestIndex[w] = k.interestIndex[w]
        /\ new.accountTokens[w] >= k.accountTokens[w]
    BY <1>3, <1>4 DEF LoansKept
  <2>2. \A n \in Markets : membership[n] \subseteq membership'[n]
    BY <1>1
  <2> QED BY <1>1, <2>1, <2>2, OneMarketSpares DEF ks
<1> QED BY <1>6, <1>7, SparedAnswered DEF Answered

LEMMA TransferAnswered ==
    ASSUME IInv, MarketsSound', NEW u \in Users, NEW v \in Users, NEW m \in Markets,
           NEW tokens \in TokenAmounts[m], Transfer(u, v, m, tokens)
    PROVE  Answered
<1> DEFINE k == markets[m]
           new == TransferTokens(k, u, v, tokens)
<1>1. /\ CanTransfer(k, u, v, tokens) /\ CheckRedeemAllowed(markets, m, u, tokens)
      /\ markets' = [markets EXCEPT ![m] = new]
      /\ UNCHANGED <<price, listed, parameters, accountAssets, membership>>
  BY DEF Transfer, PreTransfer, poolVars
<1>2. tokens \in Nat /\ \A n \in Markets : MarketInv(markets[n]) /\ Kept(markets[n], markets[n])
  BY InputsNat DEF IInv, MarketsSound, Sound, Kept
<1>3. k \in Market /\ MarketInv(k) /\ k.accountTokens \in [Users -> Nat]
  BY <1>2 DEF MarketInv, Market
<1>4. u # v /\ tokens <= k.accountTokens[u]
  BY <1>1 DEF CanTransfer
<1>5. /\ markets'[m] = new /\ \A n \in Markets \ {m} : markets'[n] = markets[n]
      /\ MarketInv(markets'[m])
  BY <1>1 DEF IInv, MarketsSound, Sound
<1> HIDE DEF k
<1>6. /\ LoansKept(k, new) /\ new.totalSupply = k.totalSupply /\ NetUnderlying(new) = NetUnderlying(k)
      /\ new.accountTokens = [[k.accountTokens EXCEPT ![u] = k.accountTokens[u] - tokens]
                                EXCEPT ![v] = k.accountTokens[v] + tokens]
  BY <1>3 DEF TransferTokens, Market, LoansKept, NetUnderlying
<1> HIDE DEF new
<1>7. RateHeld(k, new)
  BY <1>3, <1>5, <1>6, MarketFields, RateHeldIfSupplyKept
<1>8. \A w \in Users : new.accountTokens[w] = IF w = v THEN k.accountTokens[w] + tokens
                                              ELSE IF w = u THEN k.accountTokens[w] - tokens
                                              ELSE k.accountTokens[w]
  BY <1>3, <1>6
<1>9. CoveredAfter(u) /\ TakenFromUnsafe(u)
  <2>1. new.accountTokens[u] = k.accountTokens[u] - tokens
    BY <1>4, <1>8
  <2> QED BY <1>1, <1>2, <1>4, <1>5, <1>6, <1>7, <2>1, TakenOut DEF k
<1>10. ASSUME NEW w \in Users \ {u} PROVE Spared(w)
  <2>1. /\ new.principal[w] = k.principal[w] /\ new.interestIndex[w] = k.interestIndex[w]
        /\ new.accountTokens[w] >= k.accountTokens[w]
    <3>1. k.accountTokens[w] \in Nat
      BY <1>3
    <3> QED BY <1>2, <1>6, <1>8, <3>1 DEF LoansKept
  <2>2. \A n \in Markets : markets[n].accountTokens[w] \in Nat
    BY DEF IInv, MarketsSound, Market
  <2> SUFFICES ASSUME NEW n \in Markets
               PROVE  /\ ~ DebtMoved(n, w)
                      /\ markets'[n].accountTokens[w] >= markets[n].accountTokens[w]
    BY <1>1 DEF Spared
  <2>3. CASE n = m
    BY <1>5, <2>1, <2>3 DEF DebtMoved, k
  <2>4. CASE n # m
    BY <1>5, <2>2, <2>4 DEF DebtMoved
  <2> QED BY <2>3, <2>4
<1> QED BY <1>9, <1>10, SparedAnswered DEF Answered


\* Whoever leaves a market owed nothing there, and could have redeemed all he holds there.
LEMMA ExitAnswered ==
    ASSUME IInv, IInv', NEW u \in Users, NEW m \in Markets, ExitMarket(u, m)
    PROVE  Answered
<1> DEFINE S == AssetsIn(accountAssets[u])
           cf == parameters.collateralFactor
           t == markets[m].accountTokens[u]
           s == Snapshot(markets, S, u, cf)
           after == Snapshot(markets, S \ {m}, u, cf)
           f == AllWeighted(markets, S, u, cf)
           g == AllBorrowed(markets, S, u)
           ff == AllWeighted(markets, S \ {m}, u, cf)
           gg == AllBorrowed(markets, S \ {m}, u)
           x == MulScalarTruncate(MulExp(cf[m], VTokenPrice(markets[m], m)), t)
           y == MulScalarTruncate(price[m], 0)
<1>1. /\ u \in membership[m] /\ m \in listed /\ BorrowBalanceStored(markets[m], u) = 0
      /\ CanAfford(markets, S, u, m, t, 0)
      /\ membership' = [membership EXCEPT ![m] = @ \ {u}]
      /\ UNCHANGED <<markets, price, listed, parameters>>
  BY DEF ExitMarket, CanExit, CheckRedeemAllowed, poolVars
<1>2. accountAssets' = [accountAssets EXCEPT ![u] = SwapAndPop(accountAssets[u], m)]
  BY DEF ExitMarket
<1>3. /\ membership \in [Markets -> SUBSET Users] /\ accountAssets \in [Users -> Seq(Markets)]
      /\ \A n \in Markets : InList(accountAssets[u], n) <=> u \in membership[n]
      /\ \A n \in Markets : InList(accountAssets'[u], n) <=> u \in membership'[n]
      /\ listed \subseteq Markets
  BY DEF IInv, ListsTyped, AccountAssetsMatchMembership, SettingsTyped
<1>4. AssetsIn(accountAssets'[u]) = S \ {m}
  <2>1. \A n \in Markets : u \in membership'[n] <=> u \in membership[n] /\ n # m
    BY <1>1, <1>3
  <2> QED BY <1>3, <2>1 DEF AssetsIn
<1>5. S \in SUBSET Markets /\ m \in S
  BY <1>1, <1>3 DEF AssetsIn
<1>6. cf \in [Markets -> Nat] /\ price[m] \in Nat /\ t \in Nat /\ \A n \in Markets : MarketInv(markets[n])
  BY DEF IInv, SettingsTyped, Parameters, MarketsSound, Sound, Market
<1> HIDE DEF S, cf, t
<1>7. s.borrows + x + y <= s.weightedCollateral
  BY <1>1, <1>5, <1>6, Afforded DEF cf
<1>8. /\ f \in [S -> Nat] /\ g \in [S -> Nat] /\ s.weightedCollateral = SumOver(S, f) /\ s.borrows = SumOver(S, g)
      /\ s.weightedCollateral \in Nat /\ s.borrows \in Nat
  <2>1. S \in SUBSET Markets /\ \A n \in S : MarketInv(markets[n])
    BY <1>5, <1>6
  <2>2. cf \in [Markets -> Nat]
    BY <1>6
  <2> QED BY <2>1, <2>2, SnapshotSums, SMTT(40)
<1>9. /\ ff \in [S \ {m} -> Nat] /\ gg \in [S \ {m} -> Nat]
      /\ after.weightedCollateral = SumOver(S \ {m}, ff) /\ after.borrows = SumOver(S \ {m}, gg)
      /\ after.weightedCollateral \in Nat /\ after.borrows \in Nat
  <2> DEFINE R == S \ {m}
  <2>1. R \in SUBSET Markets /\ \A n \in R : MarketInv(markets[n])
    BY <1>5, <1>6
  <2> HIDE DEF R
  <2>2. /\ AllWeighted(markets, R, u, cf) \in [R -> Nat] /\ AllBorrowed(markets, R, u) \in [R -> Nat]
        /\ Snapshot(markets, R, u, cf).weightedCollateral = SumOver(R, AllWeighted(markets, R, u, cf))
        /\ Snapshot(markets, R, u, cf).borrows = SumOver(R, AllBorrowed(markets, R, u))
        /\ Snapshot(markets, R, u, cf).weightedCollateral \in Nat
        /\ Snapshot(markets, R, u, cf).borrows \in Nat
    BY <1>6, <2>1, SnapshotSums
  <2> QED BY <2>2 DEF R
<1>10. /\ \A n \in S \ {m} : ff[n] = f[n] /\ gg[n] = g[n]
       /\ f[m] = x /\ g[m] = y
  BY <1>1, <1>5 DEF AllWeighted, AllBorrowed, Weighted, Borrowed, t
<1>11. x \in Nat /\ y \in Nat
  <2>1. f[m] \in Nat /\ g[m] \in Nat
    BY <1>5, <1>8
  <2> QED BY <1>10, <2>1
<1> HIDE DEF f, g, ff, gg, s, after, x, y
<1>12. SumOver(S \ {m}, ff) = SumOver(S, f) - f[m] /\ SumOver(S \ {m}, gg) = SumOver(S, g) - g[m]
  BY <1>5, <1>8, <1>9, <1>10, SumOverWithout
<1>13. after.borrows <= after.weightedCollateral + 1
  BY <1>7, <1>8, <1>9, <1>10, <1>11, <1>12
<1>14. Shortfall(Snapshot(markets', AssetsIn(accountAssets'[u]), u, parameters.collateralFactor), 0) <= 1
  <2>1. Shortfall(after, 0) <= 1
    BY <1>9, <1>13, WithinOne
  <2> QED BY <1>1, <1>4, <2>1 DEF after, cf
<1>15. (Shortfall(Snapshot(markets, AssetsIn(accountAssets[u]), u, parameters.collateralFactor), 0) <= 1)'
  BY <1>1, <1>14, SnapshotAfter
<1>16. \A n \in Markets, w \in Users : ~ DebtMoved(n, w) /\ markets[n].accountTokens[w] \in Nat
  BY <1>1 DEF DebtMoved, IInv, MarketsSound, Market
<1>17. CoveredAfter(u) /\ TakenFromUnsafe(u)
  BY <1>15, <1>16 DEF CoveredAfter, TakenFromUnsafe, DebtFell, DebtFellIn
<1>18. \A w \in Users \ {u} : Spared(w)
  BY <1>1, <1>3, <1>16 DEF Spared
<1>19. MarketsSound'
  BY DEF IInv
<1> QED BY <1>17, <1>18, <1>19, SparedAnswered DEF Answered

\* A borrower's new debt is worth what the check found affordable, and one unit at most.
LEMMA BorrowAnswered ==
    ASSUME IInv, IInv', NEW sender, NEW u \in Users, NEW m \in Markets,
           NEW amount \in BorrowAmounts[m], Borrow(sender, u, m, amount)
    PROVE  Answered
<1> DEFINE ks == Accrued(m)
           k == ks[m]
           new == BorrowFresh(k, u, amount)
           owed == BorrowBalanceStored(k, u)
           S == AssetsIn(AssetsAfterEntry(u, m))
           cf == parameters.collateralFactor
           s == Snapshot(ks, S, u, cf)
           after == Snapshot(markets', S, u, cf)
           x == MulScalarTruncate(MulExp(cf[m], VTokenPrice(k, m)), 0)
           y == MulScalarTruncate(price[m], amount)
           b == Borrowed(k, m, u)
           bb == Borrowed(new, m, u)
           w == Weighted(k, m, u, cf)
<1>1. /\ CanAccrueIn({m}) /\ m \in listed /\ CanBorrow(k, amount) /\ CanAfford(ks, S, u, m, 0, amount)
      /\ markets' = [ks EXCEPT ![m] = new]
      /\ membership' = [membership EXCEPT ![m] = @ \cup {u}]
      /\ accountAssets' = [accountAssets EXCEPT ![u] = AssetsAfterEntry(u, m)]
      /\ UNCHANGED <<price, listed, parameters>>
  BY DEF Borrow, PreBorrow, poolVars
<1>2. AccruedAll(ks, {m}) /\ Sound(k) /\ MarketInv(k) /\ amount \in Nat
  BY <1>1, AccruedOne, AccruedHere, InputsNat DEF Sound
<1>3. k \in Market /\ owed \in Nat /\ cf \in [Markets -> Nat] /\ price[m] \in Nat
  BY <1>2, BorrowBalance DEF MarketInv, IInv, SettingsTyped, Parameters
<1>4. /\ membership \in [Markets -> SUBSET Users] /\ accountAssets'[u] = AssetsAfterEntry(u, m)
      /\ u \in membership'[m] /\ \A n \in Markets : membership[n] \subseteq membership'[n]
  BY <1>1 DEF IInv, ListsTyped
<1>5. S \in SUBSET Markets /\ m \in S
  <2>1. InList(AssetsAfterEntry(u, m), m)
    BY <1>4 DEF IInv, AccountAssetsMatchMembership
  <2> QED BY <1>1, <2>1, AssetsListed DEF AssetsIn
<1> HIDE DEF ks, S, cf
<1>6. /\ \A n \in Markets : MarketInv(ks[n]) /\ MarketInv(markets'[n])
      /\ markets'[m] = new /\ \A n \in Markets \ {m} : markets'[n] = ks[n]
  BY <1>1, <1>2 DEF AccruedAll, Calm, Sound, IInv, MarketsSound
<1>7. s.borrows + x + y <= s.weightedCollateral
  <2> DEFINE none == 0
  <2>1. none \in Nat /\ CanAfford(ks, S, u, m, none, amount)
    BY <1>1
  <2> HIDE DEF none
  <2>2. s.borrows + MulScalarTruncate(MulExp(cf[m], VTokenPrice(k, m)), none) + y <= s.weightedCollateral
    BY <1>2, <1>5, <1>6, <2>1, Afforded DEF cf
  <2> QED BY <2>2 DEF none
<1> HIDE DEF k, owed
<1>8. /\ new.interestIndex = [k.interestIndex EXCEPT ![u] = k.borrowIndex]
      /\ new.borrowIndex = k.borrowIndex /\ new.totalSupply = k.totalSupply
      /\ new.principal = [k.principal EXCEPT ![u] = owed + amount]
      /\ new.accountTokens = k.accountTokens /\ NetUnderlying(new) = NetUnderlying(k)
  BY <1>2, <1>3 DEF BorrowFresh, SetBorrow, Market, NetUnderlying, owed
<1> HIDE DEF new
<1>9. BorrowBalanceStored(new, u) = owed + amount
  <2> DEFINE z == owed + amount
  <2>1. z \in Nat /\ new.principal = [k.principal EXCEPT ![u] = z]
    BY <1>2, <1>3, <1>8
  <2> HIDE DEF z
  <2>2. BorrowBalanceStored(new, u) = z
    BY <1>2, <1>8, <2>1, LoanSet
  <2> QED BY <2>2 DEF z
<1>10. Weighted(new, m, u, cf) = w
  BY <1>8 DEF Weighted, VTokenPrice, ExchangeRateStored
<1>11. bb <= b + y + 1
  <2>1. MulScalarTruncate(price[m], owed + amount)
          <= MulScalarTruncate(price[m], owed) + MulScalarTruncate(price[m], amount) + 1
    BY <1>2, <1>3, TruncatedSplit
  <2> QED BY <1>9, <2>1 DEF Borrowed, owed
<1>12. after.weightedCollateral = s.weightedCollateral - w + w /\ after.borrows = s.borrows - b + bb
  <2>1. /\ \A n \in S : MarketInv(ks[n]) /\ MarketInv(markets'[n])
        /\ \A n \in S \ {m} : markets'[n] = ks[n]
    BY <1>5, <1>6
  <2>2. /\ after.weightedCollateral = s.weightedCollateral - Weighted(ks[m], m, u, cf) + Weighted(markets'[m], m, u, cf)
        /\ after.borrows = s.borrows - Borrowed(ks[m], m, u) + Borrowed(markets'[m], m, u)
    BY <1>3, <1>5, <2>1, SnapshotMoves
  <2> QED BY <1>6, <1>10, <2>2 DEF k
<1>13. /\ s.weightedCollateral \in Nat /\ s.borrows \in Nat
       /\ after.weightedCollateral \in Nat /\ after.borrows \in Nat
  BY <1>3, <1>5, <1>6, SnapshotSums
<1>14. x \in Nat /\ y \in Nat /\ w \in Nat /\ b \in Nat /\ bb \in Nat
  <2>1. MarketInv(new)
    BY <1>6
  <2>2. w \in Nat /\ b \in Nat /\ bb \in Nat /\ MulExp(cf[m], VTokenPrice(k, m)) \in Nat
    BY <1>2, <1>3, <2>1, SummandsNat
  <2> QED BY <1>2, <1>3, <2>2, TruncatedNat
<1> HIDE DEF s, after, x, y, w, b, bb
<1>15. after.borrows <= after.weightedCollateral + 1
  BY <1>7, <1>11, <1>12, <1>13, <1>14
<1>16. Shortfall(Snapshot(markets', AssetsIn(accountAssets'[u]), u, parameters.collateralFactor), 0) <= 1
  <2>1. Shortfall(after, 0) <= 1
    BY <1>13, <1>15, WithinOne
  <2>2. AssetsIn(accountAssets'[u]) = S
    BY <1>4 DEF S
  <2> QED BY <2>1, <2>2 DEF after, cf
<1>17. (Shortfall(Snapshot(markets, AssetsIn(accountAssets[u]), u, parameters.collateralFactor), 0) <= 1)'
  BY <1>1, <1>16, SnapshotAfter
<1>18. ~ CollateralFell(u)
  <2> SUFFICES ASSUME NEW n \in listed, u \in membership[n],
                      u \notin membership'[n] \/ markets'[n].accountTokens[u] < markets[n].accountTokens[u]
               PROVE  FALSE
    BY DEF CollateralFell
  <2>1. n \in Markets
    BY DEF IInv, SettingsTyped
  <2>2. markets'[n].accountTokens = markets[n].accountTokens
    <3>1. ks[n].accountTokens = markets[n].accountTokens
      BY <1>2, <2>1 DEF AccruedAll, Kept
    <3>2. CASE n = m
      BY <1>6, <1>8, <3>1, <3>2 DEF k
    <3>3. CASE n # m
      BY <1>6, <2>1, <3>1, <3>3
    <3> QED BY <3>2, <3>3
  <2>3. markets[n].accountTokens[u] \in Nat
    BY <2>1 DEF IInv, MarketsSound, Market
  <2> QED BY <1>4, <2>1, <2>2, <2>3
<1>19. CoveredAfter(u) /\ TakenFromUnsafe(u)
  BY <1>17, <1>18 DEF CoveredAfter, TakenFromUnsafe
<1>20. ASSUME NEW v \in Users \ {u} PROVE Spared(v)
  <2>1. /\ new.principal[v] = k.principal[v] /\ new.interestIndex[v] = k.interestIndex[v]
        /\ new.accountTokens[v] >= k.accountTokens[v]
    <3>1. k.accountTokens[v] \in Nat /\ k.principal \in [Users -> Nat] /\ k.interestIndex \in [Users -> Nat]
      BY <1>3 DEF Market
    <3> QED BY <1>8, <3>1
  <2> QED BY <1>1, <1>4, <2>1, OneMarketSpares DEF k, ks
<1>21. MarketsSound'
  BY DEF IInv
<1> QED BY <1>19, <1>20, <1>21, SparedAnswered DEF Answered


LEMMA NextAnswered ==
    ASSUME IInv, Next
    PROVE  Answered
<1>0. IInv' /\ MarketsSound'
  BY NextGood DEF GoodStep, IInv
<1>1. CASE Tick
  BY <1>0, <1>1, MarketsStand DEF Tick
<1>2. CASE \E m \in Markets : Accrue(m)
  BY <1>0, <1>2, AccrueAnswered
<1>3. CASE \E u \in Users : AccountCall(u)
  BY <1>0, <1>3, MintAnswered, RedeemAnswered, TransferAnswered, RepayAnswered DEF AccountCall
<1>4. CASE \E u \in Borrowers : BorrowerCall(u)
  <2>1. Borrowers \subseteq Users
    BY IsolatedPoolAssumption
  <2>2. ASSUME NEW u \in Users, NEW m \in Markets, EnterMarket(u, m) PROVE Answered
    <3>1. markets' = markets /\ membership' = [membership EXCEPT ![m] = @ \cup {u}]
      BY <2>2 DEF EnterMarket
    <3>2. \A n \in Markets : membership[n] \subseteq membership'[n]
      BY <3>1 DEF IInv, ListsTyped
    <3> QED BY <1>0, <3>1, <3>2, MarketsStand
  <2> QED BY <1>0, <1>4, <2>1, <2>2, ExitAnswered, BorrowAnswered DEF BorrowerCall
<1>5. CASE \E liquidator, u \in Users : Liquidation(liquidator, u)
  BY <1>5, LiquidateBorrowAnswered, LiquidateAccountAnswered, HealAccountAnswered DEF Liquidation
<1>6. CASE \E pair \in DelegatePairs : UpdateDelegate(pair[1], pair[2])
  BY <1>0, <1>6, MarketsStand DEF UpdateDelegate
<1>7. CASE \E m \in Markets : \E p \in Prices[m] : ReportPrice(m, p)
  BY <1>0, <1>7, MarketsStand DEF ReportPrice
<1>8. CASE Governance
  <2>1. markets' = markets /\ membership' = membership
    BY <1>8, ZenonT(60) DEF Governance, SetActionsPaused, UnlistMarket, SetCloseFactor, SetLiquidationIncentive,
                SetMinLiquidatableCollateral, SetCollateralFactor, SetCaps, SetForcedLiquidation,
                SetParameters
  <2> QED BY <1>0, <2>1, MarketsStand, SMTT(40)
<1> QED BY <1>1, <1>2, <1>3, <1>4, <1>5, <1>6, <1>7, <1>8 DEF Next

\* No account puts itself in shortfall by more than the unit that truncation hides from
\* _getHypotheticalLiquiditySnapshot: borrow, redeem, transfer and exitMarket check the
\* position that they leave, not only the one they find.
THEOREM SpecNoSelfInflictedShortfall == Spec => NoSelfInflictedShortfall
<1>1. IInv /\ [Next]_vars =>
          [\A u \in Users :
              DebtGrew(u) \/ (CollateralFell(u) /\ ~ DebtFell(u))
                => (Shortfall(Snapshot(markets, AssetsIn(accountAssets[u]), u,
                                       parameters.collateralFactor), 0) <= 1)']_vars
  BY NextAnswered DEF Answered, CoveredAfter
<1> QED BY <1>1, SpecIInv, PTL DEF Spec, NoSelfInflictedShortfall

\* Collateral is taken from an account for its debt only when it is unsafe, as stored or
\* with the interest of the touched markets, or when every debt that falls is one of a
\* market whose liquidations are forced: in liquidateBorrow, any batch and healAccount alike.
THEOREM SpecSeizedOnlyFromUnsafe == Spec => SeizedOnlyFromUnsafe
<1>1. IInv /\ [Next]_vars =>
          [\A u \in Users :
              CollateralFell(u) /\ DebtFell(u) =>
                  LET touched == {m \in Markets : markets'[m] # markets[m]}
                      assets  == AssetsIn(accountAssets[u])
                  IN  \/ \A m \in Markets : DebtFellIn(m, u) => m \in parameters.forced
                      \/ Unsafe(Position(markets, assets, u))
                      \/ Unsafe(Position(AccrueIn(touched), assets, u))]_vars
  BY NextAnswered DEF Answered, TakenFromUnsafe
<1> QED BY <1>1, SpecIInv, PTL DEF Spec, SeizedOnlyFromUnsafe
=============================================================================
