--------------------------- MODULE DeploymentProofs ---------------------------
(***************************************************************************)
(* What holds of the deployment whatever scripts the operator runs, in any *)
(* order, wherever they die.                                               *)
(*                                                                         *)
(* A script is read as a sequence of transactions in which each finds what *)
(* it relies on: a market its rate model, an offer to governance the       *)
(* settings of the contract, an oracle named for an asset the feed.  Every *)
(* script of the repository is such a sequence, whatever it finds on the   *)
(* chain, and stays one when what is in place already is left out of it,   *)
(* so what is in force after any prefix of it is as it should be.          *)
(***************************************************************************)
EXTENDS Deployment, SumsProofs, FiniteSetTheorems

-----------------------------------------------------------------------------
(* Sequences of sequences, one after the other *)

LEMMA SeqOverRange ==
  ASSUME NEW S, NEW s \in Seq(S)
  PROVE  s \in Seq(Range(s)) /\ Range(s) \subseteq S
<1>1. Len(s) \in Nat /\ DOMAIN s = 1 .. Len(s)
  OBVIOUS
<1> QED BY <1>1 DEF Range

(* The equation of the function that FlattenSeq defines *)
AreConcatenations(t, seqs, k) == t = [i \in 1 .. k |-> IF i = 1 THEN seqs[i] ELSE t[i - 1] \o seqs[i]]

LEMMA ConcatenationsExist ==
  ASSUME NEW seqs, NEW n \in Nat
  PROVE  \E t : AreConcatenations(t, seqs, n)
<1> DEFINE T == {k \in 0 .. n : \E t : AreConcatenations(t, seqs, k)}
<1>1. 0 \in T
  <2> DEFINE z == [i \in 1 .. 0 |-> 0]
  <2>1. z = [i \in 1 .. 0 |-> IF i = 1 THEN seqs[i] ELSE z[i - 1] \o seqs[i]]
    OBVIOUS
  <2>2. AreConcatenations(z, seqs, 0)
    BY <2>1 DEF AreConcatenations
  <2> HIDE DEF z
  <2> QED BY <2>2
<1>2. ASSUME NEW m \in 1 .. n, m - 1 \in T PROVE m \in T
  <2>1. PICK s : AreConcatenations(s, seqs, m - 1)
    BY <1>2
  <2> DEFINE last == IF m = 1 THEN seqs[m] ELSE s[m - 1] \o seqs[m]
             t == [i \in 1 .. m |-> IF i = m THEN last ELSE s[i]]
  <2>2. \A i \in 1 .. m - 1 : s[i] = IF i = 1 THEN seqs[i] ELSE s[i - 1] \o seqs[i]
    BY <2>1 DEF AreConcatenations
  <2>3. ASSUME NEW i \in 1 .. m PROVE t[i] = IF i = 1 THEN seqs[i] ELSE t[i - 1] \o seqs[i]
    <3>1. CASE i = m
      <4>1. t[i] = last /\ (m # 1 => t[m - 1] = s[m - 1])
        BY <3>1
      <4> QED BY <3>1, <4>1
    <3>2. CASE i # m
      <4>1. i \in 1 .. m - 1 /\ t[i] = s[i] /\ (i # 1 => t[i - 1] = s[i - 1])
        BY <3>2
      <4> HIDE DEF t
      <4> QED BY <2>2, <4>1
    <3> QED BY <3>1, <3>2
  <2>4. t = [i \in 1 .. m |-> t[i]]
    OBVIOUS
  <2> HIDE DEF t
  <2>5. AreConcatenations(t, seqs, m)
    BY <2>3, <2>4 DEF AreConcatenations
  <2> QED BY <2>5
<1>3. T = 0 .. n
  <2> HIDE DEF T
  <2>1. T \in SUBSET (0 .. n)
    BY DEF T
  <2> QED BY <1>1, <1>2, <2>1, InductiveInterval
<1> QED BY <1>3

(* Where each of k sequences lies in s *)
Placed(start, seqs, k, s) ==
  /\ \A i \in 1 .. k : /\ start[i] \in Nat
                       /\ start[i] + Len(seqs[i]) <= Len(s)
                       /\ \A p \in 1 .. Len(seqs[i]) : s[start[i] + p] = seqs[i][p]
  /\ \A j \in 1 .. Len(s) : \E i \in 1 .. k : j - start[i] \in 1 .. Len(seqs[i])
  /\ \A i, j \in 1 .. k : i < j => start[i] + Len(seqs[i]) <= start[j]

LEMMA PlacedNext ==
  ASSUME NEW S, NEW seqs, NEW k \in Nat, k > 1, \A i \in 1 .. k : seqs[i] \in Seq(S),
         NEW s \in Seq(S), NEW start, Placed(start, seqs, k - 1, s)
  PROVE  \E next : Placed(next, seqs, k, s \o seqs[k])
<1> DEFINE t == s \o seqs[k]
           next == [i \in 1 .. k |-> IF i = k THEN Len(s) ELSE start[i]]
<1>1. seqs[k] \in Seq(S) /\ \A i \in 1 .. k : Len(seqs[i]) \in Nat
  OBVIOUS
<1>2. /\ t \in Seq(S) /\ Len(t) = Len(s) + Len(seqs[k]) /\ Len(s) \in Nat
      /\ \A j \in 1 .. Len(s) : t[j] = s[j]
      /\ \A p \in 1 .. Len(seqs[k]) : t[Len(s) + p] = seqs[k][p]
  BY <1>1
<1>3. next[k] = Len(s) /\ \A i \in 1 .. k - 1 : next[i] = start[i]
  OBVIOUS
<1>4. \A i \in 1 .. k - 1 : /\ start[i] \in Nat
                             /\ start[i] + Len(seqs[i]) <= Len(s)
                             /\ \A p \in 1 .. Len(seqs[i]) : s[start[i] + p] = seqs[i][p]
  BY DEF Placed
<1>5. \A i \in 1 .. k : i = k \/ i \in 1 .. k - 1
  OBVIOUS
<1> HIDE DEF t, next
<1>6. ASSUME NEW i \in 1 .. k
      PROVE  /\ next[i] \in Nat
             /\ next[i] + Len(seqs[i]) <= Len(t)
             /\ \A p \in 1 .. Len(seqs[i]) : t[next[i] + p] = seqs[i][p]
  <2>1. CASE i = k
    <3>1. next[i] = Len(s) /\ Len(seqs[i]) \in Nat /\ Len(t) = Len(s) + Len(seqs[i])
      BY <1>1, <1>2, <1>3, <2>1
    <3>2. \A p \in 1 .. Len(seqs[i]) : t[next[i] + p] = seqs[i][p]
      BY <1>2, <1>3, <2>1
    <3> QED BY <1>2, <3>1, <3>2
  <2>2. CASE i \in 1 .. k - 1
    <3>1. \A p \in 1 .. Len(seqs[i]) : start[i] + p \in 1 .. Len(s)
      BY <1>1, <1>2, <1>4, <2>2
    <3>2. \A p \in 1 .. Len(seqs[i]) : t[start[i] + p] = seqs[i][p]
      BY <1>2, <1>4, <2>2, <3>1
    <3>3. next[i] = start[i] /\ Len(seqs[i]) \in Nat /\ Len(seqs[k]) \in Nat
      BY <1>1, <1>3, <2>2
    <3>4. start[i] \in Nat /\ start[i] + Len(seqs[i]) <= Len(t)
      BY <1>2, <1>4, <2>2, <3>3
    <3> QED BY <3>2, <3>3, <3>4
  <2> QED BY <1>5, <2>1, <2>2
<1>7. ASSUME NEW j \in 1 .. Len(t) PROVE \E i \in 1 .. k : j - next[i] \in 1 .. Len(seqs[i])
  <2>1. CASE j <= Len(s)
    <3>1. PICK i \in 1 .. k - 1 : j - start[i] \in 1 .. Len(seqs[i])
      BY <1>2, <2>1 DEF Placed
    <3> QED BY <1>3, <3>1
  <2>2. CASE j > Len(s)
    <3>1. j - next[k] \in 1 .. Len(seqs[k])
      BY <1>1, <1>2, <1>3, <2>2
    <3> QED BY <3>1
  <2> QED BY <1>2, <2>1, <2>2
<1>8. ASSUME NEW i \in 1 .. k, NEW j \in 1 .. k, i < j PROVE next[i] + Len(seqs[i]) <= next[j]
  <2>1. i \in 1 .. k - 1
    BY <1>8
  <2>2. CASE j = k
    BY <1>3, <1>4, <2>1, <2>2
  <2>3. CASE j \in 1 .. k - 1
    <3>1. start[i] + Len(seqs[i]) <= start[j]
      BY <1>8, <2>1, <2>3 DEF Placed
    <3> QED BY <1>3, <2>1, <2>3, <3>1
  <2> QED BY <1>5, <2>2, <2>3
<1>9. Placed(next, seqs, k, t)
  BY <1>6, <1>7, <1>8 DEF Placed
<1> QED BY <1>9 DEF t

(* A flattened sequence is made of its parts, in their order. *)
LEMMA Flattened ==
  ASSUME NEW S, NEW seqs \in Seq(Seq(S))
  PROVE  /\ FlattenSeq(seqs) \in Seq(S)
         /\ \E start : Placed(start, seqs, Len(seqs), FlattenSeq(seqs))
<1>1. CASE Len(seqs) = 0
  <2>1. seqs = << >> /\ FlattenSeq(seqs) = seqs
    BY <1>1 DEF FlattenSeq
  <2> DEFINE z == [i \in 1 .. 0 |-> 0]
  <2>2. Placed(z, seqs, 0, << >>)
    BY DEF Placed
  <2>3. << >> \in Seq(S)
    OBVIOUS
  <2> HIDE DEF z
  <2>4. Placed(z, seqs, Len(seqs), FlattenSeq(seqs)) /\ FlattenSeq(seqs) \in Seq(S)
    BY <1>1, <2>1, <2>2, <2>3
  <2> QED BY <2>4
<1>2. CASE Len(seqs) # 0
  <2> DEFINE n == Len(seqs)
             flat == CHOOSE t : AreConcatenations(t, seqs, n)
  <2>1. FlattenSeq(seqs) = flat[n]
    BY <1>2 DEF FlattenSeq, AreConcatenations
  <2>2. n \in Nat /\ n > 0 /\ \A i \in 1 .. n : seqs[i] \in Seq(S)
    BY <1>2
  <2>3. AreConcatenations(flat, seqs, n)
    BY <2>2, ConcatenationsExist
  <2> HIDE DEF flat, n
  <2>4. \A i \in 1 .. n : flat[i] = IF i = 1 THEN seqs[i] ELSE flat[i - 1] \o seqs[i]
    BY <2>3 DEF AreConcatenations
  <2> DEFINE P(k) == flat[k] \in Seq(S) /\ \E start : Placed(start, seqs, k, flat[k])
             T == {k \in 0 .. n : k = 0 \/ P(k)}
  <2>5. P(1)
    <3> DEFINE z == [i \in 1 .. 1 |-> 0]
    <3>1. seqs[1] \in Seq(S) /\ flat[1] = seqs[1]
      BY <2>2, <2>4
    <3>2. Len(seqs[1]) \in Nat /\ \A i \in 1 .. 1 : i = 1 /\ z[i] = 0
      BY <3>1
    <3> HIDE DEF z
    <3>3. Placed(z, seqs, 1, seqs[1])
      BY <3>2 DEF Placed
    <3> QED BY <3>1, <3>3
  <2>6. ASSUME NEW m \in 1 .. n, m # 1, P(m - 1) PROVE P(m)
    <3>1. PICK start : Placed(start, seqs, m - 1, flat[m - 1])
      BY <2>6
    <3>2. flat[m] = flat[m - 1] \o seqs[m] /\ seqs[m] \in Seq(S)
      BY <2>2, <2>4, <2>6
    <3>3. flat[m] \in Seq(S)
      BY <2>6, <3>2
    <3>4. m \in Nat /\ m > 1 /\ \A i \in 1 .. m : seqs[i] \in Seq(S)
      BY <2>2, <2>6
    <3>5. \E next : Placed(next, seqs, m, flat[m - 1] \o seqs[m])
      BY <2>6, <3>1, <3>4, PlacedNext
    <3> QED BY <3>2, <3>3, <3>5
  <2> HIDE DEF P
  <2>7. T = 0 .. n
    <3>1. T \in SUBSET (0 .. n) /\ 0 \in T
      BY <2>2
    <3>2. ASSUME NEW m \in 1 .. n, m - 1 \in T PROVE m \in T
      BY <2>5, <2>6, <3>2
    <3> HIDE DEF T
    <3> QED BY <2>2, <3>1, <3>2, InductiveInterval
  <2>8. P(n)
    BY <2>2, <2>7
  <2> QED BY <2>1, <2>8 DEF n, P
<1> QED BY <1>1, <1>2

-----------------------------------------------------------------------------
(* What has to come first *)

\* The oracles that DeployOracles hands over, on one network or the other
HandedOverOracles == {ResilientOracle, N("SequencerChainlinkOracle"), N("ChainlinkOracle")}

\* What is set of a contract before it is offered to governance
ReadyFacts(c) ==
  IF c = N("Shortfall") THEN {Fact("poolRegistry", c, "")}
  ELSE IF c = VaultProxy
  THEN {VaultFact("timeManager"), VaultFact("eclStore"), VaultFact("accessControl"), Fact("owner", VaultStore, "")}
  ELSE IF c \in HandedOverOracles THEN {Permission(c)} ELSE {}

FeedOracles == {N(OracleContract(k)) : k \in {"chainlink", "onejumpchainlink", "pendle", "univ2twap", "univ3twap", "pyth"}}

\* A thing is a fact, or a contract.
TheFact(f) == <<"fact", f>>
TheContract(c) == <<"contract", c>>
InForce == {TheFact(f) : f \in facts} \cup {TheContract(c) : c \in DOMAIN contracts}

\* The things that must be in force when a transaction is sent
Needed(tx) ==
  IF tx.do = "deploy" THEN (IF tx.arguments.model = << >> THEN {} ELSE {TheContract(tx.arguments.model)})
  ELSE IF tx.do = "hand over" THEN {TheFact(f) : f \in ReadyFacts(tx.name)}
  ELSE IF tx.do = "set"
  THEN (IF tx.fact[1] = "main oracle" /\ tx.fact[2] \in FeedOracles THEN {TheFact(Feed(tx.fact[2], tx.fact[3]))} ELSE {})
  ELSE {}

\* The thing it puts in force
Brought(tx) ==
  IF tx.do = "deploy" THEN TheContract(tx.name) ELSE IF tx.do = "set" THEN TheFact(tx.fact) ELSE <<"nothing", << >> >>

\* The arguments of a deployment are those of its market or rate model, and what
\* must be configured before it is handed over belongs to the deployer till then.
Sound(net, tx) ==
  tx.do = "deploy" =>
    /\ \A m \in MarketsOn(net) :
         /\ tx.name = VToken(m) => tx.arguments.model = RateModelName(m.model)
         /\ tx.name = RateModelName(m.model) => tx.arguments.rates = Rates(m.model)
    /\ ReadyFacts(tx.name) # {} => tx.arguments.owner = Deployer

\* Every transaction of s finds what it needs, given what was there before s.
InOrder(net, s, given) ==
  /\ s \in Seq(Range(s))
  /\ \A j \in 1 .. Len(s) :
       Sound(net, s[j]) /\ \A x \in Needed(s[j]) : x \in given \/ \E i \in 1 .. j - 1 : x = Brought(s[i])

LEMMA InOrderNone ==
  ASSUME NEW net, NEW given
  PROVE  InOrder(net, << >>, given)
<1>1. << >> \in Seq(Range(<< >>)) /\ Len(<< >>) = 0
  OBVIOUS
<1> QED BY <1>1 DEF InOrder

LEMMA InOrderOne ==
  ASSUME NEW net, NEW tx, NEW given, Sound(net, tx), Needed(tx) \subseteq given
  PROVE  InOrder(net, << tx >>, given)
<1> DEFINE s == << tx >>
<1>1. s \in Seq({tx}) /\ Len(s) = 1 /\ s[1] = tx
  OBVIOUS
<1>2. s \in Seq(Range(s))
  BY <1>1, SeqOverRange
<1> HIDE DEF s
<1>3. InOrder(net, s, given)
  BY <1>1, <1>2 DEF InOrder
<1> QED BY <1>3 DEF s

LEMMA InOrderConcat ==
  ASSUME NEW net, NEW s, NEW t, NEW given, NEW more, InOrder(net, s, given), InOrder(net, t, more),
         \A x \in more : x \in given \/ \E i \in 1 .. Len(s) : x = Brought(s[i])
  PROVE  InOrder(net, s \o t, given)
<1> DEFINE S == Range(s) \cup Range(t)
           u == s \o t
<1>1. s \in Seq(S) /\ t \in Seq(S) /\ Len(s) \in Nat /\ Len(t) \in Nat
  <2>1. s \in Seq(Range(s)) /\ t \in Seq(Range(t))
    BY DEF InOrder
  <2> QED BY <2>1
<1> HIDE DEF S
<1>2. /\ u \in Seq(S) /\ Len(u) = Len(s) + Len(t)
      /\ \A j \in 1 .. Len(s) : u[j] = s[j]
      /\ \A j \in 1 .. Len(t) : u[Len(s) + j] = t[j]
  BY <1>1
<1>3. u \in Seq(Range(u))
  BY <1>2, SeqOverRange
<1> HIDE DEF u
<1>4. ASSUME NEW j \in 1 .. Len(u)
      PROVE  Sound(net, u[j]) /\ \A x \in Needed(u[j]) : x \in given \/ \E i \in 1 .. j - 1 : x = Brought(u[i])
  <2>1. CASE j \in 1 .. Len(s)
    <3>1. u[j] = s[j] /\ \A i \in 1 .. j - 1 : i \in 1 .. Len(s) /\ u[i] = s[i]
      BY <1>1, <1>2, <2>1
    <3>2. Sound(net, s[j]) /\ \A x \in Needed(s[j]) : x \in given \/ \E i \in 1 .. j - 1 : x = Brought(s[i])
      BY <2>1 DEF InOrder
    <3> QED BY <3>1, <3>2
  <2>2. CASE j - Len(s) \in 1 .. Len(t)
    <3> DEFINE k == j - Len(s)
    <3>1. u[j] = t[k] /\ \A i \in 1 .. k - 1 : i \in 1 .. Len(t) /\ u[Len(s) + i] = t[i] /\ Len(s) + i \in 1 .. j - 1
      BY <1>1, <1>2, <2>2
    <3>2. \A i \in 1 .. Len(s) : u[i] = s[i] /\ i \in 1 .. j - 1
      BY <1>1, <1>2, <2>2
    <3>3. Sound(net, t[k]) /\ \A x \in Needed(t[k]) : x \in more \/ \E i \in 1 .. k - 1 : x = Brought(t[i])
      BY <2>2 DEF InOrder
    <3> HIDE DEF k
    <3> QED BY <3>1, <3>2, <3>3
  <2> QED BY <1>1, <1>2, <2>1, <2>2
<1>5. InOrder(net, u, given)
  BY <1>3, <1>4 DEF InOrder
<1> QED BY <1>5 DEF u

LEMMA InOrderBoth ==
  ASSUME NEW net, NEW s, NEW t, NEW given, InOrder(net, s, given), InOrder(net, t, given)
  PROVE  InOrder(net, s \o t, given)
BY InOrderConcat

LEMMA InOrderFlat ==
  ASSUME NEW net, NEW given, NEW k \in Nat, NEW seqs, seqs = [i \in 1 .. k |-> seqs[i]],
         \A i \in 1 .. k : InOrder(net, seqs[i], given)
  PROVE  InOrder(net, FlattenSeq(seqs), given)
<1> DEFINE S == UNION {Range(seqs[i]) : i \in 1 .. k}
           s == FlattenSeq(seqs)
<1>1. \A i \in 1 .. k : seqs[i] \in Seq(S)
  <2>1. \A i \in 1 .. k : seqs[i] \in Seq(Range(seqs[i])) /\ Range(seqs[i]) \subseteq S
    BY DEF InOrder
  <2> HIDE DEF S
  <2> QED BY <2>1
<1> HIDE DEF S
<1>2. seqs \in Seq(Seq(S)) /\ Len(seqs) = k
  BY <1>1
<1>3. s \in Seq(S)
  BY <1>2, Flattened
<1>4. PICK start : Placed(start, seqs, k, s)
  BY <1>2, Flattened
<1>5. s \in Seq(Range(s)) /\ Len(s) \in Nat
  BY <1>3, SeqOverRange
<1> HIDE DEF s
<1>6. ASSUME NEW j \in 1 .. Len(s)
      PROVE  Sound(net, s[j]) /\ \A x \in Needed(s[j]) : x \in given \/ \E i \in 1 .. j - 1 : x = Brought(s[i])
  <2>1. PICK b \in 1 .. k : j - start[b] \in 1 .. Len(seqs[b])
    BY <1>4 DEF Placed
  <2> DEFINE p == j - start[b]
  <2>2. start[b] \in Nat /\ \A q \in 1 .. Len(seqs[b]) : s[start[b] + q] = seqs[b][q]
    BY <1>4 DEF Placed
  <2>3. p \in 1 .. Len(seqs[b]) /\ s[j] = seqs[b][p]
    BY <2>1, <2>2
  <2>4. Sound(net, seqs[b][p]) /\ \A x \in Needed(seqs[b][p]) : x \in given \/ \E i \in 1 .. p - 1 : x = Brought(seqs[b][i])
    BY <2>3 DEF InOrder
  <2>5. \A i \in 1 .. p - 1 : start[b] + i \in 1 .. j - 1 /\ s[start[b] + i] = seqs[b][i]
    <3>1. seqs[b] \in Seq(S) /\ Len(seqs[b]) \in Nat
      BY <1>1
    <3> QED BY <2>1, <2>2, <3>1
  <2> HIDE DEF p
  <2> QED BY <2>3, <2>4, <2>5
<1>7. InOrder(net, s, given)
  BY <1>5, <1>6 DEF InOrder
<1> QED BY <1>7 DEF s

(* What is in place need not be sent: the rest is in order after it. *)
LEMMA InOrderOnly ==
  ASSUME NEW net, NEW s, InOrder(net, s, {})
  PROVE  InOrder(net, Only(s, LAMBDA tx : ~ InPlace(tx)), InForce)
<1> DEFINE k == Len(s)
           seqs == [i \in DOMAIN s |-> IF ~ InPlace(s[i]) THEN << s[i] >> ELSE << >>]
           u == FlattenSeq(seqs)
<1>1. s \in Seq(Range(s)) /\ k \in Nat /\ DOMAIN s = 1 .. k
  BY DEF InOrder
<1>2. \A i \in 1 .. k : seqs[i] \in Seq(Range(s)) /\ (InPlace(s[i]) => Len(seqs[i]) = 0)
                        /\ (~ InPlace(s[i]) => Len(seqs[i]) = 1 /\ seqs[i][1] = s[i])
  <2>1. ASSUME NEW i \in 1 .. k 
        PROVE  s[i] \in Range(s) /\ (InPlace(s[i]) => seqs[i] = << >>) /\ (~ InPlace(s[i]) => seqs[i] = << s[i] >>)
    BY <1>1 DEF Range
  <2> HIDE DEF seqs
  <2>2. ASSUME NEW i \in 1 .. k, InPlace(s[i]) PROVE seqs[i] \in Seq(Range(s)) /\ Len(seqs[i]) = 0
    <3>1. seqs[i] = << >>
      BY <2>1, <2>2
    <3> QED BY <3>1
  <2>3. ASSUME NEW i \in 1 .. k, ~ InPlace(s[i])
        PROVE  seqs[i] \in Seq(Range(s)) /\ Len(seqs[i]) = 1 /\ seqs[i][1] = s[i]
    <3>1. seqs[i] = << s[i] >> /\ s[i] \in Range(s)
      BY <2>1, <2>3
    <3> QED BY <3>1
  <2> QED BY <2>2, <2>3
<1>3. seqs \in Seq(Seq(Range(s))) /\ Len(seqs) = k
  <2>1. seqs = [i \in 1 .. k |-> seqs[i]]
    BY <1>1
  <2> HIDE DEF seqs
  <2> QED BY <1>1, <1>2, <2>1
<1>4. u = Only(s, LAMBDA tx : ~ InPlace(tx))
  BY DEF Only, ForEach
<1> HIDE DEF seqs, k
<1>5. u \in Seq(Range(s))
  BY <1>3, Flattened
<1>6. PICK start : Placed(start, seqs, k, u)
  BY <1>3, Flattened
<1>7. u \in Seq(Range(u)) /\ Len(u) \in Nat
  BY <1>5, SeqOverRange
<1> HIDE DEF u
<1>8. ASSUME NEW j \in 1 .. Len(u)
      PROVE  Sound(net, u[j]) /\ \A x \in Needed(u[j]) : x \in InForce \/ \E i \in 1 .. j - 1 : x = Brought(u[i])
  <2>1. PICK b \in 1 .. k : j - start[b] \in 1 .. Len(seqs[b])
    BY <1>6 DEF Placed
  <2>2. start[b] \in Nat /\ \A q \in 1 .. Len(seqs[b]) : u[start[b] + q] = seqs[b][q]
    BY <1>6 DEF Placed
  <2>3. ~ InPlace(s[b])
    BY <1>2, <2>1
  <2>4. j = start[b] + 1 /\ u[j] = s[b]
    BY <1>2, <2>1, <2>2, <2>3
  <2>5. Sound(net, s[b]) /\ \A x \in Needed(s[b]) : \E i \in 1 .. b - 1 : x = Brought(s[i])
    BY <1>1 DEF InOrder, k
  <2>6. ASSUME NEW x \in Needed(s[b]) PROVE x \in InForce \/ \E i \in 1 .. j - 1 : x = Brought(u[i])
    <3>1. PICK a \in 1 .. b - 1 : x = Brought(s[a])
      BY <2>5
    <3>2. CASE InPlace(s[a])
      <4>1. CASE s[a].do = "deploy" /\ s[a].name \in DOMAIN contracts
        <5>1. x = TheContract(s[a].name)
          BY <3>1, <4>1 DEF Brought
        <5> QED BY <4>1, <5>1 DEF InForce
      <4>2. CASE s[a].do = "set" /\ s[a].fact \in facts
        <5>1. x = TheFact(s[a].fact)
          BY <3>1, <4>2 DEF Brought
        <5> QED BY <4>2, <5>1 DEF InForce
      <4> QED BY <3>2, <4>1, <4>2 DEF InPlace, Deployed
    <3>3. CASE ~ InPlace(s[a])
      <4>1. a \in 1 .. k
        BY <1>1
      <4>2. Len(seqs[a]) = 1 /\ seqs[a][1] = s[a]
        BY <1>2, <3>3, <4>1
      <4>3. start[a] \in Nat /\ start[a] + 1 <= start[b] /\ u[start[a] + 1] = s[a]
        BY <1>6, <4>1, <4>2 DEF Placed
      <4>4. start[a] + 1 \in 1 .. j - 1
        BY <2>2, <2>4, <4>3
      <4> QED BY <3>1, <4>3, <4>4
    <3> QED BY <3>2, <3>3
  <2> QED BY <2>4, <2>5, <2>6
<1>9. InOrder(net, u, InForce)
  BY <1>7, <1>8 DEF InOrder
<1> QED BY <1>4, <1>9

-----------------------------------------------------------------------------
(* Transactions that need nothing *)

Harmless(net, tx) == Sound(net, tx) /\ Needed(tx) = {}

LEMMA InOrderHarmless ==
  ASSUME NEW net, NEW given, NEW S, NEW s \in Seq(S), \A tx \in S : Harmless(net, tx)
  PROVE  InOrder(net, s, given)
<1>1. s \in Seq(Range(s)) /\ Range(s) \subseteq S
  BY SeqOverRange
<1>2. \A j \in 1 .. Len(s) : s[j] \in S
  OBVIOUS
<1> QED BY <1>1, <1>2 DEF InOrder, Harmless

ReadyNames == {"Shortfall", "ECLVaultProxy", "ResilientOracle", "SequencerChainlinkOracle", "ChainlinkOracle"}

LEMMA OnlyReadyNames ==
  ASSUME NEW c, c[1] \notin ReadyNames
  PROVE  ReadyFacts(c) = {}
<1>1. c # N("Shortfall")
  BY DEF N, ReadyNames
<1>2. c # VaultProxy /\ c \notin HandedOverOracles
  BY DEF N, ReadyNames, VaultProxy, ResilientOracle, HandedOverOracles
<1> QED BY <1>1, <1>2 DEF ReadyFacts

LEMMA NotOfAMarket ==
  ASSUME NEW c, c[1] \notin {"VToken", "JumpRateModelV2"}, NEW m
  PROVE  c # VToken(m) /\ c # RateModelName(m.model)
BY DEF VToken, RateModelName

LEMMA HarmlessDeployment ==
  ASSUME NEW net, NEW name, NEW arguments, NEW needs,
         name[1] \notin {"VToken", "JumpRateModelV2"}, arguments.model = << >>,
         arguments.owner = Deployer \/ name[1] \notin ReadyNames
  PROVE  Harmless(net, DeployAs(name, arguments, needs))
<1> DEFINE tx == DeployAs(name, arguments, needs)
<1>1. tx.do = "deploy" /\ tx.name = name /\ tx.arguments = arguments
  BY DEF DeployAs
<1> HIDE DEF tx
<1>2. Needed(tx) = {}
  BY <1>1 DEF Needed
<1>3. Sound(net, tx)
  BY <1>1, NotOfAMarket, OnlyReadyNames DEF Sound
<1> QED BY <1>2, <1>3 DEF Harmless, tx

LEMMA HarmlessDeploy ==
  ASSUME NEW net, NEW name, NEW needs, name[1] \notin {"VToken", "JumpRateModelV2"}
  PROVE  Harmless(net, Deploy(name, needs)) /\ Harmless(net, DeployTimeManaged(name, needs))
<1>1. /\ Plain.model = << >> /\ Plain.owner = Deployer
      /\ [Plain EXCEPT !.timeManaged = TRUE].model = << >>
      /\ [Plain EXCEPT !.timeManaged = TRUE].owner = Deployer
  BY DEF Plain
<1> QED BY <1>1, HarmlessDeployment DEF Deploy, DeployTimeManaged

LEMMA HarmlessOther ==
  ASSUME NEW net, NEW tx, tx.do \notin {"deploy", "hand over", "set"}
  PROVE  Harmless(net, tx)
BY DEF Harmless, Sound, Needed

LEMMA HarmlessRead ==
  ASSUME NEW net, NEW names
  PROVE  Harmless(net, Requiring(names)) /\ Harmless(net, Throw)
<1>1. Requiring(names).do = "read" /\ Throw.do = "throw"
  BY DEF Requiring, Throw
<1> QED BY <1>1, HarmlessOther

LEMMA HarmlessFunds ==
  ASSUME NEW net, NEW asset, NEW amount
  PROVE  Harmless(net, Send(asset, amount)) /\ Harmless(net, Approve(asset, amount)) /\ Harmless(net, Withdraw(asset))
<1>1. Send(asset, amount).do = "send" /\ Approve(asset, amount).do = "approve" /\ Withdraw(asset).do = "withdraw"
  BY DEF Send, Approve, Withdraw
<1> QED BY <1>1, HarmlessOther

LEMMA HarmlessListing ==
  ASSUME NEW net, NEW pool, NEW market
  PROVE  Harmless(net, AddMarket(pool, market))
<1>1. AddMarket(pool, market).do = "list"
  BY DEF AddMarket
<1> QED BY <1>1, HarmlessOther

LEMMA HarmlessSet ==
  ASSUME NEW net, NEW fact, NEW by, NEW once, NEW needs, fact[1] # "main oracle"
  PROVE  Harmless(net, Set(fact, by, once, needs))
BY DEF Harmless, Sound, Needed, Set

LEMMA HarmlessFact ==
  ASSUME NEW net, NEW what, NEW on, NEW arg, NEW by, NEW once, NEW needs, what # "main oracle"
  PROVE  Harmless(net, Set(Fact(what, on, arg), by, once, needs))
BY HarmlessSet DEF Fact

LEMMA HarmlessGive ==
  ASSUME NEW net, NEW on
  PROVE  Harmless(net, Give(on))
BY HarmlessFact DEF Give, Permission

LEMMA HarmlessHandOver ==
  ASSUME NEW net, NEW name, NEW to, NEW when, NEW twoStep, NEW needs, name[1] \notin ReadyNames
  PROVE  Harmless(net, HandOverTo(name, to, when, twoStep, needs))
BY OnlyReadyNames DEF Harmless, Sound, Needed, HandOverTo

-----------------------------------------------------------------------------
(* The configuration *)

LEMMA SonicMarkets ==
  MarketsOn("sonic") =
    {CoreSonic.vtokens[1], CoreSonic.vtokens[2], CoreSonic.vtokens[3], CoreSonic.vtokens[4],
     LiquidStakedS.vtokens[1], LiquidStakedS.vtokens[2], LiquidStakedS.vtokens[3],
     SpectraPTscUSDPool.vtokens[1], SpectraPTscUSDPool.vtokens[2]}
<1>1. PoolConfig("sonic") = << CoreSonic, LiquidStakedS, SpectraPTscUSDPool >>
  BY DEF PoolConfig
<1>2. DOMAIN CoreSonic.vtokens = 1 .. 4 /\ DOMAIN LiquidStakedS.vtokens = 1 .. 3 /\ DOMAIN SpectraPTscUSDPool.vtokens = 1 .. 2
  BY DEF CoreSonic, LiquidStakedS, SpectraPTscUSDPool, Pool
<1>3. MarketsOn("sonic") = PoolMarkets(CoreSonic) \cup PoolMarkets(LiquidStakedS) \cup PoolMarkets(SpectraPTscUSDPool)
  BY <1>1 DEF MarketsOn
<1> QED BY <1>2, <1>3 DEF PoolMarkets

LEMMA ArbitrumMarkets ==
  MarketsOn("arbitrumone") =
    {CoreArbitrum.vtokens[1], CoreArbitrum.vtokens[2], CoreArbitrum.vtokens[3],
     LiquidStakedETH.vtokens[1], LiquidStakedETH.vtokens[2], LiquidStakedETH.vtokens[3],
     PendlePool.vtokens[1], PendlePool.vtokens[2]}
<1>1. PoolConfig("arbitrumone") = << CoreArbitrum, LiquidStakedETH, PendlePool >>
  BY DEF PoolConfig
<1>2. DOMAIN CoreArbitrum.vtokens = 1 .. 3 /\ DOMAIN LiquidStakedETH.vtokens = 1 .. 3 /\ DOMAIN PendlePool.vtokens = 1 .. 2
  BY DEF CoreArbitrum, LiquidStakedETH, PendlePool, Pool
<1>3. MarketsOn("arbitrumone") = PoolMarkets(CoreArbitrum) \cup PoolMarkets(LiquidStakedETH) \cup PoolMarkets(PendlePool)
  BY <1>1 DEF MarketsOn
<1> QED BY <1>2, <1>3 DEF PoolMarkets

(* No two markets of a network have the same symbol. *)
LEMMA SymbolsDiffer ==
  ASSUME NEW net \in Networks, NEW m \in MarketsOn(net), NEW k \in MarketsOn(net), m.symbol = k.symbol
  PROVE  m = k
<1>1. CASE net = "sonic"
  <2>1. /\ CoreSonic.vtokens[1].symbol = "vstS_Core" /\ CoreSonic.vtokens[2].symbol = "vWETH_Core"
        /\ CoreSonic.vtokens[3].symbol = "vUSDCe_Core" /\ CoreSonic.vtokens[4].symbol = "vwS_Core"
    BY DEF CoreSonic, Pool, Market
  <2>2. /\ LiquidStakedS.vtokens[1].symbol = "vWS_LiquidStakedS" /\ LiquidStakedS.vtokens[2].symbol = "vUSDCe_LiquidStakedS"
        /\ LiquidStakedS.vtokens[3].symbol = "vwOS_LiquidStakedS"
    BY DEF LiquidStakedS, Pool, Market
  <2>3. /\ SpectraPTscUSDPool.vtokens[1].symbol = "vscUSD_SpectraPTscUSDPool"
        /\ SpectraPTscUSDPool.vtokens[2].symbol = "vPT_SpectraPTscUSDPool"
    BY DEF SpectraPTscUSDPool, Pool, Market
  <2> QED BY <1>1, <2>1, <2>2, <2>3, SonicMarkets
<1>2. CASE net = "arbitrumone"
  <2>1. /\ CoreArbitrum.vtokens[1].symbol = "vWETH_Core" /\ CoreArbitrum.vtokens[2].symbol = "vUSDC_Core"
        /\ CoreArbitrum.vtokens[3].symbol = "vUSDT_Core"
    BY DEF CoreArbitrum, Pool, Market
  <2>2. /\ LiquidStakedETH.vtokens[1].symbol = "vwstETH_LiquidStakedETH"
        /\ LiquidStakedETH.vtokens[2].symbol = "vweETH_LiquidStakedETH"
        /\ LiquidStakedETH.vtokens[3].symbol = "vWETH_LiquidStakedETH"
    BY DEF LiquidStakedETH, Pool, Market
  <2>3. PendlePool.vtokens[1].symbol = "vWETH_Pendle" /\ PendlePool.vtokens[2].symbol = "vPTweETH_Pendle"
    BY DEF PendlePool, Pool, Market
  <2> QED BY <1>2, <2>1, <2>2, <2>3, ArbitrumMarkets
<1> QED BY <1>1, <1>2 DEF Networks

LEMMA SeqByElements ==
  ASSUME NEW S, NEW s, NEW n \in Nat, s = [i \in 1 .. n |-> s[i]], \A i \in 1 .. n : s[i] \in S
  PROVE  s \in Seq(S)
OBVIOUS

IsPool(pool, markets) ==
  /\ pool.vtokens \in Seq(markets)
  /\ \E n \in Nat : pool.rewards = [i \in 1 .. n |-> pool.rewards[i]]
  /\ pool = [id |-> pool.id, name |-> pool.name, vtokens |-> pool.vtokens, rewards |-> pool.rewards]

LEMMA PoolsTyped ==
  ASSUME network \in Networks
  PROVE  DOMAIN Pools = 1 .. 3 /\ Pools = [i \in 1 .. 3 |-> Pools[i]] /\ \A i \in 1 .. 3 : IsPool(Pools[i], Markets)
<1>1. CASE network = "sonic"
  <2>1. Pools = << CoreSonic, LiquidStakedS, SpectraPTscUSDPool >>
    BY <1>1 DEF Pools, PoolConfig
  <2>2. IsPool(CoreSonic, Markets)
    <3>1. \A i \in 1 .. 4 : CoreSonic.vtokens[i] \in Markets
      BY <1>1, SonicMarkets DEF Markets
    <3>2. CoreSonic.vtokens = [i \in 1 .. 4 |-> CoreSonic.vtokens[i]]
      BY DEF CoreSonic, Pool
    <3>3. CoreSonic = [id |-> CoreSonic.id, name |-> CoreSonic.name, vtokens |-> CoreSonic.vtokens, rewards |-> CoreSonic.rewards]
      BY DEF CoreSonic, Pool
    <3>4. CoreSonic.rewards = [i \in 1 .. 0 |-> CoreSonic.rewards[i]]
      BY DEF CoreSonic, Pool
    <3>5. CoreSonic.vtokens \in Seq(Markets)
      BY <3>1, <3>2, SeqByElements
    <3> QED BY <3>3, <3>4, <3>5 DEF IsPool
  <2>3. IsPool(LiquidStakedS, Markets)
    <3>1. \A i \in 1 .. 3 : LiquidStakedS.vtokens[i] \in Markets
      BY <1>1, SonicMarkets DEF Markets
    <3>2. LiquidStakedS.vtokens = [i \in 1 .. 3 |-> LiquidStakedS.vtokens[i]]
      BY DEF LiquidStakedS, Pool
    <3>3. LiquidStakedS = [id |-> LiquidStakedS.id, name |-> LiquidStakedS.name, vtokens |-> LiquidStakedS.vtokens, rewards |-> LiquidStakedS.rewards]
      BY DEF LiquidStakedS, Pool
    <3>4. LiquidStakedS.rewards = [i \in 1 .. 0 |-> LiquidStakedS.rewards[i]]
      BY DEF LiquidStakedS, Pool
    <3>5. LiquidStakedS.vtokens \in Seq(Markets)
      BY <3>1, <3>2, SeqByElements
    <3> QED BY <3>3, <3>4, <3>5 DEF IsPool
  <2>4. IsPool(SpectraPTscUSDPool, Markets)
    <3>1. \A i \in 1 .. 2 : SpectraPTscUSDPool.vtokens[i] \in Markets
      BY <1>1, SonicMarkets DEF Markets
    <3>2. SpectraPTscUSDPool.vtokens = [i \in 1 .. 2 |-> SpectraPTscUSDPool.vtokens[i]]
      BY DEF SpectraPTscUSDPool, Pool
    <3>3. SpectraPTscUSDPool = [id |-> SpectraPTscUSDPool.id, name |-> SpectraPTscUSDPool.name, vtokens |-> SpectraPTscUSDPool.vtokens, rewards |-> SpectraPTscUSDPool.rewards]
      BY DEF SpectraPTscUSDPool, Pool
    <3>4. SpectraPTscUSDPool.rewards = [i \in 1 .. 0 |-> SpectraPTscUSDPool.rewards[i]]
      BY DEF SpectraPTscUSDPool, Pool
    <3>5. SpectraPTscUSDPool.vtokens \in Seq(Markets)
      BY <3>1, <3>2, SeqByElements
    <3> QED BY <3>3, <3>4, <3>5 DEF IsPool
  <2>5. DOMAIN Pools = 1 .. 3 /\ Pools = [i \in 1 .. 3 |-> Pools[i]]
    BY <2>1
  <2> QED BY <2>1, <2>2, <2>3, <2>4, <2>5
<1>2. CASE network = "arbitrumone"
  <2>1. Pools = << CoreArbitrum, LiquidStakedETH, PendlePool >>
    BY <1>2 DEF Pools, PoolConfig
  <2>2. IsPool(CoreArbitrum, Markets)
    <3>1. \A i \in 1 .. 3 : CoreArbitrum.vtokens[i] \in Markets
      BY <1>2, ArbitrumMarkets DEF Markets
    <3>2. CoreArbitrum.vtokens = [i \in 1 .. 3 |-> CoreArbitrum.vtokens[i]]
      BY DEF CoreArbitrum, Pool
    <3>3. CoreArbitrum = [id |-> CoreArbitrum.id, name |-> CoreArbitrum.name, vtokens |-> CoreArbitrum.vtokens, rewards |-> CoreArbitrum.rewards]
      BY DEF CoreArbitrum, Pool
    <3>4. CoreArbitrum.rewards = [i \in 1 .. 1 |-> CoreArbitrum.rewards[i]]
      BY DEF CoreArbitrum, Pool
    <3>5. CoreArbitrum.vtokens \in Seq(Markets)
      BY <3>1, <3>2, SeqByElements
    <3> QED BY <3>3, <3>4, <3>5 DEF IsPool
  <2>3. IsPool(LiquidStakedETH, Markets)
    <3>1. \A i \in 1 .. 3 : LiquidStakedETH.vtokens[i] \in Markets
      BY <1>2, ArbitrumMarkets DEF Markets
    <3>2. LiquidStakedETH.vtokens = [i \in 1 .. 3 |-> LiquidStakedETH.vtokens[i]]
      BY DEF LiquidStakedETH, Pool
    <3>3. LiquidStakedETH = [id |-> LiquidStakedETH.id, name |-> LiquidStakedETH.name, vtokens |-> LiquidStakedETH.vtokens, rewards |-> LiquidStakedETH.rewards]
      BY DEF LiquidStakedETH, Pool
    <3>4. LiquidStakedETH.rewards = [i \in 1 .. 1 |-> LiquidStakedETH.rewards[i]]
      BY DEF LiquidStakedETH, Pool
    <3>5. LiquidStakedETH.vtokens \in Seq(Markets)
      BY <3>1, <3>2, SeqByElements
    <3> QED BY <3>3, <3>4, <3>5 DEF IsPool
  <2>4. IsPool(PendlePool, Markets)
    <3>1. \A i \in 1 .. 2 : PendlePool.vtokens[i] \in Markets
      BY <1>2, ArbitrumMarkets DEF Markets
    <3>2. PendlePool.vtokens = [i \in 1 .. 2 |-> PendlePool.vtokens[i]]
      BY DEF PendlePool, Pool
    <3>3. PendlePool = [id |-> PendlePool.id, name |-> PendlePool.name, vtokens |-> PendlePool.vtokens, rewards |-> PendlePool.rewards]
      BY DEF PendlePool, Pool
    <3>4. PendlePool.rewards = [i \in 1 .. 1 |-> PendlePool.rewards[i]]
      BY DEF PendlePool, Pool
    <3>5. PendlePool.vtokens \in Seq(Markets)
      BY <3>1, <3>2, SeqByElements
    <3> QED BY <3>3, <3>4, <3>5 DEF IsPool
  <2>5. DOMAIN Pools = 1 .. 3 /\ Pools = [i \in 1 .. 3 |-> Pools[i]]
    BY <2>1
  <2> QED BY <2>1, <2>2, <2>3, <2>4, <2>5
<1> QED BY <1>1, <1>2 DEF Networks

LEMMA FlatTyped ==
  ASSUME NEW S, NEW seqs, NEW n \in Nat, seqs = [i \in 1 .. n |-> seqs[i]], \A i \in 1 .. n : seqs[i] \in Seq(S)
  PROVE  FlattenSeq(seqs) \in Seq(S)
<1>1. seqs \in Seq(Seq(S))
  OBVIOUS
<1> QED BY <1>1, Flattened

LEMMA UnregisteredPoolsTyped ==
  ASSUME network \in Networks
  PROVE  \E n \in Nat : UnregisteredPools = [i \in 1 .. n |-> UnregisteredPools[i]]
<1> DEFINE Found(p) == Deployed(Comptroller(p)) /\ p.id \in registered
           seqs == [i \in DOMAIN Pools |-> IF ~ Found(Pools[i]) THEN << Pools[i] >> ELSE << >>]
           S == Range(Pools)
<1>1. DOMAIN Pools = 1 .. 3
  BY PoolsTyped
<1>2. UnregisteredPools = FlattenSeq(seqs)
  BY DEF UnregisteredPools, Only, ForEach
<1> HIDE DEF Found
<1>3. ASSUME NEW i \in 1 .. 3 PROVE seqs[i] \in Seq(S)
  <2>1. Pools[i] \in S
    BY <1>1 DEF Range
  <2> HIDE DEF S
  <2>2. seqs[i] = << Pools[i] >> \/ seqs[i] = << >>
    BY <1>1
  <2>3. << Pools[i] >> \in Seq(S) /\ << >> \in Seq(S)
    BY <2>1
  <2> HIDE DEF seqs
  <2> QED BY <2>2, <2>3
<1>4. seqs = [i \in 1 .. 3 |-> seqs[i]]
  BY <1>1
<1> HIDE DEF seqs, S
<1>5. FlattenSeq(seqs) \in Seq(S)
  BY <1>3, <1>4, FlatTyped
<1> QED BY <1>2, <1>5

LEMMA UnregisteredVTokensTyped ==
  ASSUME network \in Networks
  PROVE  /\ UnregisteredVTokens = [i \in 1 .. 3 |-> UnregisteredVTokens[i]]
         /\ \A i \in 1 .. 3 : UnregisteredVTokens[i].vtokens \in Seq(Markets)
<1> DEFINE Found(m) == Deployed(VToken(m)) /\ m.symbol \in listed
           Left(s) == FlattenSeq([i \in DOMAIN s |-> IF ~ Found(s[i]) THEN << s[i] >> ELSE << >>])
<1>1. DOMAIN Pools = 1 .. 3 /\ \A i \in 1 .. 3 : IsPool(Pools[i], Markets)
  BY PoolsTyped
<1>2. UnregisteredVTokens = [i \in 1 .. 3 |-> [Pools[i] EXCEPT !.vtokens = Left(@)]]
  BY <1>1 DEF UnregisteredVTokens, Only, ForEach
<1>3. ASSUME NEW s \in Seq(Markets) PROVE Left(s) \in Seq(Markets)
  <2> DEFINE seqs == [i \in DOMAIN s |-> IF ~ Found(s[i]) THEN << s[i] >> ELSE << >>]
  <2>1. DOMAIN s = 1 .. Len(s) /\ Len(s) \in Nat
    OBVIOUS
  <2> HIDE DEF Found
  <2>2. ASSUME NEW i \in 1 .. Len(s) PROVE seqs[i] \in Seq(Markets)
    <3>1. seqs[i] = << s[i] >> \/ seqs[i] = << >>
      BY <2>1
    <3>2. << s[i] >> \in Seq(Markets) /\ << >> \in Seq(Markets)
      BY <2>1
    <3> HIDE DEF seqs
    <3> QED BY <3>1, <3>2
  <2>3. seqs = [i \in 1 .. Len(s) |-> seqs[i]]
    BY <2>1
  <2> HIDE DEF seqs
  <2>4. FlattenSeq(seqs) \in Seq(Markets)
    BY <2>1, <2>2, <2>3, FlatTyped
  <2> QED BY <2>4 DEF seqs
<1> HIDE DEF Left
<1>4. ASSUME NEW i \in 1 .. 3 PROVE UnregisteredVTokens[i].vtokens \in Seq(Markets)
  <2>1. Pools[i].vtokens \in Seq(Markets)
        /\ Pools[i] = [id |-> Pools[i].id, name |-> Pools[i].name, vtokens |-> Pools[i].vtokens, rewards |-> Pools[i].rewards]
    BY <1>1 DEF IsPool
  <2> DEFINE p == Pools[i]
  <2> HIDE DEF p
  <2>2. UnregisteredVTokens[i] = [p EXCEPT !.vtokens = Left(@)]
    BY <1>2 DEF p
  <2>3. "vtokens" \in DOMAIN p
    BY <2>1 DEF p
  <2>4. UnregisteredVTokens[i].vtokens = Left(p.vtokens)
    BY <2>2, <2>3
  <2> QED BY <1>3, <2>1, <2>4 DEF p
<1> QED BY <1>2, <1>4

-----------------------------------------------------------------------------
(* The scripts of the isolated pools *)

(* One transaction that needs nothing, or a sequence of them *)
LEMMA InOrderHarmlessOne ==
  ASSUME NEW net, NEW tx, NEW given, Harmless(net, tx)
  PROVE  InOrder(net, << tx >>, given)
BY InOrderOne DEF Harmless

LEMMA InOrderHarmlessEach ==
  ASSUME NEW net, NEW given, NEW n \in Nat, NEW s, s = [i \in 1 .. n |-> s[i]], \A i \in 1 .. n : Harmless(net, s[i])
  PROVE  InOrder(net, s, given)
<1> DEFINE S == {s[i] : i \in 1 .. n}
<1>1. s \in Seq(S) /\ \A tx \in S : Harmless(net, tx)
  <2>1. \A i \in 1 .. n : s[i] \in S
    OBVIOUS
  <2>2. \A tx \in S : Harmless(net, tx)
    OBVIOUS
  <2> HIDE DEF S
  <2> QED BY <2>1, <2>2, SeqByElements
<1> HIDE DEF S
<1> QED BY <1>1, InOrderHarmless

LEMMA PoolRegistryInOrder ==
  ASSUME NEW given
  PROVE  InOrder(network, DeployPoolRegistry, given)
<1> DEFINE S == {Deploy(N("PoolRegistry"), {})}
<1>1. \A tx \in S : Harmless(network, tx)
  BY HarmlessDeploy DEF N
<1>2. << Deploy(N("PoolRegistry"), {}) >> \in Seq(S)
  OBVIOUS
<1> HIDE DEF S
<1>3. InOrder(network, << Deploy(N("PoolRegistry"), {}) >>, given)
  BY <1>1, <1>2, InOrderHarmless
<1> QED BY <1>3 DEF DeployPoolRegistry

LEMMA PoolLensInOrder ==
  ASSUME NEW given
  PROVE  InOrder(network, DeployPoolLens, given)
<1> DEFINE S == {DeployTimeManaged(N("PoolLens"), {})}
<1>1. \A tx \in S : Harmless(network, tx)
  BY HarmlessDeploy DEF N
<1>2. << DeployTimeManaged(N("PoolLens"), {}) >> \in Seq(S)
  OBVIOUS
<1> HIDE DEF S
<1>3. InOrder(network, << DeployTimeManaged(N("PoolLens"), {}) >>, given)
  BY <1>1, <1>2, InOrderHarmless
<1> QED BY <1>3 DEF DeployPoolLens

LEMMA ComptrollersInOrder ==
  ASSUME network \in Networks, NEW given
  PROVE  InOrder(network, DeployComptrollers, given)
<1> DEFINE s == UnregisteredPools
           impl == Deploy(N("ComptrollerImpl"), {N("PoolRegistry")})
           beacon == Deploy(N("ComptrollerBeacon"), {})
           seqs == [i \in DOMAIN s |-> << Deploy(Comptroller(s[i]), {}) >>]
<1>1. PICK n \in Nat : s = [i \in 1 .. n |-> s[i]]
  BY UnregisteredPoolsTyped
<1> HIDE DEF s
<1>2. ASSUME NEW i \in 1 .. n PROVE InOrder(network, seqs[i], given)
  <2>1. Comptroller(s[i])[1] = "Comptroller"
    BY DEF Comptroller
  <2>2. Harmless(network, Deploy(Comptroller(s[i]), {}))
    BY <2>1, HarmlessDeploy
  <2>3. seqs[i] = << Deploy(Comptroller(s[i]), {}) >>
    BY <1>1
  <2> HIDE DEF seqs
  <2> QED BY <2>2, <2>3, InOrderHarmlessOne
<1>3. seqs = [i \in 1 .. n |-> seqs[i]]
  BY <1>1
<1>4. DeployComptrollers = << impl, beacon >> \o FlattenSeq(seqs)
  BY DEF DeployComptrollers, ForEach, s
<1> HIDE DEF seqs
<1>5. InOrder(network, FlattenSeq(seqs), given)
  BY <1>2, <1>3, InOrderFlat
<1>6. Harmless(network, impl) /\ Harmless(network, beacon)
  BY HarmlessDeploy DEF N
<1> HIDE DEF impl, beacon
<1>7. InOrder(network, << impl, beacon >>, given)
  <2> DEFINE S == {impl, beacon}
  <2>1. << impl, beacon >> \in Seq(S)
    OBVIOUS
  <2>2. \A tx \in S : Harmless(network, tx)
    BY <1>6
  <2> HIDE DEF S
  <2> QED BY <2>1, <2>2, InOrderHarmless
<1> QED BY <1>4, <1>5, <1>7, InOrderBoth

(* A rate model has the rates of its name, whichever market it is for. *)
LEMMA HarmlessRateModel ==
  ASSUME NEW net, NEW model
  PROVE  Harmless(net, DeployRateModel(model))
<1> DEFINE tx == DeployRateModel(model)
<1>1. /\ tx.do = "deploy" /\ tx.name = RateModelName(model)
      /\ tx.arguments.rates = Rates(model) /\ tx.arguments.model = << >> /\ tx.arguments.owner = Deployer
  BY DEF DeployRateModel, DeployAs, Plain
<1> HIDE DEF tx
<1>2. RateModelName(model)[1] = "JumpRateModelV2"
  BY DEF RateModelName
<1>3. ReadyFacts(tx.name) = {}
  BY <1>1, <1>2, OnlyReadyNames DEF ReadyNames
<1>4. ASSUME NEW m \in MarketsOn(net)
      PROVE  tx.name # VToken(m) /\ (tx.name = RateModelName(m.model) => tx.arguments.rates = Rates(m.model))
  <2>1. VToken(m)[1] = "VToken"
    BY DEF VToken
  <2>2. RateModelName(model) = RateModelName(m.model) => Rates(model) = Rates(m.model)
    BY DEF RateModelName, Rates
  <2> QED BY <1>1, <1>2, <2>1, <2>2
<1>5. Sound(net, tx) /\ Needed(tx) = {}
  BY <1>1, <1>3, <1>4 DEF Sound, Needed
<1> QED BY <1>5 DEF Harmless, tx

(* A market comes after its rate model. *)
LEMMA VTokenInOrder ==
  ASSUME network \in Networks, NEW pool, NEW market \in Markets, NEW given
  PROVE  InOrder(network, DeployVToken(pool, market), given)
<1> DEFINE rm == DeployRateModel(market.model)
           tx == DeployAs(VToken(market), [Plain EXCEPT !.owner = Timelock, !.model = RateModelName(market.model)],
                          {Comptroller(pool), N("ProtocolShareReserve")})
           more == {TheContract(RateModelName(market.model))}
<1>1. /\ tx.do = "deploy" /\ tx.name = VToken(market) /\ tx.arguments.model = RateModelName(market.model)
      /\ VToken(market)[1] = "VToken"
  BY DEF DeployAs, Plain, VToken
<1>2. Brought(rm) = TheContract(RateModelName(market.model))
  BY DEF Brought, DeployRateModel, DeployAs
<1>3. DeployVToken(pool, market) = << rm >> \o << tx >>
  BY DEF DeployVToken
<1>4. InOrder(network, << rm >>, given)
  BY HarmlessRateModel, InOrderHarmlessOne
<1> HIDE DEF tx, rm
<1>5. Needed(tx) \subseteq more
  BY <1>1 DEF Needed
<1>6. Sound(network, tx)
  <2>1. ReadyFacts(tx.name) = {}
    BY <1>1, OnlyReadyNames DEF ReadyNames
  <2>2. ASSUME NEW m \in MarketsOn(network)
        PROVE  (tx.name = VToken(m) => tx.arguments.model = RateModelName(m.model)) /\ tx.name # RateModelName(m.model)
    <3>1. VToken(m) = VToken(market) => m = market
      <4>1. VToken(m) = VToken(market) => m.symbol = market.symbol
        BY DEF VToken
      <4> QED BY <4>1, SymbolsDiffer DEF Markets
    <3>2. RateModelName(m.model)[1] = "JumpRateModelV2"
      BY DEF RateModelName
    <3> QED BY <1>1, <3>1, <3>2
  <2> QED BY <2>1, <2>2 DEF Sound
<1>7. InOrder(network, << tx >>, more)
  BY <1>5, <1>6, InOrderOne
<1>8. << rm >>[1] = rm /\ Len(<< rm >>) = 1
  OBVIOUS
<1>9. \A x \in more : \E i \in 1 .. Len(<< rm >>) : x = Brought(<< rm >>[i])
  BY <1>2, <1>8
<1> HIDE DEF more
<1> QED BY <1>3, <1>4, <1>7, <1>9, InOrderConcat

LEMMA VTokensOfPoolInOrder ==
  ASSUME network \in Networks, NEW pool, NEW s \in Seq(Markets), NEW given
  PROVE  InOrder(network, FlattenSeq([i \in DOMAIN s |-> DeployVToken(pool, s[i])]), given)
<1> DEFINE seqs == [i \in DOMAIN s |-> DeployVToken(pool, s[i])]
<1>1. DOMAIN s = 1 .. Len(s) /\ Len(s) \in Nat /\ \A i \in 1 .. Len(s) : s[i] \in Markets
  OBVIOUS
<1>2. seqs = [i \in 1 .. Len(s) |-> seqs[i]] /\ \A i \in 1 .. Len(s) : seqs[i] = DeployVToken(pool, s[i])
  BY <1>1
<1> HIDE DEF seqs
<1>3. InOrder(network, FlattenSeq(seqs), given)
  BY <1>1, <1>2, VTokenInOrder, InOrderFlat
<1> QED BY <1>3 DEF seqs

LEMMA VTokensInOrder ==
  ASSUME network \in Networks, NEW timeBased, NEW given
  PROVE  InOrder(network, DeployVTokens(timeBased), given)
<1> DEFINE first == << DeployTimeManaged(N("VTokenImpl"), {}), Deploy(N("VTokenBeacon"), {}), Requiring({N("PoolRegistry")}) >>
           pools == UnregisteredVTokens
           Inner(p) == FlattenSeq([i \in DOMAIN p.vtokens |-> DeployVToken(p, p.vtokens[i])])
           seqs == [i \in DOMAIN pools |-> << Requiring({Comptroller(pools[i])}) >> \o Inner(pools[i])]
<1>1. pools = [i \in 1 .. 3 |-> pools[i]] /\ \A i \in 1 .. 3 : pools[i].vtokens \in Seq(Markets)
  BY UnregisteredVTokensTyped
<1>2. DeployVTokens(timeBased) = IF ~ MaxBorrowRateKnown(network, timeBased) THEN << Throw >> ELSE first \o FlattenSeq(seqs)
  BY DEF DeployVTokens, ForEach
<1> HIDE DEF pools
<1>3. ASSUME NEW i \in 1 .. 3 PROVE InOrder(network, seqs[i], given)
  <2>1. InOrder(network, Inner(pools[i]), given)
    BY <1>1, VTokensOfPoolInOrder
  <2>2. InOrder(network, << Requiring({Comptroller(pools[i])}) >>, given)
    BY HarmlessRead, InOrderHarmlessOne
  <2>3. seqs[i] = << Requiring({Comptroller(pools[i])}) >> \o Inner(pools[i])
    BY <1>1
  <2> HIDE DEF seqs, Inner
  <2> QED BY <2>1, <2>2, <2>3, InOrderBoth
<1>4. seqs = [i \in 1 .. 3 |-> seqs[i]]
  BY <1>1
<1> HIDE DEF seqs
<1>5. InOrder(network, FlattenSeq(seqs), given)
  BY <1>3, <1>4, InOrderFlat
<1>6. InOrder(network, first, given)
  <2> DEFINE S == {DeployTimeManaged(N("VTokenImpl"), {}), Deploy(N("VTokenBeacon"), {}), Requiring({N("PoolRegistry")})}
  <2>1. \A tx \in S : Harmless(network, tx)
    BY HarmlessDeploy, HarmlessRead DEF N
  <2>2. first \in Seq(S)
    OBVIOUS
  <2> HIDE DEF S, first
  <2> QED BY <2>1, <2>2, InOrderHarmless
<1> HIDE DEF first
<1>7. InOrder(network, << Throw >>, given)
  BY HarmlessRead, InOrderHarmlessOne
<1>8. InOrder(network, first \o FlattenSeq(seqs), given)
  BY <1>5, <1>6, InOrderBoth
<1> QED BY <1>2, <1>7, <1>8

LEMMA RateModelsOfPoolInOrder ==
  ASSUME NEW s \in Seq(Markets), NEW given
  PROVE  InOrder(network, FlattenSeq([i \in DOMAIN s |-> << DeployRateModel(s[i].model) >>]), given)
<1> DEFINE seqs == [i \in DOMAIN s |-> << DeployRateModel(s[i].model) >>]
<1>1. DOMAIN s = 1 .. Len(s) /\ Len(s) \in Nat
  OBVIOUS
<1>2. seqs = [i \in 1 .. Len(s) |-> seqs[i]] /\ \A i \in 1 .. Len(s) : seqs[i] = << DeployRateModel(s[i].model) >>
  BY <1>1
<1> HIDE DEF seqs
<1>3. \A i \in 1 .. Len(s) : InOrder(network, seqs[i], given)
  BY <1>2, HarmlessRateModel, InOrderHarmlessOne
<1>4. InOrder(network, FlattenSeq(seqs), given)
  BY <1>1, <1>2, <1>3, InOrderFlat
<1> QED BY <1>4 DEF seqs

LEMMA IRModelsInOrder ==
  ASSUME network \in Networks, NEW given
  PROVE  InOrder(network, DeployIRModels, given)
<1> DEFINE Inner(p) == FlattenSeq([i \in DOMAIN p.vtokens |-> << DeployRateModel(p.vtokens[i].model) >>])
           seqs == [i \in DOMAIN Pools |-> Inner(Pools[i])]
<1>1. DOMAIN Pools = 1 .. 3 /\ \A i \in 1 .. 3 : Pools[i].vtokens \in Seq(Markets)
  BY PoolsTyped DEF IsPool
<1>2. DeployIRModels = FlattenSeq(seqs)
  BY DEF DeployIRModels, ForEach
<1>3. ASSUME NEW i \in 1 .. 3 PROVE InOrder(network, seqs[i], given)
  <2>1. InOrder(network, Inner(Pools[i]), given)
    BY <1>1, RateModelsOfPoolInOrder
  <2> HIDE DEF Inner
  <2> QED BY <1>1, <2>1
<1>4. seqs = [i \in 1 .. 3 |-> seqs[i]]
  BY <1>1
<1> HIDE DEF seqs
<1> QED BY <1>2, <1>3, <1>4, InOrderFlat

LEMMA RewardsInOrder ==
  ASSUME network \in Networks, NEW given
  PROVE  InOrder(network, DeployRewardsDistributors, given)
<1> DEFINE first == << Requiring({N("PoolRegistry")}), DeployTimeManaged(N("RewardsDistributorImpl"), {}) >>
           Of(p) == [idx \in DOMAIN p.rewards |-> DeployTimeManaged(RewardsDistributor(p, idx), {Comptroller(p)})]
           seqs == [i \in DOMAIN Pools |-> Of(Pools[i])]
<1>1. /\ DOMAIN Pools = 1 .. 3
      /\ \A i \in 1 .. 3 : \E n \in Nat : Pools[i].rewards = [idx \in 1 .. n |-> Pools[i].rewards[idx]]
  BY PoolsTyped DEF IsPool
<1>2. DeployRewardsDistributors = first \o FlattenSeq(seqs)
  BY DEF DeployRewardsDistributors, ForEach, UnregisteredRewardsDistributors
<1>3. ASSUME NEW i \in 1 .. 3 PROVE InOrder(network, seqs[i], given)
  <2> DEFINE s == seqs[i]
  <2>1. PICK n \in Nat : Pools[i].rewards = [idx \in 1 .. n |-> Pools[i].rewards[idx]]
    BY <1>1
  <2>2. s = [idx \in 1 .. n |-> DeployTimeManaged(RewardsDistributor(Pools[i], idx), {Comptroller(Pools[i])})]
    BY <1>1, <2>1
  <2> HIDE DEF s
  <2>3. \A idx : RewardsDistributor(Pools[i], idx)[1] = "RewardsDistributor"
    BY DEF RewardsDistributor
  <2>4. \A idx \in 1 .. n : Harmless(network, s[idx])
    BY <2>2, <2>3, HarmlessDeploy
  <2>5. s = [idx \in 1 .. n |-> s[idx]]
    BY <2>2
  <2>6. InOrder(network, s, given)
    BY <2>4, <2>5, InOrderHarmlessEach
  <2> QED BY <2>6 DEF s
<1>4. seqs = [i \in 1 .. 3 |-> seqs[i]]
  BY <1>1
<1> HIDE DEF seqs
<1>5. InOrder(network, FlattenSeq(seqs), given)
  BY <1>3, <1>4, InOrderFlat
<1>6. InOrder(network, first, given)
  <2> DEFINE S == {Requiring({N("PoolRegistry")}), DeployTimeManaged(N("RewardsDistributorImpl"), {})}
  <2>1. \A tx \in S : Harmless(network, tx)
    BY HarmlessDeploy, HarmlessRead DEF N
  <2>2. first \in Seq(S)
    OBVIOUS
  <2> HIDE DEF S, first
  <2> QED BY <2>1, <2>2, InOrderHarmless
<1> HIDE DEF first
<1> QED BY <1>2, <1>5, <1>6, InOrderBoth

LEMMA ImplementationsInOrder ==
  ASSUME NEW timeBased, NEW given
  PROVE  InOrder(network, DeployImplementations(timeBased), given)
<1> DEFINE S == {Deploy(N("ComptrollerImpl"), {N("PoolRegistry")}), DeployTimeManaged(N("VTokenImpl"), {})}
           s == << Deploy(N("ComptrollerImpl"), {N("PoolRegistry")}), DeployTimeManaged(N("VTokenImpl"), {}) >>
<1>1. \A tx \in S : Harmless(network, tx)
  BY HarmlessDeploy DEF N
<1>2. s \in Seq(S)
  OBVIOUS
<1>3. DeployImplementations(timeBased) = IF ~ MaxBorrowRateKnown(network, timeBased) THEN << Throw >> ELSE s
  BY DEF DeployImplementations
<1> HIDE DEF S, s
<1>4. InOrder(network, s, given)
  BY <1>1, <1>2, InOrderHarmless
<1>5. InOrder(network, << Throw >>, given)
  BY HarmlessRead, InOrderHarmlessOne
<1> QED BY <1>3, <1>4, <1>5

LEMMA LiquidityInOrder ==
  ASSUME network \in Networks, NEW given
  PROVE  InOrder(network, SendInitialLiquidityToTreasury, given)
<1> DEFINE lists == [i \in DOMAIN UnregisteredVTokens |-> UnregisteredVTokens[i].vtokens]
           markets == FlattenSeq(lists)
           amounts == SumAmounts(markets)
           chosen == FlattenSeq([i \in DOMAIN amounts |-> IF amounts[i].amount > 0 THEN << amounts[i] >> ELSE << >>])
           seqs == [i \in DOMAIN chosen |-> << Send(chosen[i].asset, chosen[i].amount) >>]
           first == << Requiring({N("PoolRegistry")}) >>
<1>1. SendInitialLiquidityToTreasury = first \o FlattenSeq(seqs)
  BY DEF SendInitialLiquidityToTreasury, ForEach, Only
<1>2. markets \in Seq(Markets)
  <2>1. DOMAIN UnregisteredVTokens = 1 .. 3 /\ \A i \in 1 .. 3 : UnregisteredVTokens[i].vtokens \in Seq(Markets)
    BY UnregisteredVTokensTyped
  <2>2. lists = [i \in 1 .. 3 |-> lists[i]] /\ \A i \in 1 .. 3 : lists[i] \in Seq(Markets)
    BY <2>1
  <2> HIDE DEF lists
  <2> QED BY <2>2, FlatTyped
<1> HIDE DEF lists, markets
<1>3. PICK n \in Nat : amounts = [i \in 1 .. n |-> amounts[i]]
  <2>1. DOMAIN markets = 1 .. Len(markets) /\ Len(markets) \in Nat
    BY <1>2
  <2>2. amounts = [i \in DOMAIN markets |-> amounts[i]]
    BY DEF SumAmounts
  <2> HIDE DEF amounts
  <2> QED BY <2>1, <2>2
<1> HIDE DEF amounts
<1>4. PICK k \in Nat : chosen = [i \in 1 .. k |-> chosen[i]]
  <2> DEFINE parts == [i \in DOMAIN amounts |-> IF amounts[i].amount > 0 THEN << amounts[i] >> ELSE << >>]
             S == {amounts[i] : i \in 1 .. n}
  <2>1. parts = [i \in 1 .. n |-> parts[i]] /\ \A i \in 1 .. n : parts[i] = << amounts[i] >> \/ parts[i] = << >>
    BY <1>3
  <2>2. << >> \in Seq(S) /\ \A i \in 1 .. n : << amounts[i] >> \in Seq(S)
    OBVIOUS
  <2> HIDE DEF parts, S
  <2>3. FlattenSeq(parts) \in Seq(S)
    BY <2>1, <2>2, FlatTyped
  <2>4. chosen \in Seq(S)
    BY <2>3 DEF parts
  <2> HIDE DEF chosen
  <2> QED BY <2>4
<1> HIDE DEF chosen
<1>5. seqs = [i \in 1 .. k |-> seqs[i]] /\ \A i \in 1 .. k : seqs[i] = << Send(chosen[i].asset, chosen[i].amount) >>
  BY <1>4
<1> HIDE DEF seqs
<1>6. \A i \in 1 .. k : InOrder(network, seqs[i], given)
  BY <1>5, HarmlessFunds, InOrderHarmlessOne
<1>7. InOrder(network, FlattenSeq(seqs), given)
  BY <1>5, <1>6, InOrderFlat
<1>8. InOrder(network, first, given)
  BY HarmlessRead, InOrderHarmlessOne
<1> HIDE DEF first
<1> QED BY <1>1, <1>7, <1>8, InOrderBoth

(* What is handed over here needs no configuration before it. *)
LEMMA HandOversInOrder ==
  ASSUME NEW given, NEW S, NEW s \in Seq(S), \A c \in S : c[1] \notin ReadyNames, NEW twoStep
  PROVE  InOrder(network, FlattenSeq([i \in DOMAIN s |-> << HandOverTo(s[i], Timelock, "unless done", twoStep, {s[i]}) >>]), given)
<1> DEFINE seqs == [i \in DOMAIN s |-> << HandOverTo(s[i], Timelock, "unless done", twoStep, {s[i]}) >>]
<1>1. DOMAIN s = 1 .. Len(s) /\ Len(s) \in Nat /\ \A i \in 1 .. Len(s) : s[i] \in S
  OBVIOUS
<1>2. /\ seqs = [i \in 1 .. Len(s) |-> seqs[i]]
      /\ \A i \in 1 .. Len(s) : seqs[i] = << HandOverTo(s[i], Timelock, "unless done", twoStep, {s[i]}) >>
  BY <1>1
<1> HIDE DEF seqs
<1>3. \A i \in 1 .. Len(s) : Harmless(network, HandOverTo(s[i], Timelock, "unless done", twoStep, {s[i]}))
  BY <1>1, HarmlessHandOver
<1>4. InOrder(network, FlattenSeq(seqs), given)
  <2>1. ASSUME NEW i \in 1 .. Len(s) PROVE InOrder(network, seqs[i], given)
    <3> DEFINE tx == HandOverTo(s[i], Timelock, "unless done", twoStep, {s[i]})
    <3>1. Harmless(network, tx) /\ seqs[i] = << tx >>
      BY <1>2, <1>3
    <3> HIDE DEF tx
    <3> QED BY <3>1, InOrderHarmlessOne
  <2> QED BY <1>1, <1>2, <2>1, InOrderFlat
<1> QED BY <1>4 DEF seqs

LEMMA TransferOwnershipInOrder ==
  ASSUME network \in Networks, NEW given
  PROVE  InOrder(network, TransferPoolsOwnership, given)
<1> DEFINE beacons == << N("ComptrollerBeacon"), N("VTokenBeacon") >>
           comptrollers == [i \in DOMAIN Pools |-> Comptroller(Pools[i])]
           Of(p) == [idx \in DOMAIN p.rewards |-> RewardsDistributor(p, idx)]
           lists == [i \in DOMAIN Pools |-> Of(Pools[i])]
           distributors == FlattenSeq(lists)
           rest == << N("PoolRegistry") >> \o comptrollers \o distributors
           Names == {c \in {N("ComptrollerBeacon"), N("VTokenBeacon"), N("PoolRegistry")}
                           \cup {Comptroller(Pools[i]) : i \in 1 .. 3}
                           \cup {RewardsDistributor(Pools[i], idx) : i \in 1 .. 3, idx \in Nat} : c[1] \notin ReadyNames}
           Over(s, twoStep) == FlattenSeq([i \in DOMAIN s |-> << HandOverTo(s[i], Timelock, "unless done", twoStep, {s[i]}) >>])
<1>1. TransferPoolsOwnership = Over(beacons, FALSE) \o Over(rest, TRUE)
  BY DEF TransferPoolsOwnership, ForEach
<1>2. /\ DOMAIN Pools = 1 .. 3
      /\ \A i \in 1 .. 3 : \E n \in Nat : Pools[i].rewards = [idx \in 1 .. n |-> Pools[i].rewards[idx]]
  BY PoolsTyped DEF IsPool
<1>3. N("ComptrollerBeacon") \in Names /\ N("VTokenBeacon") \in Names /\ N("PoolRegistry") \in Names
  BY DEF N, ReadyNames
<1>4. \A i \in 1 .. 3 : Comptroller(Pools[i]) \in Names
  <2>1. \A i \in 1 .. 3 : Comptroller(Pools[i])[1] = "Comptroller"
    BY DEF Comptroller
  <2> QED BY <2>1 DEF ReadyNames
<1>5. \A i \in 1 .. 3 : \A idx \in Nat : RewardsDistributor(Pools[i], idx) \in Names
  <2>1. \A i \in 1 .. 3 : \A idx \in Nat : RewardsDistributor(Pools[i], idx)[1] = "RewardsDistributor"
    BY DEF RewardsDistributor
  <2> QED BY <2>1 DEF ReadyNames
<1>6. \A c \in Names : c[1] \notin ReadyNames
  OBVIOUS
<1> HIDE DEF Names, Over
<1>7. comptrollers \in Seq(Names)
  BY <1>2, <1>4
<1>8. distributors \in Seq(Names)
  <2>1. ASSUME NEW i \in 1 .. 3 PROVE lists[i] \in Seq(Names)
    <3>1. PICK n \in Nat : Pools[i].rewards = [idx \in 1 .. n |-> Pools[i].rewards[idx]]
      BY <1>2
    <3>2. lists[i] = [idx \in 1 .. n |-> RewardsDistributor(Pools[i], idx)]
      BY <1>2, <3>1
    <3> HIDE DEF lists
    <3> QED BY <1>5, <3>2
  <2>2. lists = [i \in 1 .. 3 |-> lists[i]]
    BY <1>2
  <2> HIDE DEF lists
  <2> QED BY <2>1, <2>2, FlatTyped
<1>9. beacons \in Seq(Names) /\ << N("PoolRegistry") >> \in Seq(Names)
  BY <1>3
<1> HIDE DEF comptrollers, lists, distributors, beacons
<1>10. rest \in Seq(Names)
  BY <1>7, <1>8, <1>9
<1> HIDE DEF rest
<1>11. InOrder(network, Over(beacons, FALSE), given) /\ InOrder(network, Over(rest, TRUE), given)
  BY <1>6, <1>9, <1>10, HandOversInOrder DEF Over
<1> QED BY <1>1, <1>11, InOrderBoth

LEMMA MarketCommandsInOrder ==
  ASSUME NEW pool, NEW market, NEW given
  PROVE  InOrder(network, AddMarketCommands(pool, market), given)
<1> DEFINE reserves == SetReduceReservesBlockDelta(market)
           s == << Withdraw(market.asset), Approve(market.asset, 0), Approve(market.asset, 1), reserves, AddMarket(pool, market) >>
           S == {Withdraw(market.asset), Approve(market.asset, 0), Approve(market.asset, 1), reserves, AddMarket(pool, market)}
<1>1. Harmless(network, reserves)
  BY HarmlessFact DEF SetReduceReservesBlockDelta
<1> HIDE DEF reserves
<1>2. \A tx \in S : Harmless(network, tx)
  BY <1>1, HarmlessFunds, HarmlessListing
<1>3. s \in Seq(S)
  OBVIOUS
<1>4. AddMarketCommands(pool, market) = s
  BY DEF AddMarketCommands, reserves
<1> HIDE DEF s, S
<1> QED BY <1>2, <1>3, <1>4, InOrderHarmless

LEMMA MarketsOfPoolInOrder ==
  ASSUME NEW pool, NEW S, NEW s \in Seq(S), NEW given
  PROVE  InOrder(network, FlattenSeq([i \in DOMAIN s |-> AddMarketCommands(pool, s[i])]), given)
<1> DEFINE seqs == [i \in DOMAIN s |-> AddMarketCommands(pool, s[i])]
<1>1. DOMAIN s = 1 .. Len(s) /\ Len(s) \in Nat
  OBVIOUS
<1>2. seqs = [i \in 1 .. Len(s) |-> seqs[i]] /\ \A i \in 1 .. Len(s) : seqs[i] = AddMarketCommands(pool, s[i])
  BY <1>1
<1> HIDE DEF seqs
<1>3. InOrder(network, FlattenSeq(seqs), given)
  BY <1>1, <1>2, MarketCommandsInOrder, InOrderFlat
<1> QED BY <1>3 DEF seqs

LEMMA VIPInOrder ==
  ASSUME network \in Networks, NEW given
  PROVE  InOrder(network, ConfigureByVIP, given)
<1> DEFINE needs == {N("PoolRegistry")} \cup
                    UNION {{VToken(m) : m \in {x \in PoolMarkets(Pools[i]) : x.symbol \notin listed}} : i \in DOMAIN Pools}
           pools == UnregisteredVTokens
           Inner(p) == FlattenSeq([i \in DOMAIN p.vtokens |-> AddMarketCommands(p, p.vtokens[i])])
           seqs == [i \in DOMAIN pools |-> Inner(pools[i])]
<1>1. pools = [i \in 1 .. 3 |-> pools[i]] /\ \A i \in 1 .. 3 : pools[i].vtokens \in Seq(Markets)
  BY UnregisteredVTokensTyped
<1>2. ConfigureByVIP = << Requiring(needs) >> \o FlattenSeq(seqs)
  BY DEF ConfigureByVIP, ForEach
<1> HIDE DEF pools, needs
<1>3. ASSUME NEW i \in 1 .. 3 PROVE InOrder(network, seqs[i], given)
  <2>1. InOrder(network, Inner(pools[i]), given)
    BY <1>1, MarketsOfPoolInOrder
  <2>2. seqs[i] = Inner(pools[i])
    BY <1>1
  <2> HIDE DEF seqs, Inner
  <2> QED BY <2>1, <2>2
<1>4. seqs = [i \in 1 .. 3 |-> seqs[i]]
  BY <1>1
<1> HIDE DEF seqs
<1>5. InOrder(network, FlattenSeq(seqs), given)
  BY <1>3, <1>4, InOrderFlat
<1>6. InOrder(network, << Requiring(needs) >>, given)
  BY HarmlessRead, InOrderHarmlessOne
<1> QED BY <1>2, <1>5, <1>6, InOrderBoth

LEMMA ReserveInOrder ==
  ASSUME NEW given
  PROVE  InOrder(network, DeployProtocolShareReserve, given)
<1> DEFINE psr == N("ProtocolShareReserve")
           s == << Deploy(psr, {}), Set(Fact("poolRegistry", psr, ""), Owner(psr), FALSE, {N("PoolRegistry")}),
                   Give(psr), Set(Fact("distribution", psr, ""), Having({Permission(psr)}), FALSE, {}) >>
           S == {Deploy(psr, {}), Set(Fact("poolRegistry", psr, ""), Owner(psr), FALSE, {N("PoolRegistry")}),
                 Give(psr), Set(Fact("distribution", psr, ""), Having({Permission(psr)}), FALSE, {})}
<1>1. psr[1] = "ProtocolShareReserve"
  BY DEF N
<1>2. DeployProtocolShareReserve = s
  BY DEF DeployProtocolShareReserve
<1> HIDE DEF psr
<1>3. \A tx \in S : Harmless(network, tx)
  <2>1. Harmless(network, Deploy(psr, {})) /\ Harmless(network, Give(psr))
    BY <1>1, HarmlessDeploy, HarmlessGive
  <2>2. /\ Harmless(network, Set(Fact("poolRegistry", psr, ""), Owner(psr), FALSE, {N("PoolRegistry")}))
        /\ Harmless(network, Set(Fact("distribution", psr, ""), Having({Permission(psr)}), FALSE, {}))
    BY HarmlessFact
  <2> QED BY <2>1, <2>2
<1>4. s \in Seq(S)
  OBVIOUS
<1> HIDE DEF s, S
<1> QED BY <1>2, <1>3, <1>4, InOrderHarmless

(* Shortfall gets its registry before it changes hands. *)
LEMMA ShortfallInOrder ==
  ASSUME NEW given
  PROVE  InOrder(network, DeployShortfall, given)
<1> DEFINE shortfall == N("Shortfall")
           needs == {N("PoolRegistry"), N("RiskFundV2")}
           setting == Set(Fact("poolRegistry", shortfall, ""), Owner(shortfall), FALSE, {})
           offer == HandOverTo(shortfall, Timelock, "unless done", TRUE, {})
           s == << Requiring(needs), DeployTimeManaged(shortfall, {}), setting >>
           S == {Requiring(needs), DeployTimeManaged(shortfall, {}), setting}
           more == {TheFact(Fact("poolRegistry", shortfall, ""))}
<1>1. DeployShortfall = s \o << offer >>
  <2> DEFINE deployment == DeployTimeManaged(shortfall, {})
             reading == Requiring(needs)
  <2>1. DeployShortfall = << reading, deployment, setting, offer >> /\ s = << reading, deployment, setting >>
    BY DEF DeployShortfall
  <2> HIDE DEF deployment, reading, setting, offer, s
  <2>2. << reading, deployment, setting, offer >> = << reading, deployment, setting >> \o << offer >>
    OBVIOUS
  <2> QED BY <2>1, <2>2
<1>2. /\ offer.do = "hand over" /\ offer.name = shortfall
      /\ setting.do = "set" /\ setting.fact = Fact("poolRegistry", shortfall, "")
  BY DEF HandOverTo, Set
<1>3. Harmless(network, DeployTimeManaged(shortfall, {}))
  BY HarmlessDeploy DEF N
<1>4. Harmless(network, setting)
  BY HarmlessFact
<1>5. s[3] = setting /\ Len(s) = 3 /\ s \in Seq(S)
  OBVIOUS
<1> HIDE DEF needs, setting, offer
<1>6. \A tx \in S : Harmless(network, tx)
  BY <1>3, <1>4, HarmlessRead
<1> HIDE DEF s, S
<1>7. InOrder(network, s, given)
  BY <1>5, <1>6, InOrderHarmless
<1>8. InOrder(network, << offer >>, more)
  <2>1. ReadyFacts(shortfall) = {Fact("poolRegistry", shortfall, "")}
    BY DEF ReadyFacts
  <2>2. Needed(offer) \subseteq more /\ Sound(network, offer)
    BY <1>2, <2>1 DEF Needed, Sound
  <2> QED BY <2>2, InOrderOne
<1>9. \A x \in more : \E i \in 1 .. Len(s) : x = Brought(s[i])
  <2>1. Brought(setting) = TheFact(Fact("poolRegistry", shortfall, ""))
    BY <1>2 DEF Brought
  <2>2. 3 \in 1 .. Len(s) /\ s[3] = setting
    BY <1>5
  <2> HIDE DEF shortfall
  <2>3. Brought(s[3]) = Brought(setting)
    BY <2>2
  <2> QED BY <2>1, <2>2, <2>3
<1> HIDE DEF more
<1> QED BY <1>1, <1>7, <1>8, <1>9, InOrderConcat

LEMMA RegistryUpdateInOrder ==
  ASSUME NEW given
  PROVE  InOrder(network, UpdatePoolRegistry, given)
<1> DEFINE arguments == [Plain EXCEPT !.owner = Nobody]
<1>1. arguments.model = << >>
  BY DEF Plain
<1>2. N("PoolRegistry")[1] = "PoolRegistry"
  BY DEF N
<1>3. UpdatePoolRegistry = << DeployAs(N("PoolRegistry"), arguments, {}) >>
  BY DEF UpdatePoolRegistry
<1> HIDE DEF arguments
<1>4. Harmless(network, DeployAs(N("PoolRegistry"), arguments, {}))
  BY <1>1, <1>2, HarmlessDeployment DEF ReadyNames
<1> QED BY <1>3, <1>4, InOrderHarmlessOne

LEMMA GatewaysInOrder ==
  ASSUME NEW given
  PROVE  InOrder(network, DeployNativeTokenGateways, given)
<1> DEFINE markets == NativeMarkets(network)
           Of(v) == << Deploy(<<"NativeTokenGateway", v>>, {}),
                       HandOverTo(<<"NativeTokenGateway", v>>, Timelock, "always", TRUE, {}) >>
           seqs == [i \in DOMAIN markets |-> Of(markets[i])]
<1>1. DeployNativeTokenGateways = IF markets = << >> THEN << Throw >> ELSE FlattenSeq(seqs)
  BY DEF DeployNativeTokenGateways, ForEach
<1>2. PICK n \in Nat : DOMAIN markets = 1 .. n
  <2>1. CASE network = "sonic"
    <3>1. markets = <<"vwS_Core", "vwS_LiquidStakedS">>
      BY <2>1 DEF NativeMarkets
    <3> HIDE DEF markets
    <3>2. DOMAIN markets = 1 .. 2
      BY <3>1
    <3> QED BY <3>2
  <2>2. CASE network # "sonic"
    <3>1. markets = << >>
      BY <2>2 DEF NativeMarkets
    <3> HIDE DEF markets
    <3>2. DOMAIN markets = 1 .. 0
      BY <3>1
    <3> QED BY <3>2
  <2> QED BY <2>1, <2>2
<1>3. ASSUME NEW v PROVE InOrder(network, Of(v), given)
  <2> DEFINE name == <<"NativeTokenGateway", v>>
             S == {Deploy(name, {}), HandOverTo(name, Timelock, "always", TRUE, {})}
  <2>1. name[1] = "NativeTokenGateway"
    OBVIOUS
  <2>2. Of(v) \in Seq(S)
    OBVIOUS
  <2> HIDE DEF name, Of
  <2>3. \A tx \in S : Harmless(network, tx)
    BY <2>1, HarmlessDeploy, HarmlessHandOver DEF ReadyNames
  <2> HIDE DEF S
  <2> QED BY <2>2, <2>3, InOrderHarmless
<1> HIDE DEF Of, markets
<1>4. seqs = [i \in 1 .. n |-> seqs[i]] /\ \A i \in 1 .. n : seqs[i] = Of(markets[i])
  BY <1>2
<1> HIDE DEF seqs
<1>5. InOrder(network, FlattenSeq(seqs), given)
  BY <1>3, <1>4, InOrderFlat
<1>6. InOrder(network, << Throw >>, given)
  BY HarmlessRead, InOrderHarmlessOne
<1> QED BY <1>1, <1>5, <1>6

LEMMA SwapRouterInOrder ==
  ASSUME NEW given
  PROVE  InOrder(network, DeploySwapRouter, given)
BY HarmlessRead, InOrderHarmlessOne DEF DeploySwapRouter

-----------------------------------------------------------------------------
(* The scripts of governance, treasury and vault *)

LEMMA AccessControlInOrder ==
  ASSUME NEW given
  PROVE  InOrder(network, DeployAccessControl, given)
<1>1. Harmless(network, Deploy(N("AccessControlManager"), {}))
  BY HarmlessDeploy DEF N
<1> QED BY <1>1, InOrderHarmlessOne DEF DeployAccessControl

LEMMA ECLInOrder ==
  ASSUME NEW given
  PROVE  InOrder(network, DeployECL, given)
<1>1. Harmless(network, Deploy(N("ECL"), {}))
  BY HarmlessDeploy DEF N
<1> QED BY <1>1, InOrderHarmlessOne DEF DeployECL

LEMMA DeployEachInOrder ==
  ASSUME NEW given, NEW S, NEW s \in Seq(S), \A c \in S : c \notin {"VToken", "JumpRateModelV2"}
  PROVE  InOrder(network, FlattenSeq([i \in DOMAIN s |-> << Deploy(N(s[i]), {}) >>]), given)
<1> DEFINE seqs == [i \in DOMAIN s |-> << Deploy(N(s[i]), {}) >>]
<1>1. DOMAIN s = 1 .. Len(s) /\ Len(s) \in Nat /\ \A i \in 1 .. Len(s) : s[i] \in S
  OBVIOUS
<1>2. seqs = [i \in 1 .. Len(s) |-> seqs[i]] /\ \A i \in 1 .. Len(s) : seqs[i] = << Deploy(N(s[i]), {}) >>
  BY <1>1
<1> HIDE DEF seqs
<1>3. ASSUME NEW i \in 1 .. Len(s) PROVE InOrder(network, seqs[i], given)
  <2> DEFINE tx == Deploy(N(s[i]), {})
  <2>1. N(s[i])[1] = s[i]
    BY DEF N
  <2>2. Harmless(network, tx) /\ seqs[i] = << tx >>
    BY <1>1, <1>2, <2>1, HarmlessDeploy
  <2> HIDE DEF tx
  <2> QED BY <2>2, InOrderHarmlessOne
<1>4. InOrder(network, FlattenSeq(seqs), given)
  BY <1>1, <1>2, <1>3, InOrderFlat
<1> QED BY <1>4 DEF seqs

LEMMA TimelocksInOrder ==
  ASSUME NEW given
  PROVE  InOrder(network, DeployTimelocks, given)
<1> DEFINE s == <<"NormalTimelock", "FastTrackTimelock", "CriticalTimelock">>
           S == {"NormalTimelock", "FastTrackTimelock", "CriticalTimelock"}
<1>1. s \in Seq(S) /\ \A c \in S : c \notin {"VToken", "JumpRateModelV2"}
  OBVIOUS
<1>2. DeployTimelocks = FlattenSeq([i \in DOMAIN s |-> << Deploy(N(s[i]), {}) >>])
  BY DEF DeployTimelocks, ForEach
<1> HIDE DEF s, S
<1> QED BY <1>1, <1>2, DeployEachInOrder

LEMMA VaultsInOrder ==
  ASSUME NEW given
  PROVE  InOrder(network, DeployVaults, given)
<1> DEFINE s == <<"ECLVaultProxy_Implementation", "ECLVaultProxy", "ECLStore">>
           S == {"ECLVaultProxy_Implementation", "ECLVaultProxy", "ECLStore"}
<1>1. s \in Seq(S) /\ \A c \in S : c \notin {"VToken", "JumpRateModelV2"}
  OBVIOUS
<1>2. DeployVaults = FlattenSeq([i \in DOMAIN s |-> << Deploy(N(s[i]), {}) >>])
  BY DEF DeployVaults, ForEach
<1> HIDE DEF s, S
<1> QED BY <1>1, <1>2, DeployEachInOrder

LEMMA InOrderTwo ==
  ASSUME NEW net, NEW a, NEW b, NEW given, Harmless(net, a), Sound(net, b), Needed(b) \subseteq {Brought(a)}
  PROVE  InOrder(net, << a, b >>, given)
<1> DEFINE s == << a, b >>
           S == {a, b}
<1>1. s \in Seq(S) /\ Len(s) = 2 /\ s[1] = a /\ s[2] = b
  OBVIOUS
<1> HIDE DEF S, s
<1>2. s \in Seq(Range(s))
  BY <1>1, SeqOverRange
<1>3. ASSUME NEW j \in 1 .. Len(s)
      PROVE  Sound(net, s[j]) /\ \A x \in Needed(s[j]) : x \in given \/ \E i \in 1 .. j - 1 : x = Brought(s[i])
  <2>1. CASE j = 1
    BY <1>1, <2>1 DEF Harmless
  <2>2. CASE j = 2
    <3>1. 1 \in 1 .. j - 1 /\ \A x \in Needed(s[j]) : x = Brought(s[1])
      BY <1>1, <2>2
    <3> QED BY <1>1, <2>2, <3>1
  <2> QED BY <1>1, <2>1, <2>2
<1>4. InOrder(net, s, given)
  BY <1>2, <1>3 DEF InOrder
<1> QED BY <1>4 DEF s

LEMMA InOrderHarmlessTwo ==
  ASSUME NEW net, NEW a, NEW b, NEW given, Harmless(net, a), Harmless(net, b)
  PROVE  InOrder(net, << a, b >>, given)
BY InOrderTwo DEF Harmless

LEMMA GovernorInOrder ==
  ASSUME NEW given
  PROVE  InOrder(network, DeployGovernor, given)
<1>1. Harmless(network, Requiring({N("ECLVaultProxy")})) /\ Harmless(network, Deploy(N("GovernorBravo"), {}))
  BY HarmlessDeploy, HarmlessRead DEF N
<1> QED BY <1>1, InOrderHarmlessTwo DEF DeployGovernor

LEMMA TreasuryInOrder ==
  ASSUME NEW given
  PROVE  InOrder(network, DeployTreasury, given)
<1>1. Harmless(network, Deploy(N("VTreasuryV8"), {}))
  BY HarmlessDeploy DEF N
<1>2. Harmless(network, HandOverTo(N("VTreasuryV8"), TreasuryAdmin(network), "if different", TRUE, {}))
  <2>1. N("VTreasuryV8")[1] = "VTreasuryV8"
    BY DEF N
  <2> QED BY <2>1, HarmlessHandOver DEF ReadyNames
<1> QED BY <1>1, <1>2, InOrderHarmlessTwo DEF DeployTreasury

(* Facts that the first transactions set are there for the ones that follow. *)
LEMMA InOrderAfter ==
  ASSUME NEW net, NEW a, NEW b, NEW given, NEW need, InOrder(net, a, given), InOrder(net, b, need),
         \A f \in need : \E i \in 1 .. Len(a) : f = Brought(a[i])
  PROVE  InOrder(net, a \o b, given)
BY InOrderConcat

(* The vault has its implementation, store, permissions and time before it is offered. *)
LEMMA ConfigureVaultsInOrder ==
  ASSUME NEW given
  PROVE  InOrder(network, ConfigureVaults, given)
<1> DEFINE r == Requiring({N("AccessControlManager"), N("ECL"), VaultProxy, VaultStore, N("ECLVaultProxy_Implementation")})
           p1 == Set(VaultFact("pendingImplementation"), Owner(VaultProxy), FALSE, {})
           p2 == Set(VaultFact("implementation"), [Owner(VaultProxy) EXCEPT !.permissions = {VaultFact("pendingImplementation")}], FALSE, {})
           a1 == Set(VaultFact("timeManager"), Owner(VaultProxy), TRUE, {})
           a2 == Set(VaultFact("eclStore"), Owner(VaultProxy), TRUE, {})
           a3 == Set(VaultFact("accessControl"), Owner(VaultProxy), FALSE, {})
           a4 == Set(Fact("owner", VaultStore, ""), Owner(VaultStore), FALSE, {})
           o1 == HandOverTo(VaultProxy, "multisig", "always", TRUE, {})
           o2 == HandOverTo(VaultStore, "multisig", "always", TRUE, {})
           g == Give(VaultProxy)
           q == Set(VaultFact("pool"),
                    Having({Permission(VaultProxy), VaultFact("eclStore"), VaultFact("accessControl"), Fact("owner", VaultStore, "")}),
                    TRUE, {})
           first == << r, p1, p2 >>
           settings == << a1, a2, a3, a4 >>
           offers == << o1 >> \o << o2, g, q >>
           more == {TheFact(f) : f \in ReadyFacts(VaultProxy)}
<1>1. ConfigureVaults = first \o (IF network = "sonic" THEN << Throw >> ELSE << a1, a2, a3, a4, o1, o2, g, q >>)
  BY DEF ConfigureVaults
<1>2. ReadyFacts(VaultProxy) =
        {VaultFact("timeManager"), VaultFact("eclStore"), VaultFact("accessControl"), Fact("owner", VaultStore, "")}
  <2>1. VaultProxy # N("Shortfall")
    BY DEF VaultProxy, N
  <2> QED BY <2>1 DEF ReadyFacts
<1>3. /\ Brought(a1) = TheFact(VaultFact("timeManager")) /\ Brought(a2) = TheFact(VaultFact("eclStore"))
      /\ Brought(a3) = TheFact(VaultFact("accessControl")) /\ Brought(a4) = TheFact(Fact("owner", VaultStore, ""))
  BY DEF Brought, Set
<1>4. Harmless(network, r) /\ Harmless(network, g)
  BY HarmlessRead, HarmlessGive
<1>5. Harmless(network, p1) /\ Harmless(network, p2) /\ Harmless(network, q)
  BY HarmlessFact DEF VaultFact
<1>6. Harmless(network, a1) /\ Harmless(network, a2) /\ Harmless(network, a3) /\ Harmless(network, a4)
  BY HarmlessFact DEF VaultFact
<1>7. Harmless(network, o2)
  <2>1. VaultStore[1] = "ECLStore"
    BY DEF VaultStore, N
  <2> QED BY <2>1, HarmlessHandOver DEF ReadyNames
<1>8. Sound(network, o1) /\ Needed(o1) = more
  BY DEF Sound, Needed, HandOverTo
<1> HIDE DEF r, p1, p2, a1, a2, a3, a4, o1, o2, g, q
<1>9. InOrder(network, << o1 >>, more)
  BY <1>8, InOrderOne
<1>10. InOrder(network, << o2, g, q >>, more)
  <2> DEFINE S == {o2, g, q}
  <2>1. \A tx \in S : Harmless(network, tx)
    BY <1>4, <1>5, <1>7
  <2>2. << o2, g, q >> \in Seq(S)
    OBVIOUS
  <2> HIDE DEF S
  <2> QED BY <2>1, <2>2, InOrderHarmless
<1>11. InOrder(network, settings, given)
  <2> DEFINE S == {a1, a2, a3, a4}
  <2>1. \A tx \in S : Harmless(network, tx)
    BY <1>6
  <2>2. settings \in Seq(S)
    OBVIOUS
  <2> HIDE DEF S, settings
  <2> QED BY <2>1, <2>2, InOrderHarmless
<1>12. InOrder(network, first, given)
  <2> DEFINE S == {r, p1, p2}
  <2>1. \A tx \in S : Harmless(network, tx)
    BY <1>4, <1>5
  <2>2. first \in Seq(S)
    OBVIOUS
  <2> HIDE DEF S, first
  <2> QED BY <2>1, <2>2, InOrderHarmless
<1>13. Len(settings) = 4 /\ settings[1] = a1 /\ settings[2] = a2 /\ settings[3] = a3 /\ settings[4] = a4
  OBVIOUS
<1>14. << a1, a2, a3, a4, o1, o2, g, q >> = settings \o offers
  OBVIOUS
<1> HIDE DEF settings
<1>15. \A f \in more : \E i \in 1 .. Len(settings) : f = Brought(settings[i])
  <2>1. more = {Brought(a1), Brought(a2), Brought(a3), Brought(a4)}
    BY <1>2, <1>3
  <2>2. 1 .. Len(settings) = {1, 2, 3, 4}
    BY <1>13
  <2>3. more = {Brought(settings[1]), Brought(settings[2]), Brought(settings[3]), Brought(settings[4])}
    BY <1>13, <2>1
  <2> HIDE DEF more
  <2> QED BY <2>2, <2>3
<1> HIDE DEF more
<1>16. InOrder(network, offers, more)
  BY <1>9, <1>10, InOrderBoth
<1> HIDE DEF offers, first
<1>17. InOrder(network, << a1, a2, a3, a4, o1, o2, g, q >>, given)
  BY <1>11, <1>14, <1>15, <1>16, InOrderAfter
<1>18. InOrder(network, << Throw >>, given)
  BY HarmlessRead, InOrderHarmlessOne
<1>19. InOrder(network, first \o << a1, a2, a3, a4, o1, o2, g, q >>, given) /\ InOrder(network, first \o << Throw >>, given)
  BY <1>12, <1>17, <1>18, InOrderBoth
<1> QED BY <1>1, <1>19

-----------------------------------------------------------------------------
(* The scripts of the oracles *)

(* The deployer gives himself the permission on an oracle before it is offered. *)
LEMMA OraclesInOrder ==
  ASSUME NEW given
  PROVE  InOrder(network, DeployOracles, given)
<1> DEFINE c1 == Deploy(N("BoundValidator"), {N("AccessControlManager")})
           c2 == Deploy(ResilientOracle, {})
           c3 == Deploy(ChainlinkName, {})
           g1 == Give(ChainlinkName)
           g2 == Give(ResilientOracle)
           first == << c1, c2, c3, g1, g2 >>
           oracles == << ResilientOracle, ChainlinkName, N("BoundValidator") >>
           seqs == [i \in DOMAIN oracles |-> << HandOverTo(oracles[i], OracleTimelock, "if owned", TRUE, {}) >>]
           more == {TheFact(Permission(ResilientOracle)), TheFact(Permission(ChainlinkName))}
<1>1. DeployOracles = first \o FlattenSeq(seqs)
  BY DEF DeployOracles, ForEach
<1>2. ChainlinkName[1] \in {"SequencerChainlinkOracle", "ChainlinkOracle"} /\ ResilientOracle[1] = "ResilientOracle"
  BY DEF ChainlinkName, ResilientOracle, N
<1>3. Harmless(network, c1) /\ Harmless(network, c2) /\ Harmless(network, c3)
  <2>1. N("BoundValidator")[1] = "BoundValidator"
    BY DEF N
  <2> QED BY <1>2, <2>1, HarmlessDeploy
<1>4. Harmless(network, g1) /\ Harmless(network, g2)
  BY HarmlessGive
<1>5. Brought(g1) = TheFact(Permission(ChainlinkName)) /\ Brought(g2) = TheFact(Permission(ResilientOracle))
  BY DEF Brought, Give, Set
<1>6. DOMAIN oracles = 1 .. 3 /\ \A i \in 1 .. 3 : oracles[i] \in {ResilientOracle, ChainlinkName, N("BoundValidator")}
  OBVIOUS
<1> HIDE DEF oracles
<1>7. seqs = [i \in 1 .. 3 |-> seqs[i]] /\ \A i \in 1 .. 3 : seqs[i] = << HandOverTo(oracles[i], OracleTimelock, "if owned", TRUE, {}) >>
  BY <1>6
<1> HIDE DEF c1, c2, c3, g1, g2, seqs
<1>8. InOrder(network, first, given)
  <2> DEFINE S == {c1, c2, c3, g1, g2}
  <2>1. \A tx \in S : Harmless(network, tx)
    BY <1>3, <1>4
  <2>2. first \in Seq(S)
    OBVIOUS
  <2> HIDE DEF S, first
  <2> QED BY <2>1, <2>2, InOrderHarmless
<1>9. Len(first) = 5 /\ first[4] = g1 /\ first[5] = g2
  OBVIOUS
<1> HIDE DEF first
<1>10. \A f \in more : \E i \in 1 .. Len(first) : f = Brought(first[i])
  <2>1. 4 \in 1 .. Len(first) /\ 5 \in 1 .. Len(first)
    BY <1>9
  <2>2. more = {Brought(first[4]), Brought(first[5])}
    BY <1>5, <1>9
  <2> HIDE DEF more
  <2> QED BY <2>1, <2>2
<1>11. ASSUME NEW i \in 1 .. 3 PROVE InOrder(network, seqs[i], more)
  <2> DEFINE o == oracles[i]
             tx == HandOverTo(o, OracleTimelock, "if owned", TRUE, {})
  <2>1. {TheFact(f) : f \in ReadyFacts(o)} \subseteq more
    <3>1. CASE o = N("BoundValidator")
      <4>1. o[1] = "BoundValidator"
        BY <3>1 DEF N
      <4> QED BY <4>1, OnlyReadyNames DEF ReadyNames
    <3>2. CASE o \in {ResilientOracle, ChainlinkName}
      <4>1. N("Shortfall")[1] = "Shortfall" /\ VaultProxy[1] = "ECLVaultProxy"
        BY DEF N, VaultProxy
      <4>2. o # N("Shortfall") /\ o # VaultProxy
        BY <1>2, <3>2, <4>1
      <4>3. ReadyFacts(o) \subseteq {Permission(o)}
        BY <4>2 DEF ReadyFacts
      <4> QED BY <3>2, <4>3
    <3> QED BY <1>6, <3>1, <3>2
  <2>2. Needed(tx) = {TheFact(f) : f \in ReadyFacts(o)} /\ Sound(network, tx)
    BY DEF Needed, Sound, HandOverTo
  <2>3. seqs[i] = << tx >>
    BY <1>7
  <2> HIDE DEF tx, more
  <2> QED BY <2>1, <2>2, <2>3, InOrderOne
<1> HIDE DEF more
<1>12. InOrder(network, FlattenSeq(seqs), more)
  BY <1>7, <1>11, InOrderFlat
<1> QED BY <1>1, <1>8, <1>10, <1>12, InOrderAfter

LEMMA FeedOracleInOrder ==
  ASSUME NEW name, NEW needs, NEW given, name \notin {"VToken", "JumpRateModelV2"}
  PROVE  InOrder(network, DeployFeedOracle(name, needs), given)
<1>1. N(name)[1] = name
  BY DEF N
<1>2. Harmless(network, Deploy(N(name), needs)) /\ Harmless(network, Give(N(name)))
  BY <1>1, HarmlessDeploy, HarmlessGive
<1> QED BY <1>2, InOrderHarmlessTwo DEF DeployFeedOracle

LEMMA OtherOraclesInOrder ==
  ASSUME NEW given
  PROVE  /\ InOrder(network, DeployOneJumpOracle, given)
         /\ InOrder(network, DeployPendleOracle, given)
         /\ InOrder(network, DeployRedStoneOracle, given)
         /\ InOrder(network, DeployTwapOracle, given)
         /\ InOrder(network, DeploySpectraOracle, given)
         /\ InOrder(network, DeployWOSOracle, given)
         /\ InOrder(network, UpdateResilientOracle, given)
<1>1. InOrder(network, DeployOneJumpOracle, given) /\ InOrder(network, DeployPendleOracle, given)
  BY FeedOracleInOrder DEF DeployOneJumpOracle, DeployPendleOracle
<1>2. InOrder(network, << Throw >>, given) /\ InOrder(network, << >>, given)
  BY HarmlessRead, InOrderHarmlessOne, InOrderNone
<1>3. InOrder(network, DeployRedStoneOracle, given)
  <2>1. Harmless(network, Deploy(N("RedStoneOracle"), {}))
    BY HarmlessDeploy DEF N
  <2> QED BY <2>1, InOrderHarmlessOne DEF DeployRedStoneOracle
<1>4. InOrder(network, DeployTwapOracle, given)
  <2>1. InOrder(network, DeployFeedOracle("TwapOracle", {}), given)
    BY FeedOracleInOrder
  <2> QED BY <1>2, <2>1 DEF DeployTwapOracle
<1>5. InOrder(network, DeploySpectraOracle, given)
  <2>1. Harmless(network, Deploy(N("SpectrawstscUSDJune3025Oracle"), {ResilientOracle, N("ChainlinkOracle")}))
    BY HarmlessDeploy DEF N
  <2>2. InOrder(network, << Deploy(N("SpectrawstscUSDJune3025Oracle"), {ResilientOracle, N("ChainlinkOracle")}) >>, given)
    BY <2>1, InOrderHarmlessOne
  <2> QED BY <1>2, <2>2 DEF DeploySpectraOracle
<1>6. InOrder(network, DeployWOSOracle, given)
  <2>1. Harmless(network, Deploy(N("WOSOracle"), {ResilientOracle, N("ChainlinkOracle")}))
    BY HarmlessDeploy DEF N
  <2>2. InOrder(network, << Deploy(N("WOSOracle"), {ResilientOracle, N("ChainlinkOracle")}) >>, given)
    BY <2>1, InOrderHarmlessOne
  <2> QED BY <1>2, <2>2 DEF DeployWOSOracle
<1>7. InOrder(network, UpdateResilientOracle, given)
  <2>1. Harmless(network, Deploy(ResilientOracle, {N("BoundValidator")}))
    BY HarmlessDeploy DEF N, ResilientOracle
  <2> QED BY <2>1, InOrderHarmlessOne DEF UpdateResilientOracle
<1> QED BY <1>1, <1>3, <1>4, <1>5, <1>6, <1>7

LEMMA PythInOrder ==
  ASSUME NEW given
  PROVE  InOrder(network, DeployPythOracle, given)
<1> DEFINE s == << Deploy(N("PythOracle"), {}), HandOverTo(N("PythOracle"), OracleTimelock, "if owned", TRUE, {}) >>
<1>1. N("PythOracle")[1] = "PythOracle"
  BY DEF N
<1>2. /\ Harmless(network, Deploy(N("PythOracle"), {}))
      /\ Harmless(network, HandOverTo(N("PythOracle"), OracleTimelock, "if owned", TRUE, {}))
  BY <1>1, HarmlessDeploy, HarmlessHandOver DEF ReadyNames
<1>3. InOrder(network, s, given)
  BY <1>2, InOrderHarmlessTwo
<1>4. DeployPythOracle = << >> \/ DeployPythOracle = s
  BY DEF DeployPythOracle
<1> QED BY <1>3, <1>4, InOrderNone

LEMMA V3TwapInOrder ==
  ASSUME NEW given
  PROVE  InOrder(network, DeployV3TwapOracle, given)
<1> DEFINE offer == HandOverTo(N("UniswapV3Oracle"), Timelock, "if owned", TRUE, {})
           first == DeployFeedOracle("UniswapV3Oracle", {ResilientOracle})
<1>1. N("UniswapV3Oracle")[1] = "UniswapV3Oracle"
  BY DEF N
<1>2. InOrder(network, << offer >>, given)
  BY <1>1, HarmlessHandOver, InOrderHarmlessOne DEF ReadyNames
<1>3. InOrder(network, first, given)
  BY FeedOracleInOrder
<1>4. DeployV3TwapOracle = << Throw >> \/ DeployV3TwapOracle = first \o << offer >>
  BY DEF DeployV3TwapOracle
<1> HIDE DEF offer, first
<1>5. InOrder(network, first \o << offer >>, given) /\ InOrder(network, << Throw >>, given)
  BY <1>2, <1>3, InOrderBoth, HarmlessRead, InOrderHarmlessOne
<1> QED BY <1>4, <1>5

LEMMA OneJumpChainlinkInOrder ==
  ASSUME NEW given
  PROVE  InOrder(network, DeployOneJumpChainlinkOracles, given)
<1> DEFINE r == Requiring({ResilientOracle, N("SequencerChainlinkOracle")})
           c1 == Deploy(N("wstETHOneJumpChainlinkOracle"), {})
           c2 == Deploy(N("weETHOneJumpChainlinkOracle"), {})
           S == {r, c1, c2}
           s == << r, c1, c2 >>
<1>1. DeployOneJumpChainlinkOracles = << >> \/ DeployOneJumpChainlinkOracles = s
  BY DEF DeployOneJumpChainlinkOracles
<1>2. Harmless(network, r) /\ Harmless(network, c1) /\ Harmless(network, c2)
  BY HarmlessRead, HarmlessDeploy DEF N
<1> HIDE DEF r, c1, c2
<1>3. s \in Seq(S) /\ \A tx \in S : Harmless(network, tx)
  BY <1>2
<1> HIDE DEF s, S
<1>4. InOrder(network, s, given)
  BY <1>3, InOrderHarmless
<1> QED BY <1>1, <1>4, InOrderNone

LEMMA FeedOraclesNamed ==
  FeedOracles = {N("ChainlinkOracle"), N("OneJumpOracleV2"), N("PendlePtOracle"), N("TwapOracle"), N("UniswapV3Oracle"), N("PythOracle")}
<1>1. /\ OracleContract("chainlink") = "ChainlinkOracle" /\ OracleContract("onejumpchainlink") = "OneJumpOracleV2"
      /\ OracleContract("pendle") = "PendlePtOracle" /\ OracleContract("univ2twap") = "TwapOracle"
      /\ OracleContract("univ3twap") = "UniswapV3Oracle" /\ OracleContract("pyth") = "PythOracle"
  BY DEF OracleContract
<1> QED BY <1>1 DEF FeedOracles

LEMMA PointAtFields ==
  ASSUME NEW oracle, NEW asset
  PROVE  /\ PointAt(oracle, asset).do = "set"
         /\ PointAt(oracle, asset).fact = MainOracle(oracle, asset)
         /\ Sound(network, PointAt(oracle, asset))
         /\ Needed(PointAt(oracle, asset)) = IF oracle \in FeedOracles THEN {TheFact(Feed(oracle, asset))} ELSE {}
<1>1. PointAt(oracle, asset).do = "set" /\ PointAt(oracle, asset).fact = MainOracle(oracle, asset)
  BY DEF PointAt, Set
<1>2. MainOracle(oracle, asset)[1] = "main oracle" /\ MainOracle(oracle, asset)[2] = oracle /\ MainOracle(oracle, asset)[3] = asset
  BY DEF MainOracle, Fact
<1> QED BY <1>1, <1>2 DEF Sound, Needed

(* The oracles of these two assets price them without a feed of their own. *)
LEMMA OwnPriceInOrder ==
  ASSUME NEW given
  PROVE  InOrder(network, ConfigureSpectraFeed, given) /\ InOrder(network, ConfigureWOSFeed, given)
<1>1. N("SpectrawstscUSDJune3025Oracle") \notin FeedOracles /\ N("WOSOracle") \notin FeedOracles
  BY FeedOraclesNamed DEF N
<1>2. /\ Harmless(network, PointAt(N("SpectrawstscUSDJune3025Oracle"), "PTscUSD"))
      /\ Harmless(network, PointAt(N("WOSOracle"), "wOS"))
  BY <1>1, PointAtFields DEF Harmless
<1> QED BY <1>2, InOrderHarmlessOne DEF ConfigureSpectraFeed, ConfigureWOSFeed

(* The feed comes before the oracle that needs it is named. *)
LEMMA FeedCommandsInOrder ==
  ASSUME NEW asset, NEW oracle, NEW given
  PROVE  InOrder(network, PriceFeedCommands(asset, oracle), given)
<1> DEFINE feed == Set(Feed(oracle, asset), Having({Permission(oracle)}), FALSE, {})
           point == PointAt(oracle, asset)
<1>1. PriceFeedCommands(asset, oracle) = << feed, point >>
  BY DEF PriceFeedCommands
<1>2. Brought(feed) = TheFact(Feed(oracle, asset))
  BY DEF Brought, Set
<1>3. Harmless(network, feed)
  BY HarmlessFact DEF Feed
<1>4. Sound(network, point) /\ Needed(point) \subseteq {TheFact(Feed(oracle, asset))}
  BY PointAtFields
<1> HIDE DEF feed, point
<1> QED BY <1>1, <1>2, <1>3, <1>4, InOrderTwo

LEMMA AssetsListed ==
  ASSUME network \in Networks
  PROVE  \E n \in Nat : DOMAIN Assets(network) = 1 .. n
<1> DEFINE s == Assets(network)
<1>1. CASE network = "sonic"
  <2>1. Len(s) = 1 /\ DOMAIN s = 1 .. 1
    BY <1>1 DEF Assets
  <2> QED BY <2>1
<1>2. CASE network # "sonic"
  <2>1. DOMAIN s = 1 .. 9
    BY <1>2 DEF Assets
  <2> QED BY <2>1
<1> QED BY <1>1, <1>2

LEMMA PriceFeedsInOrder ==
  ASSUME network \in Networks, NEW given
  PROVE  InOrder(network, ConfigurePriceFeeds, given)
<1> DEFINE s == Assets(network)
           needs == {ResilientOracle} \cup {N(OracleContract(s[i][2])) : i \in DOMAIN s}
           seqs == [i \in DOMAIN s |-> PriceFeedCommands(s[i][1], N(OracleContract(s[i][2])))]
<1>1. ConfigurePriceFeeds = << Requiring(needs) >> \o FlattenSeq(seqs)
  BY DEF ConfigurePriceFeeds, ForEach
<1>2. PICK n \in Nat : DOMAIN s = 1 .. n
  BY AssetsListed
<1> HIDE DEF s, needs
<1>3. /\ seqs = [i \in 1 .. n |-> seqs[i]]
      /\ \A i \in 1 .. n : seqs[i] = PriceFeedCommands(s[i][1], N(OracleContract(s[i][2])))
  BY <1>2
<1> HIDE DEF seqs
<1>4. \A i \in 1 .. n : InOrder(network, seqs[i], given)
  BY <1>3, FeedCommandsInOrder
<1>5. InOrder(network, FlattenSeq(seqs), given)
  BY <1>3, <1>4, InOrderFlat
<1>6. InOrder(network, << Requiring(needs) >>, given)
  BY HarmlessRead, InOrderHarmlessOne
<1> QED BY <1>1, <1>5, <1>6, InOrderBoth

-----------------------------------------------------------------------------
(* Whatever tag is run, its script sends nothing before what it needs. *)
LEMMA StepsInOrder ==
  ASSUME network \in Networks, NEW tag, NEW timeBased
  PROVE  InOrder(network, StepsOf(tag, timeBased), {})
<1> DEFINE Scripts ==
  {DeployPoolRegistry, DeployPoolLens, DeployComptrollers, DeployVTokens(timeBased), DeployIRModels,
   DeployRewardsDistributors, DeployImplementations(timeBased), SendInitialLiquidityToTreasury,
   TransferPoolsOwnership, ConfigureByVIP, DeployProtocolShareReserve, DeployShortfall, UpdatePoolRegistry,
   DeployNativeTokenGateways, DeploySwapRouter, DeployAccessControl, DeployTimelocks, DeployGovernor,
   DeployTreasury, DeployECL, DeployVaults, ConfigureVaults, DeployOracles, DeployOneJumpOracle,
   DeployPendleOracle, DeployRedStoneOracle, DeployPythOracle, DeployTwapOracle, DeployV3TwapOracle,
   DeploySpectraOracle, DeployWOSOracle, DeployOneJumpChainlinkOracles, UpdateResilientOracle,
   ConfigureSpectraFeed, ConfigureWOSFeed, ConfigurePriceFeeds, << >>}
<1>1. StepsOf(tag, timeBased) \in Scripts
  BY DEF StepsOf
<1>2. \A s \in Scripts : InOrder(network, s, {})
  BY PoolRegistryInOrder, PoolLensInOrder, ComptrollersInOrder, VTokensInOrder, IRModelsInOrder, RewardsInOrder,
     ImplementationsInOrder, LiquidityInOrder, TransferOwnershipInOrder, VIPInOrder, ReserveInOrder,
     ShortfallInOrder, RegistryUpdateInOrder, GatewaysInOrder, SwapRouterInOrder, AccessControlInOrder,
     TimelocksInOrder, GovernorInOrder, TreasuryInOrder, ECLInOrder, VaultsInOrder, ConfigureVaultsInOrder,
     OraclesInOrder, OtherOraclesInOrder, PythInOrder, V3TwapInOrder, OneJumpChainlinkInOrder,
     OwnPriceInOrder, PriceFeedsInOrder, InOrderNone
<1> HIDE DEF Scripts
<1> QED BY <1>1, <1>2

-----------------------------------------------------------------------------
(* The inductive invariant *)

SessionTyped ==
  /\ session = [script |-> session.script, todo |-> session.todo, timeBased |-> session.timeBased]
  /\ session.timeBased \in BOOLEAN

IsContract(r) ==
  /\ r = [owner |-> r.owner, pending |-> r.pending, timeBased |-> r.timeBased, rates |-> r.rates, model |-> r.model]
  /\ r.timeBased \in {<< >>, <<TRUE>>}

ContractsTyped ==
  /\ contracts = [c \in DOMAIN contracts |-> contracts[c]]
  /\ \A c \in DOMAIN contracts : IsContract(contracts[c])

MarketsAsConfigured ==
  \A m \in Markets :
    /\ Deployed(RateModelName(m.model)) => contracts[RateModelName(m.model)].rates = Rates(m.model)
    /\ Deployed(VToken(m)) => contracts[VToken(m)].model = RateModelName(m.model) /\ Deployed(RateModelName(m.model))

OnOfferReady == \A c \in DOMAIN contracts : HandedOver(c) => ReadyFacts(c) \subseteq facts

FeedsBehind == \A f \in facts : f[1] = "main oracle" /\ f[2] \in FeedOracles => Feed(f[2], f[3]) \in facts

Fulfilled == network \in Networks /\ ContractsTyped /\ MarketsAsConfigured /\ OnOfferReady /\ FeedsBehind

\* What is in force is as it should be, and what the running script has yet to
\* send finds what it relies on, if not in force then sent before it.
IInv == SessionTyped /\ Fulfilled /\ InOrder(network, session.todo, InForce)

LEMMA FactInForce == \A f : TheFact(f) \in InForce => f \in facts
BY DEF InForce, TheFact, TheContract

LEMMA ContractInForce == \A c : TheContract(c) \in InForce => c \in DOMAIN contracts
BY DEF InForce, TheFact, TheContract

(* The next transaction is sound and finds what it needs. *)
LEMMA HeadInOrder ==
  ASSUME IInv, session.todo # << >>
  PROVE  Sound(network, Next1) /\ Needed(Next1) \subseteq InForce
<1> DEFINE s == session.todo
<1>1. InOrder(network, s, InForce) /\ s # << >>
  BY DEF IInv
<1> HIDE DEF s
<1>2. s \in Seq(Range(s)) /\ Len(s) \in Nat /\ Len(s) # 0
  BY <1>1 DEF InOrder
<1>3. 1 \in 1 .. Len(s) /\ Head(s) = s[1]
  BY <1>2
<1>4. Sound(network, s[1]) /\ \A x \in Needed(s[1]) : x \in InForce
  BY <1>1, <1>3 DEF InOrder
<1> QED BY <1>3, <1>4 DEF Next1, s

LEMMA ThingsNeeded ==
  ASSUME NEW tx, NEW x \in Needed(tx)
  PROVE  x # <<"nothing", << >> >>
<1>1. \A f : TheFact(f)[1] = "fact" /\ TheContract(f)[1] = "contract"
  BY DEF TheFact, TheContract
<1>2. (\E f : x = TheFact(f)) \/ (\E c : x = TheContract(c))
  BY DEF Needed
<1> QED BY <1>1, <1>2

LEMMA InOrderTail ==
  ASSUME NEW net, NEW s, NEW given, NEW more, InOrder(net, s, given), s # << >>, given \subseteq more,
         Brought(Head(s)) \in more \/ Brought(Head(s)) = <<"nothing", << >> >>
  PROVE  InOrder(net, Tail(s), more)
<1> DEFINE t == Tail(s)
<1>1. s \in Seq(Range(s)) /\ Len(s) \in Nat /\ Len(s) # 0
  BY DEF InOrder
<1>2. Head(s) = s[1] /\ t \in Seq(Range(s)) /\ Len(t) = Len(s) - 1 /\ \A j \in 1 .. Len(t) : t[j] = s[j + 1]
  BY <1>1
<1> HIDE DEF t
<1>3. t \in Seq(Range(t))
  BY <1>2, SeqOverRange
<1>4. ASSUME NEW j \in 1 .. Len(t)
      PROVE  Sound(net, t[j]) /\ \A x \in Needed(t[j]) : x \in more \/ \E i \in 1 .. j - 1 : x = Brought(t[i])
  <2>1. j + 1 \in 1 .. Len(s) /\ t[j] = s[j + 1]
    BY <1>1, <1>2
  <2>2. Sound(net, s[j + 1]) /\ \A x \in Needed(s[j + 1]) : x \in given \/ \E i \in 1 .. (j + 1) - 1 : x = Brought(s[i])
    BY <2>1 DEF InOrder
  <2>3. ASSUME NEW x \in Needed(t[j]), x \notin given PROVE x \in more \/ \E i \in 1 .. j - 1 : x = Brought(t[i])
    <3>1. PICK i \in 1 .. (j + 1) - 1 : x = Brought(s[i])
      BY <2>1, <2>2, <2>3
    <3>2. CASE i = 1
      <4>1. x # <<"nothing", << >> >>
        BY ThingsNeeded
      <4> QED BY <1>2, <3>1, <3>2, <4>1
    <3>3. CASE i # 1
      <4>1. i - 1 \in 1 .. j - 1 /\ i - 1 \in 1 .. Len(t) /\ (i - 1) + 1 = i
        BY <1>1, <1>2, <3>3
      <4>2. t[i - 1] = s[i]
        BY <1>2, <4>1
      <4> QED BY <3>1, <4>1, <4>2
    <3> QED BY <3>2, <3>3
  <2> QED BY <2>1, <2>2, <2>3
<1>5. InOrder(net, t, more)
  BY <1>3, <1>4 DEF InOrder
<1> QED BY <1>5 DEF t

(* A transaction that takes effect leaves the rest of the script in order. *)
LEMMA SentInOrder ==
  ASSUME IInv, session.todo # << >>, Sent, facts \subseteq facts', DOMAIN contracts \subseteq DOMAIN contracts',
         Next1.do = "deploy" => Next1.name \in DOMAIN contracts', Next1.do = "set" => Next1.fact \in facts'
  PROVE  SessionTyped' /\ InOrder(network, session.todo, InForce)'
<1>1. /\ session'.todo = Tail(session.todo) /\ session'.timeBased = session.timeBased
      /\ session' = [script |-> session.script, todo |-> Tail(session.todo), timeBased |-> session.timeBased]
  BY DEF IInv, SessionTyped, Sent
<1>2. InForce \subseteq InForce'
  BY DEF InForce
<1>3. Brought(Next1) \in InForce' \/ Brought(Next1) = <<"nothing", << >> >>
  <2>1. CASE Next1.do = "deploy"
    BY <2>1 DEF Brought, InForce
  <2>2. CASE Next1.do = "set"
    BY <2>2 DEF Brought, InForce
  <2>3. CASE Next1.do \notin {"deploy", "set"}
    BY <2>3 DEF Brought
  <2> QED BY <2>1, <2>2, <2>3
<1>4. InOrder(network, Tail(session.todo), InForce')
  BY <1>2, <1>3, InOrderTail DEF IInv, Next1
<1>5. network' = network
  BY DEF Sent
<1>6. InOrder(network', session'.todo, InForce')
  BY <1>1, <1>4, <1>5
<1>7. SessionTyped'
  BY <1>1 DEF IInv, SessionTyped
<1> QED BY <1>6, <1>7

LEMMA FulfilledSame ==
  ASSUME Fulfilled, UNCHANGED <<network, contracts, facts>>
  PROVE  Fulfilled'
BY DEF Fulfilled, ContractsTyped, MarketsAsConfigured, OnOfferReady, FeedsBehind, Markets, Deployed, HandedOver

LEMMA InitIInv == Init => IInv
<1> SUFFICES ASSUME Init PROVE IInv
  OBVIOUS
<1>1. SessionTyped /\ session.todo = << >>
  BY DEF Init, SessionTyped, Idle
<1>2. DOMAIN contracts = External /\ ContractsTyped
  BY DEF Init, ContractsTyped, IsContract
<1>3. MarketsAsConfigured
  BY <1>2, ExternalAssumption DEF Init, MarketsAsConfigured, Markets, Deployed
<1>4. OnOfferReady /\ FeedsBehind
  BY <1>2 DEF Init, OnOfferReady, FeedsBehind, HandedOver
<1>5. InOrder(network, session.todo, InForce)
  BY <1>1, InOrderNone
<1> QED BY <1>1, <1>2, <1>3, <1>4, <1>5 DEF IInv, Fulfilled, Init

LEMMA BeginIInv ==
  ASSUME IInv, NEW i \in DOMAIN runbook, Begin(i)
  PROVE  IInv'
<1>1. PICK timeBased \in BOOLEAN :
        LET todo == Only(StepsOf(runbook[i], timeBased), LAMBDA tx : ~ InPlace(tx)) IN
        session' = [script |-> i, todo |-> todo,
                    timeBased |-> timeBased /\ \E j \in DOMAIN todo : TimeManaged(todo[j])]
  BY DEF Begin
<1> DEFINE todo == Only(StepsOf(runbook[i], timeBased), LAMBDA tx : ~ InPlace(tx))
           managed == \E j \in DOMAIN todo : TimeManaged(todo[j])
<1>2. UNCHANGED <<network, contracts, facts>>
  BY DEF Begin
<1>3. session' = [script |-> i, todo |-> todo, timeBased |-> timeBased /\ managed]
  BY <1>1
<1>4. InOrder(network, StepsOf(runbook[i], timeBased), {})
  BY StepsInOrder DEF IInv, Fulfilled
<1>5. InOrder(network, todo, InForce)
  BY <1>4, InOrderOnly
<1> HIDE DEF todo, managed
<1>6. SessionTyped' /\ session'.todo = todo
  <2>1. (timeBased /\ managed) \in BOOLEAN
    OBVIOUS
  <2> QED BY <1>3, <2>1 DEF SessionTyped
<1>7. InForce' = InForce
  BY <1>2 DEF InForce
<1>8. InOrder(network', session'.todo, InForce')
  BY <1>2, <1>5, <1>6, <1>7
<1>9. Fulfilled'
  BY <1>2, FulfilledSame DEF IInv
<1> QED BY <1>6, <1>8, <1>9 DEF IInv

(* Ending a session leaves nothing to send. *)
LEMMA EndSessionIInv ==
  ASSUME IInv, EndSession, UNCHANGED <<network, contracts, facts>>
  PROVE  IInv'
<1>1. SessionTyped' /\ session'.todo = << >>
  BY DEF EndSession, Idle, SessionTyped
<1>2. InOrder(network', session'.todo, InForce')
  BY <1>1, InOrderNone
<1> QED BY <1>1, <1>2, FulfilledSame DEF IInv

(* Transactions that touch neither contracts nor settings *)
LEMMA OtherStepIInv ==
  ASSUME IInv, SendToTreasury \/ WithdrawFromTreasury \/ ApproveRegistry \/ ListMarket \/ ReadChain
  PROVE  IInv'
<1>1. /\ session.todo # << >> /\ Sent /\ UNCHANGED <<contracts, facts>>
      /\ Next1.do # "deploy" /\ Next1.do # "set"
  BY DEF SendToTreasury, WithdrawFromTreasury, ApproveRegistry, ListMarket, ReadChain, Doing
<1>2. SessionTyped' /\ InOrder(network, session.todo, InForce)'
  BY <1>1, SentInOrder
<1>3. Fulfilled'
  BY <1>1, FulfilledSame DEF IInv, Sent
<1> QED BY <1>2, <1>3 DEF IInv

(* A contract that is new has the arguments the script gave it. *)
LEMMA DeployContractIInv ==
  ASSUME IInv, DeployContract
  PROVE  IInv'
<1> DEFINE tx == Next1
           n == Next1.name
           r == Record(Next1)
<1>1. /\ session.todo # << >> /\ Sent /\ facts' = facts /\ network' = network /\ tx.do = "deploy"
      /\ Deployed(n) \/ Constructible(tx)
      /\ contracts' = [c \in DOMAIN contracts \cup {n} |-> IF Deployed(c) THEN contracts[c] ELSE r]
  BY DEF DeployContract, Doing, Sent
<1>2. Sound(network, tx) /\ Needed(tx) \subseteq InForce
  BY <1>1, HeadInOrder
<1>3. /\ r = [owner |-> tx.arguments.owner, pending |-> Nobody, timeBased |-> r.timeBased,
              rates |-> tx.arguments.rates, model |-> tx.arguments.model]
      /\ r.timeBased = IF tx.arguments.timeManaged THEN <<session.timeBased>> ELSE << >>
  BY DEF Record
<1> HIDE DEF tx, n, r
<1>4. /\ DOMAIN contracts' = DOMAIN contracts \cup {n}
      /\ \A c \in DOMAIN contracts : contracts'[c] = contracts[c]
      /\ n \notin DOMAIN contracts => contracts'[n] = r
  BY <1>1 DEF Deployed
<1>5. Fulfilled
  BY DEF IInv
<1>6. ContractsTyped'
  <2>1. contracts' = [c \in DOMAIN contracts' |-> contracts'[c]]
    BY <1>1
  <2>2. n \notin DOMAIN contracts => IsContract(r)
    <3>1. ASSUME n \notin DOMAIN contracts, tx.arguments.timeManaged PROVE r.timeBased = <<TRUE>>
      <4>1. BlocksPerYear(network) = 0
        BY DEF BlocksPerYear
      <4>2. session.timeBased
        BY <1>1, <3>1, <4>1 DEF Constructible, Deployed
      <4>3. session.timeBased = TRUE
        BY <4>2 DEF IInv, SessionTyped
      <4> QED BY <1>3, <3>1, <4>3
    <3>2. ~ tx.arguments.timeManaged => r.timeBased = << >>
      BY <1>3
    <3>3. n \notin DOMAIN contracts => r.timeBased \in {<< >>, <<TRUE>>}
      BY <3>1, <3>2
    <3>4. r.owner = tx.arguments.owner /\ r.pending = Nobody /\ r.rates = tx.arguments.rates /\ r.model = tx.arguments.model
      BY <1>3
    <3> QED BY <1>3, <3>3, <3>4 DEF IsContract
  <2> QED BY <1>4, <1>5, <2>1, <2>2 DEF Fulfilled, ContractsTyped
<1>7. r.owner = tx.arguments.owner /\ r.pending = Nobody /\ r.rates = tx.arguments.rates /\ r.model = tx.arguments.model
  BY <1>3
<1>8. MarketsAsConfigured'
  <2>1. ASSUME NEW m \in Markets
        PROVE  /\ Deployed(RateModelName(m.model))' => contracts'[RateModelName(m.model)].rates = Rates(m.model)
               /\ Deployed(VToken(m))' => contracts'[VToken(m)].model = RateModelName(m.model) /\ Deployed(RateModelName(m.model))'
    <3> DEFINE rm == RateModelName(m.model)
               vt == VToken(m)
    <3>1. /\ rm \in DOMAIN contracts => contracts[rm].rates = Rates(m.model)
          /\ vt \in DOMAIN contracts => contracts[vt].model = rm /\ rm \in DOMAIN contracts
      BY <1>5 DEF Fulfilled, MarketsAsConfigured, Deployed
    <3>2. /\ n = vt => tx.arguments.model = rm
          /\ n = rm => tx.arguments.rates = Rates(m.model)
      BY <1>1, <1>2 DEF Sound, Markets, n, tx
    <3>3. rm # << >>
      <4>1. rm[1] = "JumpRateModelV2" /\ Len(rm) = 5
        BY DEF RateModelName
      <4> QED BY <4>1
    <3> HIDE DEF rm, vt
    <3>4. n = vt => rm \in DOMAIN contracts
      <4>1. ASSUME n = vt PROVE rm \in DOMAIN contracts
        <5>1. Needed(tx) = {TheContract(rm)}
          BY <1>1, <3>2, <3>3, <4>1 DEF Needed
        <5> QED BY <1>2, <5>1, ContractInForce
      <4> QED BY <4>1
    <3>5. rm \in DOMAIN contracts' => contracts'[rm].rates = Rates(m.model)
      BY <1>4, <1>7, <3>1, <3>2
    <3>6. vt \in DOMAIN contracts' => contracts'[vt].model = rm /\ rm \in DOMAIN contracts'
      BY <1>4, <1>7, <3>1, <3>2, <3>4
    <3> QED BY <3>5, <3>6 DEF Deployed, rm, vt
  <2>2. Markets' = Markets
    BY <1>1 DEF Markets
  <2> QED BY <2>1, <2>2 DEF MarketsAsConfigured
<1>9. OnOfferReady'
  <2>1. ASSUME NEW c \in DOMAIN contracts', HandedOver(c)' PROVE ReadyFacts(c) \subseteq facts'
    <3>1. CASE c \in DOMAIN contracts
      BY <1>1, <1>4, <1>5, <2>1, <3>1 DEF Fulfilled, OnOfferReady, HandedOver, Deployed
    <3>2. CASE c \notin DOMAIN contracts
      <4>1. c = n /\ contracts'[c] = r
        BY <1>4, <3>2
      <4>2. r.owner # Deployer
        BY <1>7, <2>1, <4>1 DEF HandedOver
      <4>3. ReadyFacts(n) = {}
        BY <1>1, <1>2, <1>7, <4>2 DEF Sound, n, tx
      <4> QED BY <4>1, <4>3
    <3> QED BY <3>1, <3>2
  <2> QED BY <2>1 DEF OnOfferReady
<1>10. FeedsBehind'
  BY <1>1, <1>5 DEF Fulfilled, FeedsBehind
<1>11. SessionTyped' /\ InOrder(network, session.todo, InForce)'
  BY <1>1, <1>4, SentInOrder DEF n, tx
<1> QED BY <1>1, <1>5, <1>6, <1>8, <1>9, <1>10, <1>11 DEF IInv, Fulfilled

(* Owners may change as long as what is then on offer is ready. *)
LEMMA OwnersChange ==
  ASSUME Fulfilled, UNCHANGED <<network, facts>>,
         contracts' = [c \in DOMAIN contracts |-> contracts'[c]],
         \A c \in DOMAIN contracts :
           /\ contracts'[c] = [contracts[c] EXCEPT !.owner = contracts'[c].owner, !.pending = contracts'[c].pending]
           /\ HandedOver(c)' => HandedOver(c) \/ ReadyFacts(c) \subseteq facts
  PROVE  Fulfilled'
<1>1. ASSUME NEW c \in DOMAIN contracts
      PROVE  /\ IsContract(contracts'[c])
             /\ contracts'[c].rates = contracts[c].rates /\ contracts'[c].model = contracts[c].model
  <2> DEFINE r == contracts[c]
             q == contracts'[c]
  <2>1. IsContract(r)
    BY DEF Fulfilled, ContractsTyped
  <2>2. q = [r EXCEPT !.owner = q.owner, !.pending = q.pending]
    OBVIOUS
  <2> HIDE DEF r, q
  <2>3. r = [owner |-> r.owner, pending |-> r.pending, timeBased |-> r.timeBased, rates |-> r.rates, model |-> r.model]
    BY <2>1 DEF IsContract
  <2>4. q = [owner |-> q.owner, pending |-> q.pending, timeBased |-> r.timeBased, rates |-> r.rates, model |-> r.model]
    BY <2>2, <2>3
  <2>5. q.rates = r.rates /\ q.model = r.model /\ q.timeBased = r.timeBased
    <3>1. "rates" \in DOMAIN r /\ "model" \in DOMAIN r /\ "timeBased" \in DOMAIN r
      BY <2>3
    <3> QED BY <2>2, <3>1
  <2>6. IsContract(q)
    BY <2>1, <2>4, <2>5 DEF IsContract
  <2> QED BY <2>5, <2>6 DEF r, q
<1>2. DOMAIN contracts' = DOMAIN contracts
  OBVIOUS
<1>3. ContractsTyped'
  BY <1>1, <1>2 DEF ContractsTyped
<1>4. MarketsAsConfigured'
  BY <1>1, <1>2 DEF Fulfilled, MarketsAsConfigured, Markets, Deployed
<1>5. OnOfferReady'
  BY <1>2 DEF Fulfilled, OnOfferReady
<1> QED BY <1>3, <1>4, <1>5 DEF Fulfilled, FeedsBehind

(* What is handed over needs no more configuration. *)
LEMMA HandOverIInv ==
  ASSUME IInv, HandOver
  PROVE  IInv'
<1> DEFINE n == Next1.name
<1>1. /\ session.todo # << >> /\ Sent /\ facts' = facts /\ network' = network /\ Next1.do = "hand over"
      /\ \/ contracts' = contracts
         \/ contracts' = [contracts EXCEPT ![n].pending = Next1.to]
         \/ contracts' = [contracts EXCEPT ![n].owner = Next1.to]
  BY DEF HandOver, Doing, Sent
<1>2. ReadyFacts(n) \subseteq facts
  <2>1. Needed(Next1) = {TheFact(f) : f \in ReadyFacts(n)}
    BY <1>1 DEF Needed
  <2>2. Needed(Next1) \subseteq InForce
    BY <1>1, HeadInOrder
  <2> QED BY <2>1, <2>2, FactInForce
<1> HIDE DEF n
<1>3. ContractsTyped
  BY DEF IInv, Fulfilled
<1>4. contracts' = [c \in DOMAIN contracts |-> contracts'[c]]
  BY <1>1, <1>3 DEF ContractsTyped
<1>5. ASSUME NEW c \in DOMAIN contracts
      PROVE  /\ contracts'[c] = [contracts[c] EXCEPT !.owner = contracts'[c].owner, !.pending = contracts'[c].pending]
             /\ c # n => contracts'[c] = contracts[c]
  <2> DEFINE r == contracts[c]
             q == contracts'[c]
  <2>1. r = [owner |-> r.owner, pending |-> r.pending, timeBased |-> r.timeBased, rates |-> r.rates, model |-> r.model]
    BY <1>3 DEF ContractsTyped, IsContract
  <2>2. /\ q = r \/ q = [r EXCEPT !.pending = Next1.to] \/ q = [r EXCEPT !.owner = Next1.to]
        /\ c # n => q = r
    BY <1>1
  <2> HIDE DEF r, q
  <2>3. q = [r EXCEPT !.owner = q.owner, !.pending = q.pending]
    <3>1. CASE q = r
      BY <2>1, <3>1
    <3>2. CASE q = [r EXCEPT !.pending = Next1.to]
      BY <2>1, <3>2
    <3>3. CASE q = [r EXCEPT !.owner = Next1.to]
      BY <2>1, <3>3
    <3> QED BY <2>2, <3>1, <3>2, <3>3
  <2> QED BY <2>2, <2>3 DEF r, q
<1>6. \A c \in DOMAIN contracts : HandedOver(c)' => HandedOver(c) \/ ReadyFacts(c) \subseteq facts
  BY <1>2, <1>4, <1>5 DEF HandedOver, Deployed
<1>7. Fulfilled'
  BY <1>1, <1>4, <1>5, <1>6, OwnersChange DEF IInv
<1>8. SessionTyped' /\ InOrder(network, session.todo, InForce)'
  <2>1. DOMAIN contracts \subseteq DOMAIN contracts'
    BY <1>4
  <2> QED BY <1>1, <2>1, SentInOrder
<1> QED BY <1>7, <1>8 DEF IInv

(* An oracle is named only once it has the feed. *)
LEMMA ConfigureIInv ==
  ASSUME IInv, Configure
  PROVE  IInv'
<1> DEFINE g == Next1.fact
<1>1. /\ session.todo # << >> /\ Sent /\ facts' = facts \cup {g} /\ UNCHANGED <<network, contracts>> /\ Next1.do = "set"
  BY DEF Configure, Doing, Sent
<1>2. g[1] = "main oracle" /\ g[2] \in FeedOracles => Feed(g[2], g[3]) \in facts
  <2>1. ASSUME g[1] = "main oracle", g[2] \in FeedOracles PROVE Feed(g[2], g[3]) \in facts
    <3>1. Needed(Next1) = {TheFact(Feed(g[2], g[3]))}
      BY <1>1, <2>1 DEF Needed
    <3>2. Needed(Next1) \subseteq InForce
      BY <1>1, HeadInOrder
    <3> QED BY <3>1, <3>2, FactInForce
  <2> QED BY <2>1
<1> HIDE DEF g
<1>3. Fulfilled
  BY DEF IInv
<1>4. FeedsBehind'
  BY <1>1, <1>2, <1>3 DEF Fulfilled, FeedsBehind
<1>5. OnOfferReady'
  BY <1>1, <1>3 DEF Fulfilled, OnOfferReady, HandedOver, Deployed
<1>6. ContractsTyped' /\ MarketsAsConfigured' /\ (network \in Networks)'
  BY <1>1, <1>3 DEF Fulfilled, ContractsTyped, MarketsAsConfigured, Markets, Deployed
<1>7. SessionTyped' /\ InOrder(network, session.todo, InForce)'
  BY <1>1, SentInOrder DEF g
<1> QED BY <1>4, <1>5, <1>6, <1>7 DEF IInv, Fulfilled

LEMMA AcceptIInv ==
  ASSUME IInv, AcceptOwnerships
  PROVE  IInv'
<1>1. /\ UNCHANGED <<network, facts, session>>
      /\ contracts' = [c \in DOMAIN contracts |->
                         IF contracts[c].pending = Nobody THEN contracts[c]
                         ELSE [contracts[c] EXCEPT !.owner = contracts[c].pending, !.pending = Nobody]]
  BY DEF AcceptOwnerships
<1>2. contracts' = [c \in DOMAIN contracts |-> contracts'[c]]
  BY <1>1
<1>3. ASSUME NEW c \in DOMAIN contracts
      PROVE  /\ contracts'[c] = [contracts[c] EXCEPT !.owner = contracts'[c].owner, !.pending = contracts'[c].pending]
             /\ HandedOver(c)' => HandedOver(c)
  <2> DEFINE r == contracts[c]
             q == contracts'[c]
  <2>1. r = [owner |-> r.owner, pending |-> r.pending, timeBased |-> r.timeBased, rates |-> r.rates, model |-> r.model]
    BY DEF IInv, Fulfilled, ContractsTyped, IsContract
  <2>2. /\ r.pending = Nobody => q = r
        /\ r.pending # Nobody => q = [r EXCEPT !.owner = r.pending, !.pending = Nobody]
    BY <1>1
  <2> HIDE DEF r, q
  <2>3. q = [r EXCEPT !.owner = q.owner, !.pending = q.pending]
    <3>1. CASE q = r
      BY <2>1, <3>1
    <3>2. CASE q = [r EXCEPT !.owner = r.pending, !.pending = Nobody]
      BY <2>1, <3>2
    <3> QED BY <2>2, <3>1, <3>2
  <2>4. r.pending = Nobody => q = r
    BY <2>2
  <2>5. HandedOver(c)' => HandedOver(c)
    BY <2>4 DEF HandedOver, Deployed, r, q
  <2> QED BY <2>3, <2>5 DEF r, q
<1>4. Fulfilled'
  BY <1>1, <1>2, <1>3, OwnersChange DEF IInv
<1>5. InForce' = InForce
  BY <1>1, <1>2 DEF InForce
<1>6. SessionTyped' /\ InOrder(network', session'.todo, InForce')
  BY <1>1, <1>5 DEF IInv, SessionTyped
<1> QED BY <1>4, <1>6 DEF IInv

LEMMA RegisterIInv ==
  ASSUME IInv, UNCHANGED <<network, session, contracts, facts>>
  PROVE  IInv'
<1>1. Fulfilled'
  BY FulfilledSame DEF IInv
<1>2. InForce' = InForce
  BY DEF InForce
<1>3. SessionTyped' /\ InOrder(network', session'.todo, InForce')
  BY <1>2 DEF IInv, SessionTyped
<1> QED BY <1>1, <1>3 DEF IInv

(* What has come first still has when more is in force. *)
LEMMA InOrderMore ==
  ASSUME NEW net, NEW s, NEW given, NEW more, InOrder(net, s, given), given \subseteq more
  PROVE  InOrder(net, s, more)
BY DEF InOrder

LEMMA PermitIInv ==
  ASSUME IInv, PermitListing
  PROVE  IInv'
<1>1. facts' = facts \cup ListingPermissions /\ UNCHANGED <<network, session, contracts>>
  BY DEF PermitListing
<1>2. \A f \in ListingPermissions : f[1] = "permission"
  BY DEF ListingPermissions, Permission, Fact
<1>3. Fulfilled
  BY DEF IInv
<1> HIDE DEF ListingPermissions
<1>4. FeedsBehind'
  BY <1>1, <1>2, <1>3 DEF Fulfilled, FeedsBehind
<1>5. OnOfferReady'
  BY <1>1, <1>3 DEF Fulfilled, OnOfferReady, HandedOver, Deployed
<1>6. ContractsTyped' /\ MarketsAsConfigured' /\ (network \in Networks)'
  BY <1>1, <1>3 DEF Fulfilled, ContractsTyped, MarketsAsConfigured, Markets, Deployed
<1>7. InForce \subseteq InForce'
  BY <1>1 DEF InForce
<1>8. InOrder(network', session'.todo, InForce')
  BY <1>1, <1>7, InOrderMore DEF IInv
<1>9. SessionTyped'
  BY <1>1 DEF IInv, SessionTyped
<1> QED BY <1>4, <1>5, <1>6, <1>8, <1>9 DEF IInv, Fulfilled

LEMMA NextIInv == IInv /\ [Next]_vars => IInv'
<1> SUFFICES ASSUME IInv, [Next]_vars PROVE IInv'
  OBVIOUS
<1>1. CASE \E i \in DOMAIN runbook : Begin(i)
  BY <1>1, BeginIInv
<1>2. CASE Finish
  BY <1>2, EndSessionIInv DEF Finish
<1>3. CASE Step
  BY <1>3, DeployContractIInv, HandOverIInv, ConfigureIInv, OtherStepIInv DEF Step
<1>4. CASE Abort
  BY <1>4, EndSessionIInv DEF Abort
<1>5. CASE Interrupt
  BY <1>5, EndSessionIInv DEF Interrupt
<1>6. CASE AcceptOwnerships
  BY <1>6, AcceptIInv
<1>7. CASE RegisterPools
  BY <1>7, RegisterIInv DEF RegisterPools
<1>8. CASE UNCHANGED vars
  BY <1>8, RegisterIInv DEF vars
<1>9. CASE PermitListing
  BY <1>9, PermitIInv
<1> QED BY <1>1, <1>2, <1>3, <1>4, <1>5, <1>6, <1>7, <1>8, <1>9 DEF Next

LEMMA SpecIInv == Spec => []IInv
BY InitIInv, NextIInv, PTL DEF Spec

-----------------------------------------------------------------------------
(* What the runs check *)

(* Every deployed market has a rate model with the parameters configured for  *)
(* it, though models are shared by name and deploy looks at nothing else.     *)
THEOREM SpecRateModelAsConfigured == Spec => []RateModelAsConfigured
<1>1. IInv => RateModelAsConfigured
  BY DEF IInv, Fulfilled, MarketsAsConfigured, RateModelAsConfigured
<1> QED BY <1>1, SpecIInv, PTL

(* No network ends up with contracts that count blocks and contracts that     *)
(* count seconds, whatever environment each session was started in.           *)
THEOREM SpecOneTimeBase == Spec => []OneTimeBase
<1>1. IInv => OneTimeBase
  <2> SUFFICES ASSUME IInv PROVE OneTimeBase
    OBVIOUS
  <2> DEFINE bases == {contracts[c].timeBased : c \in DOMAIN contracts} \ {<< >>}
  <2>1. bases \subseteq {<<TRUE>>}
    BY DEF IInv, Fulfilled, ContractsTyped, IsContract
  <2>2. IsFiniteSet({<<TRUE>>}) /\ Cardinality({<<TRUE>>}) = 1
    BY FS_Singleton
  <2> HIDE DEF bases
  <2>3. Cardinality(bases) <= Cardinality({<<TRUE>>})
    BY <2>1, <2>2, FS_Subset
  <2>4. Cardinality(bases) <= 1
    BY <2>2, <2>3
  <2> QED BY <2>4 DEF OneTimeBase, bases
<1> QED BY <1>1, SpecIInv, PTL

(* Whatever run died where, a contract the deployer has offered to governance *)
(* has been given everything that only he can give it.                        *)
THEOREM SpecHandedOverConfigured == Spec => []HandedOverConfigured
<1>1. IInv => HandedOverConfigured
  <2> SUFFICES ASSUME IInv PROVE HandedOverConfigured
    OBVIOUS
  <2>1. \A c : HandedOver(c) => ReadyFacts(c) \subseteq facts
    BY DEF IInv, Fulfilled, OnOfferReady, HandedOver, Deployed
  <2>2. N("Shortfall")[1] = "Shortfall" /\ VaultProxy[1] = "ECLVaultProxy" /\ ResilientOracle[1] = "ResilientOracle"
        /\ ChainlinkName[1] \in {"SequencerChainlinkOracle", "ChainlinkOracle"}
    BY DEF N, VaultProxy, ResilientOracle, ChainlinkName
  <2>3. ReadyFacts(N("Shortfall")) = {Fact("poolRegistry", N("Shortfall"), "")}
    BY DEF ReadyFacts
  <2>4. ReadyFacts(VaultProxy) =
          {VaultFact("timeManager"), VaultFact("eclStore"), VaultFact("accessControl"), Fact("owner", VaultStore, "")}
    BY <2>2 DEF ReadyFacts
  <2>5. ASSUME NEW o \in {ResilientOracle, ChainlinkName} PROVE ReadyFacts(o) = {Permission(o)}
    <3>1. o # N("Shortfall") /\ o # VaultProxy
      BY <2>2
    <3>2. o \in HandedOverOracles
      BY DEF HandedOverOracles, ChainlinkName
    <3> QED BY <3>1, <3>2 DEF ReadyFacts
  <2> QED BY <2>1, <2>3, <2>4, <2>5 DEF HandedOverConfigured
<1> QED BY <1>1, SpecIInv, PTL

(* An oracle that needs a feed per asset is never named for an asset it has   *)
(* no feed for.                                                               *)
THEOREM SpecPricedAssetsHaveFeeds == Spec => []PricedAssetsHaveFeeds
<1>1. IInv => PricedAssetsHaveFeeds
  <2> SUFFICES ASSUME IInv, NEW o \in FeedOracles, NEW a, MainOracle(o, a) \in facts PROVE Feed(o, a) \in facts
    BY DEF PricedAssetsHaveFeeds, FeedOracles
  <2>1. MainOracle(o, a)[1] = "main oracle" /\ MainOracle(o, a)[2] = o /\ MainOracle(o, a)[3] = a
    BY DEF MainOracle, Fact
  <2>2. Feed(MainOracle(o, a)[2], MainOracle(o, a)[3]) \in facts
    BY <2>1 DEF IInv, Fulfilled, FeedsBehind
  <2> QED BY <2>1, <2>2
<1> QED BY <1>1, SpecIInv, PTL
=============================================================================
