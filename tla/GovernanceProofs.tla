--------------------------- MODULE GovernanceProofs ---------------------------
(***************************************************************************)
(* The invariants of Governance.tla and its refinement of Proposals.tla,   *)
(* for any voters, types, timelocks, delays and calls.                     *)
(***************************************************************************)
EXTENDS Governance, SumsProofs, FiniteSetTheorems, TLAPS

-----------------------------------------------------------------------------
(* The inductive invariant *)

\* What is true at any time of one proposal, whatever else goes on.
SoundAt(p, now) ==
  /\ p.content # << >>
  /\ p.startBlock < p.endBlock
  /\ p.executed => p.eta # 0
  /\ p.eta # 0 => p.endBlock < now /\ ~ Defeated(p) /\ p.eta >= p.queuedAt + MinimumDelay
  /\ p.voted # {} => p.startBlock < now
  /\ p.voted = {} => p.forVotes = 0 /\ p.againstVotes = 0 /\ p.abstainVotes = 0

\* The votes cast on p and those not cast yet are the votes there were.
Uncast(p, votes) == [v \in Voters |-> IF v \in p.voted THEN 0 ELSE votes[v]]
Cast(p) == p.forVotes + p.againstVotes + p.abstainVotes
Covered(p, votes) == Cast(p) + Total(Uncast(p, votes), VoterCount) = Total(votes, VoterCount)

\* Waiting for the vote or in it.
Live(p, now) == ~ p.canceled /\ now <= p.endBlock

Idle == initialProposalId = 0 => DOMAIN proposals = {}
AllSound == \A id \in DOMAIN proposals : SoundAt(proposals[id], time)
AllCovered ==
  \A id \in DOMAIN proposals :
    proposals[id].startBlock < time => Covered(proposals[id], power[proposals[id].startBlock])
AllLatest ==
  \A id \in DOMAIN proposals : Live(proposals[id], time) => latestProposalIds[proposals[id].proposer] = id

IInv == TypeOK /\ Idle /\ AllSound /\ QueueOnlyAnnounced /\ AllLatest /\ AllCovered

-----------------------------------------------------------------------------
(* Timelocks *)

LEMMA TransactionsType ==
    ASSUME NEW content \in Seq(Calls), NEW eta \in Nat
    PROVE  Transactions(content, eta) \in SUBSET (Calls \X Nat)
BY DEF Transactions

LEMMA AfterQueueType ==
    ASSUME NEW t \in TimelockRecord, NEW content \in Seq(Calls), NEW eta \in Nat
    PROVE  /\ AfterQueue(t, content, eta) \in TimelockRecord
           /\ AfterQueue(t, content, eta).admin = t.admin
           /\ AfterQueue(t, content, eta).queued = t.queued \cup Transactions(content, eta)
BY TransactionsType DEF AfterQueue, TimelockRecord

LEMMA AfterCancelType ==
    ASSUME NEW t \in TimelockRecord, NEW content, NEW eta
    PROVE  /\ AfterCancel(t, content, eta) \in TimelockRecord
           /\ AfterCancel(t, content, eta).admin = t.admin
           /\ AfterCancel(t, content, eta).queued = t.queued \ Transactions(content, eta)
BY DEF AfterCancel, TimelockRecord

LEMMA AfterExecuteType ==
    ASSUME NEW t \in TimelockRecord, NEW content \in Seq(Calls), NEW eta, NEW now,
           MayExecute(t, content, eta, now)
    PROVE  /\ AfterExecute(t, content, eta) \in TimelockRecord
           /\ AfterExecute(t, content, eta).admin = t.admin
           /\ AfterExecute(t, content, eta).queued = t.queued \ Transactions(content, eta)
<1> DEFINE setting == LastOf(content, DOMAIN SetsDelay)
           d == IF setting = {} THEN t.delay ELSE SetsDelay[content[CHOOSE i \in setting : TRUE]]
<1>1. t.delay \in MinimumDelay .. MaximumDelay
  BY DEF TimelockRecord
<1>2. ASSUME setting # {} PROVE SetsDelay[content[CHOOSE i \in setting : TRUE]] \in MinimumDelay .. MaximumDelay
  <2>1. PICK i : i = CHOOSE j \in setting : TRUE
    OBVIOUS
  <2>2. i \in setting
    BY <1>2, <2>1
  <2>3. i \in DOMAIN content /\ content[i] \in DOMAIN SetsDelay
    BY <2>2 DEF LastOf
  <2>4. SetsDelay[content[i]] \in MinimumDelay .. MaximumDelay
    BY <2>3 DEF MayExecute, DelayAllowed
  <2> QED BY <2>1, <2>4
<1>3. d \in MinimumDelay .. MaximumDelay
  BY <1>1, <1>2
<1> DEFINE a == IF LastOf(content, HandsOver) = {} THEN t.pendingAdmin ELSE Successor
           q == t.queued \ Transactions(content, eta)
<1>4. a \in {None, Governor, Successor} /\ q \in SUBSET (Calls \X Nat)
  BY DEF TimelockRecord
<1>5. AfterExecute(t, content, eta) = [t EXCEPT !.queued = q, !.delay = d, !.pendingAdmin = a]
  BY DEF AfterExecute
<1> HIDE DEF d, a, q
<1>6. /\ [t EXCEPT !.queued = q, !.delay = d, !.pendingAdmin = a] \in TimelockRecord
      /\ [t EXCEPT !.queued = q, !.delay = d, !.pendingAdmin = a].admin = t.admin
      /\ [t EXCEPT !.queued = q, !.delay = d, !.pendingAdmin = a].queued = q
  BY <1>3, <1>4 DEF TimelockRecord
<1> QED
  BY <1>5, <1>6 DEF q

LEMMA AdminTypes ==
    ASSUME NEW t \in TimelockRecord, NEW a \in {Governor, Successor}
    PROVE  /\ AfterSetPendingAdmin(t, a) \in TimelockRecord
           /\ AfterSetPendingAdmin(t, a).admin = t.admin
           /\ AfterSetPendingAdmin(t, a).queued = t.queued
           /\ t.pendingAdmin \notin {None, Governor} =>
                /\ AfterAcceptAdmin(t) \in TimelockRecord
                /\ AfterAcceptAdmin(t).admin # Governor
                /\ AfterAcceptAdmin(t).queued = t.queued
BY DEF AfterSetPendingAdmin, AfterAcceptAdmin, TimelockRecord, None, Governor, Successor

-----------------------------------------------------------------------------
(* Proposals *)

LEMMA OneReplaced ==
    ASSUME NEW id \in DOMAIN proposals, NEW q, proposals \in [DOMAIN proposals -> Proposal],
           proposals' = [proposals EXCEPT ![id] = q]
    PROVE  /\ DOMAIN proposals' = DOMAIN proposals
           /\ proposals'[id] = q
           /\ \A i \in DOMAIN proposals \ {id} : proposals'[i] = proposals[i]
OBVIOUS

LEMMA OneReplacedType ==
    ASSUME NEW id \in DOMAIN proposals, NEW q \in Proposal, TypeOK,
           proposals' = [proposals EXCEPT ![id] = q], initialProposalId' = initialProposalId
    PROVE  /\ proposals' \in [DOMAIN proposals' -> Proposal]
           /\ IsFiniteSet(DOMAIN proposals') /\ DOMAIN proposals' = (initialProposalId + 1 .. ProposalCount)'
BY DEF TypeOK, ProposalCount

LEMMA CountedDomain ==
    ASSUME TypeOK, NEW id, id = ProposalCount + 1
    PROVE  /\ ProposalCount \in Nat
           /\ id \notin DOMAIN proposals /\ id \in Nat /\ id # 0
           /\ DOMAIN proposals \cup {id} = initialProposalId + 1 .. id
           /\ IsFiniteSet(DOMAIN proposals \cup {id})
           /\ Cardinality(DOMAIN proposals \cup {id}) = Cardinality(DOMAIN proposals) + 1
<1>1. /\ IsFiniteSet(DOMAIN proposals) /\ initialProposalId \in Nat
      /\ DOMAIN proposals = initialProposalId + 1 .. ProposalCount
  BY DEF TypeOK
<1>2. Cardinality(DOMAIN proposals) \in Nat
  BY <1>1, FS_CardinalityType
<1>3. ProposalCount \in Nat /\ initialProposalId <= ProposalCount
  BY <1>1, <1>2 DEF ProposalCount
<1>4. id \notin DOMAIN proposals /\ DOMAIN proposals \cup {id} = initialProposalId + 1 .. id
  BY <1>1, <1>3
<1>5. /\ IsFiniteSet(DOMAIN proposals \cup {id})
      /\ Cardinality(DOMAIN proposals \cup {id}) = Cardinality(DOMAIN proposals) + 1
  BY <1>1, <1>4, FS_AddElement
<1> QED
  BY <1>3, <1>4, <1>5

\* A proposal stays one whichever of its fields the actions set.
LEMMA FieldSet ==
    ASSUME NEW p \in Proposal
    PROVE  /\ \A n \in Nat : [p EXCEPT !.eta = n] \in Proposal
           /\ \A n \in Nat : [p EXCEPT !.queuedAt = n] \in Proposal
           /\ \A n \in Nat : [p EXCEPT !.forVotes = n] \in Proposal
           /\ \A n \in Nat : [p EXCEPT !.againstVotes = n] \in Proposal
           /\ \A n \in Nat : [p EXCEPT !.abstainVotes = n] \in Proposal
           /\ \A s \in SUBSET Voters : [p EXCEPT !.voted = s] \in Proposal
           /\ \A b \in BOOLEAN : [p EXCEPT !.executed = b] \in Proposal
           /\ \A b \in BOOLEAN : [p EXCEPT !.canceled = b] \in Proposal
<1>1. ASSUME NEW n \in Nat PROVE [p EXCEPT !.eta = n] \in Proposal
  BY DEF Proposal
<1>2. ASSUME NEW n \in Nat PROVE [p EXCEPT !.queuedAt = n] \in Proposal
  BY DEF Proposal
<1>3. ASSUME NEW n \in Nat PROVE [p EXCEPT !.forVotes = n] \in Proposal
  BY DEF Proposal
<1>4. ASSUME NEW n \in Nat PROVE [p EXCEPT !.againstVotes = n] \in Proposal
  BY DEF Proposal
<1>5. ASSUME NEW n \in Nat PROVE [p EXCEPT !.abstainVotes = n] \in Proposal
  BY DEF Proposal
<1>6. ASSUME NEW s \in SUBSET Voters PROVE [p EXCEPT !.voted = s] \in Proposal
  BY DEF Proposal
<1>7. ASSUME NEW b \in BOOLEAN PROVE [p EXCEPT !.executed = b] \in Proposal
  BY DEF Proposal
<1>8. ASSUME NEW b \in BOOLEAN PROVE [p EXCEPT !.canceled = b] \in Proposal
  BY DEF Proposal
<1> QED BY <1>1, <1>2, <1>3, <1>4, <1>5, <1>6, <1>7, <1>8

(* The fields that queueing, execution and cancellation leave alone. *)
SameVote(p, q) ==
  /\ q.proposer = p.proposer /\ q.type = p.type /\ q.content = p.content
  /\ q.startBlock = p.startBlock /\ q.endBlock = p.endBlock
  /\ q.forVotes = p.forVotes /\ q.againstVotes = p.againstVotes /\ q.abstainVotes = p.abstainVotes
  /\ q.voted = p.voted

LEMMA QueuedFields ==
    ASSUME NEW p \in Proposal, NEW eta \in Nat, time \in Nat, NEW q, q = WithEta(p, eta)
    PROVE  /\ q \in Proposal /\ SameVote(p, q)
           /\ q.eta = eta /\ q.queuedAt = time /\ q.canceled = p.canceled /\ q.executed = p.executed
<1>1. q = [[p EXCEPT !.eta = eta] EXCEPT !.queuedAt = time]
  BY DEF WithEta
<1>2. q \in Proposal
  <2>1. [p EXCEPT !.eta = eta] \in Proposal
    BY FieldSet
  <2> QED BY <1>1, <2>1, FieldSet
<1>3. /\ SameVote(p, q)
      /\ q.eta = eta /\ q.queuedAt = time /\ q.canceled = p.canceled /\ q.executed = p.executed
  BY DEF Proposal, SameVote, WithEta
<1> QED BY <1>2, <1>3

LEMMA FlagFields ==
    ASSUME NEW p \in Proposal, NEW q
    PROVE  /\ q = [p EXCEPT !.executed = TRUE] =>
                /\ q \in Proposal /\ SameVote(p, q)
                /\ q.eta = p.eta /\ q.queuedAt = p.queuedAt /\ q.canceled = p.canceled /\ q.executed
           /\ q = [p EXCEPT !.canceled = TRUE] =>
                /\ q \in Proposal /\ SameVote(p, q)
                /\ q.eta = p.eta /\ q.queuedAt = p.queuedAt /\ q.canceled /\ q.executed = p.executed
<1>1. [p EXCEPT !.executed = TRUE] \in Proposal /\ [p EXCEPT !.canceled = TRUE] \in Proposal
  BY FieldSet
<1>2. ASSUME q = [p EXCEPT !.executed = TRUE]
      PROVE  /\ SameVote(p, q)
             /\ q.eta = p.eta /\ q.queuedAt = p.queuedAt /\ q.canceled = p.canceled /\ q.executed
  BY <1>2 DEF Proposal, SameVote
<1>3. ASSUME q = [p EXCEPT !.canceled = TRUE]
      PROVE  /\ SameVote(p, q)
             /\ q.eta = p.eta /\ q.queuedAt = p.queuedAt /\ q.canceled /\ q.executed = p.executed
  BY <1>3 DEF Proposal, SameVote
<1> QED BY <1>1, <1>2, <1>3

LEMMA NewFields ==
    ASSUME time \in Nat, NEW v \in Voters, NEW type \in ProposalTypes, NEW content \in Drafts[type],
           NEW q, q = NewProposal(v, type, content)
    PROVE  /\ q \in Proposal
           /\ q.startBlock > time /\ q.endBlock > q.startBlock
<1>1. content \in Seq(Calls)
  BY DraftsAssumption
<1>2. VotingDelay[type] \in Nat \ {0} /\ VotingPeriod[type] \in Nat \ {0}
  BY ConfigAssumption
<1> DEFINE start == time + VotingDelay[type]
           end == time + VotingDelay[type] + VotingPeriod[type]
<1>3. start \in Nat /\ end \in Nat /\ start > time /\ end > start
  BY <1>2
<1>4. q = [proposer |-> v, type |-> type, content |-> content, startBlock |-> start, endBlock |-> end,
           forVotes |-> 0, againstVotes |-> 0, abstainVotes |-> 0, voted |-> {},
           eta |-> 0, queuedAt |-> 0, canceled |-> FALSE, executed |-> FALSE]
  BY DEF NewProposal
<1> HIDE DEF start, end
<1>5. q \in Proposal
  BY <1>1, <1>3, <1>4, SMTT(60) DEF Proposal
<1>6. q.startBlock = start /\ q.endBlock = end
  BY <1>4
<1> QED BY <1>3, <1>5, <1>6

LEMMA VoteSet ==
    ASSUME NEW p \in Proposal, NEW a \in Nat, NEW f \in Nat, NEW x \in Nat, NEW s \in SUBSET Voters
    PROVE  [p EXCEPT !.againstVotes = a, !.forVotes = f, !.abstainVotes = x, !.voted = s] \in Proposal
<1> DEFINE p1 == [p EXCEPT !.againstVotes = a]
           p2 == [p1 EXCEPT !.forVotes = f]
           p3 == [p2 EXCEPT !.abstainVotes = x]
           p4 == [p3 EXCEPT !.voted = s]
<1>1. p1 \in Proposal
  BY FieldSet
<1>2. p2 \in Proposal
  <2> HIDE DEF p1
  <2> QED BY <1>1, FieldSet
<1>3. p3 \in Proposal
  <2> HIDE DEF p2
  <2> QED BY <1>2, FieldSet
<1>4. p4 \in Proposal
  <2> HIDE DEF p3
  <2> QED BY <1>3, FieldSet
<1>5. [p EXCEPT !.againstVotes = a, !.forVotes = f, !.abstainVotes = x, !.voted = s] = p4
  OBVIOUS
<1> QED BY <1>4, <1>5

(* A vote adds what the voter had when the vote began to one of the three counts. *)
LEMMA VoteFields ==
    ASSUME TypeOK, NEW p \in Proposal, NEW v \in Voters, NEW support \in 0 .. 2, p.startBlock < time,
           NEW q, q = WithVote(p, v, support)
    PROVE  /\ q \in Proposal
           /\ VotesAtStart(v, p) \in Nat /\ VotesAtStart(v, p) = power[p.startBlock][v]
           /\ q.startBlock = p.startBlock /\ q.endBlock = p.endBlock
           /\ q.eta = p.eta /\ q.queuedAt = p.queuedAt /\ q.canceled = p.canceled /\ q.executed = p.executed
           /\ q.content = p.content /\ q.type = p.type /\ q.proposer = p.proposer
           /\ q.voted = p.voted \cup {v}
           /\ q.forVotes + q.againstVotes + q.abstainVotes
                = p.forVotes + p.againstVotes + p.abstainVotes + VotesAtStart(v, p)
<1> DEFINE n == VotesAtStart(v, p)
<1>1. n \in Nat /\ n = power[p.startBlock][v]
  <2>1. p.startBlock \in Nat
    BY DEF Proposal
  <2>2. p.startBlock \in 0 .. time
    BY <2>1 DEF TypeOK
  <2>3. power[p.startBlock] \in [Voters -> Nat]
    BY <2>2 DEF TypeOK
  <2> QED BY <2>3 DEF VotesAtStart, PriorVotes
<1> HIDE DEF n
<1> DEFINE a == IF support = 0 THEN p.againstVotes + n ELSE p.againstVotes
           f == IF support = 1 THEN p.forVotes + n ELSE p.forVotes
           x == IF support = 2 THEN p.abstainVotes + n ELSE p.abstainVotes
           s == p.voted \cup {v}
<1>0. p.againstVotes \in Nat /\ p.forVotes \in Nat /\ p.abstainVotes \in Nat /\ p.voted \in SUBSET Voters
  BY DEF Proposal
<1>2. /\ a \in Nat /\ f \in Nat /\ x \in Nat /\ s \in SUBSET Voters
      /\ f + a + x = p.forVotes + p.againstVotes + p.abstainVotes + n
  <2>1. CASE support = 0
    BY <1>0, <1>1, <2>1
  <2>2. CASE support = 1
    BY <1>0, <1>1, <2>2
  <2>3. CASE support = 2
    BY <1>0, <1>1, <2>3
  <2> QED BY <2>1, <2>2, <2>3
<1>4. q = [p EXCEPT !.againstVotes = a, !.forVotes = f, !.abstainVotes = x, !.voted = s]
  BY DEF n, WithVote
<1> HIDE DEF a, f, x, s
<1>5. [p EXCEPT !.againstVotes = a, !.forVotes = f, !.abstainVotes = x, !.voted = s] \in Proposal
  <2>1. a \in Nat /\ f \in Nat /\ x \in Nat /\ s \in SUBSET Voters
    BY <1>2
  <2> QED BY ONLY <2>1, VoteSet, p \in Proposal, Zenon
<1>6. q \in Proposal
  BY <1>4, <1>5
<1>7. q.againstVotes = a /\ q.forVotes = f /\ q.abstainVotes = x /\ q.voted = s
  BY <1>4 DEF Proposal
<1>8. /\ q.startBlock = p.startBlock /\ q.endBlock = p.endBlock
      /\ q.eta = p.eta /\ q.queuedAt = p.queuedAt /\ q.canceled = p.canceled /\ q.executed = p.executed
      /\ q.content = p.content /\ q.type = p.type /\ q.proposer = p.proposer
  BY <1>4 DEF Proposal
<1> QED BY <1>1, <1>2, <1>6, <1>7, <1>8 DEF n, s

LEMMA RouteType ==
    ASSUME TypeOK, NEW id \in DOMAIN proposals
    PROVE  /\ proposals[id] \in Proposal
           /\ Route(proposals[id]) \in Timelocks
           /\ Lock(proposals[id]) \in TimelockRecord
<1>1. proposals[id] \in Proposal
  BY DEF TypeOK
<1>2. proposals[id].type \in ProposalTypes
  BY <1>1 DEF Proposal
<1>3. TimelockOf[proposals[id].type] \in Timelocks
  BY <1>2, RoutesAssumption
<1> QED BY <1>1, <1>3 DEF TypeOK, Lock, Route

-----------------------------------------------------------------------------
(* Types *)

LEMMA TimelockReplaced ==
    ASSUME TypeOK, NEW t \in Timelocks, NEW r \in TimelockRecord, timelocks' = [timelocks EXCEPT ![t] = r]
    PROVE  /\ timelocks' \in [Timelocks -> TimelockRecord]
           /\ timelocks'[t] = r
           /\ \A u \in Timelocks \ {t} : timelocks'[u] = timelocks[u]
BY DEF TypeOK

LEMMA PerformedMore ==
    ASSUME TypeOK, NEW t \in Timelocks, NEW content \in Seq(Calls), performed' = [performed EXCEPT ![t] = @ \o content]
    PROVE  performed' \in [Timelocks -> Seq(Calls)]
<1>1. performed[t] \in Seq(Calls)
  BY DEF TypeOK
<1>2. performed[t] \o content \in Seq(Calls)
  BY <1>1
<1> QED BY <1>2 DEF TypeOK

LEMMA InitiateType ==
    ASSUME TypeOK, Idle, NEW n \in AlphaCounts, Initiate(n)
    PROVE  TypeOK' /\ Idle'
<1>1. DOMAIN proposals = {} /\ proposals' = proposals /\ initialProposalId' = n /\ n \in Nat
  BY BoundsAssumption DEF Initiate, Idle
<1>2. Cardinality(DOMAIN proposals') = 0
  BY <1>1, FS_EmptySet
<1>3. DOMAIN proposals' = (initialProposalId + 1 .. ProposalCount)'
  BY <1>1, <1>2 DEF ProposalCount
<1>4. timelocks' = timelocks
  BY DEF Initiate, Accepted, TypeOK
<1>5. /\ time' \in Nat /\ initialProposalId' \in Nat /\ moves' \in 0 .. MaxMoves /\ IsFiniteSet(DOMAIN proposals')
      /\ proposals' \in [DOMAIN proposals' -> Proposal]
      /\ (latestProposalIds \in [Voters -> DOMAIN proposals \cup {0}])'
      /\ (power \in [0 .. time -> [Voters -> Nat]])'
      /\ performed' \in [Timelocks -> Seq(Calls)]
  BY <1>1 DEF Initiate, TypeOK
<1> QED BY <1>1, <1>3, <1>4, <1>5 DEF TypeOK, Idle

LEMMA ProposeType ==
    ASSUME TypeOK, NEW v \in Voters, NEW type \in ProposalTypes, NEW content \in Drafts[type],
           Propose(v, type, content)
    PROVE  TypeOK' /\ Idle'
<1> DEFINE id == ProposalCount + 1
           q == NewProposal(v, type, content)
<1>1. proposals' = [i \in DOMAIN proposals \cup {id} |-> IF i = id THEN q ELSE proposals[i]]
  BY DEF Propose
<1>2. q \in Proposal
  BY NewFields DEF TypeOK
<1>3. /\ id \notin DOMAIN proposals /\ id \in Nat
      /\ DOMAIN proposals \cup {id} = initialProposalId + 1 .. id
      /\ IsFiniteSet(DOMAIN proposals \cup {id})
      /\ Cardinality(DOMAIN proposals \cup {id}) = Cardinality(DOMAIN proposals) + 1
  BY CountedDomain
<1>4. proposals \in [DOMAIN proposals -> Proposal]
  BY DEF TypeOK
<1>5. UNCHANGED <<time, initialProposalId, power, timelocks, performed, moves>> /\ initialProposalId # 0
  BY DEF Propose
<1>6. latestProposalIds' = [latestProposalIds EXCEPT ![v] = id]
  BY DEF Propose
<1> HIDE DEF q
<1>7. DOMAIN proposals' = DOMAIN proposals \cup {id} /\ proposals' \in [DOMAIN proposals' -> Proposal]
  BY <1>1, <1>2, <1>4
<1>8. (latestProposalIds \in [Voters -> DOMAIN proposals \cup {0}])'
  BY <1>6, <1>7 DEF TypeOK
<1>9. ProposalCount' = id
  <2>1. Cardinality(DOMAIN proposals) \in Nat /\ initialProposalId \in Nat
    BY FS_CardinalityType DEF TypeOK
  <2>2. ProposalCount' = initialProposalId + (Cardinality(DOMAIN proposals) + 1)
    BY <1>3, <1>5, <1>7 DEF ProposalCount
  <2> QED BY <2>1, <2>2 DEF ProposalCount
<1>10. IsFiniteSet(DOMAIN proposals') /\ DOMAIN proposals' = (initialProposalId + 1 .. ProposalCount)'
  BY <1>3, <1>5, <1>7, <1>9
<1> QED BY <1>5, <1>7, <1>8, <1>10 DEF TypeOK, Idle

LEMMA ReplacedType ==
    ASSUME TypeOK, Idle, NEW id \in DOMAIN proposals, NEW q \in Proposal, proposals' = [proposals EXCEPT ![id] = q],
           UNCHANGED <<time, initialProposalId, latestProposalIds, power, moves>>,
           timelocks' \in [Timelocks -> TimelockRecord], performed' \in [Timelocks -> Seq(Calls)]
    PROVE  TypeOK' /\ Idle'
<1>1. /\ proposals' \in [DOMAIN proposals' -> Proposal]
      /\ IsFiniteSet(DOMAIN proposals') /\ DOMAIN proposals' = (initialProposalId + 1 .. ProposalCount)'
  BY OneReplacedType
<1>2. DOMAIN proposals' = DOMAIN proposals
  OBVIOUS
<1> QED BY <1>1, <1>2 DEF TypeOK, Idle

LEMMA QuietType ==
    ASSUME TypeOK, Idle, UNCHANGED <<time, initialProposalId, proposals, latestProposalIds, power, moves>>,
           timelocks' \in [Timelocks -> TimelockRecord], performed' \in [Timelocks -> Seq(Calls)]
    PROVE  TypeOK' /\ Idle'
BY DEF TypeOK, Idle, ProposalCount

-----------------------------------------------------------------------------
(* What keeps the rest of the invariant *)

LEMMA SoundLater ==
    ASSUME NEW p \in Proposal, NEW now \in Nat, NEW later \in Nat, now <= later, SoundAt(p, now)
    PROVE  SoundAt(p, later)
BY DEF SoundAt, Proposal

LEMMA SameCovered ==
    ASSUME NEW p, NEW q, NEW votes, q.voted = p.voted, Cast(q) = Cast(p)
    PROVE  Covered(q, votes) = Covered(p, votes)
<1>1. Uncast(q, votes) = Uncast(p, votes)
  BY DEF Uncast
<1> QED BY <1>1 DEF Covered

LEMMA VoteCovered ==
    ASSUME NEW p \in Proposal, NEW q, NEW v \in Voters, NEW votes \in [Voters -> Nat], Covered(p, votes),
           v \notin p.voted, q.voted = p.voted \cup {v}, Cast(q) = Cast(p) + votes[v]
    PROVE  Covered(q, votes)
<1> DEFINE f == Uncast(p, votes)
           zero == 0
<1>1. f \in [1 .. VoterCount -> Int] /\ VoterCount \in Nat /\ v \in 1 .. VoterCount /\ f[v] = votes[v]
  BY VotersAssumption DEF Uncast, Voters
<1>2. Uncast(q, votes) = [f EXCEPT ![v] = 0]
  BY DEF Uncast
<1>3. zero \in Int
  OBVIOUS
<1> HIDE DEF f, zero
<1>4. Total([f EXCEPT ![v] = zero], VoterCount) = Total(f, VoterCount) - f[v] + zero
  <2>1. f \in [1 .. VoterCount -> Int] /\ VoterCount \in Nat /\ v \in 1 .. VoterCount
    BY <1>1
  <2> QED BY ONLY <2>1, <1>3, TotalUpdate, Zenon
<1>5. Total([f EXCEPT ![v] = 0], VoterCount) = Total(f, VoterCount) - f[v] + 0
  BY <1>4 DEF zero
<1>6. Total(f, VoterCount) \in Int
  BY <1>1, TotalType
<1>7. Cast(p) \in Int /\ votes[v] \in Int
  BY DEF Cast, Proposal
<1>8. Cast(p) + Total(f, VoterCount) = Total(votes, VoterCount)
  BY DEF Covered, f
<1>9. Cast(q) + Total(Uncast(q, votes), VoterCount) = Total(votes, VoterCount)
  BY <1>1, <1>2, <1>5, <1>6, <1>7, <1>8
<1> QED BY <1>9 DEF Covered

\* Replacing a proposal by one with the same votes.
LEMMA ReplacedKeeps ==
    ASSUME TypeOK, AllSound, AllLatest, AllCovered, NEW id \in DOMAIN proposals, NEW q \in Proposal,
           SameVote(proposals[id], q), proposals[id].canceled => q.canceled, SoundAt(q, time),
           proposals' = [proposals EXCEPT ![id] = q], UNCHANGED <<time, latestProposalIds, power>>
    PROVE  AllSound' /\ AllLatest' /\ AllCovered'
<1>1. /\ DOMAIN proposals' = DOMAIN proposals /\ proposals'[id] = q
      /\ \A i \in DOMAIN proposals \ {id} : proposals'[i] = proposals[i]
  BY DEF TypeOK
<1>2. AllSound'
  BY <1>1 DEF AllSound
<1>3. AllLatest'
  BY <1>1 DEF AllLatest, Live, SameVote
<1>4. ASSUME NEW i \in DOMAIN proposals', proposals'[i].startBlock < time'
      PROVE  Covered(proposals'[i], power'[proposals'[i].startBlock])
  <2>1. CASE i # id
    BY <1>1, <1>4, <2>1 DEF AllCovered
  <2>2. CASE i = id
    <3>1. q.startBlock = proposals[id].startBlock /\ q.voted = proposals[id].voted /\ Cast(q) = Cast(proposals[id])
      BY DEF SameVote, Cast
    <3>2. Covered(proposals[id], power[q.startBlock])
      BY <1>1, <1>4, <2>2, <3>1 DEF AllCovered
    <3>3. Covered(q, power[q.startBlock])
      BY <3>1, <3>2, SameCovered
    <3> QED BY <1>1, <2>2, <3>3
  <2> QED BY <2>1, <2>2
<1> QED BY <1>2, <1>3, <1>4 DEF AllCovered

\* What the governor's timelock has queued it had queued before, as the governor's.
NothingQueued(t) ==
    timelocks'[t].admin = Governor =>
        timelocks[t].admin = Governor /\ timelocks'[t].queued \subseteq timelocks[t].queued

\* Taking nothing new into the queues of the governor's timelocks.
LEMMA QuietKeeps ==
    ASSUME AllSound, AllLatest, AllCovered, QueueOnlyAnnounced,
           UNCHANGED <<time, proposals, latestProposalIds, power>>,
           \A t \in Timelocks : NothingQueued(t)
    PROVE  AllSound' /\ AllLatest' /\ AllCovered' /\ QueueOnlyAnnounced'
BY DEF AllSound, AllLatest, AllCovered, QueueOnlyAnnounced, Route, NothingQueued

-----------------------------------------------------------------------------
(* Every action keeps the invariant *)

LEMMA QuietStep ==
    ASSUME IInv, UNCHANGED <<time, initialProposalId, proposals, latestProposalIds, power, moves>>,
           NEW t \in Timelocks, NEW r \in TimelockRecord, timelocks' = [timelocks EXCEPT ![t] = r],
           r.admin = Governor => timelocks[t].admin = Governor /\ r.queued \subseteq timelocks[t].queued,
           performed' \in [Timelocks -> Seq(Calls)]
    PROVE  IInv'
<1>1. TypeOK /\ Idle /\ AllSound /\ AllLatest /\ AllCovered /\ QueueOnlyAnnounced
  BY DEF IInv
<1>2. /\ timelocks' \in [Timelocks -> TimelockRecord]
      /\ timelocks'[t] = r
      /\ \A u \in Timelocks \ {t} : timelocks'[u] = timelocks[u]
  BY <1>1, TimelockReplaced
<1>3. \A u \in Timelocks : NothingQueued(u)
  BY <1>2 DEF NothingQueued
<1>4. TypeOK' /\ Idle'
  BY <1>1, <1>2, QuietType
<1>5. AllSound' /\ AllLatest' /\ AllCovered' /\ QueueOnlyAnnounced'
  BY <1>1, <1>3, QuietKeeps
<1> QED BY <1>4, <1>5 DEF IInv

LEMMA SetPendingAdminStep ==
    ASSUME IInv, NEW t \in Timelocks, NEW account \in {Governor, Successor}, SetPendingAdmin(t, account)
    PROVE  IInv'
<1>1. timelocks[t] \in TimelockRecord /\ performed' \in [Timelocks -> Seq(Calls)]
  BY DEF SetPendingAdmin, IInv, TypeOK
<1>2. /\ AfterSetPendingAdmin(timelocks[t], account) \in TimelockRecord
      /\ AfterSetPendingAdmin(timelocks[t], account).queued = timelocks[t].queued
      /\ timelocks[t].admin # Governor /\ AfterSetPendingAdmin(timelocks[t], account).admin # Governor
  BY <1>1, AdminTypes DEF SetPendingAdmin
<1> QED BY <1>1, <1>2, QuietStep DEF SetPendingAdmin

LEMMA AcceptAdminStep ==
    ASSUME IInv, NEW t \in Timelocks, AcceptAdmin(t)
    PROVE  IInv'
<1>1. timelocks[t] \in TimelockRecord /\ performed' \in [Timelocks -> Seq(Calls)]
  BY DEF AcceptAdmin, IInv, TypeOK
<1>2. timelocks[t].pendingAdmin \notin {None, Governor}
  BY DEF AcceptAdmin
<1>3. /\ AfterAcceptAdmin(timelocks[t]) \in TimelockRecord
      /\ AfterAcceptAdmin(timelocks[t]).admin # Governor
  BY <1>1, <1>2, AdminTypes
<1> QED BY <1>1, <1>3, QuietStep DEF AcceptAdmin

LEMMA QueueTransactionStep ==
    ASSUME IInv, NEW t \in Timelocks, NEW call \in Calls, NEW eta \in 0 .. MaxEta, QueueTransaction(t, call, eta)
    PROVE  IInv'
<1>1. timelocks[t] \in TimelockRecord /\ performed' \in [Timelocks -> Seq(Calls)] /\ timelocks[t].admin # Governor
  BY DEF QueueTransaction, IInv, TypeOK
<1> DEFINE r == AfterQueue(timelocks[t], <<call>>, eta)
<1>2. r \in TimelockRecord /\ r.admin # Governor
  <2>1. eta \in Nat /\ <<call>> \in Seq(Calls)
    BY BoundsAssumption
  <2> QED BY <1>1, <2>1, AfterQueueType
<1>3. timelocks' = [timelocks EXCEPT ![t] = r]
  BY DEF QueueTransaction
<1> HIDE DEF r
<1> QED BY <1>1, <1>2, <1>3, QuietStep DEF QueueTransaction

LEMMA CancelTransactionStep ==
    ASSUME IInv, NEW t \in Timelocks, NEW tx \in timelocks[t].queued, CancelTransaction(t, tx)
    PROVE  IInv'
<1>1. timelocks[t] \in TimelockRecord /\ performed' \in [Timelocks -> Seq(Calls)]
  BY DEF CancelTransaction, IInv, TypeOK
<1> DEFINE r == AfterCancel(timelocks[t], <<tx[1]>>, tx[2])
<1>2. r \in TimelockRecord /\ r.admin = timelocks[t].admin /\ timelocks[t].admin # Governor
  BY <1>1, AfterCancelType DEF CancelTransaction
<1>3. timelocks' = [timelocks EXCEPT ![t] = r]
  BY DEF CancelTransaction
<1> HIDE DEF r
<1> QED BY <1>1, <1>2, <1>3, QuietStep DEF CancelTransaction

LEMMA ExecuteTransactionStep ==
    ASSUME IInv, NEW t \in Timelocks, NEW tx \in timelocks[t].queued, ExecuteTransaction(t, tx)
    PROVE  IInv'
<1>1. timelocks[t] \in TimelockRecord /\ TypeOK
  BY DEF IInv, TypeOK
<1>2. tx \in Calls \X Nat
  BY <1>1 DEF TimelockRecord
<1>3. <<tx[1]>> \in Seq(Calls)
  BY <1>2
<1> DEFINE content == <<tx[1]>>
           r == AfterExecute(timelocks[t], content, tx[2])
<1>4. MayExecute(timelocks[t], content, tx[2], time)
  BY DEF ExecuteTransaction
<1>5. r \in TimelockRecord /\ r.admin = timelocks[t].admin
  <2>1. content \in Seq(Calls)
    BY <1>3
  <2> HIDE DEF content
  <2> QED BY <1>1, <1>4, <2>1, AfterExecuteType
<1>6. timelocks' = [timelocks EXCEPT ![t] = r]
  BY DEF ExecuteTransaction
<1>7. performed' \in [Timelocks -> Seq(Calls)]
  BY <1>1, <1>3, PerformedMore DEF ExecuteTransaction
<1> HIDE DEF r
<1>8. timelocks[t].admin # Governor
  BY DEF ExecuteTransaction
<1> QED BY <1>5, <1>6, <1>7, <1>8, QuietStep DEF ExecuteTransaction

LEMMA InitiateStep ==
    ASSUME IInv, NEW n \in AlphaCounts, Initiate(n)
    PROVE  IInv'
<1>1. TypeOK /\ Idle /\ AllSound /\ AllLatest /\ AllCovered /\ QueueOnlyAnnounced
  BY DEF IInv
<1>2. TypeOK' /\ Idle'
  BY <1>1, InitiateType
<1>3. timelocks' = timelocks
  BY <1>1 DEF Initiate, Accepted, TypeOK
<1>4. AllSound' /\ AllLatest' /\ AllCovered' /\ QueueOnlyAnnounced'
  BY <1>1, <1>3, QuietKeeps DEF Initiate, NothingQueued
<1> QED BY <1>2, <1>4 DEF IInv

LEMMA ProposeStep ==
    ASSUME IInv, NEW v \in Voters, NEW type \in ProposalTypes, NEW content \in Drafts[type],
           Propose(v, type, content)
    PROVE  IInv'
<1> DEFINE id == ProposalCount + 1
           q == NewProposal(v, type, content)
<1>1. TypeOK /\ Idle /\ AllSound /\ AllLatest /\ AllCovered /\ QueueOnlyAnnounced
  BY DEF IInv
<1>2. TypeOK' /\ Idle'
  BY <1>1, ProposeType
<1>3. q \in Proposal /\ q.startBlock > time /\ q.endBlock > q.startBlock
  BY <1>1, NewFields DEF TypeOK
<1>4. /\ q.content = content /\ content # << >> /\ q.proposer = v /\ ~ q.executed /\ q.eta = 0 /\ q.voted = {}
      /\ q.forVotes = 0 /\ q.againstVotes = 0 /\ q.abstainVotes = 0
  BY DEF NewProposal, Propose
<1>5. /\ UNCHANGED <<time, power, timelocks>> /\ time \in Nat
      /\ latestProposalIds' = [latestProposalIds EXCEPT ![v] = id]
      /\ proposals' = [i \in DOMAIN proposals \cup {id} |-> IF i = id THEN q ELSE proposals[i]]
  BY <1>1 DEF Propose, TypeOK
<1>6. id \notin DOMAIN proposals
  BY <1>1, CountedDomain
<1> HIDE DEF id, q
<1>7. /\ DOMAIN proposals' = DOMAIN proposals \cup {id} /\ proposals'[id] = q
      /\ \A i \in DOMAIN proposals : proposals'[i] = proposals[i]
  BY <1>5, <1>6
<1>8. AllSound'
  <2>1. SoundAt(q, time)
    BY <1>3, <1>4 DEF SoundAt
  <2> QED BY <1>1, <1>5, <1>7, <2>1 DEF AllSound
<1>9. QueueOnlyAnnounced'
  BY <1>1, <1>5, <1>7 DEF QueueOnlyAnnounced, Route
<1>10. AllLatest'
  <2> SUFFICES ASSUME NEW i \in DOMAIN proposals', Live(proposals'[i], time')
               PROVE  latestProposalIds'[proposals'[i].proposer] = i
    BY DEF AllLatest
  <2>2. latestProposalIds'[v] = id
    BY <1>1, <1>5 DEF TypeOK
  <2>3. CASE i = id
    BY <1>4, <1>7, <2>2, <2>3
  <2>4. CASE i # id
    <3>1. i \in DOMAIN proposals /\ proposals'[i] = proposals[i] /\ Live(proposals[i], time)
      BY <1>5, <1>7, <2>4
    <3>2. latestProposalIds[proposals[i].proposer] = i
      BY <1>1, <3>1 DEF AllLatest
    <3>3. proposals[i].proposer # v
      <4>1. SUFFICES ASSUME proposals[i].proposer = v PROVE FALSE
        OBVIOUS
      <4>2. i # 0
        BY <1>1, <3>1 DEF TypeOK
      <4>3. State(proposals[i]) \notin {"Pending", "Active"}
        BY <3>2, <4>1, <4>2 DEF Propose, LatestSettled
      <4> QED BY <3>1, <4>3 DEF State, Live
    <3> QED BY <1>1, <1>5, <3>1, <3>2, <3>3 DEF TypeOK
  <2> QED BY <2>3, <2>4
<1>11. AllCovered'
  BY <1>1, <1>3, <1>5, <1>7 DEF AllCovered, Proposal
<1> QED BY <1>2, <1>8, <1>9, <1>10, <1>11 DEF IInv

LEMMA CastVoteStep ==
    ASSUME IInv, NEW v \in Voters, NEW id \in DOMAIN proposals, NEW support \in 0 .. 2,
           CastVote(v, id, support)
    PROVE  IInv'
<1> DEFINE p == proposals[id]
           q == WithVote(p, v, support)
<1>1. TypeOK /\ Idle /\ AllSound /\ AllLatest /\ AllCovered /\ QueueOnlyAnnounced
  BY DEF IInv
<1>2. p \in Proposal /\ time \in Nat
  BY <1>1 DEF TypeOK
<1>3. ~ p.canceled /\ p.startBlock < time /\ time <= p.endBlock /\ v \notin p.voted
  BY <1>2 DEF CastVote, State, Proposal
<1>4. /\ q \in Proposal
      /\ VotesAtStart(v, p) \in Nat /\ VotesAtStart(v, p) = power[p.startBlock][v]
      /\ q.startBlock = p.startBlock /\ q.endBlock = p.endBlock
      /\ q.eta = p.eta /\ q.queuedAt = p.queuedAt /\ q.canceled = p.canceled /\ q.executed = p.executed
      /\ q.content = p.content /\ q.type = p.type /\ q.proposer = p.proposer
      /\ q.voted = p.voted \cup {v}
      /\ q.forVotes + q.againstVotes + q.abstainVotes
           = p.forVotes + p.againstVotes + p.abstainVotes + VotesAtStart(v, p)
  <2> HIDE DEF p
  <2> QED BY <1>1, <1>2, <1>3, VoteFields
<1>5. /\ UNCHANGED <<time, initialProposalId, latestProposalIds, power, timelocks, performed, moves>>
      /\ proposals' = [proposals EXCEPT ![id] = q]
  BY DEF CastVote
<1> HIDE DEF q
<1>6. /\ DOMAIN proposals' = DOMAIN proposals /\ proposals'[id] = q
      /\ \A i \in DOMAIN proposals \ {id} : proposals'[i] = proposals[i]
  BY <1>1, <1>5 DEF TypeOK
<1>7. TypeOK' /\ Idle'
  <2>1. timelocks' \in [Timelocks -> TimelockRecord] /\ performed' \in [Timelocks -> Seq(Calls)]
    BY <1>1, <1>5 DEF TypeOK
  <2> QED BY <1>1, <1>4, <1>5, <2>1, ReplacedType
<1>8. SoundAt(p, time)
  BY <1>1 DEF AllSound
<1> HIDE DEF p
<1>9. p.eta = 0
  BY <1>2, <1>3, <1>8 DEF SoundAt, Proposal
<1>10. SoundAt(q, time)
  <2>1. q.content # << >> /\ q.startBlock < q.endBlock /\ q.startBlock < time /\ q.voted # {} /\ q.eta = 0 /\ ~ q.executed
    BY <1>3, <1>4, <1>8, <1>9 DEF SoundAt
  <2> QED BY <2>1 DEF SoundAt
<1>11. AllSound'
  BY <1>1, <1>5, <1>6, <1>10 DEF AllSound
<1>12. AllLatest'
  BY <1>1, <1>4, <1>5, <1>6 DEF AllLatest, Live, p
<1>13. QueueOnlyAnnounced'
  <2>1. \A i \in DOMAIN proposals :
          /\ Route(proposals'[i]) = Route(proposals[i]) /\ Announced(proposals'[i]) = Announced(proposals[i])
          /\ proposals'[i].content = proposals[i].content /\ proposals'[i].eta = proposals[i].eta
    BY <1>4, <1>6 DEF p, Route, Announced
  <2> QED BY <1>1, <1>5, <1>6, <2>1 DEF QueueOnlyAnnounced, Route, Announced
<1>14. AllCovered'
  <2> SUFFICES ASSUME NEW i \in DOMAIN proposals', proposals'[i].startBlock < time'
               PROVE  Covered(proposals'[i], power'[proposals'[i].startBlock])
    BY DEF AllCovered
  <2>1. CASE i # id
    BY <1>1, <1>5, <1>6, <2>1 DEF AllCovered
  <2>2. CASE i = id
    <3> DEFINE votes == power[p.startBlock]
    <3>1. votes \in [Voters -> Nat]
      <4>1. p.startBlock \in 0 .. time
        BY <1>2, <1>3 DEF Proposal
      <4> QED BY <1>1, <4>1 DEF TypeOK
    <3>2. Covered(p, votes)
      BY <1>1, <1>3 DEF AllCovered, p
    <3> HIDE DEF votes
    <3>3. Cast(q) = Cast(p) + votes[v]
      BY <1>4 DEF Cast, votes
    <3>4. Covered(q, votes)
      BY <1>2, <1>3, <1>4, <3>1, <3>2, <3>3, VoteCovered
    <3> QED BY <1>4, <1>5, <1>6, <2>2, <3>4 DEF votes
  <2> QED BY <2>1, <2>2
<1> QED BY <1>7, <1>11, <1>12, <1>13, <1>14 DEF IInv

\* A transaction of a proposal other than id is still backed by its proposal.
LEMMA StillBacked ==
    ASSUME QueueOnlyAnnounced, NEW id \in DOMAIN proposals, NEW t \in Timelocks, NEW tx \in timelocks[t].queued,
           timelocks[t].admin = Governor,
           DOMAIN proposals' = DOMAIN proposals,
           \A i \in DOMAIN proposals \ {id} : proposals'[i] = proposals[i],
           \/ ~ Announced(proposals[id])
           \/ Route(proposals[id]) # t
           \/ tx \notin Transactions(proposals[id].content, proposals[id].eta)
    PROVE  \E i \in DOMAIN proposals' :
             /\ Route(proposals'[i]) = t /\ Announced(proposals'[i])
             /\ tx \in Transactions(proposals'[i].content, proposals'[i].eta)
<1>1. PICK i \in DOMAIN proposals :
        /\ Route(proposals[i]) = t /\ Announced(proposals[i])
        /\ tx \in Transactions(proposals[i].content, proposals[i].eta)
  BY DEF QueueOnlyAnnounced
<1>2. i # id
  BY <1>1
<1> QED BY <1>1, <1>2

LEMMA QueueStep ==
    ASSUME IInv, NEW id \in DOMAIN proposals, Queue(id)
    PROVE  IInv'
<1> DEFINE p == proposals[id]
           t == Route(p)
           eta == time + timelocks[t].delay
           q == WithEta(p, eta)
           r == AfterQueue(timelocks[t], p.content, eta)
<1>1. TypeOK /\ Idle /\ AllSound /\ AllLatest /\ AllCovered /\ QueueOnlyAnnounced
  BY DEF IInv
<1>2. p \in Proposal /\ t \in Timelocks /\ timelocks[t] \in TimelockRecord /\ time \in Nat
  BY <1>1, RouteType DEF TypeOK, Lock
<1>3. /\ ~ p.canceled /\ p.endBlock < time /\ ~ Defeated(p) /\ p.eta = 0
      /\ proposals' = [proposals EXCEPT ![id] = q] /\ timelocks' = [timelocks EXCEPT ![t] = r]
      /\ UNCHANGED <<time, initialProposalId, latestProposalIds, power, performed, moves>>
  BY <1>2 DEF Queue, State, Lock, Proposal
<1>4. eta \in Nat /\ eta >= time + MinimumDelay /\ eta # 0
  <2>1. timelocks[t].delay \in MinimumDelay .. MaximumDelay
    BY <1>2 DEF TimelockRecord
  <2> HIDE DEF t
  <2> QED BY <1>2, <2>1, DelayAssumption
<1> HIDE DEF eta
<1>5. /\ q \in Proposal /\ SameVote(p, q)
      /\ q.eta = eta /\ q.queuedAt = time /\ q.canceled = p.canceled /\ q.executed = p.executed
  <2> HIDE DEF p
  <2> QED BY <1>2, <1>4, QueuedFields
<1>6. /\ r \in TimelockRecord /\ r.admin = timelocks[t].admin
      /\ r.queued = timelocks[t].queued \cup Transactions(p.content, eta)
  <2>1. p.content \in Seq(Calls)
    BY <1>2 DEF Proposal
  <2> HIDE DEF p, t
  <2> QED BY <1>2, <1>4, <2>1, AfterQueueType
<1> HIDE DEF q, r
<1>7. /\ timelocks' \in [Timelocks -> TimelockRecord] /\ timelocks'[t] = r
      /\ \A u \in Timelocks \ {t} : timelocks'[u] = timelocks[u]
  <2> HIDE DEF t
  <2> QED BY <1>1, <1>2, <1>3, <1>6, TimelockReplaced
<1>8. TypeOK' /\ Idle'
  <2>1. performed' \in [Timelocks -> Seq(Calls)]
    BY <1>1, <1>3 DEF TypeOK
  <2> QED BY <1>1, <1>3, <1>5, <1>7, <2>1, ReplacedType
<1>9. SoundAt(p, time)
  BY <1>1 DEF AllSound
<1>10. SoundAt(q, time)
  <2> HIDE DEF p
  <2> QED BY <1>3, <1>4, <1>5, <1>9 DEF SoundAt, SameVote, Defeated
<1>11. AllSound' /\ AllLatest' /\ AllCovered'
  BY <1>1, <1>3, <1>5, <1>10, ReplacedKeeps
<1>12. /\ DOMAIN proposals' = DOMAIN proposals /\ proposals'[id] = q
       /\ \A i \in DOMAIN proposals \ {id} : proposals'[i] = proposals[i]
  BY <1>1, <1>3 DEF TypeOK
<1>13. ~ p.executed
  BY <1>3, <1>9 DEF SoundAt
<1>14. QueueOnlyAnnounced'
  <2> SUFFICES ASSUME NEW u \in Timelocks, NEW tx \in timelocks'[u].queued, timelocks'[u].admin = Governor
               PROVE  \E i \in DOMAIN proposals' :
                        /\ Route(proposals'[i]) = u /\ Announced(proposals'[i])
                        /\ tx \in Transactions(proposals'[i].content, proposals'[i].eta)
    BY DEF QueueOnlyAnnounced, Route
  <2>1. CASE tx \in timelocks[u].queued
    <3>1. ~ Announced(p)
      BY <1>3 DEF Announced
    <3>2. timelocks[u].admin = Governor
      BY <1>6, <1>7
    <3> QED BY <1>1, <1>12, <2>1, <3>1, <3>2, StillBacked
  <2>2. CASE tx \notin timelocks[u].queued
    <3>1. u = t /\ tx \in Transactions(p.content, eta)
      BY <1>6, <1>7, <2>2
    <3>2. Route(q) = t /\ Announced(q) /\ tx \in Transactions(q.content, q.eta)
      BY <1>3, <1>4, <1>5, <1>13, <3>1 DEF Route, Announced, SameVote
    <3> QED BY <1>12, <3>1, <3>2
  <2> QED BY <2>1, <2>2
<1> QED BY <1>8, <1>11, <1>14 DEF IInv

\* Execution and cancellation take the proposal's transactions out of the queue.
LEMMA SettledStep ==
    ASSUME IInv, NEW id \in DOMAIN proposals, NEW q \in Proposal,
           SameVote(proposals[id], q), q.eta = proposals[id].eta, q.queuedAt = proposals[id].queuedAt,
           proposals[id].canceled => q.canceled, q.executed => q.eta # 0,
           NEW r \in TimelockRecord, Lock(proposals[id]).admin = Governor,
           r.queued = Lock(proposals[id]).queued \ Transactions(proposals[id].content, proposals[id].eta),
           proposals' = [proposals EXCEPT ![id] = q],
           timelocks' = [timelocks EXCEPT ![Route(proposals[id])] = r],
           performed' \in [Timelocks -> Seq(Calls)],
           UNCHANGED <<time, initialProposalId, latestProposalIds, power, moves>>
    PROVE  IInv'
<1> DEFINE p == proposals[id]
           t == Route(p)
<1>1. TypeOK /\ Idle /\ AllSound /\ AllLatest /\ AllCovered /\ QueueOnlyAnnounced
  BY DEF IInv
<1>2. p \in Proposal /\ t \in Timelocks
  BY <1>1, RouteType
<1>3. /\ timelocks' \in [Timelocks -> TimelockRecord] /\ timelocks'[t] = r
      /\ \A u \in Timelocks \ {t} : timelocks'[u] = timelocks[u]
  <2> HIDE DEF t
  <2>1. timelocks' = [timelocks EXCEPT ![t] = r]
    BY DEF t
  <2> QED BY <1>1, <1>2, <2>1, TimelockReplaced
<1>4. TypeOK' /\ Idle'
  BY <1>1, <1>3, ReplacedType
<1>5. SoundAt(p, time)
  BY <1>1 DEF AllSound
<1>6. SoundAt(q, time)
  <2>1. SameVote(p, q) /\ q.eta = p.eta /\ q.queuedAt = p.queuedAt /\ (q.executed => q.eta # 0)
    OBVIOUS
  <2> HIDE DEF p
  <2> QED BY <1>5, <2>1 DEF SoundAt, SameVote, Defeated
<1>7. AllSound' /\ AllLatest' /\ AllCovered'
  BY <1>1, <1>6, ReplacedKeeps
<1>8. /\ DOMAIN proposals' = DOMAIN proposals
      /\ \A i \in DOMAIN proposals \ {id} : proposals'[i] = proposals[i]
  BY <1>1 DEF TypeOK
<1>9. QueueOnlyAnnounced'
  <2> SUFFICES ASSUME NEW u \in Timelocks, NEW tx \in timelocks'[u].queued, timelocks'[u].admin = Governor
               PROVE  \E i \in DOMAIN proposals' :
                        /\ Route(proposals'[i]) = u /\ Announced(proposals'[i])
                        /\ tx \in Transactions(proposals'[i].content, proposals'[i].eta)
    BY DEF QueueOnlyAnnounced, Route
  <2>1. tx \in timelocks[u].queued
    BY <1>3 DEF Lock
  <2>2. t # u \/ tx \notin Transactions(p.content, p.eta)
    BY <1>3
  <2>3. timelocks[u].admin = Governor
    BY <1>3 DEF Lock
  <2> QED BY <1>1, <1>8, <2>1, <2>2, <2>3, StillBacked
<1> QED BY <1>4, <1>7, <1>9 DEF IInv

LEMMA ExecuteStep ==
    ASSUME IInv, NEW id \in DOMAIN proposals, Execute(id)
    PROVE  IInv'
<1> DEFINE p == proposals[id]
           q == [p EXCEPT !.executed = TRUE]
           r == AfterExecute(Lock(p), p.content, p.eta)
<1>1. TypeOK /\ p \in Proposal /\ Route(p) \in Timelocks /\ Lock(p) \in TimelockRecord
  BY RouteType DEF IInv
<1>2. p.eta # 0 /\ MayExecute(Lock(p), p.content, p.eta, time)
  BY DEF Execute, State
<1>3. p.content \in Seq(Calls)
  BY <1>1 DEF Proposal
<1>4. r \in TimelockRecord /\ r.queued = Lock(p).queued \ Transactions(p.content, p.eta)
  <2> HIDE DEF p
  <2> QED BY <1>1, <1>2, <1>3, AfterExecuteType
<1>5. /\ q \in Proposal /\ SameVote(p, q)
      /\ q.eta = p.eta /\ q.queuedAt = p.queuedAt /\ q.canceled = p.canceled /\ q.executed
  <2> HIDE DEF p
  <2> QED BY <1>1, FlagFields
<1>6. /\ proposals' = [proposals EXCEPT ![id] = q] /\ timelocks' = [timelocks EXCEPT ![Route(p)] = r]
      /\ UNCHANGED <<time, initialProposalId, latestProposalIds, power, moves>>
  BY DEF Execute, Lock
<1>7. performed' \in [Timelocks -> Seq(Calls)]
  BY <1>1, <1>3, PerformedMore DEF Execute
<1>8. Lock(p).admin = Governor
  BY DEF Execute
<1> HIDE DEF q, r
<1> QED BY <1>2, <1>4, <1>5, <1>6, <1>7, <1>8, SettledStep

LEMMA CancelStep ==
    ASSUME IInv, NEW id \in DOMAIN proposals, NEW who, Cancel(id, who)
    PROVE  IInv'
<1> DEFINE p == proposals[id]
           q == [p EXCEPT !.canceled = TRUE]
           r == AfterCancel(Lock(p), p.content, p.eta)
<1>1. TypeOK /\ p \in Proposal /\ Route(p) \in Timelocks /\ Lock(p) \in TimelockRecord
  BY RouteType DEF IInv
<1>2. r \in TimelockRecord /\ r.queued = Lock(p).queued \ Transactions(p.content, p.eta)
  <2> HIDE DEF p
  <2> QED BY <1>1, AfterCancelType
<1>3. /\ q \in Proposal /\ SameVote(p, q)
      /\ q.eta = p.eta /\ q.queuedAt = p.queuedAt /\ q.canceled /\ q.executed = p.executed
  <2> HIDE DEF p
  <2> QED BY <1>1, FlagFields
<1>4. /\ proposals' = [proposals EXCEPT ![id] = q] /\ timelocks' = [timelocks EXCEPT ![Route(p)] = r]
      /\ UNCHANGED <<time, initialProposalId, latestProposalIds, power, moves>>
  BY DEF Cancel, Lock
<1>5. performed' \in [Timelocks -> Seq(Calls)]
  BY <1>1 DEF Cancel, TypeOK
<1>6. p.executed => p.eta # 0
  BY DEF IInv, AllSound, SoundAt
<1>7. Lock(p).admin = Governor
  BY DEF Cancel
<1> HIDE DEF q, r
<1> QED BY <1>2, <1>3, <1>4, <1>5, <1>6, <1>7, SettledStep

LEMMA DelegateStep ==
    ASSUME IInv, NEW from \in Voters, NEW to \in Voters, Delegate(from, to)
    PROVE  IInv'
<1> DEFINE now == power[time]
           moved == Moved(now, from, to)
<1>1. TypeOK /\ Idle /\ AllSound /\ AllLatest /\ AllCovered /\ QueueOnlyAnnounced
  BY DEF IInv
<1>2. time \in Nat /\ power \in [0 .. time -> [Voters -> Nat]] /\ now \in [Voters -> Nat]
  BY <1>1 DEF TypeOK
<1>3. /\ UNCHANGED <<time, initialProposalId, proposals, latestProposalIds, timelocks, performed>>
      /\ moves < MaxMoves /\ moves' = moves + 1 /\ from # to
  BY DEF Delegate
<1>4. power' = [power EXCEPT ![time] = moved]
  BY DEF Delegate
<1>5. moved \in [Voters -> Nat]
  <2> DEFINE n == now[to] + now[from]
  <2>1. n \in Nat
    <3> HIDE DEF now
    <3>1. now[to] \in Nat /\ now[from] \in Nat
      BY <1>2
    <3> QED BY <3>1
  <2>2. moved = [now EXCEPT ![from] = 0, ![to] = n]
    BY DEF Moved
  <2> HIDE DEF now, n, moved
  <2> QED BY <1>2, <2>1, <2>2
<1> HIDE DEF moved
<1>6. /\ power' \in [0 .. time -> [Voters -> Nat]]
      /\ \A b \in 0 .. time : b # time => power'[b] = power[b]
  BY <1>2, <1>4, <1>5
<1>7. TypeOK' /\ Idle'
  <2>1. moves' \in 0 .. MaxMoves
    BY <1>1, <1>3, BoundsAssumption DEF TypeOK
  <2> QED BY <1>1, <1>3, <1>6, <2>1 DEF TypeOK, Idle, ProposalCount
<1>8. AllSound' /\ AllLatest' /\ QueueOnlyAnnounced'
  BY <1>1, <1>3 DEF AllSound, AllLatest, QueueOnlyAnnounced, Route
<1>9. AllCovered'
  <2> SUFFICES ASSUME NEW i \in DOMAIN proposals, proposals[i].startBlock < time
               PROVE  power'[proposals[i].startBlock] = power[proposals[i].startBlock]
    BY <1>1, <1>3 DEF AllCovered
  <2>1. proposals[i].startBlock \in Nat
    BY <1>1 DEF TypeOK, Proposal
  <2> QED BY <1>2, <1>6, <2>1
<1> QED BY <1>7, <1>8, <1>9 DEF IInv

LEMMA TickStep ==
    ASSUME IInv, Tick
    PROVE  IInv'
<1>1. TypeOK /\ Idle /\ AllSound /\ AllLatest /\ AllCovered /\ QueueOnlyAnnounced
  BY DEF IInv
<1>2. /\ time \in Nat /\ time' = time + 1
      /\ UNCHANGED <<initialProposalId, proposals, latestProposalIds, timelocks, performed, moves>>
      /\ power' = [b \in 0 .. time + 1 |-> IF b = time + 1 THEN power[time] ELSE power[b]]
      /\ power \in [0 .. time -> [Voters -> Nat]]
  BY <1>1 DEF Tick, TypeOK
<1>3. /\ power' \in [0 .. time + 1 -> [Voters -> Nat]]
      /\ \A b \in 0 .. time : power'[b] = power[b]
  BY <1>2
<1>4. TypeOK' /\ Idle'
  BY <1>1, <1>2, <1>3 DEF TypeOK, Idle, ProposalCount
<1>5. AllSound'
  <2> SUFFICES ASSUME NEW i \in DOMAIN proposals PROVE SoundAt(proposals[i], time + 1)
    BY <1>2 DEF AllSound
  <2> DEFINE p == proposals[i]
  <2>1. p \in Proposal /\ SoundAt(p, time)
    BY <1>1 DEF TypeOK, AllSound
  <2> HIDE DEF p
  <2>2. SoundAt(p, time + 1)
    BY <1>2, <2>1, SoundLater
  <2> QED BY <2>2 DEF p
<1>6. AllLatest'
  <2> SUFFICES ASSUME NEW i \in DOMAIN proposals, Live(proposals[i], time + 1)
               PROVE  latestProposalIds[proposals[i].proposer] = i
    BY <1>2 DEF AllLatest
  <2>1. proposals[i].endBlock \in Nat
    BY <1>1 DEF TypeOK, Proposal
  <2>2. Live(proposals[i], time)
    BY <1>2, <2>1 DEF Live
  <2> QED BY <1>1, <2>2 DEF AllLatest
<1>7. QueueOnlyAnnounced'
  BY <1>1, <1>2 DEF QueueOnlyAnnounced, Route
<1>8. AllCovered'
  <2> SUFFICES ASSUME NEW i \in DOMAIN proposals, proposals[i].startBlock < time + 1
               PROVE  Covered(proposals[i], power'[proposals[i].startBlock])
    BY <1>2 DEF AllCovered
  <2> DEFINE p == proposals[i]
  <2>1. p \in Proposal /\ SoundAt(p, time)
    BY <1>1 DEF TypeOK, AllSound
  <2>2. p.startBlock \in 0 .. time
    BY <1>2, <2>1 DEF Proposal
  <2>3. power'[p.startBlock] = power[p.startBlock] /\ power[p.startBlock] \in [Voters -> Nat]
    BY <1>2, <1>3, <2>2
  <2>4. CASE p.startBlock < time
    BY <1>1, <2>3, <2>4 DEF AllCovered
  <2>5. CASE p.startBlock = time
    <3> DEFINE votes == power[p.startBlock]
    <3>1. p.voted = {} /\ Cast(p) = 0
      BY <1>2, <2>1, <2>5 DEF SoundAt, Cast
    <3>2. Uncast(p, votes) = votes
      BY <2>3, <3>1 DEF Uncast
    <3>3. votes \in [1 .. VoterCount -> Nat] /\ VoterCount \in Nat
      BY <2>3, VotersAssumption DEF Voters
    <3> HIDE DEF votes
    <3>4. Total(votes, VoterCount) \in Nat
      BY <3>3, TotalNat
    <3>5. Covered(p, votes)
      BY <3>1, <3>2, <3>4 DEF Covered
    <3> QED BY <2>3, <3>5 DEF votes
  <2>6. p.startBlock < time \/ p.startBlock = time
    BY <1>2, <2>2
  <2> QED BY <2>4, <2>5, <2>6
<1> QED BY <1>4, <1>5, <1>6, <1>7, <1>8 DEF IInv

LEMMA InitIInv == Init => IInv
<1> SUFFICES ASSUME Init PROVE IInv
  OBVIOUS
<1>1. DOMAIN proposals = {} /\ proposals = [id \in {} |-> 0] /\ initialProposalId = 0 /\ time = 0 /\ moves = 0
  BY DEF Init
<1>2. ProposalCount = 0 /\ IsFiniteSet(DOMAIN proposals)
  BY <1>1, FS_EmptySet DEF ProposalCount
<1>3. NewTimelock(FirstAdmin, FirstDelay) \in TimelockRecord /\ NewTimelock(FirstAdmin, FirstDelay).queued = {}
  BY TimelocksAssumption DEF NewTimelock, TimelockRecord
<1>4. TypeOK
  <2>1. DOMAIN proposals = initialProposalId + 1 .. ProposalCount
    BY <1>1, <1>2
  <2>2. power \in [0 .. time -> [Voters -> Nat]]
    BY <1>1, VotersAssumption DEF Init
  <2>3. timelocks \in [Timelocks -> TimelockRecord] /\ performed \in [Timelocks -> Seq(Calls)]
    BY <1>3 DEF Init
  <2>4. latestProposalIds \in [Voters -> DOMAIN proposals \cup {0}] /\ proposals \in [DOMAIN proposals -> Proposal]
    BY <1>1 DEF Init
  <2>5. moves \in 0 .. MaxMoves
    BY <1>1, BoundsAssumption
  <2> QED BY <1>1, <1>2, <2>1, <2>2, <2>3, <2>4, <2>5 DEF TypeOK
<1>5. QueueOnlyAnnounced
  BY <1>3 DEF Init, QueueOnlyAnnounced
<1> QED BY <1>1, <1>4, <1>5 DEF IInv, Idle, AllSound, AllLatest, AllCovered

LEMMA NextIInv == IInv /\ [Next]_vars => IInv'
<1> SUFFICES ASSUME IInv, [Next]_vars PROVE IInv'
  OBVIOUS
<1>1. CASE \E n \in AlphaCounts : Initiate(n)
  BY <1>1, InitiateStep
<1>2. CASE \E v \in Voters, type \in ProposalTypes : \E content \in Drafts[type] : Propose(v, type, content)
  BY <1>2, ProposeStep
<1>3. ASSUME NEW id \in DOMAIN proposals,
             \/ \E v \in Voters, support \in 0 .. 2 : CastVote(v, id, support)
             \/ Queue(id) \/ Execute(id)
             \/ \E who \in Voters \cup {Guardian} : Cancel(id, who)
      PROVE  IInv'
  BY <1>3, CastVoteStep, QueueStep, ExecuteStep, CancelStep
<1>4. ASSUME NEW t \in Timelocks,
             \/ \E account \in {Governor, Successor} : SetPendingAdmin(t, account)
             \/ AcceptAdmin(t)
             \/ \E call \in Calls, eta \in 0 .. MaxEta : QueueTransaction(t, call, eta)
             \/ \E tx \in timelocks[t].queued : CancelTransaction(t, tx) \/ ExecuteTransaction(t, tx)
      PROVE  IInv'
  BY <1>4, SetPendingAdminStep, AcceptAdminStep, QueueTransactionStep, CancelTransactionStep, ExecuteTransactionStep
<1>5. CASE \E from, to \in Voters : Delegate(from, to)
  BY <1>5, DelegateStep
<1>6. CASE Tick
  BY <1>6, TickStep
<1>7. CASE UNCHANGED vars
  BY <1>7 DEF vars, IInv, TypeOK, Idle, AllSound, AllLatest, AllCovered, QueueOnlyAnnounced, ProposalCount, Route
<1> QED BY <1>1, <1>2, <1>3, <1>4, <1>5, <1>6, <1>7 DEF Next

-----------------------------------------------------------------------------
(* The invariants *)

\* The invariant holds for any voters, stakes, types, timelocks, delays and calls.
LEMMA SpecIInv == Spec => []IInv
BY InitIInv, NextIInv, PTL DEF Spec

\* Ids have no gaps, delays stay in their bounds, and everything has its type.
THEOREM SpecTypeOK == Spec => []TypeOK
<1>1. IInv => TypeOK
  BY DEF IInv
<1> QED BY <1>1, SpecIInv, PTL

\* While the governor is its admin, a timelock's queue holds transactions of
\* announced proposals only, whatever other admins queue in the timelocks they have.
THEOREM SpecQueueOnlyAnnounced == Spec => []QueueOnlyAnnounced
<1>1. IInv => QueueOnlyAnnounced
  BY DEF IInv
<1> QED BY <1>1, SpecIInv, PTL

\* Votes counted are covered by the stake there was when the vote began.
THEOREM SpecNoStakeCountedTwice == Spec => []NoStakeCountedTwice
<1>1. ASSUME IInv PROVE NoStakeCountedTwice
  <2> SUFFICES ASSUME NEW id \in DOMAIN proposals, proposals[id].voted # {}
               PROVE  Cast(proposals[id]) <= Total(power[proposals[id].startBlock], VoterCount)
    BY DEF NoStakeCountedTwice, Cast
  <2> DEFINE p == proposals[id]
             votes == power[p.startBlock]
  <2>1. p \in Proposal /\ p.startBlock < time /\ time \in Nat
    BY <1>1 DEF IInv, TypeOK, AllSound, SoundAt
  <2>2. p.startBlock \in 0 .. time
    BY <2>1 DEF Proposal
  <2>3. votes \in [Voters -> Nat] /\ Covered(p, votes)
    BY <1>1, <2>1, <2>2 DEF IInv, TypeOK, AllCovered
  <2>4. Uncast(p, votes) \in [1 .. VoterCount -> Nat] /\ VoterCount \in Nat
    <3> HIDE DEF votes
    <3> QED BY <2>3, VotersAssumption DEF Uncast, Voters
  <2>5. Total(Uncast(p, votes), VoterCount) \in Nat
    <3> DEFINE f == Uncast(p, votes)
    <3> HIDE DEF f
    <3>1. Total(f, VoterCount) \in Nat
      BY <2>4, TotalNat DEF f
    <3> QED BY <3>1 DEF f
  <2>6. Cast(p) \in Nat
    BY <2>1 DEF Cast, Proposal
  <2> QED BY <2>3, <2>5, <2>6 DEF Covered
<1> QED BY <1>1, SpecIInv, PTL

\* No proposer has two proposals waiting for the vote or in it.
THEOREM SpecOneLiveProposal == Spec => []OneLiveProposal
<1>1. ASSUME IInv PROVE OneLiveProposal
  <2>1. ASSUME NEW id \in DOMAIN proposals, Status[id] \in {"Pending", "Active"}
        PROVE  latestProposalIds[proposals[id].proposer] = id
    <3>1. proposals[id] \in Proposal /\ SoundAt(proposals[id], time) /\ time \in Nat
      BY <1>1 DEF IInv, TypeOK, AllSound
    <3>2. Live(proposals[id], time)
      BY <2>1, <3>1 DEF Status, State, Live, SoundAt, Proposal
    <3> QED BY <1>1, <3>2 DEF IInv, AllLatest
  <2> QED BY <2>1 DEF OneLiveProposal
<1> QED BY <1>1, SpecIInv, PTL

-----------------------------------------------------------------------------
(* The governor keeps what governance promises *)

\* What the abstract specification sees, unchanged.
LEMMA Stutter ==
    ASSUME UNCHANGED <<time, performed>>, DOMAIN proposals' = DOMAIN proposals,
           \A i \in DOMAIN proposals :
             /\ State(proposals[i])' = State(proposals[i])
             /\ proposals'[i].content = proposals[i].content /\ proposals'[i].type = proposals[i].type
             /\ proposals'[i].queuedAt = proposals[i].queuedAt,
           \A t \in Timelocks : timelocks'[t].admin = timelocks[t].admin
    PROVE  UNCHANGED Promised!vars
<1>1. Status' = Status
  BY DEF Status
<1>2. UNCHANGED <<[id \in DOMAIN proposals |-> proposals[id].content],
                  [id \in DOMAIN proposals |-> Route(proposals[id])],
                  [id \in DOMAIN proposals |-> proposals[id].queuedAt]>>
  BY DEF Route
<1>3. [t \in Timelocks |-> timelocks[t].admin = Governor]' = [t \in Timelocks |-> timelocks[t].admin = Governor]
  OBVIOUS
<1> QED BY <1>1, <1>2, <1>3 DEF Promised!vars

LEMMA InitPromised == Init => Promised!Init
<1> SUFFICES ASSUME Init PROVE Promised!Init
  OBVIOUS
<1>1. DOMAIN proposals = {} /\ time \in Nat /\ performed = [t \in Timelocks |-> << >>]
  BY DEF Init
<1>2. [t \in Timelocks |-> timelocks[t].admin = Governor] \in [Timelocks -> BOOLEAN]
  OBVIOUS
<1>3. DOMAIN Status = {}
  BY <1>1 DEF Status
<1> QED BY <1>1, <1>2, <1>3 DEF Promised!Init

\* Proposals, time and timelocks' admins stay: what happened is no step of governance.
LEMMA QuietPromised ==
    ASSUME IInv, UNCHANGED <<time, proposals, performed>>,
           \A t \in Timelocks : timelocks'[t].admin = timelocks[t].admin
    PROVE  UNCHANGED Promised!vars
<1>1. \A i \in DOMAIN proposals : State(proposals[i])' = State(proposals[i])
  BY DEF State
<1> QED BY <1>1, Stutter

LEMMA CastVotePromised ==
    ASSUME IInv, NEW v \in Voters, NEW id \in DOMAIN proposals, NEW support \in 0 .. 2,
           CastVote(v, id, support)
    PROVE  UNCHANGED Promised!vars
<1> DEFINE p == proposals[id]
           q == WithVote(p, v, support)
<1>1. TypeOK /\ p \in Proposal /\ time \in Nat
  BY DEF IInv, TypeOK
<1>2. ~ p.canceled /\ p.startBlock < time /\ time <= p.endBlock
  BY <1>1 DEF CastVote, State, Proposal
<1>3. /\ q.startBlock = p.startBlock /\ q.endBlock = p.endBlock /\ q.canceled = p.canceled
      /\ q.queuedAt = p.queuedAt /\ q.content = p.content /\ q.type = p.type
  <2> HIDE DEF p
  <2> QED BY <1>1, <1>2, VoteFields
<1>4. /\ UNCHANGED <<time, timelocks, performed>>
      /\ proposals' = [proposals EXCEPT ![id] = q]
  BY DEF CastVote
<1> HIDE DEF q
<1>5. /\ DOMAIN proposals' = DOMAIN proposals /\ proposals'[id] = q
      /\ \A i \in DOMAIN proposals \ {id} : proposals'[i] = proposals[i]
  BY <1>1, <1>4 DEF TypeOK
<1>6. State(p)' = State(p)
  <2>1. State(p) = "Active"
    BY DEF CastVote
  <2>2. State(p)' = "Active"
    BY <1>1, <1>2, <1>3, <1>4, <1>5 DEF State, Proposal
  <2> QED BY <2>1, <2>2
<1>7. \A i \in DOMAIN proposals : State(proposals[i])' = State(proposals[i])
  BY <1>4, <1>5, <1>6 DEF State
<1> QED BY <1>3, <1>4, <1>5, <1>7, Stutter

LEMMA ProposePromised ==
    ASSUME IInv, NEW v \in Voters, NEW type \in ProposalTypes, NEW content \in Drafts[type],
           Propose(v, type, content)
    PROVE  Promised!Next
<1>1. PICK id : id = ProposalCount + 1
  OBVIOUS
<1> DEFINE q == NewProposal(v, type, content)
<1>2. TypeOK /\ time \in Nat
  BY DEF IInv, TypeOK
<1>3. q \in Proposal /\ q.startBlock > time
  BY <1>2, NewFields
<1>4. q.content = content /\ ~ q.canceled /\ q.type = type
  BY DEF NewProposal
<1>5. /\ UNCHANGED <<time, timelocks, performed>>
      /\ proposals' = [i \in DOMAIN proposals \cup {id} |-> IF i = id THEN q ELSE proposals[i]]
  BY <1>1 DEF Propose
<1>6. id \notin DOMAIN proposals
  BY <1>1, <1>2, CountedDomain
<1> HIDE DEF q
<1>7. /\ DOMAIN proposals' = DOMAIN proposals \cup {id} /\ proposals'[id] = q
      /\ \A i \in DOMAIN proposals : proposals'[i] = proposals[i]
  BY <1>5, <1>6
<1>8. /\ DOMAIN Status = DOMAIN proposals /\ DOMAIN Status' = DOMAIN proposals \cup {id}
      /\ Status'[id] = "Pending"
      /\ \A i \in DOMAIN proposals : Status'[i] = Status[i]
  <2>1. State(proposals[id])' = "Pending"
    BY <1>2, <1>3, <1>4, <1>5, <1>7 DEF State, Proposal
  <2>2. \A i \in DOMAIN proposals : State(proposals[i])' = State(proposals[i])
    BY <1>5, <1>7 DEF State
  <2> QED BY <1>7, <2>1, <2>2 DEF Status
<1>9. content \in UNION {Drafts[y] : y \in ProposalTypes} /\ TimelockOf[type] \in Timelocks
  BY RoutesAssumption
<1>10. Promised!Propose(id)
  BY <1>4, <1>5, <1>6, <1>7, <1>8, <1>9 DEF Promised!Propose, Promised!Extends, Route
<1> QED BY <1>8, <1>10 DEF Promised!Next

\* A proposal whose transactions a timelock would cancel or execute was queued.
LEMMA WasQueued ==
    ASSUME IInv, NEW id \in DOMAIN proposals, Lock(proposals[id]).admin = Governor,
           MayCancel(Lock(proposals[id]), proposals[id].content, proposals[id].eta)
    PROVE  proposals[id].eta # 0
<1> DEFINE p == proposals[id]
           t == Route(p)
           tx == <<p.content[1], p.eta>>
<1>1. p \in Proposal /\ t \in Timelocks /\ SoundAt(p, time)
  BY RouteType DEF IInv, AllSound
<1>2. p.content \in Seq(Calls) /\ p.content # << >>
  BY <1>1 DEF Proposal, SoundAt
<1>3. 1 \in DOMAIN p.content
  <2> HIDE DEF p
  <2> QED BY <1>2
<1>4. tx \in Transactions(p.content, p.eta)
  BY <1>3 DEF Transactions
<1>5. tx \in timelocks[t].queued
  BY <1>4 DEF MayCancel, Lock
<1>6. PICK i \in DOMAIN proposals :
        Announced(proposals[i]) /\ tx \in Transactions(proposals[i].content, proposals[i].eta)
  BY <1>1, <1>5 DEF IInv, QueueOnlyAnnounced, Lock
<1>7. p.eta = proposals[i].eta
  BY <1>6 DEF Transactions
<1> QED BY <1>6, <1>7 DEF Announced

\* A step that moves one proposal to another status and keeps the timelocks' admins.
LEMMA OneMoved ==
    ASSUME IInv, NEW id \in DOMAIN proposals, NEW q \in Proposal, SameVote(proposals[id], q),
           proposals' = [proposals EXCEPT ![id] = q], time' = time,
           \A u \in Timelocks : timelocks'[u].admin = timelocks[u].admin
    PROVE  /\ Status' = [Status EXCEPT ![id] = State(q)']
           /\ DOMAIN Status = DOMAIN proposals
           /\ UNCHANGED <<[i \in DOMAIN proposals |-> proposals[i].content],
                          [i \in DOMAIN proposals |-> Route(proposals[i])],
                          [u \in Timelocks |-> timelocks[u].admin = Governor]>>
           /\ [i \in DOMAIN proposals |-> proposals[i].queuedAt]'
                = [[i \in DOMAIN proposals |-> proposals[i].queuedAt] EXCEPT ![id] = q.queuedAt]
<1>1. /\ DOMAIN proposals' = DOMAIN proposals /\ proposals'[id] = q
      /\ \A i \in DOMAIN proposals \ {id} : proposals'[i] = proposals[i]
  BY DEF IInv, TypeOK
<1>2. State(proposals[id])' = State(q)' /\ \A i \in DOMAIN proposals \ {id} : State(proposals[i])' = State(proposals[i])
  BY <1>1 DEF State
<1>3. Status' = [Status EXCEPT ![id] = State(q)']
  BY <1>1, <1>2 DEF Status
<1>4. UNCHANGED <<[i \in DOMAIN proposals |-> proposals[i].content],
                  [i \in DOMAIN proposals |-> Route(proposals[i])]>>
  BY <1>1 DEF SameVote, Route
<1>5. [i \in DOMAIN proposals |-> proposals[i].queuedAt]'
        = [[i \in DOMAIN proposals |-> proposals[i].queuedAt] EXCEPT ![id] = q.queuedAt]
  BY <1>1
<1>6. [u \in Timelocks |-> timelocks[u].admin = Governor]' = [u \in Timelocks |-> timelocks[u].admin = Governor]
  OBVIOUS
<1> QED BY <1>3, <1>4, <1>5, <1>6 DEF Status

LEMMA QueuePromised ==
    ASSUME IInv, NEW id \in DOMAIN proposals, Queue(id)
    PROVE  Promised!Next
<1> DEFINE p == proposals[id]
           t == Route(p)
           r == AfterQueue(timelocks[t], p.content, time + timelocks[t].delay)
<1>1. p \in Proposal /\ t \in Timelocks /\ timelocks[t] \in TimelockRecord /\ time \in Nat /\ TypeOK
  BY RouteType DEF IInv, TypeOK, Lock
<1>2. timelocks[t].delay \in Nat /\ timelocks[t].delay # 0
  <2>1. timelocks[t].delay \in MinimumDelay .. MaximumDelay
    BY <1>1 DEF TimelockRecord
  <2> HIDE DEF t
  <2> QED BY <2>1, DelayAssumption
<1>3. PICK eta \in Nat : eta = time + timelocks[t].delay
  BY <1>1, <1>2
<1>4. PICK q : q = WithEta(p, eta)
  OBVIOUS
<1>5. /\ q \in Proposal /\ SameVote(p, q)
      /\ q.eta = eta /\ q.queuedAt = time /\ q.canceled = p.canceled /\ q.executed = p.executed
  <2> HIDE DEF p
  <2> QED BY <1>1, <1>4, QueuedFields
<1>6. /\ State(p) = "Succeeded" /\ timelocks[t].admin = Governor
      /\ ~ p.canceled /\ p.endBlock < time /\ p.startBlock < time /\ ~ Defeated(p) /\ p.eta = 0
      /\ UNCHANGED <<time, performed>>
      /\ timelocks' = [timelocks EXCEPT ![t] = r]
  BY <1>1 DEF Queue, State, Lock, Proposal
<1>7. proposals' = [proposals EXCEPT ![id] = q]
  BY <1>3, <1>4 DEF Queue, Lock
<1>8. r.admin = timelocks[t].admin
  <2>1. p.content \in Seq(Calls)
    BY <1>1 DEF Proposal
  <2> HIDE DEF p, t
  <2> QED BY <1>1, <1>3, <2>1, AfterQueueType, ZenonT(60)
<1>9. \A u \in Timelocks : timelocks'[u].admin = timelocks[u].admin
  <2> HIDE DEF r, t
  <2> QED BY <1>1, <1>6, <1>8 DEF TypeOK
<1>10. State(q)' = "Queued"
  <2>1. ~ p.executed
    BY <1>6 DEF IInv, AllSound, SoundAt
  <2>2. eta # 0 /\ ~ (time >= eta + GracePeriod)
    BY <1>1, <1>2, <1>3, DelayAssumption
  <2> HIDE DEF p
  <2>3. ~ q.canceled /\ q.endBlock < time /\ q.startBlock < time /\ ~ Defeated(q) /\ q.eta = eta /\ ~ q.executed
    BY <1>5, <1>6, <2>1 DEF SameVote, Defeated
  <2> QED BY <1>1, <1>5, <1>6, <2>2, <2>3, SMTT(40) DEF State, Proposal
<1>11. /\ Status' = [Status EXCEPT ![id] = "Queued"]
       /\ DOMAIN Status = DOMAIN proposals
       /\ UNCHANGED <<[i \in DOMAIN proposals |-> proposals[i].content],
                      [i \in DOMAIN proposals |-> Route(proposals[i])],
                      [u \in Timelocks |-> timelocks[u].admin = Governor]>>
       /\ [i \in DOMAIN proposals |-> proposals[i].queuedAt]'
            = [[i \in DOMAIN proposals |-> proposals[i].queuedAt] EXCEPT ![id] = time]
  <2>1. /\ Status' = [Status EXCEPT ![id] = State(q)']
        /\ DOMAIN Status = DOMAIN proposals
        /\ UNCHANGED <<[i \in DOMAIN proposals |-> proposals[i].content],
                       [i \in DOMAIN proposals |-> Route(proposals[i])],
                       [u \in Timelocks |-> timelocks[u].admin = Governor]>>
        /\ [i \in DOMAIN proposals |-> proposals[i].queuedAt]'
             = [[i \in DOMAIN proposals |-> proposals[i].queuedAt] EXCEPT ![id] = q.queuedAt]
    BY ONLY IInv, id \in DOMAIN proposals, <1>5, <1>6, <1>7, <1>9, OneMoved, Zenon
  <2> QED BY <1>5, <1>10, <2>1
<1>12. Status[id] = "Succeeded"
  BY <1>6 DEF Status
<1>13. Promised!Announce(id)
  BY <1>1, <1>6, <1>11, <1>12 DEF Promised!Announce, Promised!Moves
<1> QED BY <1>11, <1>13 DEF Promised!Next

LEMMA ExecutePromised ==
    ASSUME IInv, NEW id \in DOMAIN proposals, Execute(id)
    PROVE  Promised!Next
<1> DEFINE p == proposals[id]
           t == Route(p)
           r == AfterExecute(timelocks[t], p.content, p.eta)
<1>1. p \in Proposal /\ t \in Timelocks /\ timelocks[t] \in TimelockRecord /\ time \in Nat /\ TypeOK
  BY RouteType DEF IInv, TypeOK, Lock
<1>2. PICK q : q = [p EXCEPT !.executed = TRUE]
  OBVIOUS
<1>3. /\ q \in Proposal /\ SameVote(p, q)
      /\ q.eta = p.eta /\ q.queuedAt = p.queuedAt /\ q.canceled = p.canceled /\ q.executed
  <2> HIDE DEF p
  <2> QED BY <1>1, <1>2, FlagFields
<1>4. /\ State(p) = "Queued" /\ timelocks[t].admin = Governor
      /\ ~ p.canceled /\ ~ (time <= p.startBlock) /\ ~ (time <= p.endBlock) /\ ~ Defeated(p) /\ p.eta # 0
      /\ MayExecute(timelocks[t], p.content, p.eta, time)
      /\ time' = time /\ performed' = [performed EXCEPT ![t] = performed[t] \o p.content]
      /\ timelocks' = [timelocks EXCEPT ![t] = r]
  BY DEF Execute, State, Lock
<1>5. proposals' = [proposals EXCEPT ![id] = q]
  BY <1>2 DEF Execute
<1>6. r.admin = timelocks[t].admin
  <2>1. p.content \in Seq(Calls)
    BY <1>1 DEF Proposal
  <2> HIDE DEF p, t
  <2> QED BY <1>1, <1>4, <2>1, AfterExecuteType
<1>7. \A u \in Timelocks : timelocks'[u].admin = timelocks[u].admin
  <2> HIDE DEF r, t
  <2> QED BY <1>1, <1>4, <1>6 DEF TypeOK
<1>8. State(q)' = "Executed"
  <2> HIDE DEF p
  <2> QED BY <1>3, <1>4 DEF State, SameVote, Defeated
<1>9. /\ Status' = [Status EXCEPT ![id] = "Executed"]
      /\ DOMAIN Status = DOMAIN proposals
      /\ UNCHANGED <<[i \in DOMAIN proposals |-> proposals[i].content],
                     [i \in DOMAIN proposals |-> Route(proposals[i])],
                     [u \in Timelocks |-> timelocks[u].admin = Governor]>>
      /\ [i \in DOMAIN proposals |-> proposals[i].queuedAt]'
           = [[i \in DOMAIN proposals |-> proposals[i].queuedAt] EXCEPT ![id] = p.queuedAt]
  <2>1. /\ Status' = [Status EXCEPT ![id] = State(q)']
        /\ DOMAIN Status = DOMAIN proposals
        /\ UNCHANGED <<[i \in DOMAIN proposals |-> proposals[i].content],
                       [i \in DOMAIN proposals |-> Route(proposals[i])],
                       [u \in Timelocks |-> timelocks[u].admin = Governor]>>
        /\ [i \in DOMAIN proposals |-> proposals[i].queuedAt]'
             = [[i \in DOMAIN proposals |-> proposals[i].queuedAt] EXCEPT ![id] = q.queuedAt]
    BY ONLY IInv, id \in DOMAIN proposals, <1>3, <1>4, <1>5, <1>7, OneMoved, Zenon
  <2> QED BY <1>3, <1>8, <2>1
<1>10. Status[id] = "Queued"
  BY <1>4 DEF Status
<1>11. time >= p.queuedAt + MinimumDelay
  <2>1. p.eta >= p.queuedAt + MinimumDelay
    BY <1>4 DEF IInv, AllSound, SoundAt
  <2>2. p.eta <= time
    BY <1>4 DEF MayExecute
  <2>3. p.eta \in Nat /\ p.queuedAt \in Nat
    BY <1>1 DEF Proposal
  <2> HIDE DEF p
  <2> QED BY <1>1, <2>1, <2>2, <2>3, DelayAssumption
<1>12. [i \in DOMAIN proposals |-> proposals[i].queuedAt]' = [i \in DOMAIN proposals |-> proposals[i].queuedAt]
  BY <1>9
<1>13. Promised!Execute(id)
  BY <1>1, <1>4, <1>9, <1>10, <1>11, <1>12 DEF Promised!Execute, Promised!Moves
<1> QED BY <1>9, <1>13 DEF Promised!Next

LEMMA CancelPromised ==
    ASSUME IInv, NEW id \in DOMAIN proposals, NEW who, Cancel(id, who)
    PROVE  Promised!Next \/ UNCHANGED Promised!vars
<1> DEFINE p == proposals[id]
           t == Route(p)
           r == AfterCancel(timelocks[t], p.content, p.eta)
<1>1. p \in Proposal /\ t \in Timelocks /\ timelocks[t] \in TimelockRecord /\ time \in Nat /\ TypeOK
  BY RouteType DEF IInv, TypeOK, Lock
<1>2. PICK q : q = [p EXCEPT !.canceled = TRUE]
  OBVIOUS
<1>3. /\ q \in Proposal /\ SameVote(p, q)
      /\ q.eta = p.eta /\ q.queuedAt = p.queuedAt /\ q.canceled /\ q.executed = p.executed
  <2> HIDE DEF p
  <2> QED BY <1>1, <1>2, FlagFields
<1>4. /\ State(p) # "Executed" /\ timelocks[t].admin = Governor
      /\ MayCancel(Lock(p), p.content, p.eta)
      /\ time' = time /\ performed' = performed
      /\ timelocks' = [timelocks EXCEPT ![t] = r]
  BY DEF Cancel, Lock
<1>5. proposals' = [proposals EXCEPT ![id] = q]
  BY <1>2 DEF Cancel
<1>6. r.admin = timelocks[t].admin
  <2> HIDE DEF p, t
  <2> QED BY <1>1, AfterCancelType
<1>7. \A u \in Timelocks : timelocks'[u].admin = timelocks[u].admin
  <2> HIDE DEF r, t
  <2> QED BY <1>1, <1>4, <1>6 DEF TypeOK
<1>8. State(q)' = "Canceled"
  BY <1>3 DEF State
<1>9. /\ Status' = [Status EXCEPT ![id] = "Canceled"]
      /\ DOMAIN Status = DOMAIN proposals
      /\ UNCHANGED <<[i \in DOMAIN proposals |-> proposals[i].content],
                     [i \in DOMAIN proposals |-> Route(proposals[i])],
                     [u \in Timelocks |-> timelocks[u].admin = Governor]>>
      /\ [i \in DOMAIN proposals |-> proposals[i].queuedAt]'
           = [[i \in DOMAIN proposals |-> proposals[i].queuedAt] EXCEPT ![id] = p.queuedAt]
  <2>1. /\ Status' = [Status EXCEPT ![id] = State(q)']
        /\ DOMAIN Status = DOMAIN proposals
        /\ UNCHANGED <<[i \in DOMAIN proposals |-> proposals[i].content],
                       [i \in DOMAIN proposals |-> Route(proposals[i])],
                       [u \in Timelocks |-> timelocks[u].admin = Governor]>>
        /\ [i \in DOMAIN proposals |-> proposals[i].queuedAt]'
             = [[i \in DOMAIN proposals |-> proposals[i].queuedAt] EXCEPT ![id] = q.queuedAt]
    BY ONLY IInv, id \in DOMAIN proposals, <1>3, <1>4, <1>5, <1>7, OneMoved, Zenon
  <2> QED BY <1>3, <1>8, <2>1
<1>10. [i \in DOMAIN proposals |-> proposals[i].queuedAt]' = [i \in DOMAIN proposals |-> proposals[i].queuedAt]
  BY <1>9
<1>11. State(p) \in {"Canceled", "Queued", "Expired"}
  <2>1. p.eta # 0
    <3>1. Lock(p).admin = Governor
      BY DEF Cancel
    <3> QED BY <1>4, <3>1, WasQueued
  <2>2. p.endBlock < time /\ p.startBlock < p.endBlock /\ ~ Defeated(p)
    BY <2>1 DEF IInv, AllSound, SoundAt
  <2> HIDE DEF p
  <2> QED BY <1>1, <1>4, <2>1, <2>2 DEF State, Proposal
<1>12. CASE State(p) = "Canceled"
  <2>1. Status' = Status
    BY <1>9, <1>12 DEF Status
  <2> QED BY <1>4, <1>9, <1>10, <2>1 DEF Promised!vars
<1>13. CASE State(p) \in {"Queued", "Expired"}
  <2>1. Status[id] \in {"Queued", "Expired"}
    BY <1>13 DEF Status
  <2>2. Promised!Withdraw(id)
    BY <1>1, <1>4, <1>9, <1>10, <2>1 DEF Promised!Withdraw, Promised!Moves
  <2> QED BY <1>9, <2>2 DEF Promised!Next
<1> QED BY <1>11, <1>12, <1>13

LEMMA AcceptAdminPromised ==
    ASSUME IInv, NEW t \in Timelocks, AcceptAdmin(t)
    PROVE  Promised!Next \/ UNCHANGED Promised!vars
<1> DEFINE obeys == [u \in Timelocks |-> timelocks[u].admin = Governor]
<1>1. timelocks[t] \in TimelockRecord /\ timelocks[t].pendingAdmin \notin {None, Governor}
  BY DEF AcceptAdmin, IInv, TypeOK
<1>2. AfterAcceptAdmin(timelocks[t]).admin # Governor
  BY <1>1, AdminTypes
<1>3. /\ timelocks'[t].admin # Governor
      /\ \A u \in Timelocks \ {t} : timelocks'[u] = timelocks[u]
      /\ UNCHANGED <<time, proposals, performed>>
  BY <1>2 DEF AcceptAdmin, IInv, TypeOK
<1>4. CASE timelocks[t].admin = Governor
  <2>1. obeys[t] /\ obeys' = [obeys EXCEPT ![t] = FALSE]
    BY <1>3, <1>4
  <2>2. Status' = Status
    BY <1>3 DEF Status, State
  <2>3. UNCHANGED <<[id \in DOMAIN proposals |-> proposals[id].content],
                    [id \in DOMAIN proposals |-> Route(proposals[id])],
                    [id \in DOMAIN proposals |-> proposals[id].queuedAt]>>
    BY <1>3 DEF Route
  <2>4. Promised!HandOver(t)
    BY <1>3, <2>1, <2>2, <2>3 DEF Promised!HandOver
  <2> QED BY <2>4 DEF Promised!Next
<1>5. CASE timelocks[t].admin # Governor
  <2>1. obeys' = obeys
    BY <1>3, <1>5
  <2>2. Status' = Status
    BY <1>3 DEF Status, State
  <2>3. UNCHANGED <<[id \in DOMAIN proposals |-> proposals[id].content],
                    [id \in DOMAIN proposals |-> Route(proposals[id])],
                    [id \in DOMAIN proposals |-> proposals[id].queuedAt]>>
    BY <1>3 DEF Route
  <2> QED BY <1>3, <2>1, <2>2, <2>3 DEF Promised!vars
<1> QED BY <1>4, <1>5

LEMMA ExecuteTransactionPromised ==
    ASSUME IInv, NEW t \in Timelocks, NEW tx \in timelocks[t].queued, ExecuteTransaction(t, tx)
    PROVE  Promised!Next
<1> DEFINE content == <<tx[1]>>
           r == AfterExecute(timelocks[t], content, tx[2])
<1>1. timelocks[t] \in TimelockRecord /\ tx \in Calls \X Nat /\ TypeOK
  BY DEF IInv, TypeOK, TimelockRecord
<1>2. content \in Seq(Calls)
  BY <1>1
<1>3. /\ timelocks[t].admin # Governor /\ MayExecute(timelocks[t], content, tx[2], time)
      /\ timelocks' = [timelocks EXCEPT ![t] = r]
      /\ performed' = [performed EXCEPT ![t] = performed[t] \o content]
      /\ UNCHANGED <<time, proposals>>
  BY DEF ExecuteTransaction
<1>4. r.admin = timelocks[t].admin
  <2> HIDE DEF content
  <2> QED BY <1>1, <1>2, <1>3, AfterExecuteType
<1>5. \A u \in Timelocks : timelocks'[u].admin = timelocks[u].admin
  <2> HIDE DEF r
  <2> QED BY <1>1, <1>3, <1>4 DEF TypeOK
<1>6. [u \in Timelocks |-> timelocks[u].admin = Governor]' = [u \in Timelocks |-> timelocks[u].admin = Governor]
  BY <1>5
<1>7. Status' = Status
  BY <1>3 DEF Status, State
<1>8. UNCHANGED <<[id \in DOMAIN proposals |-> proposals[id].content],
                  [id \in DOMAIN proposals |-> Route(proposals[id])],
                  [id \in DOMAIN proposals |-> proposals[id].queuedAt]>>
  BY <1>3 DEF Route
<1>9. \A u \in Timelocks \ {t} : performed'[u] = performed[u]
  BY <1>1, <1>3 DEF TypeOK
<1>10. Promised!ByOthers(t)
  BY <1>3, <1>6, <1>7, <1>8, <1>9 DEF Promised!ByOthers
<1> QED BY <1>10 DEF Promised!Next

LEMMA TickPromised ==
    ASSUME IInv, Tick
    PROVE  Promised!Next
<1>1. time \in Nat /\ time' = time + 1 /\ UNCHANGED <<proposals, timelocks, performed>> /\ TypeOK
  BY DEF IInv, TypeOK, Tick
<1>2. ASSUME NEW id \in DOMAIN proposals
      PROVE  \/ Status'[id] = Status[id]
             \/ <<Status[id], Status'[id]>> \in Promised!Lapses
  <2> DEFINE p == proposals[id]
  <2>1. p \in Proposal /\ SoundAt(p, time)
    BY <1>1 DEF IInv, TypeOK, AllSound
  <2>2. Status[id] = State(p) /\ Status'[id] = State(p)'
    BY <1>1 DEF Status
  <2>3. p' = p
    BY <1>1
  <2>4. p.startBlock \in Nat /\ p.endBlock \in Nat /\ p.eta \in Nat /\ p.startBlock < p.endBlock
    BY <2>1 DEF Proposal, SoundAt
  <2>5. p.eta # 0 => p.endBlock < time
    BY <2>1 DEF SoundAt
  <2> HIDE DEF p
  <2>6. \/ State(p)' = State(p)
        \/ <<State(p), State(p)'>> \in {<<"Pending", "Active">>, <<"Active", "Succeeded">>, <<"Active", "Defeated">>,
                                       <<"Queued", "Expired">>}
    <3>1. CASE p.canceled
      BY <2>3, <3>1 DEF State
    <3>2. CASE ~ p.canceled /\ time <= p.endBlock
      BY <1>1, <2>3, <2>4, <2>5, <3>2 DEF State, Defeated
    <3>3. CASE ~ p.canceled /\ ~ (time <= p.endBlock)
      BY <1>1, <2>3, <2>4, <3>3, DelayAssumption DEF State, Defeated
    <3> QED BY <3>1, <3>2, <3>3
  <2> QED BY <2>2, <2>6 DEF Promised!Lapses
<1>3. DOMAIN Status' = DOMAIN Status /\ DOMAIN Status = DOMAIN proposals
  BY <1>1 DEF Status
<1>4. UNCHANGED <<[id \in DOMAIN proposals |-> proposals[id].content],
                  [id \in DOMAIN proposals |-> Route(proposals[id])],
                  [id \in DOMAIN proposals |-> proposals[id].queuedAt],
                  [t \in Timelocks |-> timelocks[t].admin = Governor]>>
  BY <1>1 DEF Route
<1>5. Promised!TimePasses
  BY <1>1, <1>2, <1>3, <1>4 DEF Promised!TimePasses
<1> QED BY <1>5 DEF Promised!Next

LEMMA NextPromised == IInv /\ [Next]_vars => [Promised!Next]_(Promised!vars)
<1> SUFFICES ASSUME IInv, [Next]_vars PROVE Promised!Next \/ UNCHANGED Promised!vars
  OBVIOUS
<1>1. ASSUME NEW n \in AlphaCounts, Initiate(n) PROVE UNCHANGED Promised!vars
  <2>1. timelocks' = timelocks /\ UNCHANGED <<time, proposals, performed>>
    BY <1>1 DEF Initiate, Accepted, IInv, TypeOK
  <2> QED BY <2>1, QuietPromised
<1>2. CASE \E v \in Voters, type \in ProposalTypes : \E content \in Drafts[type] : Propose(v, type, content)
  BY <1>2, ProposePromised
<1>3. ASSUME NEW id \in DOMAIN proposals,
             \/ \E v \in Voters, support \in 0 .. 2 : CastVote(v, id, support)
             \/ Queue(id) \/ Execute(id)
             \/ \E who \in Voters \cup {Guardian} : Cancel(id, who)
      PROVE  Promised!Next \/ UNCHANGED Promised!vars
  BY <1>3, CastVotePromised, QueuePromised, ExecutePromised, CancelPromised
<1>4. ASSUME NEW t \in Timelocks, NEW account \in {Governor, Successor}, SetPendingAdmin(t, account)
      PROVE  UNCHANGED Promised!vars
  <2>1. AfterSetPendingAdmin(timelocks[t], account).admin = timelocks[t].admin
    BY AdminTypes DEF IInv, TypeOK
  <2>2. \A u \in Timelocks : timelocks'[u].admin = timelocks[u].admin
    BY <1>4, <2>1 DEF SetPendingAdmin, IInv, TypeOK
  <2> QED BY <1>4, <2>2, QuietPromised DEF SetPendingAdmin
<1>5. ASSUME NEW t \in Timelocks, NEW tx \in timelocks[t].queued, CancelTransaction(t, tx)
      PROVE  UNCHANGED Promised!vars
  <2> DEFINE r == AfterCancel(timelocks[t], <<tx[1]>>, tx[2])
  <2>1. r.admin = timelocks[t].admin
    BY AfterCancelType DEF IInv, TypeOK
  <2>2. timelocks' = [timelocks EXCEPT ![t] = r] /\ UNCHANGED <<time, proposals, performed>>
    BY <1>5 DEF CancelTransaction
  <2> HIDE DEF r
  <2>3. \A u \in Timelocks : timelocks'[u].admin = timelocks[u].admin
    BY <2>1, <2>2 DEF IInv, TypeOK
  <2> QED BY <2>2, <2>3, QuietPromised
<1>10. ASSUME NEW t \in Timelocks, NEW call \in Calls, NEW eta \in 0 .. MaxEta, QueueTransaction(t, call, eta)
      PROVE  UNCHANGED Promised!vars
  <2> DEFINE r == AfterQueue(timelocks[t], <<call>>, eta)
  <2>1. r.admin = timelocks[t].admin
    <3>1. eta \in Nat /\ <<call>> \in Seq(Calls) /\ timelocks[t] \in TimelockRecord
      BY BoundsAssumption DEF IInv, TypeOK
    <3> QED BY <3>1, AfterQueueType
  <2>2. timelocks' = [timelocks EXCEPT ![t] = r] /\ UNCHANGED <<time, proposals, performed>>
    BY <1>10 DEF QueueTransaction
  <2> HIDE DEF r
  <2>3. \A u \in Timelocks : timelocks'[u].admin = timelocks[u].admin
    BY <2>1, <2>2 DEF IInv, TypeOK
  <2> QED BY <2>2, <2>3, QuietPromised
<1>6. ASSUME NEW t \in Timelocks,
             AcceptAdmin(t) \/ \E tx \in timelocks[t].queued : ExecuteTransaction(t, tx)
      PROVE  Promised!Next \/ UNCHANGED Promised!vars
  BY <1>6, AcceptAdminPromised, ExecuteTransactionPromised
<1>7. ASSUME NEW from \in Voters, NEW to \in Voters, Delegate(from, to) PROVE UNCHANGED Promised!vars
  BY <1>7, QuietPromised DEF Delegate
<1>8. CASE Tick
  BY <1>8, TickPromised
<1>9. CASE UNCHANGED vars
  BY <1>9, QuietPromised DEF vars
<1> QED BY <1>1, <1>2, <1>3, <1>4, <1>5, <1>6, <1>7, <1>8, <1>9, <1>10 DEF Next

\* The governor with its timelocks implements Proposals.tla: only approved
\* proposals run, in full, once, after their notice, and nothing withdrawn does.
THEOREM SpecKeepsPromise == Spec => KeepsPromise
<1>1. Spec => []IInv
  BY SpecIInv
<1>2. Init => Promised!Init
  BY InitPromised
<1>3. IInv /\ [Next]_vars => [Promised!Next]_(Promised!vars)
  BY NextPromised
<1> QED BY <1>1, <1>2, <1>3, PTL DEF Spec, KeepsPromise, Promised!Spec

=============================================================================
