------------------------------ MODULE Governance ------------------------------
(***************************************************************************)
(* GovernorBravoDelegate and the timelocks that carry out what it decides. *)
(* Anyone with enough votes proposes, voters vote with the stake they had  *)
(* when the vote began, and anyone queues, executes or, under conditions,  *)
(* cancels.  Types of proposals may share a timelock, as NORMAL and        *)
(* CRITICAL do in deploy/Governance/006-governor.ts.                       *)
(*                                                                         *)
(* The vault that reports votes is seen through getPriorVotes.  One clock  *)
(* stands for block.number and block.timestamp.                            *)
(***************************************************************************)
EXTENDS Timelock, Sums

CONSTANTS
  VoterCount,        \* voters are 1 .. VoterCount
  Stake,             \* votes of each at the start
  ProposalTypes,
  Timelocks, TimelockOf,
  FirstAdmin, FirstDelay,   \* the timelocks' constructor arguments
  VotingDelay, VotingPeriod, ProposalThreshold,   \* proposalConfigs, per type
  QuorumVotes,
  Drafts,            \* lists of calls a proposal may carry, per type
  AlphaCounts,       \* proposalCount of the governor before this one
  MaxProposals, MaxTime, MaxMoves,   \* bounds
  MaxEta             \* of what an admin other than the governor queues

Voters == 1 .. VoterCount
Guardian == 0   \* none of the voters

ASSUME VotersAssumption == VoterCount \in Nat /\ Stake \in [Voters -> Nat] /\ QuorumVotes \in Nat
ASSUME RoutesAssumption == TimelockOf \in [ProposalTypes -> Timelocks]
ASSUME ConfigAssumption ==
  /\ VotingDelay \in [ProposalTypes -> Nat \ {0}] /\ VotingPeriod \in [ProposalTypes -> Nat \ {0}]
  /\ ProposalThreshold \in [ProposalTypes -> Nat]
ASSUME DraftsAssumption == Drafts \in [ProposalTypes -> SUBSET Seq(Calls)]
ASSUME TimelocksAssumption == FirstAdmin # None /\ FirstDelay \in MinimumDelay .. MaximumDelay
ASSUME BoundsAssumption == AlphaCounts \subseteq Nat /\ MaxMoves \in Nat /\ MaxEta \in Nat

VARIABLES
  time,
  initialProposalId,
  proposals,           \* id -> Proposal
  latestProposalIds,   \* voter -> id, 0 for none
  power,               \* block -> voter -> votes
  timelocks,           \* timelock -> its record
  performed,           \* timelock -> calls it has made (history)
  moves                \* how often votes have moved (bounded)

vars == <<time, initialProposalId, proposals, latestProposalIds, power, timelocks, performed, moves>>

PriorVotes(v, block) == power[block][v]

-----------------------------------------------------------------------------
(* Where a proposal stands *)

Route(p) == TimelockOf[p.type]
Lock(p) == timelocks[Route(p)]

Defeated(p) == p.forVotes <= p.againstVotes \/ p.forVotes < QuorumVotes

StateForgettingExecution(p) ==
  IF p.canceled THEN "Canceled"
  ELSE IF time <= p.startBlock THEN "Pending"
  ELSE IF time <= p.endBlock THEN "Active"
  ELSE IF Defeated(p) THEN "Defeated"
  ELSE IF p.eta = 0 THEN "Succeeded"
  ELSE IF time >= p.eta + GracePeriod THEN "Expired"
  ELSE "Queued"

State(p) ==
  IF p.canceled THEN "Canceled"
  ELSE IF time <= p.startBlock THEN "Pending"
  ELSE IF time <= p.endBlock THEN "Active"
  ELSE IF Defeated(p) THEN "Defeated"
  ELSE IF p.eta = 0 THEN "Succeeded"
  ELSE IF p.executed THEN "Executed"
  ELSE IF time >= p.eta + GracePeriod THEN "Expired"
  ELSE "Queued"

-----------------------------------------------------------------------------
(* The governor *)

\* acceptOwner() is unknown to a timelock and lands in its payable fallback:
\* the call succeeds and nothing is accepted.
Accepted(t) == t

Initiate(alphaCount) ==
  /\ initialProposalId = 0
  /\ initialProposalId' = alphaCount
  /\ timelocks' = [t \in Timelocks |-> Accepted(timelocks[t])]
  /\ UNCHANGED <<time, proposals, latestProposalIds, power, performed, moves>>

ProposalCountFromNone == Cardinality(DOMAIN proposals)

\* proposalCount; ids go on from those of the governor before.
ProposalCount == initialProposalId + Cardinality(DOMAIN proposals)

NotActive(v) == latestProposalIds[v] # 0 => State(proposals[latestProposalIds[v]]) # "Active"

\* One live proposal per proposer.
LatestSettled(v) ==
  latestProposalIds[v] # 0 => State(proposals[latestProposalIds[v]]) \notin {"Pending", "Active"}

NewProposal(v, type, content) ==
  [proposer |-> v, type |-> type, content |-> content,
   startBlock |-> time + VotingDelay[type], endBlock |-> time + VotingDelay[type] + VotingPeriod[type],
   forVotes |-> 0, againstVotes |-> 0, abstainVotes |-> 0, voted |-> {},
   eta |-> 0, queuedAt |-> 0, canceled |-> FALSE, executed |-> FALSE]

Propose(v, type, content) ==
  LET id == ProposalCount + 1 IN
  /\ initialProposalId # 0 /\ Cardinality(DOMAIN proposals) < MaxProposals
  /\ time >= 1 /\ PriorVotes(v, time - 1) >= ProposalThreshold[type]
  /\ content # << >>
  /\ LatestSettled(v)
  /\ proposals' = [i \in DOMAIN proposals \cup {id} |-> IF i = id THEN NewProposal(v, type, content) ELSE proposals[i]]
  /\ latestProposalIds' = [latestProposalIds EXCEPT ![v] = id]
  /\ UNCHANGED <<time, initialProposalId, power, timelocks, performed, moves>>

VotesNow(v, p) == PriorVotes(v, time - 1)
VotesAtStart(v, p) == PriorVotes(v, p.startBlock)

\* Support is 0 against, 1 for, 2 abstain.
WithVote(p, v, support) ==
  LET votes == VotesAtStart(v, p) IN
  [p EXCEPT !.againstVotes = IF support = 0 THEN @ + votes ELSE @,
            !.forVotes = IF support = 1 THEN @ + votes ELSE @,
            !.abstainVotes = IF support = 2 THEN @ + votes ELSE @,
            !.voted = @ \cup {v}]

CastVote(v, id, support) ==
  /\ State(proposals[id]) = "Active" /\ v \notin proposals[id].voted
  /\ proposals' = [proposals EXCEPT ![id] = WithVote(@, v, support)]
  /\ UNCHANGED <<time, initialProposalId, latestProposalIds, power, timelocks, performed, moves>>

WithEta(p, eta) == [p EXCEPT !.eta = eta, !.queuedAt = time]

Queue(id) ==
  LET p == proposals[id] eta == time + Lock(p).delay IN
  /\ State(p) = "Succeeded"
  /\ Lock(p).admin = Governor /\ MayQueue(Lock(p), p.content, eta, time)
  /\ proposals' = [proposals EXCEPT ![id] = WithEta(@, eta)]
  /\ timelocks' = [timelocks EXCEPT ![Route(p)] = AfterQueue(@, p.content, eta)]
  /\ UNCHANGED <<time, initialProposalId, latestProposalIds, power, performed, moves>>

Execute(id) ==
  LET p == proposals[id] IN
  /\ State(p) = "Queued"
  /\ Lock(p).admin = Governor /\ MayExecute(Lock(p), p.content, p.eta, time)
  /\ proposals' = [proposals EXCEPT ![id] = [p EXCEPT !.executed = TRUE]]
  /\ timelocks' = [timelocks EXCEPT ![Route(p)] = AfterExecute(@, p.content, p.eta)]
  /\ performed' = [performed EXCEPT ![Route(p)] = @ \o p.content]
  /\ UNCHANGED <<time, initialProposalId, latestProposalIds, power, moves>>

\* The guardian and the proposer may always cancel, anyone once the proposer has
\* lost the votes; the timelock refuses what it has not queued.
MayBeCanceledBy(p, who) ==
  \/ who \in {Guardian, p.proposer}
  \/ time >= 1 /\ PriorVotes(p.proposer, time - 1) < ProposalThreshold[p.type]

Cancel(id, who) ==
  LET p == proposals[id] IN
  /\ State(p) # "Executed" /\ MayBeCanceledBy(p, who)
  /\ Lock(p).admin = Governor /\ MayCancel(Lock(p), p.content, p.eta)
  /\ proposals' = [proposals EXCEPT ![id] = [p EXCEPT !.canceled = TRUE]]
  /\ timelocks' = [timelocks EXCEPT ![Route(p)] = AfterCancel(@, p.content, p.eta)]
  /\ UNCHANGED <<time, initialProposalId, latestProposalIds, power, performed, moves>>

-----------------------------------------------------------------------------
(* A timelock whose admin is somebody else *)

SetPendingAdmin(t, account) ==
  /\ timelocks[t].admin # Governor
  /\ timelocks' = [timelocks EXCEPT ![t] = AfterSetPendingAdmin(@, account)]
  /\ UNCHANGED <<time, initialProposalId, proposals, latestProposalIds, power, performed, moves>>

\* The governor never calls acceptAdmin.
AcceptAdmin(t) ==
  /\ timelocks[t].pendingAdmin \notin {None, Governor}
  /\ timelocks' = [timelocks EXCEPT ![t] = AfterAcceptAdmin(@)]
  /\ UNCHANGED <<time, initialProposalId, proposals, latestProposalIds, power, performed, moves>>

\* The other admin deals with the queue directly: he adds calls of no proposal and
\* cancels or runs what is in it, what the governor has left there included.
QueueTransaction(t, call, eta) ==
  /\ timelocks[t].admin # Governor /\ MayQueue(timelocks[t], <<call>>, eta, time)
  /\ timelocks' = [timelocks EXCEPT ![t] = AfterQueue(@, <<call>>, eta)]
  /\ UNCHANGED <<time, initialProposalId, proposals, latestProposalIds, power, performed, moves>>

CancelTransaction(t, tx) ==
  /\ timelocks[t].admin # Governor /\ tx \in timelocks[t].queued
  /\ timelocks' = [timelocks EXCEPT ![t] = AfterCancel(@, <<tx[1]>>, tx[2])]
  /\ UNCHANGED <<time, initialProposalId, proposals, latestProposalIds, power, performed, moves>>

ExecuteTransaction(t, tx) ==
  /\ timelocks[t].admin # Governor /\ MayExecute(timelocks[t], <<tx[1]>>, tx[2], time)
  /\ timelocks' = [timelocks EXCEPT ![t] = AfterExecute(@, <<tx[1]>>, tx[2])]
  /\ performed' = [performed EXCEPT ![t] = @ \o <<tx[1]>>]
  /\ UNCHANGED <<time, initialProposalId, proposals, latestProposalIds, power, moves>>

-----------------------------------------------------------------------------
(* Outside *)

\* Delegation in the vault moves all votes of one voter to another.
Moved(votes, from, to) == [votes EXCEPT ![from] = 0, ![to] = votes[to] + votes[from]]
Delegate(from, to) ==
  /\ moves < MaxMoves /\ from # to /\ moves' = moves + 1
  /\ power' = [power EXCEPT ![time] = Moved(@, from, to)]
  /\ UNCHANGED <<time, initialProposalId, proposals, latestProposalIds, timelocks, performed>>

Tick ==
  /\ time < MaxTime /\ time' = time + 1
  /\ power' = [b \in 0 .. time + 1 |-> IF b = time + 1 THEN power[time] ELSE power[b]]
  /\ UNCHANGED <<initialProposalId, proposals, latestProposalIds, timelocks, performed, moves>>

Init ==
  /\ time = 0
  /\ initialProposalId = 0
  /\ proposals = [id \in {} |-> 0]
  /\ latestProposalIds = [v \in Voters |-> 0]
  /\ power = [b \in 0 .. 0 |-> Stake]
  /\ timelocks = [t \in Timelocks |-> NewTimelock(FirstAdmin, FirstDelay)]
  /\ performed = [t \in Timelocks |-> << >>]
  /\ moves = 0

Next ==
  \/ \E n \in AlphaCounts : Initiate(n)
  \/ \E v \in Voters, type \in ProposalTypes : \E content \in Drafts[type] : Propose(v, type, content)
  \/ \E id \in DOMAIN proposals :
       \/ \E v \in Voters, support \in 0 .. 2 : CastVote(v, id, support)
       \/ Queue(id) \/ Execute(id)
       \/ \E who \in Voters \cup {Guardian} : Cancel(id, who)
  \/ \E t \in Timelocks :
       \/ \E account \in {Governor, Successor} : SetPendingAdmin(t, account)
       \/ AcceptAdmin(t)
       \/ \E call \in Calls, eta \in 0 .. MaxEta : QueueTransaction(t, call, eta)
       \/ \E tx \in timelocks[t].queued : CancelTransaction(t, tx) \/ ExecuteTransaction(t, tx)
  \/ \E from, to \in Voters : Delegate(from, to)
  \/ Tick

Spec == Init /\ [][Next]_vars
-----------------------------------------------------------------------------
(* Properties *)

Status == [id \in DOMAIN proposals |-> State(proposals[id])]
Announced(p) == p.eta # 0 /\ ~ p.canceled /\ ~ p.executed

Proposal ==
  [proposer : Voters, type : ProposalTypes, content : Seq(Calls), startBlock : Nat, endBlock : Nat,
   forVotes : Nat, againstVotes : Nat, abstainVotes : Nat, voted : SUBSET Voters,
   eta : Nat, queuedAt : Nat, canceled : BOOLEAN, executed : BOOLEAN]

TimelockRecord ==
  [admin : {FirstAdmin, Governor, Successor}, pendingAdmin : {None, Governor, Successor},
   delay : MinimumDelay .. MaximumDelay, queued : SUBSET (Calls \X Nat)]

\* Proposals are numbered without gaps from the first of this governor on, every
\* timelock's delay stays in its bounds, and votes and transactions have their types.
TypeOK ==
  /\ time \in Nat /\ initialProposalId \in Nat /\ moves \in 0 .. MaxMoves
  /\ IsFiniteSet(DOMAIN proposals) /\ DOMAIN proposals = initialProposalId + 1 .. ProposalCount
  /\ proposals \in [DOMAIN proposals -> Proposal]
  /\ latestProposalIds \in [Voters -> DOMAIN proposals \cup {0}]
  /\ power \in [0 .. time -> [Voters -> Nat]]
  /\ timelocks \in [Timelocks -> TimelockRecord]
  /\ performed \in [Timelocks -> Seq(Calls)]

\* While the governor is its admin, a timelock's queue holds transactions of
\* announced proposals only: what has been cancelled, or executed, is out of it and
\* can never take effect (again), though types share a timelock and proposals share
\* calls (GovernorBravo:587).  Any other admin queues what he likes.
QueueOnlyAnnounced ==
  \A t \in Timelocks : timelocks[t].admin = Governor => \A tx \in timelocks[t].queued :
    \E id \in DOMAIN proposals :
      LET p == proposals[id] IN Route(p) = t /\ Announced(p) /\ tx \in Transactions(p.content, p.eta)

\* However votes are delegated while a vote runs, no stake counts twice in it: the
\* votes cast are covered by those that existed when it began (GovernorBravo:710).
NoStakeCountedTwice ==
  \A id \in DOMAIN proposals :
    LET p == proposals[id] IN
    p.voted # {} => p.forVotes + p.againstVotes + p.abstainVotes <= Total(power[p.startBlock], VoterCount)

\* A proposer never has two proposals waiting for the vote or in it, whatever of
\* his was cancelled, defeated or executed in between (GovernorBravo:414).
OneLiveProposal ==
  \A i, j \in DOMAIN proposals :
    i # j /\ proposals[i].proposer = proposals[j].proposer => ~ {Status[i], Status[j]} \subseteq {"Pending", "Active"}

\* The governor and its timelocks keep what governance promises: only approved
\* proposals run, in full, once, after their notice, and nothing withdrawn does.
Promised == INSTANCE Proposals WITH
  Contents <- UNION {Drafts[type] : type \in ProposalTypes},
  status <- Status,
  content <- [id \in DOMAIN proposals |-> proposals[id].content],
  route <- [id \in DOMAIN proposals |-> Route(proposals[id])],
  announced <- [id \in DOMAIN proposals |-> proposals[id].queuedAt],
  obeys <- [t \in Timelocks |-> timelocks[t].admin = Governor]
KeepsPromise == Promised!Spec
=============================================================================
