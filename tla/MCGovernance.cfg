SPECIFICATION Spec
CONSTANTS
  Calls <- MCCalls
  SetsDelay <- MCSetsDelay
  HandsOver <- MCHandsOver
  MinimumDelay = 1
  MaximumDelay = 2
  GracePeriod = 1
  VoterCount = 2
  Stake <- MCStake
  ProposalTypes <- MCTypes
  Timelocks <- MCTimelocks
  TimelockOf <- MCTimelockOf
  FirstAdmin = "governor"
  FirstDelay = 2
  VotingDelay <- MCVotingDelay
  VotingPeriod <- MCVotingPeriod
  ProposalThreshold <- MCThreshold
  QuorumVotes = 3
  Drafts <- MCDrafts
  AlphaCounts <- MCAlphaCounts
  MaxProposals = 2
  MaxTime = 8
  MaxMoves = 1
  MaxEta = 9
INVARIANTS
  TypeOK
  QueueOnlyAnnounced
  NoStakeCountedTwice
  OneLiveProposal
PROPERTIES
  KeepsPromise
CHECK_DEADLOCK FALSE
