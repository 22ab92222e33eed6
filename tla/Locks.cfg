CONSTANTS
  a1 = a1
  m1 = m1
  m2 = m2
  m3 = m3
  a2 = a2
  o1 = o1
  o2 = o2
  o3 = o3
  None = None
  MarketIds = {m1, m2, m3}
  OutcomeReports = {o1}
  AccountIds = {a1}
  InitialItems <- OneItem
  VoteAmounts = {1, 2}
  AddOutcomePeriod = 0
  GdVotingPeriod = 1
  VotingOutcomeFee = 2
  MinOutcomeVoteAmount = 1
  ExistentialDeposit = 1
  MaxGlobalDisputeVotes = 2
  MaxOwners = 2
  RemoveKeysLimit = 1
  InitialBalance = 4
  Transfers = {1}
  Slashes = {2}
  BurnAmount = 1
  MaxTaken = 2
  Horizon = 2
SYMMETRY MarketSymmetry
SPECIFICATION Spec
INVARIANTS
  LockIsLargestVote
  LocksCovered
