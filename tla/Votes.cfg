CONSTANTS
  a1 = a1
  m1 = m1
  m2 = m2
  m3 = m3
  a2 = a2
  o1 = o1
  o2 = o2
  o3 = o3
  None = None
  MarketIds = {m1}
  OutcomeReports = {o1, o2, o3}
  AccountIds = {a1, a2}
  InitialItems <- ReportAndAppeals
  VoteAmounts = {3, 4}
  AddOutcomePeriod = 1
  GdVotingPeriod = 1
  VotingOutcomeFee = 5
  MinOutcomeVoteAmount = 3
  ExistentialDeposit = 2
  MaxGlobalDisputeVotes = 2
  MaxOwners = 2
  RemoveKeysLimit = 1
  InitialBalance = 12
  Transfers = {}
  Slashes = {}
  BurnAmount = 100
  MaxTaken = 0
  Horizon = 3
SPECIFICATION Spec
INVARIANTS
  TypeOK
  WinnerLeads
  WinnersRewarded
  PotCoversRefunds
PROPERTIES
  ImplementsOutcomeVote
