SPECIFICATION Spec
CONSTANTS
  alice = alice
  bob = bob
  carol = carol
  yes = yes
  no = no
  None = None
  MarketIds <- MC_OneMarket
  Accounts = {alice, bob, carol}
  Outcomes = {yes, no}
  Horizon = 12
  MaxMoment = 24
  MillisecsPerBlock = 2
  CorrectionPeriod = 2
  MaxDisputes = 2
  VotePeriod = 1
  AggregationPeriod = 1
  AppealPeriod = 2
  MaxAppeals = 2
  AddOutcomePeriod = 1
  GdVotingPeriod = 1
  CacheSize = 1
  MinOracleDuration = 1
  MaxOracleDuration = 1
  MinDisputeDuration = 1
  MaxDisputeDuration = 2
  MaxGracePeriod = 1
  MaxMarketLifetime = 4
  CloseEarlyBlockPeriod = 9
  CloseEarlyTimeFramePeriod = 4
  CloseEarlyProtectionBlockPeriod = 9
  CloseEarlyProtectionTimeFramePeriod = 2
  RequestInterval = 2
  Epoch = 0
  MinimumPeriod = 1
  TimeSteps = {2}
  PeriodInputs <- MC_ShortPeriod
  DeadlineInputs <- MC_Deadlines
  CreationInputs = {"Permissionless"}
  MechanismInputs <- MC_AllMechanisms
  StakeInputs = {TRUE, FALSE}
SYMMETRY Symmetry
INVARIANTS
  TypeOK
  ReportScheduled
  DisputeScheduled
  HeldExactlyWhileNeeded
  
  FairSettlement
PROPERTIES
  ImplementsAbstractMarkets
