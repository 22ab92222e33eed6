SPECIFICATION FairSpec
CONSTANTS
  alice = alice
  bob = bob
  carol = carol
  yes = yes
  no = no
  None = None
  MarketIds <- MC_TwoMarkets
  Accounts = {alice}
  Outcomes = {yes}
  Horizon = 9
  MaxMoment = 18
  MillisecsPerBlock = 2
  CorrectionPeriod = 2
  MaxDisputes = 2
  VotePeriod = 1
  AggregationPeriod = 1
  AppealPeriod = 2
  MaxAppeals = 1
  AddOutcomePeriod = 1
  GdVotingPeriod = 1
  CacheSize = 2
  MinOracleDuration = 1
  MaxOracleDuration = 1
  MinDisputeDuration = 1
  MaxDisputeDuration = 2
  MaxGracePeriod = 1
  MaxMarketLifetime = 8
  CloseEarlyBlockPeriod = 9
  CloseEarlyTimeFramePeriod = 18
  CloseEarlyProtectionBlockPeriod = 9
  CloseEarlyProtectionTimeFramePeriod = 18
  RequestInterval = 2
  Epoch = 1
  MinimumPeriod = 1
  TimeSteps = {1}
  PeriodInputs <- MC_RollbackPeriods
  DeadlineInputs <- MC_RollbackDeadlines
  CreationInputs = {"Permissionless"}
  MechanismInputs = {"Court"}
  StakeInputs = {TRUE, FALSE}
INVARIANTS
  CloseNotMissed
  RolledBackOnlyByGlobalDispute
PROPERTIES
  OpenMarketsClose
  ReportsAreDecided
  ScheduledDisputesAreDecided
