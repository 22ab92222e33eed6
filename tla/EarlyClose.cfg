SPECIFICATION Spec
CONSTANTS
  alice = alice
  bob = bob
  carol = carol
  yes = yes
  no = no
  None = None
  MarketIds <- MC_OneMarket
  Accounts = {alice, bob}
  Outcomes = {yes}
  Horizon = 6
  MaxMoment = 32
  MillisecsPerBlock = 2
  CorrectionPeriod = 2
  MaxDisputes = 2
  VotePeriod = 1
  AggregationPeriod = 1
  AppealPeriod = 2
  MaxAppeals = 2
  AddOutcomePeriod = 1
  GdVotingPeriod = 1
  CacheSize = 1
  MinOracleDuration = 1
  MaxOracleDuration = 1
  MinDisputeDuration = 1
  MaxDisputeDuration = 2
  MaxGracePeriod = 1
  MaxMarketLifetime = 4
  CloseEarlyBlockPeriod = 2
  CloseEarlyTimeFramePeriod = 4
  CloseEarlyProtectionBlockPeriod = 1
  CloseEarlyProtectionTimeFramePeriod = 2
  RequestInterval = 2
  Epoch = 4
  MinimumPeriod = 1
  TimeSteps = {1, 3}
  PeriodInputs <- MC_BothPeriods
  DeadlineInputs <- MC_GraceDeadlines
  CreationInputs = {"Permissionless", "Advised"}
  MechanismInputs <- MC_AuthorizedOrTrusted
  StakeInputs = {TRUE, FALSE}
SYMMETRY AccountSymmetry
INVARIANTS
  CloseScheduled
  CloseNotMissed
  HeldExactlyWhileNeeded
  EarlyCloseConsistent
PROPERTIES
  BondsSettleOnce
  ImplementsAbstractMarkets
