SPECIFICATION MCServicesSpec
CHECK_DEADLOCK FALSE
CONSTANTS
  AnalyticsRuns = {r1, r2}
  UserIds = {u1}
  GroupIds = {g1}
  Platform = platform
  NoKey = NoKey
  MaxDay = 3
  MaxDbFaults = 1
  ExportRuns = {r1, r2}
  MaxLedger = 2
  PerLedger = 2
  MaxExportFaults = 1
  FullInterval = 4
  IncrementalInterval = 2
  Retention = 3
  MaxJobs = 4
  MaxTime = 12
  Jitter = 1
  MaxStarts = 2
  MaxRestarts = 1
  Notes = {n1, n2}
  NoteRuns = {r1, r2}
  NoNote = NoNote
  MaxNoteFaults = 1
  Offsets <- MCOffsets
  TimesOfDay = {2, 7, 22}
  Deadlines = {75, 80}
  ReminderClock = {20, 50}
  NoTime = 99
  DueKeys = {k1}
  KeeperMembers = {m1, m2}
  KeeperRuns = {r1, r2}
  MaxKeeperRetries = 2
  MaxHandlers = 2
  PinJobs = {j1, j2}
  Cids = {c1}
  Workers = {w1, w2}
  NoPinJob = NoPinJob
  MaxRetries = 1
  MaxPinCrashes = 1
  MaxManual = 1
  Hooks = {h1, h2}
  Ticks = {t1, t2}
  MaxAttempts = 2
  MaxDelay = 2
  MaxHookTime = 3
  CachedGroups = {g1}
  Readers = {r1, r2, r3}
  NoReader = NoReader
  MaxVersion = 2
  NoVersion = NoVersion
  RecRuns = {n1, n2}
  KeyTypes = {t1, t2}
  Rotators = {c1}
  RotationInterval = 3
  TransitionWindow = 1
  MaxKeys = 4
  MaxKeyTime = 3
  Auditors = {p1, p2}
  MaxEntries = 3
  MaxAuditTime = 2
  MaxSkew = 1
  MaxCalls = 5
  InFlight = 2
  ShortWindow = 2
  LongWindow = 5
  ShortMax = 2
  LongMax = 2
  MaxLimiterTime = 4
  TickChains = {c1, c2}
  RollingWindow = 4
  PollInterval = 2
  CheckTime = 1
  IndexLag = 1
  MaxMonTime = 6
  MaxMonEvents = 1
  MaxMonFaults = 1
  Submissions = {c1, c2}
  TxTimeout = 2
  MaxPolls = 2
  SignTime = 1
  RpcLag = 0
  MaxTxTime = 3
  FeedFilters <- MCFeedFilters
  FeedPage = 2
  MaxFeedEvents = 4
  MaxFeedLoads = 3
  WalletIds = {w1, w2}
  DefaultWallet = w1
  NoAddress = NoAddress
  AccountsPerWallet = 2
  MaxAsks = 3
  MaxFetches = 3
  Inputs = {i1, i2}
  NoData = NoData
  MaxLoads = 3
  MaxEvents = 3
  PollLimit = 1
  MaxWatches = 2
  MaxSources = 2
  MaxPollsOpen = 2
  Tabs = {tab1, tab2}
  MaxRows = 1
  MaxTries = 2
  MaxToggles = 2
  MaxCloses = 1
  MaxSyncFaults = 2
 
INVARIANT WatermarkCoversExported
 
 
INVARIANT SentTwiceOnlyIfContested
 
 
INVARIANT KeeperFailuresBounded
 
 
INVARIANT WebhooksOnce
INVARIANT CacheStaleOnlyIfOvertaken
 
 
 
 
 
 
INVARIANT FeedShowsItsPages
 
 
INVARIANT StreamMissesNothing
INVARIANT QueuedActionsOnce
INVARIANT PeriodicSyncFollowsConnection
