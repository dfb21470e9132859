SPECIFICATION MCProgressSpec
CONSTANTS
  Calls = {a, b, c}
  Clients = {k1, k2}
  NoClient = none
  VolumeThreshold = 2
  ErrorThreshold = 50
  ResetTimeout = 1
  MaxResults = 4
  Sockets = {s1, s2}
  Topics = {t1}
  Authorized <- MCAuthorized
  Tabs = {tab1}
  MaxRows = 1
  MaxTries = 2
  MaxToggles = 2
  MaxCloses = 0
  MaxSyncFaults = 1
  BatchRequests = {b1, b2, b3, b4}
  MaxBatchSize = 2
  MaxTimers = 4
  Loops = {l1, l2}
  MaxTip = 4
  PageSize = 2
  TxPerLedger = 2
  MaxIndexerFaults = 1
CHECK_DEADLOCK FALSE
INVARIANT PoolBalanced
INVARIANT NoLeakedSubscription
INVARIANT NoSilentHoles
PROPERTY EveryCallEnds
PROPERTY CircuitRecovers
PROPERTY VanishedClientsDropped
PROPERTY PendingIsReplayed
PROPERTY EnqueuedIsSettled
PROPERTY IndexerKeepsUp
