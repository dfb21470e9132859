SPECIFICATION KeeperSpec
CHECK_DEADLOCK FALSE
CONSTANTS
  DueKeys = {k1}
  KeeperMembers = {m1, m2}
  KeeperRuns = {r1, r2}
  MaxKeeperRetries = 2
  MaxHandlers = 2
INVARIANT CountedPayoutsExecuted
