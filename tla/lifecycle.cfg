SPECIFICATION MCLifecycle
CONSTANTS
  Members = {a, b, c}
  Creator = a
  NoMember = none
  MaxSize = 2
  MinMembers = 1
  Amounts = {1}
  Durations = {1}
  Grace = 0
  Genesis = 2
  MaxTime = 5
  MaxFunds = 8
  OtherFunds = 2
  InitialStatus = "Pending"
  PayoutOrder = "Sequential"
SYMMETRY MemberSymmetry
CHECK_DEADLOCK FALSE
INVARIANT RefundsAccounted
INVARIANT CountCoversMembers
