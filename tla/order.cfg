SPECIFICATION MCOrder
CONSTANTS
  Members = {a, b, c}
  Creator = creator
  NoMember = none
  MaxSize = 3
  MinMembers = 3
  Amounts = {1}
  Durations = {1}
  Grace = 0
  Genesis = 2
  MaxTime = 6
  MaxFunds = 8
  OtherFunds = 2
  InitialStatus = "Pending"
  PayoutOrder = "Sequential"
SYMMETRY MemberSymmetry
CHECK_DEADLOCK FALSE
INVARIANT NobodyPaidTwice
