SPECIFICATION MCKeeper
CONSTANTS
  Members = {a, b}
  Creator = creator
  NoMember = none
  MaxSize = 2
  MinMembers = 2
  Amounts = {1}
  Durations = {1}
  Grace = 0
  Genesis = 2
  MaxTime = 5
  MaxFunds = 8
  OtherFunds = 2
  InitialStatus = "Pending"
  PayoutOrder = "Sequential"
CHECK_DEADLOCK FALSE
PROPERTY RotationEnds
