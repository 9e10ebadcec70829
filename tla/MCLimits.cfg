SPECIFICATION Spec
CONSTANTS
  c1 = c1
  c2 = c2
  office = office
  mail = mail
  None = None
  Calls <- MCCalls
  Pairs <- MCPairs
  BucketCapacity = 2
  BucketRefill = 10
  FailuresBeforeLockout = 5
  LockoutBase = 29296875
  LockoutCeiling = 878906250
  Width = 54
  CeilingTicks = 30
  Idle = 30
  Jumps <- MCJumps
  MaxFailures = 70
SYMMETRY MCSymmetry
INVARIANTS
  RateHolds
  PenaltyHolds
CHECK_DEADLOCK FALSE
