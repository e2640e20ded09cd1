SPECIFICATION FairSpec
CONSTANTS
  Sizes = {2, 3}
  HandSizes = {4}
  MaxPods = 4
  MaxEdit = 1
  MaxHand = 2
  MaxFault = 2
  MaxEvents = 4
CHECK_DEADLOCK FALSE
INVARIANTS TypeOK JoinBranchDead
PROPERTIES DataKept FormedStays ComesUp
