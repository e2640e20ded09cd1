SPECIFICATION Spec
CONSTANTS
  Sizes = {1, 3}
  HandSizes = {}
  MaxPods = 3
  MaxEdit = 1
  MaxHand = 0
  MaxFault = 0
  MaxEvents = 1
CHECK_DEADLOCK FALSE
INVARIANTS RestWhole
