SPECIFICATION Spec
CONSTANTS
  Size = 2
  PeerBinlog = {FALSE}
  Faults = {"side"}
  MaxFault = 1
CHECK_DEADLOCK FALSE
INVARIANTS ServingFollows
