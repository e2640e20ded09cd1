SPECIFICATION FairSpec
CONSTANTS
  Size = 4
  PeerBinlog = {TRUE, FALSE}
  Faults = {"side", "sql", "clone", "pod"}
  MaxFault = 3
CHECK_DEADLOCK FALSE
INVARIANTS TypeOK LateHarmless SoundPosition AtMostOnce NeverOwnData RelayKept
PROPERTIES AllServe
