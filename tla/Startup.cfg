SPECIFICATION StartFairSpec
CONSTANTS
  Names = {"other"}
  Sizes = {}
  FramePorts = {}
  Images = {}
  Namespaces = {"dev", "prod"}
  MasterSizes = {0, 1, 2}
  Replicas = 1
  MaxLoss = 1
CHECK_DEADLOCK FALSE
INVARIANTS StartTypeOK RunsOnlyStartable StartOrder
PROPERTIES EngineRuns
