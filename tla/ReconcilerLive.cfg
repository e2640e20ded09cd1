SPECIFICATION FairSpec
CONSTANTS
  Engines = {"a"}
  NoEngine = NoEngine
  Specs = {"1m1e", "ports", "storage"}
  Objects <- FocusLive
  Watched <- MCWatched
  Plain <- MCPlain
  Plan <- MCPlan
  Finalizers = {"kubernetes.io/pv-protection"}
  pvFinalizer = "kubernetes.io/pv-protection"
  Foreign = Foreign
  MaxUser = 2
  MaxFault = 1
  MaxCrash = 1
  MaxChurn = 0
  MaxSquat = 0
  MaxAhead = 1
CHECK_DEADLOCK FALSE
PROPERTIES Converges DeletionCompletes ChildrenFollow
