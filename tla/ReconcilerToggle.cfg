SPECIFICATION Spec
CONSTANTS
  Engines = {"a"}
  NoEngine = NoEngine
  Specs = {"1m1e", "1m3e"}
  Objects <- FocusToggle
  Watched <- MCWatched
  Plain <- MCPlain
  Plan <- MCPlan
  Finalizers = {"kubernetes.io/pv-protection"}
  pvFinalizer = "kubernetes.io/pv-protection"
  Foreign = Foreign
  MaxUser = 2
  MaxFault = 0
  MaxCrash = 0
  MaxChurn = 0
  MaxSquat = 0
  MaxAhead = 0
CHECK_DEADLOCK FALSE
INVARIANT NoLeftovers
