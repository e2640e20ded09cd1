SPECIFICATION Spec
CONSTANTS
  Engines = {"a"}
  NoEngine = NoEngine
  Specs = {"storage"}
  Objects <- FocusPanic
  Watched <- MCWatched
  Plain <- MCPlain
  Plan <- MCPlan
  Finalizers = {"kubernetes.io/pv-protection"}
  pvFinalizer = "kubernetes.io/pv-protection"
  Foreign = Foreign
  MaxUser = 1
  MaxFault = 0
  MaxCrash = 0
  MaxChurn = 0
  MaxSquat = 0
  MaxAhead = 0
CHECK_DEADLOCK FALSE
INVARIANT OperatorStaysUp
