SPECIFICATION Spec
CONSTANTS
  Engines = {"a"}
  NoEngine = NoEngine
  Specs = {"1m1e", "ports"}
  Objects <- FocusEdits
  Watched <- MCWatched
  Plain <- MCPlain
  Plan <- MCPlan
  Finalizers = {"kubernetes.io/pv-protection", "other"}
  pvFinalizer = "kubernetes.io/pv-protection"
  Foreign = Foreign
  MaxUser = 3
  MaxFault = 1
  MaxCrash = 0
  MaxChurn = 0
  MaxSquat = 0
  MaxAhead = 0
CHECK_DEADLOCK FALSE
INVARIANTS
  NoRollback
  NoLostEdit
  RestConverged
PROPERTY ImplementsStore
