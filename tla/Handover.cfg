SPECIFICATION HandoverSpec
CONSTANTS
  Engines = {a, b}
  NoEngine = NoEngine
  Specs = {"1m1e", "ports"}
  Objects <- FocusOne
  Watched <- MCWatched
  Plain <- MCPlain
  Plan <- MCPlan
  Finalizers = {"kubernetes.io/pv-protection"}
  pvFinalizer = "kubernetes.io/pv-protection"
  Foreign = Foreign
  MaxUser = 2
  MaxFault = 1
  MaxCrash = 0
  MaxChurn = 0
  MaxSquat = 0
  MaxAhead = 0
  MaxStale = 1
SYMMETRY Alike
CHECK_DEADLOCK FALSE
INVARIANTS HandoverRests NoTheft
