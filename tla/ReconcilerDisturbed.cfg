SPECIFICATION Spec
CONSTANTS
  Engines = {a, b}
  NoEngine = NoEngine
  Specs = {"1m1e"}
  Objects <- FocusSwallow
  Watched <- MCWatched
  Plain <- MCPlain
  Plan <- MCPlan
  Finalizers = {"kubernetes.io/pv-protection"}
  pvFinalizer = "kubernetes.io/pv-protection"
  Foreign = Foreign
  MaxUser = 2
  MaxFault = 1
  MaxCrash = 1
  MaxChurn = 1
  MaxSquat = 1
  MaxAhead = 0
SYMMETRY Alike
CHECK_DEADLOCK FALSE
INVARIANTS TypeOK IInv RestInv RestConverged RestSound
