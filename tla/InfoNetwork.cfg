CONSTANTS
  Provider = {p1, p2}
  Function = {f1}
  MaxCount = 1
  Boots <- JustReady
  MaxRetries = 1
  Ordered = TRUE
  MaxLosses = 1
  MaxQueue = 1
  MaxChanges = 1
  MaxRestarts = 1
  MaxCuts = 1
SPECIFICATION Spec
SYMMETRY Symmetry
CHECK_DEADLOCK FALSE
INVARIANTS TypeOK CatalogsSound ReplicasAreCounted  CrashWindow
