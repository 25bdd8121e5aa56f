CONSTANTS
  a = a
  b = b
  Provider <- AB
  Near <- ABNear
  Workers <- ABWorkers
  Function = {f1}
  Kubeconfig <- Everywhere
  MinReplicas = 1
  MaxReplicas = 3
  MaxFunctions = 1
  EnabledOffload = TRUE
  Bits = 8
  Requests = {1}
  Starts <- EachRunsOne
  Overloads <- NoOverload
  Handler = {h1, h2}
  Kinds = {"scale"}
  MaxOps = 2
  MaxFaults = 0
SPECIFICATION Spec
CHECK_DEADLOCK FALSE
SYMMETRY Slots
INVARIANT NeverScaledToZero
