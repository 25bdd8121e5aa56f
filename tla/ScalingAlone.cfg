CONSTANTS
  a = a
  b = b
  Provider <- AB
  Near <- ABNear
  Workers <- ABWorkers
  Function = {f1}
  Kubeconfig <- Everywhere
  MinReplicas = 2
  MaxReplicas = 4
  MaxFunctions = 1
  EnabledOffload = TRUE
  Bits = 8
  Requests = {1, 2, 3, 4}
  Starts <- AnyStart
  Overloads <- AnyOverload
  Handler = {h1}
  Kinds = {"scale", "set"}
  MaxOps = 3
  MaxFaults = 0
SPECIFICATION Spec
CHECK_DEADLOCK FALSE
INVARIANTS TargetReached OnlyExcessIsLowered
