CONSTANTS
  a = a
  b = b
  Provider <- AB
  Near <- ABNear
  Workers <- ABWorkers
  Function = {f1}
  Kubeconfig <- Everywhere
  MinReplicas = 1
  MaxReplicas = 2
  MaxFunctions = 1
  EnabledOffload = TRUE
  Bits = 8
  Requests = {1, 2}
  Starts <- OneOrNone
  Overloads <- NoOverload
  Handler = {h1, h2}
  Kinds = {"deploy", "update", "delete", "scale", "set"}
  MaxOps = 3
  MaxFaults = 1
SPECIFICATION Spec
CHECK_DEADLOCK FALSE
SYMMETRY Slots
INVARIANTS TypeOK ServicesMatch
PROPERTIES OwnUnit UpdateKeepsReplicas
