CONSTANTS
  Nil = Nil
  a = a
  b = b
  Provider <- AB
  Near <- ABNear
  Kubeconfig <- ABKubeconfig
  EnabledOffload = TRUE
  Times = {0, 3}
  Entry = {a, b}
  Starts <- ABStarts
  Overloads <- NoneFarOrAll
  Samples <- Loads
  MaxInt = 200
  Request = {r1}
  MaxHops = 2
  MaxRequests = 2
  MaxChanges = 1
SPECIFICATION FairSpec
CHECK_DEADLOCK FALSE
INVARIANTS TypeOK OneHop  FasterIsLikelier
PROPERTIES CrashNeedsMissingConfig EveryRequestEnds
