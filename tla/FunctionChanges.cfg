CONSTANTS
  a = a
  b = b
  Nil = Nil
  Name = "f"
  Namespace = "fn"
  ValidNames = {"f"}
  PublicImages = {"v1", "v2"}
  Numeral <- Numbers
  MaxReplicas = 3
  HTTPProbe = TRUE
  SetNonRootUser = TRUE
  Provider <- AB
  Entry = {a}
  SecretNames = {"pull", "token"}
  Present <- Before
  Requests <- AllRequests
  Kinds = {"deploy", "update", "delete", "copy", "secret"}
  Clock = {"t"}
  Handler = {h1, h2}
  MaxOps = 3
  MaxFaults = 1
SPECIFICATION Spec
CHECK_DEADLOCK FALSE
SYMMETRY Slots
INVARIANTS TypeOK UpdateLeavesNothingBehind CopyIsAdmissible ServiceAgrees
  RestrictionsKept OneFunctionEverywhere
PROPERTIES AcceptedIsApplied
