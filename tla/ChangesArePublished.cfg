CONSTANTS
  Provider = {p1, p2}
  Function = {f1}
  MaxCount = 1
  Boots <- JustReady
  MaxRetries = 1
  Ordered = TRUE
  MaxLosses = 0
  MaxQueue = 2
  MaxChanges = 1
  MaxRestarts = 0
  MaxCuts = 0
SPECIFICATION FairSpec
CHECK_DEADLOCK FALSE
PROPERTY ChangesArePublished
