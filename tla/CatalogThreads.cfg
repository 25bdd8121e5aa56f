CONSTANTS
  Provider = {me, p1}
  Self = me
  Function = {f1}
  MaxCount = 1
  Boots <- EmptyOrReady
  Messages <- Says
  Thread = {t1, t2}
  Kinds = {"add", "update", "delete", "connected", "stream", "room", "pack", "status", "list"}
  MaxOps = 3
SPECIFICATION Spec
SYMMETRY Goroutines
CHECK_DEADLOCK FALSE
INVARIANTS TimedAtEveryStep CrashNeedsRace SoundWhenQuiescent RunningIsReported
PROPERTY AtomicSpec
