SPECIFICATION FairSpec
CONSTANTS
  Goroutine = {g1, g2, g3}
  Service = {s1, s2}
  NoOne = NoOne
  NoMutex = NoMutex
INVARIANTS LockTypeOK MutualExclusion CounterExact
PROPERTIES ImplementsTryLock AnsweredAtOnce
