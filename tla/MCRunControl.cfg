CONSTANTS
  NumCpus = 2
  Pc = {0}
  Entry = 0
  Bp = {0}
  kNone = kNone
  MaxEvents = 1
SPECIFICATION MCSpec
INVARIANTS
  AllStopped
  ThreadsHeldOff
  StateFileWhole
  SessionKept
PROPERTIES
  StopCompletes
  MainReturns
