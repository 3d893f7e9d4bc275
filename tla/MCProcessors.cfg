SPECIFICATION MCSpec
CONSTANTS
  c1 = c1
  c2 = c2
  l1 = l1
  l2 = l2
  Cpu = {c1, c2}
  Line = {l1, l2}
  Device = device
  MayArm <- ArmOwnLine
VIEW View
INVARIANTS NoMissedStoreOnceSettled SleepsSafely FreshAfterIMB NoneStale NoneMissed
