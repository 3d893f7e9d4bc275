CONSTANTS
  c1 = c1
  c2 = c2
  l1 = l1
  Cpu = {c1, c2}
  Line = {l1}
  Device = device
  MayArm <- ArmAnyLine
SPECIFICATION Spec
INVARIANT SleepsOnlySettled
