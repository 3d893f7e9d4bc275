SPECIFICATION Spec
CONSTANTS
  Slot = {0, 1, 2}
  Cpu = {0, 1}
  Primary = 0
  dev = dev
  err = err
  s1 = s1
  s2 = s2
  s3 = s3
  DeviceInput = {dev}
  ErrorInput = {err}
  Source = {s1, s2, s3}
  InputOf <- Shared
  Mask = {{}, {dev, err}}
  HaltValue = {{}, {1}}
  MiscData <- Written
INVARIANTS InputsAreWiredOr LinesFollowRegisters OnePrimary
