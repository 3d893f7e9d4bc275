SPECIFICATION Spec
CONSTANTS
  Drive = {"disk"}
  Command <- DmaReads
  Patient = FALSE
  MaxCommands = 2
INVARIANT TransfersTheLast
