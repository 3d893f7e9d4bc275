SPECIFICATION MCSpec
CONSTANTS
  Clusters = 2
  MaxWrites = 2
  MaxFaults = 1
  MaxCrashes = 1
CHECK_DEADLOCK FALSE
INVARIANTS  LineSettles PassesKeepUp LosesOnlyInFlight 
   ConsoleKept RingsSound StreamsKept
