SPECIFICATION Spec
CONSTANTS
  Period = 4
  Unset = 5
  Starved = 2
  Second = 3
  MaxLate = 8
  MaxBorrow = 1
VIEW Relative
INVARIANTS CountPreserved CounterKeepsToTicks
PROPERTIES Paced 
