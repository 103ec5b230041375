SPECIFICATION Spec
CONSTANTS
  Requests = {r1, r2}
  Numbers = {0, 1}
  SeriesNumbers = {1}
  MaxCount = 2
  MaxSpecs = 2
  MaxTerm = 2
  MaxSeries = 1
  MaxProblem = 2
  MaxSub = 4
SYMMETRY Symmetry
INVARIANTS BoardInv EditDoesAsked
CHECK_DEADLOCK FALSE
