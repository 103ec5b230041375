SPECIFICATION Spec
CONSTANTS
  Requests = {r1, r2}
  MaxUser = 1
  GroupNames = {a}
  MaxTerm = 3
  MaxStage = 3
  Formats = {video, tex}
  MaxSeries = 1
  MaxSteps = 3
SYMMETRY Symmetry
INVARIANTS RazborInv TableIsWhatStudentsSee
PROPERTIES EditsDoAsked RolloverKeepsAccess RowsAreHistory
CHECK_DEADLOCK FALSE
