SPECIFICATION Spec
CONSTANTS
  Requests = {r1, r2}
  MaxUser = 1
  GroupNames = {a}
  MaxTerm = 3
  MaxStage = 3
  Formats = {video}
  MaxSeries = 1
  MaxSteps = 4
INVARIANT TermsFollow
CHECK_DEADLOCK FALSE
