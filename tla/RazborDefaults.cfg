SPECIFICATION Spec
CONSTANTS
  Requests = {r1}
  MaxUser = 1
  GroupNames = {a}
  MaxTerm = 3
  MaxStage = 3
  Formats = {video, tex}
  MaxSeries = 1
  MaxSteps = 4
PROPERTY DefaultsAreForLaterSeries
CHECK_DEADLOCK FALSE
