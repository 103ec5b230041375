\* The system stops when everything is delivered and nobody changes anything.
SPECIFICATION FairSpec
CONSTANTS
  Series = {s1}
  Wide = {w1}
  Buffer = 1
  Faults = {"notify", "listener", "stream", "hide", "navigate", "fetch"}
  MaxVersion = 2
  MaxFaults = 2
CHECK_DEADLOCK FALSE
INVARIANT GridTypeOK
PROPERTIES
  RefreshEnds
  MissedChangesArrive
