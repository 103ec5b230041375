\* The system stops when everything is delivered and nobody changes anything.
SPECIFICATION FairSpec
CONSTANTS
  Series = {s1, s2}
  Wide = {}
  Buffer = 4
  Faults = {}
  MaxVersion = 2
  MaxFaults = 0
CHECK_DEADLOCK FALSE
PROPERTY StaysCurrent
