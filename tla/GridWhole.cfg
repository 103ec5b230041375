\* The system stops when everything is delivered and nobody changes anything.
SPECIFICATION FairSpec
CONSTANTS
  Series = {s1}
  Wide = {w1}
  Buffer = 2
  Faults = {}
  MaxVersion = 1
  MaxFaults = 0
CHECK_DEADLOCK FALSE
PROPERTY StaysCurrent
