\* The system stops when everything is delivered and nobody changes anything.
SPECIFICATION FairSpec
CONSTANTS
  Series = {s1}
  Wide = {}
  Buffer = 2
  Faults = {"navigate"}
  MaxVersion = 1
  MaxFaults = 1
CHECK_DEADLOCK FALSE
PROPERTY StaysCurrent
