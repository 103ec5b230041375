SPECIFICATION Spec
CONSTANTS
  Subproblems = {1, 2}
  Offered <- MCOffered
  Requests = {r1}
  MaxNow = 2
  MaxGroup = 2
  MaxTerm = 2
INVARIANTS SolutionInv EndpointsAgree OpenCoffinsAreListed
PROPERTIES ReleaseIsFinal PublicationIsWhole
