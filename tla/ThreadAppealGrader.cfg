SPECIFICATION Spec
CONSTANTS
  Student = s
  Teachers = {g1, g2}
  Admins = {}
  Reqs = {r1}
  Uuids = {}
  Null = Null
  Lease = 1
  MaxId = 6
  MaxTime = 1
SYMMETRY Symmetry
PROPERTY AppealAnsweredByItsGrader
