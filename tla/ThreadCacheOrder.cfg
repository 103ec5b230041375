SPECIFICATION Spec
CONSTANTS
  Student = s
  Teachers = {g1}
  Admins = {}
  Reqs = {r1, r2}
  Uuids = {}
  Null = Null
  Lease = 1
  MaxId = 4
  MaxTime = 1
SYMMETRY Symmetry
INVARIANT CacheAgreesWithTimeline
