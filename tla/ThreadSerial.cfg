SPECIFICATION Spec
CONSTANTS
  Student = s
  Teachers = {g1, g2}
  Admins = {}
  Reqs = {r1}
  Uuids = {}
  Null = Null
  Lease = 1
  MaxId = 5
  MaxTime = 3
SYMMETRY Symmetry
INVARIANTS
  CacheAgreesWithTimeline
PROPERTIES
  FollowsLifecycle
  ClaimIsLease
