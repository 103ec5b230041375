SPECIFICATION Spec
CONSTANTS
  Student = s
  Teachers = {g1}
  Admins = {}
  Reqs = {r1, r2}
  Uuids = {u1}
  Null = Null
  Lease = 1
  MaxId = 4
  MaxTime = 2
SYMMETRY Symmetry
INVARIANTS
  TypeOK
  VerdictBacked
  PendingHasAttempt
  ReferencesResolve
  UuidOnce
PROPERTIES
  EventsImmutable
  ImportNeverOverwrites
