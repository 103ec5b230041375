SPECIFICATION RegistrationSpec
CONSTANTS
  Requests = {r1}
  MaxUser = 3
  GroupNames = {a}
  MaxTerm = 2
  MaxStage = 1
  Invitations = {i1, i2}
  Registrants = {g1, g2}
  People = {p, q}
  MaxUses = 1
  MaxChanges = 4
SYMMETRY Symmetry
INVARIANT RegistrationInv
PROPERTIES AccountsChangeOnce GrantsAreWhole
CHECK_DEADLOCK FALSE
