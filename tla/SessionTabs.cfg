SPECIFICATION Spec
CONSTANTS
  Tabs = {t1, t2}
  Queries = {q1}
  MaxToken = 3
  MaxReloads = 0
SYMMETRY Symmetry
INVARIANTS
  SessionInv
