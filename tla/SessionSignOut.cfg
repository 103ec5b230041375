SPECIFICATION Spec
CONSTANTS
  Tabs = {t1}
  Queries = {q1}
  MaxToken = 3
  MaxReloads = 0
PROPERTY SignedOutStaysOut
