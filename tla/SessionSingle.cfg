SPECIFICATION FairSpec
CONSTANTS
  Tabs = {t1}
  Queries = {q1, q2}
  MaxToken = 3
  MaxReloads = 1
INVARIANT NoSelfReplay
PROPERTY WaitersResume
