SPECIFICATION Spec
CONSTANTS
  Students = {a}
  Teachers = {g1, g2}
  Subs = {1, 2}
  Series = {1, 2}
  Terms = {1, 2}
  SeriesOf <- MCSeriesOf
  TermOf <- MCTermOf
  Coffins <- MCCoffins
  Null = Null
  Lease = 1
  MaxEvents = 3
  MaxClaims = 1
  MaxTime = 3
SYMMETRY Symmetry
CHECK_DEADLOCK FALSE
INVARIANTS
  ViewInv
  StatsMatchQueues
  ViewsAgree
  CountersCountRows
  GridIsOfOneMoment
  TimelineExplainsStatus
