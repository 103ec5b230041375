SPECIFICATION Spec
CONSTANTS
  Callers = {c1, c2}
  MaxToken = 4
INVARIANT WorkingEndsAccountedFor
PROPERTY DeadSessionsStayDead
