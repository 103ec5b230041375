SPECIFICATION Spec
CONSTANTS
  Callers = {c1, c2}
  MaxToken = 3
INVARIANT OneLivePerLogin
