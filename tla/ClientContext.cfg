CONSTANTS
  Calls = {c1}
  Fds = {f1, f2}
  Socks = {s1, s2}
  None = None
  MaxQueue = 2
  MaxUsed = 3
SPECIFICATION Spec
SYMMETRY Symmetry
INVARIANT ContextKnown
CHECK_DEADLOCK FALSE
