CONSTANTS
  Calls = {c1, c2}
  Fds = {f1, f2}
  Socks = {s1, s2}
  None = None
  MaxQueue = 2
  MaxUsed = 3
SPECIFICATION MCSpec
SYMMETRY Symmetry
INVARIANTS TypeOK SocketsOutliveHandlers AssignedIsMapped ReadsKeepComing CallOutlivesTransfer NeverCalledBackTwice
CHECK_DEADLOCK FALSE
