CONSTANTS
  Session = {s1, s2}
  Char = {c1, c2}
  Nobody = nobody
  MaxPackets = 3
  MaxAgain = 1
SPECIFICATION MCSpec
INVARIANTS KnotsAreKnown UsedWhileLive GoneIsGone
CHECK_DEADLOCK FALSE
SYMMETRY Perms
