CONSTANTS
  Byte = {s1, s2}
  Capacity = 3
  MsgSize = 2
  MaxSends = 3
  KernelRoom = 2
SPECIFICATION SendSpec
INVARIANT StreamHolds
PROPERTY SendEndsOrDies
CHECK_DEADLOCK FALSE
