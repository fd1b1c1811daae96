CONSTANTS
  Session = {s1, s2}
  Account = {1, 2}
  Slot = {0, 1}
  MaxChar = 2
  MaxPackets = 3
  MaxRestarts = 1
SPECIFICATION Spec
INVARIANT CharactersHold
PROPERTIES CharactersAreKept
CHECK_DEADLOCK FALSE
