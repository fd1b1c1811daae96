CONSTANTS
  w1 = w1
  w2 = w2
  m1 = m1
  m2 = m2
  World = {w1, w2}
  Map = {m1, m2}
  Holds <- MCHolds
  NoWorld = NoWorld
  NoMap = NoMap
SPECIFICATION RegistrySpec
INVARIANTS RoutesAreOwned RoutedIsKnown HandshakeLosesNothing
CHECK_DEADLOCK FALSE
