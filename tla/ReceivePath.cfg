CONSTANTS
  Byte = {0, 1, 2, 3, 4, 5, 6, 7, 8, 9, 10, 11, 12}
  AnyByte = {0, 1}
  Capacity = 5
  MaxPacketLen = 4
  PacketLen = {1, 3}
  MaxPackets = 4
SPECIFICATION ReceiveSpec
INVARIANTS ReservedIsFree InOrder KeptOpen
PROPERTY Delivered
CHECK_DEADLOCK FALSE
