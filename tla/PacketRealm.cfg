CONSTANTS
  Worker = {w1, w2, w3}
  NoWorker = NoWorker
  MaxPackets = 3
  ClearsOnStop = TRUE
  PoolStops = TRUE
SPECIFICATION WorkerSpec
INVARIANTS SerialHandling StrandedIsKnown
PROPERTY ImplementsPacketService
CHECK_DEADLOCK FALSE
