--------------------------- MODULE MCPacketWorker ---------------------------
(* Small instances of PacketWorker: as many workers as packets, since a    *)
(* worker is created for a packet that was pushed.  The place of a worker  *)
(* in run() is called workerPc here, so that one module can speak of the   *)
(* workers and of the pool that runs them.                                 *)
EXTENDS Naturals, Sequences, FiniteSets

CONSTANTS Worker, NoWorker, MaxPackets, ClearsOnStop, PoolStops

VARIABLES packets, received, epoll, socket, worker, workerPc, running, hand,
          overlooked, handled

W == INSTANCE PacketWorker WITH pc <- workerPc

ASSUME Workers == W!WorkerAssumption

WorkerSpec == W!Spec

SerialHandling == W!SerialHandling
ImplementsPacketService == W!ImplementsPacketService
StrandedIsKnown == W!StrandedIsKnown
=============================================================================
