---------------------------- MODULE PacketWorker ----------------------------
(***************************************************************************)
(* How the packets of one socket are handled, the same in all three        *)
(* servers (LoginSocketBase and LoginWorker, RealmSocketBase and           *)
(* RealmWorker, WorldSocketBase and WorldWorker).  The epoll thread parses *)
(* packets, pushes each into the queue of the socket and calls             *)
(* start_worker(); a worker, a task of the thread pool, pops and handles   *)
(* one packet per run() and goes when the queue is empty.                  *)
(*                                                                         *)
(* Queue operations and the sections under _worker_lock are one action     *)
(* each.  The pool is seen as TaskRunner promises: run() of a worker is    *)
(* repeated by one thread until it returns true.                           *)
(***************************************************************************)
EXTENDS Naturals, Sequences, FiniteSets

CONSTANTS
  Worker,        (* the worker objects that can be created (a bound)        *)
  NoWorker,      (* the NULL of _worker                                     *)
  MaxPackets,    (* packets the peer sends (a bound)                        *)
  ClearsOnStop,  (* a stopped worker resets _worker: TRUE in RealmWorker    *)
                 (* and WorldWorker, FALSE in LoginWorker                   *)
  PoolStops      (* does the thread pool shut its tasks down?               *)

WorkerAssumption ==
  /\ NoWorker \notin Worker
  /\ MaxPackets \in Nat
  /\ ClearsOnStop \in BOOLEAN
  /\ PoolStops \in BOOLEAN

VARIABLES
  packets,    (* _packets                                                   *)
  received,   (* how many packets were pushed; packet k is the k-th         *)
  epoll,      (* where the epoll thread is in on_rev()                      *)
  socket,     (* the life of the socket object                              *)
  worker,     (* _worker                                                    *)
  pc,         (* where each worker is in run(), "new" before it is created  *)
  running,    (* _running of each worker                                    *)
  hand,       (* the packet in the local variable p of run()                *)
  overlooked, (* did start_worker() last see a worker that had already found *)
              (* the queue empty?                                           *)
  handled     (* packets whose on_handle() has returned, in this order      *)

epollVars == <<packets, received, epoll, socket>>
vars == <<epollVars, worker, pc, running, hand, overlooked, handled>>

Packet == 1 .. MaxPackets
NoPacket == 0

Steps == {"run", "own", "pop", "popped", "handle", "clear"}

Init ==
  /\ packets = <<>>
  /\ received = 0
  /\ epoll = "idle"
  /\ socket = "open"
  /\ worker = NoWorker
  /\ pc = [w \in Worker |-> "new"]
  /\ running = [w \in Worker |-> TRUE]
  /\ hand = [w \in Worker |-> NoPacket]
  /\ overlooked = FALSE
  /\ handled = <<>>

Go(w, from, to) == pc[w] = from /\ pc' = [pc EXCEPT ![w] = to]

(***************************************************************************)
(* on_rev(), on the epoll thread, for every packet it finds.               *)
(***************************************************************************)
Push ==
  /\ socket = "open" /\ epoll = "idle"
  /\ received < MaxPackets
  /\ packets' = Append(packets, received + 1)
  /\ received' = received + 1
  /\ epoll' = "start"
  /\ UNCHANGED <<socket, worker, pc, running, hand, overlooked, handled>>

(* Mutant of StartWorker: the test `if (_worker)` is missing. *)
StartWorkerUnchecked ==
  /\ epoll = "start"
  /\ epoll' = "idle"
  /\ \E w \in Worker : worker' = w /\ Go(w, "new", "run")
  /\ UNCHANGED <<packets, received, socket, running, hand, overlooked, handled>>

(* start_worker(): create a worker and hand it to the pool, unless there   *)
(* is one.                                                                 *)
StartWorker ==
  /\ epoll = "start"
  /\ epoll' = "idle"
  /\ IF worker # NoWorker
     THEN UNCHANGED <<worker, pc>>
     ELSE \E w \in Worker : worker' = w /\ Go(w, "new", "run")
  /\ overlooked' = (worker # NoWorker /\ pc[worker] \in {"clear", "deleted"})
  /\ UNCHANGED <<packets, received, socket, running, hand, handled>>

(***************************************************************************)
(* run() of a worker.                                                      *)
(***************************************************************************)
(* if (!_running): go, in LoginWorker with _worker still set.              *)
RunBegin(w) ==
  /\ Go(w, "run", IF running[w] THEN "own"
                  ELSE IF ClearsOnStop THEN "clear" ELSE "deleted")
  /\ UNCHANGED <<epollVars, worker, running, hand, overlooked, handled>>

(* if (_socket->_worker != this) return true                               *)
RunOwn(w) ==
  /\ Go(w, "own", IF worker = w THEN "pop" ELSE "deleted")
  /\ UNCHANGED <<epollVars, worker, running, hand, overlooked, handled>>

Pop(w) ==
  /\ IF packets = <<>>
     THEN Go(w, "pop", "clear") /\ UNCHANGED <<packets, hand>>
     ELSE /\ Go(w, "pop", "popped")
          /\ hand' = [hand EXCEPT ![w] = Head(packets)]
          /\ packets' = Tail(packets)
  /\ UNCHANGED <<received, epoll, socket, worker, running, overlooked, handled>>

(* `|| !_running`: the packet that was popped is dropped.                  *)
Recheck(w) ==
  /\ Go(w, "popped", IF running[w] THEN "handle" ELSE "clear")
  /\ hand' = [hand EXCEPT ![w] = IF running[w] THEN @ ELSE NoPacket]
  /\ UNCHANGED <<epollVars, worker, running, overlooked, handled>>

(* Mutant of Handle: run() returns true after one packet. *)
HandleOnce(w) ==
  /\ Go(w, "handle", "clear")
  /\ handled' = Append(handled, hand[w])
  /\ hand' = [hand EXCEPT ![w] = NoPacket]
  /\ UNCHANGED <<epollVars, worker, running, overlooked>>

(* on_handle() returns, the packet is freed and run() returns false.       *)
Handle(w) ==
  /\ Go(w, "handle", "run")
  /\ handled' = Append(handled, hand[w])
  /\ hand' = [hand EXCEPT ![w] = NoPacket]
  /\ UNCHANGED <<epollVars, worker, running, overlooked>>

(* _worker = NULL under _worker_lock; run() returns true and the pool      *)
(* deletes the worker.                                                     *)
Clear(w) ==
  /\ Go(w, "clear", "deleted")
  /\ worker' = NoWorker
  /\ UNCHANGED <<epollVars, running, hand, overlooked, handled>>

Alive(w) == pc[w] \in Steps

(* ThreadPool::shutdown() calls shutdown() on the tasks it knows.          *)
StopWorker(w) ==
  /\ PoolStops
  /\ Alive(w)
  /\ running' = [running EXCEPT ![w] = FALSE]
  /\ UNCHANGED <<epollVars, worker, pc, hand, overlooked, handled>>

(***************************************************************************)
(* The socket is closed; two seconds later SocketGC deletes it, by when    *)
(* its worker is taken to have come to its end.  ~LoginSocketBase stops    *)
(* the worker that _worker points to.                                      *)
(***************************************************************************)
Close ==
  /\ socket = "open"
  /\ socket' = "closed"
  /\ UNCHANGED <<packets, received, epoll, worker, pc, running, hand, overlooked, handled>>

Destroy ==
  /\ socket = "closed" /\ epoll = "idle"
  /\ ~\E w \in Worker : Alive(w)
  /\ socket' = "deleted"
  /\ running' = [w \in Worker |-> running[w] /\ w # worker]
  /\ UNCHANGED <<packets, received, epoll, worker, pc, hand, overlooked, handled>>

-----------------------------------------------------------------------------
Run(w) ==
  RunBegin(w) \/ RunOwn(w) \/ Pop(w) \/ Recheck(w) \/ Handle(w) \/ Clear(w)

Next ==
  \/ Push \/ StartWorker
  \/ \E w \in Worker : Run(w) \/ StopWorker(w)
  \/ Close \/ Destroy

Spec == Init /\ [][Next]_vars

-----------------------------------------------------------------------------
TypeOK ==
  /\ packets \in Seq(Packet)
  /\ received \in 0 .. MaxPackets
  /\ epoll \in {"idle", "start"}
  /\ socket \in {"open", "closed", "deleted"}
  /\ worker \in Worker \cup {NoWorker}
  /\ pc \in [Worker -> Steps \cup {"new", "deleted"}]
  /\ running \in [Worker -> BOOLEAN]
  /\ hand \in [Worker -> Packet \cup {NoPacket}]
  /\ overlooked \in BOOLEAN
  /\ \A w \in Worker : hand[w] # NoPacket <=> pc[w] \in {"popped", "handle"}
  /\ handled \in Seq(Packet)

(***************************************************************************)
(* One worker at a time is between its creation and its end, and it is the *)
(* one that _worker names: on_handle(), which takes no lock in the login   *)
(* and the realm server, is never called by two threads for one socket,    *)
(* although the old worker clears _worker before it is gone.               *)
(***************************************************************************)
SerialHandling == \A w \in Worker : Alive(w) => worker = w

(***************************************************************************)
(* "to Make sure this will be clear before worker get closed"              *)
(* (loginsocketbase.h): _worker never points to a worker that the pool has *)
(* deleted, so start_worker() does not wait for a dead one and the         *)
(* destructor of the socket does not stop one.                             *)
(***************************************************************************)
WorkerPointerValid == worker # NoWorker => Alive(worker)

(***************************************************************************)
(* Queue, worker and pool together are the serial, ordered packet service. *)
(***************************************************************************)
InHand ==
  IF \E w \in Worker : hand[w] # NoPacket
  THEN hand[CHOOSE w \in Worker : hand[w] # NoPacket]
  ELSE NoPacket

Stopping == \E w \in Worker : ~running[w]

Service == INSTANCE PacketService WITH
  Nothing <- NoPacket, pending <- packets, current <- InHand,
  served <- handled, stopping <- Stopping

ImplementsPacketService == Service!Spec

(***************************************************************************)
(* A packet that waits has a start_worker() to come, or a worker that will *)
(* call try_pop() once more.  It is left to lie, until the next packet     *)
(* arrives, for one reason only: start_worker() took a worker that had     *)
(* already found the queue empty, but had not cleared _worker yet, for one *)
(* that would look; or a worker was told to stop.                          *)
(***************************************************************************)
WillLook == \E w \in Worker : pc[w] \in Steps \ {"clear"}

StrandedIsKnown ==
  packets # <<>> /\ epoll = "idle" => WillLook \/ overlooked \/ Stopping
=============================================================================
