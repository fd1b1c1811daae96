--------------------------- MODULE SharedSockets ----------------------------
(***************************************************************************)
(* Sockets with what the header of SocketMgr rules out and login and world *)
(* do: the worker of a socket, a thread of the pool, calls close() when it *)
(* handles a packet, also one that came before the socket was closed.      *)
(* Deleting the object is left to the epoll thread.                        *)
(***************************************************************************)
EXTENDS Sockets

VARIABLE asked   (* sockets whose worker has had such a packet (bound: one) *)

sharedVars == <<vars, asked>>

SharedInit == Init /\ asked = {}

(* The socket is registered when the packet arrives ... *)
WorkerGets(s) ==
  /\ s \notin asked
  /\ \E f \in FD : fds[f] = s
  /\ Go(s, "idle", "packet")
  /\ asked' = asked \cup {s}
  /\ at' = [at EXCEPT ![s] = s]
  /\ UNCHANGED <<fds, maxFd, kernel, epollVars, objVars, gcVars, mainVars>>

(* ... and is closed when a thread of the pool comes to it. *)
WorkerCloses(s) ==
  /\ Go(s, "packet", "close")
  /\ UNCHANGED <<fds, maxFd, kernel, epollVars, objVars, gcVars, at, mainVars>>
  /\ UNCHANGED asked

SharedNext ==
  \/ Next /\ UNCHANGED asked
  \/ \E s \in Closer : WorkerGets(s) \/ WorkerCloses(s)

SharedSpec == SharedInit /\ [][SharedNext]_sharedVars

(* Every thread goes on, SocketGC's as soon as there is one, and a packet  *)
(* that has come to the worker of a socket is handled.                     *)
FairSharedSpec ==
  /\ SharedSpec
  /\ \A t \in Thread : WF_sharedVars((Add(t) \/ Closing(t)) /\ UNCHANGED asked)
  /\ \A s \in Closer : WF_sharedVars(WorkerCloses(s))
  /\ WF_sharedVars(EpollStep /\ UNCHANGED asked)
  /\ WF_sharedVars(Collect /\ UNCHANGED asked)

-----------------------------------------------------------------------------
(***************************************************************************)
(* As long as no worker closes a socket, what the epoll thread takes from  *)
(* the table is live, and SocketGC is handed every object once, although a *)
(* descriptor is given out again before its slot is cleared.               *)
(***************************************************************************)
TableIsSound == asked = {} => TableValid /\ CollectedOnce

(***************************************************************************)
(* "All the sockets are started by the worker and will delete and used by  *)
(* the worker only ... so lock is useless" (socketmgr.h): as long as that  *)
(* is so, a descriptor the kernel has given to another connection in the   *)
(* meantime is not closed by the second close() of a socket.               *)
(***************************************************************************)
ClosesOwnDescriptor ==
  [][\A f \in FD : kernel[f] # NoSock /\ kernel'[f] = NoSock =>
       \/ asked # {}
       \/ \E t \in Thread : pc[t] = "shut" /\ at[t] = kernel[f]]_sharedVars

(***************************************************************************)
(* Every connection is opened, closed and deleted in this order and once;  *)
(* once a worker has a hand in it an object may be deleted while its       *)
(* connection is open, as when the server stops.                           *)
(***************************************************************************)
Connection ==
  INSTANCE ConnectionLife
    WITH status <- Status, stopping <- quit \/ asked # {}

ImplementsConnectionLife == Connection!Spec

(***************************************************************************)
(* A socket the epoll thread closes is deleted in the end, whatever the    *)
(* workers close, unless the server stops first or SocketGC::GC, called by *)
(* two threads at a time, has started two GCWorkers.                       *)
(***************************************************************************)
ClosedIsDeleted ==
  \A s \in Sock :
    (pc[Epoll] = "shut" /\ at[Epoll] = s) ~>
      (life[s] = "deleted" \/ quit \/ workers > 1)
=============================================================================
