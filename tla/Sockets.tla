------------------------------ MODULE Sockets -------------------------------
(***************************************************************************)
(* How connections come and go in a server: SocketMgr, SocketWorker,       *)
(* SocketGC, TcpListenSocket and the connecting and closing half of        *)
(* TcpSocket.  One thread waits on epoll, accepts, serves and closes; the  *)
(* main thread opens the connection to the parent server and, at the end,  *)
(* calls close_all().  None of the tables has a lock.  That workers close  *)
(* sockets, too, is in SharedSockets, which has the properties.            *)
(*                                                                         *)
(* Descriptors are given out by the kernel, the lowest free one first, and *)
(* are free again as soon as they are closed.  Bytes and buffers are in    *)
(* SendPath; here serving a socket either leaves it open or closes it      *)
(* once.  GCWorker deletes an object two seconds after it was handed in:   *)
(* by then every thread is taken to be done with it.                       *)
(***************************************************************************)
EXTENDS Integers, Sequences, FiniteSets

CONSTANTS
  Sock,        (* the TcpSocket objects (a bound)                           *)
  NoSock,      (* NULL                                                      *)
  FD,          (* descriptors the kernel can give out                       *)
  HolderSize,  (* SOCKET_HOLDER_SIZE                                        *)
  MaxGc,       (* the epoll thread serves no socket while SocketGC::_data   *)
               (* has more entries (a bound: serving one adds at most one)  *)
  Closer       (* the sockets whose worker calls close(): see SharedSockets *)

Epoll == "epoll"
Main == "main"

ASSUME SocketsAssumption ==
  /\ NoSock \notin Sock
  /\ FD \subseteq Nat
  /\ HolderSize \in Nat
  /\ MaxGc \in Nat
  /\ Closer \subseteq Sock
  /\ Epoll \notin Sock /\ Main \notin Sock

VARIABLES
  fds,         (* SocketMgr::_fds                                           *)
  maxFd,       (* SocketMgr::_max_fd                                        *)
  kernel,      (* the socket whose connection is open under a descriptor    *)
  watched,     (* descriptors in the epoll set                              *)
  events,      (* what has happened on a descriptor since epoll reported it *)
  batch,       (* what epoll_wait returned and was not yet looked at        *)
  life,        (* of each object                                            *)
  fd,          (* _fd of each object                                        *)
  connected,   (* _connected of each object                                 *)
  gc,          (* SocketGC::_data                                           *)
  workers,     (* the GCWorkers there are: SocketGC::_worker is the last    *)
  pc, at,      (* where each thread is, and with which socket               *)
  dialled,     (* has the main thread called connect()?                     *)
  quit,        (* has the main thread called close_all()?                   *)
  todo         (* slots its loop has still to visit                         *)

epollVars == <<watched, events, batch>>
objVars == <<life, fd, connected>>
gcVars == <<gc, workers>>
mainVars == <<dialled, quit, todo>>
vars == <<fds, maxFd, kernel, epollVars, objVars, gcVars, pc, at, mainVars>>

Thread == Closer \cup {Epoll, Main}   (* the worker of s is named by s *)
Event == {"in", "hup"}
NoFd == -1

Init ==
  /\ fds = [f \in FD |-> NoSock]
  /\ maxFd = 0
  /\ kernel = [f \in FD |-> NoSock]
  /\ watched = {}
  /\ events = [f \in FD |-> {}]
  /\ batch = [f \in FD |-> {}]
  /\ life = [s \in Sock |-> "new"]
  /\ fd = [s \in Sock |-> NoFd]
  /\ connected = [s \in Sock |-> FALSE]
  /\ gc = <<>>
  /\ workers = 0
  /\ pc = [t \in Thread |-> "idle"]
  /\ at = [t \in Thread |-> NoSock]
  /\ dialled = FALSE
  /\ quit = FALSE
  /\ todo = {}

Go(t, from, to) == pc[t] = from /\ pc' = [pc EXCEPT ![t] = to]

(***************************************************************************)
(* Opening: a new object and the lowest descriptor the kernel has free.    *)
(***************************************************************************)
Lowest(F) == CHOOSE f \in F : \A g \in F : f <= g

Open(t, s) ==
  LET free == {f \in FD : kernel[f] = NoSock} IN
    /\ life[s] = "new" /\ free # {}
    /\ life' = [life EXCEPT ![s] = "alive"]
    /\ fd' = [fd EXCEPT ![s] = Lowest(free)]
    /\ kernel' = [kernel EXCEPT ![Lowest(free)] = s]
    /\ at' = [at EXCEPT ![t] = s]

(* on_accept(): TcpSocket::accept and _on_connect for the new socket. *)
Accept(s) ==
  /\ Go(Epoll, "idle", "add")
  /\ Open(Epoll, s)
  /\ connected' = [connected EXCEPT ![s] = TRUE]
  /\ UNCHANGED <<fds, maxFd, epollVars, gcVars, mainVars>>

(* connect() of the main thread, to the parent server. *)
Dial(s) ==
  /\ ~dialled /\ ~quit
  /\ Go(Main, "idle", "connect")
  /\ Open(Main, s)
  /\ dialled' = TRUE
  /\ UNCHANGED <<fds, maxFd, epollVars, connected, gcVars, quit, todo>>

(* It fails: the descriptor stays open, and nobody deletes the object. *)
DialFails ==
  /\ Go(Main, "connect", "idle")
  /\ at' = [at EXCEPT ![Main] = NoSock]
  /\ UNCHANGED <<fds, maxFd, kernel, epollVars, objVars, gcVars, mainVars>>

DialDone ==
  /\ Go(Main, "connect", "add")
  /\ connected' = [connected EXCEPT ![at[Main]] = TRUE]
  /\ UNCHANGED <<fds, maxFd, kernel, epollVars, life, fd, gcVars, at,
                 mainVars>>

(***************************************************************************)
(* SocketMgr::add.  A slot past HolderSize is memory behind _fds: it is    *)
(* the start of _listen_fds, whose entry is taken to be NULL.              *)
(***************************************************************************)
Raised(f) == IF maxFd < f THEN f ELSE maxFd

Add(t) ==
  LET s == at[t]
      f == fd[s]
      tooBig == maxFd < f /\ f >= HolderSize
      refused == fds[f] # NoSock \/ tooBig
  IN
    /\ Go(t, "add", IF refused THEN "close" ELSE "idle")
    /\ maxFd' = IF fds[f] = NoSock THEN Raised(f) ELSE maxFd
    /\ IF refused
       THEN UNCHANGED <<fds, watched, at>>
       ELSE /\ fds' = [fds EXCEPT ![f] = s]
            /\ watched' = watched \cup {f}
            /\ at' = [at EXCEPT ![t] = NoSock]
    /\ UNCHANGED <<kernel, events, batch, objVars, gcVars, mainVars>>

(***************************************************************************)
(* TcpSocket::close, on any thread.                                        *)
(***************************************************************************)
CloseMark(t) ==
  /\ Go(t, "close", "shut")
  /\ connected' = [connected EXCEPT ![at[t]] = FALSE]
  /\ UNCHANGED <<fds, maxFd, kernel, epollVars, life, fd, gcVars, at,
                 mainVars>>

(* ::close(_fd), whatever the kernel has under that number by now.  It     *)
(* leaves the epoll set, too.                                              *)
CloseFd(t) ==
  LET f == fd[at[t]] IN
    /\ Go(t, "shut", "remove")
    /\ kernel' = [kernel EXCEPT ![f] = NoSock]
    /\ watched' = watched \ {f}
    /\ events' = [events EXCEPT ![f] = {}]
    /\ UNCHANGED <<fds, maxFd, batch, objVars, gcVars, at, mainVars>>

(* Mutants of AfterClose: the object is never handed in; and the missing   *)
(* "continue" after EPOLLHUP, so that the callbacks close it once more.    *)
Leaks(t) == "idle"
FallsThrough(t) == IF t = Epoll THEN "serve" ELSE "gc"

(* What follows close(): _delete(), except on a worker. *)
AfterClose(t) == IF t \in Closer THEN "idle" ELSE "gc"

(* SocketMgr::remove looks whether the slot is the socket's own ... *)
Remove(t) ==
  LET own == fds[fd[at[t]]] = at[t] IN
    /\ Go(t, "remove", IF own THEN "clear" ELSE AfterClose(t))
    /\ UNCHANGED <<fds, maxFd, kernel, epollVars, objVars, gcVars, at,
                   mainVars>>

(* Mutant of Clear: the slot keeps its socket. *)
KeepsSlot(t) ==
  /\ Go(t, "clear", "unwatch")
  /\ UNCHANGED <<fds, maxFd, kernel, epollVars, objVars, gcVars, at, mainVars>>

(* ... clears it, whatever another thread has made of it since ... *)
Clear(t) ==
  /\ Go(t, "clear", "unwatch")
  /\ fds' = [fds EXCEPT ![fd[at[t]]] = NoSock]
  /\ UNCHANGED <<maxFd, kernel, epollVars, objVars, gcVars, at, mainVars>>

(* ... and then takes the descriptor out of the epoll set. *)
Unwatch(t) ==
  /\ Go(t, "unwatch", AfterClose(t))
  /\ watched' = watched \ {fd[at[t]]}
  /\ UNCHANGED <<fds, maxFd, kernel, events, batch, objVars, gcVars, at,
                 mainVars>>

(* _delete(): SocketGC::GC queues the object and looks for a GCWorker ... *)
Delete(t) ==
  /\ Go(t, "gc", IF workers = 0 THEN "start" ELSE "idle")
  /\ gc' = Append(gc, at[t])
  /\ at' = [at EXCEPT ![t] = NoSock]
  /\ UNCHANGED <<fds, maxFd, kernel, epollVars, objVars, workers, mainVars>>

(* ... which it starts without looking again: another thread may be as     *)
(* far, and is kept out only while it has _worker_lock.                    *)
Start(t) ==
  /\ Go(t, "start", IF quit /\ t = Main THEN "close_all" ELSE "idle")
  /\ \/ workers' = workers + 1
     \/ workers' = workers /\ \E u \in Thread \ {t} : pc[u] = "start"
  /\ UNCHANGED <<fds, maxFd, kernel, epollVars, objVars, gc, at, mainVars>>

Closing(t) ==
  \/ CloseMark(t) \/ CloseFd(t) \/ Remove(t) \/ Clear(t) \/ Unwatch(t)
  \/ Delete(t) \/ Start(t)

(***************************************************************************)
(* SocketWorker::run.                                                      *)
(***************************************************************************)
EpollWait ==
  /\ pc[Epoll] = "idle"
  /\ \A f \in FD : batch[f] = {}
  /\ \E f \in watched : events[f] # {}
  /\ batch' = [f \in FD |-> IF f \in watched THEN events[f] ELSE {}]
  /\ events' = [f \in FD |-> IF f \in watched THEN {} ELSE events[f]]
  /\ UNCHANGED <<fds, maxFd, kernel, watched, objVars, gcVars, pc, at,
                 mainVars>>

(* A descriptor that is too high, or that has no socket any more. *)
Skip(f) ==
  /\ pc[Epoll] = "idle" /\ batch[f] # {}
  /\ f >= HolderSize \/ fds[f] = NoSock
  /\ batch' = [batch EXCEPT ![f] = {}]
  /\ UNCHANGED <<fds, maxFd, kernel, watched, events, objVars, gcVars, pc, at,
                 mainVars>>

(* EPOLLHUP or EPOLLERR: close() and _delete(); else the callbacks. *)
Dispatch(f) ==
  /\ Len(gc) <= MaxGc
  /\ batch[f] # {} /\ f < HolderSize /\ fds[f] # NoSock
  /\ Go(Epoll, "idle", IF "hup" \in batch[f] THEN "close" ELSE "serve")
  /\ at' = [at EXCEPT ![Epoll] = fds[f]]
  /\ batch' = [batch EXCEPT ![f] = {}]
  /\ UNCHANGED <<fds, maxFd, kernel, watched, events, objVars, gcVars,
                 mainVars>>

(* read_callback or write_callback returns with the socket as it is ... *)
Serve ==
  /\ Go(Epoll, "serve", "check")
  /\ UNCHANGED <<fds, maxFd, kernel, epollVars, objVars, gcVars, at, mainVars>>

(* ... or closes it: the peer has closed, ::send fails, a packet is bad. *)
ServeCloses ==
  /\ Go(Epoll, "serve", "close")
  /\ UNCHANGED <<fds, maxFd, kernel, epollVars, objVars, gcVars, at, mainVars>>

(* Mutant of Check: a socket that is still connected is deleted. *)
CheckDeletes ==
  /\ Go(Epoll, "check", "gc")
  /\ UNCHANGED <<fds, maxFd, kernel, epollVars, objVars, gcVars, at, mainVars>>

(* if (!ptr->is_connected()) ptr->_delete() *)
Check ==
  /\ Go(Epoll, "check", IF connected[at[Epoll]] THEN "idle" ELSE "gc")
  /\ at' = IF connected[at[Epoll]] THEN [at EXCEPT ![Epoll] = NoSock] ELSE at
  /\ UNCHANGED <<fds, maxFd, kernel, epollVars, objVars, gcVars, mainVars>>

(***************************************************************************)
(* GCWorker::run.                                                          *)
(***************************************************************************)
InUse(s) == \E t \in Thread : pc[t] # "idle" /\ at[t] = s

Collect ==
  /\ workers > 0
  /\ gc # <<>> /\ ~InUse(Head(gc))
  /\ life' = [life EXCEPT ![Head(gc)] = "deleted"]
  /\ gc' = Tail(gc)
  /\ UNCHANGED <<fds, maxFd, kernel, epollVars, fd, connected, workers, pc,
                 at, mainVars>>

(* Two GCWorkers have one "static GCData data": the second takes an entry  *)
(* over one that is not yet deleted, which is lost.  (That both delete the *)
(* same object has no other state.)                                        *)
Lose ==
  /\ workers > 1 /\ gc # <<>>
  /\ gc' = Tail(gc)
  /\ UNCHANGED <<fds, maxFd, kernel, epollVars, objVars, workers, pc, at,
                 mainVars>>

(***************************************************************************)
(* close_all(): _delete() for every socket in the table, and no more.      *)
(***************************************************************************)
Quit ==
  /\ ~quit
  /\ Go(Main, "idle", "close_all")
  /\ quit' = TRUE
  /\ todo' = {f \in FD : f < HolderSize}
  /\ UNCHANGED <<fds, maxFd, kernel, epollVars, objVars, gcVars, at, dialled>>

CloseAll ==
  LET s == fds[Lowest(todo)] IN
    /\ todo # {} /\ Len(gc) <= MaxGc
    /\ Go(Main, "close_all", IF s # NoSock /\ workers = 0 THEN "start"
                             ELSE "close_all")
    /\ todo' = todo \ {Lowest(todo)}
    /\ gc' = IF s = NoSock THEN gc ELSE Append(gc, s)
    /\ UNCHANGED <<fds, maxFd, kernel, epollVars, objVars, workers, at,
                   dialled, quit>>

(* The peer sends, closes or resets the connection. *)
Peer(f, e) ==
  /\ kernel[f] # NoSock
  /\ events' = [events EXCEPT ![f] = @ \cup {e}]
  /\ UNCHANGED <<fds, maxFd, kernel, watched, batch, objVars, gcVars, pc, at,
                 mainVars>>

-----------------------------------------------------------------------------
EpollStep ==
  \/ EpollWait
  \/ \E f \in FD : Skip(f) \/ Dispatch(f)
  \/ Serve \/ ServeCloses \/ Check

Next ==
  \/ \E s \in Sock : Accept(s) \/ Dial(s)
  \/ DialFails \/ DialDone
  \/ \E t \in Thread : Add(t) \/ Closing(t)
  \/ EpollStep
  \/ Collect \/ Lose
  \/ Quit \/ CloseAll
  \/ \E f \in FD : \E e \in Event : Peer(f, e)

Spec == Init /\ [][Next]_vars

-----------------------------------------------------------------------------
Collected(s) == \E i \in 1 .. Len(gc) : gc[i] = s

(***************************************************************************)
(* While the server runs, a slot of _fds holds a live object whose _fd is  *)
(* the slot, and SocketGC does not hold it: what the epoll thread takes    *)
(* from the table cannot be deleted under its hands, although a            *)
(* descriptor is given out again before its slot is cleared.               *)
(***************************************************************************)
TableValid ==
  ~quit =>
    \A f \in FD : fds[f] # NoSock =>
      /\ fd[fds[f]] = f
      /\ life[fds[f]] = "alive"
      /\ ~Collected(fds[f])

(***************************************************************************)
(* While the server runs, an object is handed to SocketGC once: a GCWorker *)
(* that is the only one never deletes an object twice.                     *)
(***************************************************************************)
CollectedOnce ==
  ~quit =>
    /\ \A i, j \in 1 .. Len(gc) : gc[i] = gc[j] => i = j
    /\ \A s \in Sock : Collected(s) => life[s] = "alive"

(* Where a connection is in its life. *)
Status ==
  [s \in Sock |->
     CASE life[s] = "new"     -> "none"
       [] life[s] = "deleted" -> "deleted"
       [] life[s] = "alive" /\ \E f \in FD : kernel[f] = s -> "open"
       [] OTHER -> "closed"]
=============================================================================
