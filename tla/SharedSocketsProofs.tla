------------------------ MODULE SharedSocketsProofs -------------------------
(***************************************************************************)
(* Theorems about the connections of a server, for any number of sockets   *)
(* and descriptors.                                                        *)
(*                                                                         *)
(* The inductive invariant has three layers: what holds whatever happens   *)
(* (Base), what holds as long as no worker has closed a socket (Calm), and *)
(* what holds as long as the server does not stop, either (Safe).          *)
(***************************************************************************)
EXTENDS SharedSockets, TLAPS, FiniteSetTheorems, SequenceTheorems

Two == {Epoll, Main}
Opening == {"connect", "add", "close", "shut"}
Closed == {"remove", "clear", "unwatch", "gc"}
EpollPlace ==
  {"idle", "start", "add", "serve", "check", "close", "shut"} \cup Closed
MainPlace == {"idle", "start", "close_all"} \cup Opening \cup Closed
WorkerPlace == {"idle", "packet", "start", "close", "shut"} \cup Closed
Busy(t) == pc[t] \notin {"idle", "start", "close_all"}

TypeOK ==
  /\ fds \in [FD -> Sock \cup {NoSock}]
  /\ kernel \in [FD -> Sock \cup {NoSock}]
  /\ life \in [Sock -> {"new", "alive", "deleted"}]
  /\ fd \in [Sock -> FD \cup {NoFd}]
  /\ connected \in [Sock -> BOOLEAN]
  /\ gc \in Seq(Sock)
  /\ pc \in [Thread -> EpollPlace \cup MainPlace \cup WorkerPlace]
  /\ at \in [Thread -> Sock \cup {NoSock}]
  /\ todo \subseteq FD
  /\ quit \in BOOLEAN

(* Where each thread can be.                                               *)
PlacesHold ==
  /\ pc[Epoll] \in EpollPlace /\ pc[Main] \in MainPlace
  /\ pc[Main] = "close_all" => quit
  /\ \A t \in Closer : pc[t] \in WorkerPlace
  /\ \A t \in Thread : Busy(t) => at[t] \in Sock
  /\ \A t \in Two : ~Busy(t) => at[t] = NoSock

(* _fd never changes: it names the one slot and the one descriptor that    *)
(* can be a socket's, and nobody knows a socket that has none.             *)
FdsHold ==
  /\ \A s \in Sock : fd[s] = NoFd <=> life[s] = "new"
  /\ \A f \in FD : fds[f] # NoSock => fd[fds[f]] = f
  /\ \A f \in FD : kernel[f] # NoSock => fd[kernel[f]] = f
  /\ \A t \in Thread : at[t] # NoSock => fd[at[t]] # NoFd
  /\ \A s \in Sock : Collected(s) => fd[s] # NoFd

Base == TypeOK /\ PlacesHold /\ FdsHold

(* The epoll thread and the main thread have nothing in common, and what   *)
(* the main thread has is not in the table.                                *)
InTable(s) == fds[fd[s]] = s
IsOpen(s) == kernel[fd[s]] = s

Apart ==
  /\ \A t \in Closer : pc[t] = "idle" /\ at[t] = NoSock
  /\ at[Main] # NoSock => at[Main] # at[Epoll] /\ ~InTable(at[Main])

(* A socket in the table is open and connected, unless the epoll thread is *)
(* closing it.                                                             *)
TableOpen ==
  \A f \in FD : fds[f] # NoSock =>
    /\ kernel[f] # fds[f] => at[Epoll] = fds[f] /\ pc[Epoll] \in {"remove", "clear"}
    /\ ~connected[fds[f]] => at[Epoll] = fds[f] /\ pc[Epoll] \in {"shut", "remove", "clear"}

(* How far a thread is with its socket.                                    *)
Stages ==
  /\ \A t \in Two :
       /\ pc[t] \in Opening => IsOpen(at[t])
       /\ pc[t] \in Closed => ~IsOpen(at[t])
       /\ pc[t] \in {"add", "unwatch", "gc"} => ~InTable(at[t])
       /\ pc[t] = "clear" => InTable(at[t])
       /\ pc[t] = "add" => connected[at[t]]
  /\ pc[Epoll] \in {"serve", "check"} => InTable(at[Epoll])

Calm == Apart /\ TableOpen /\ Stages

(* The collector has what is closed and in nobody's hands any more.        *)
Held(s) == (\E f \in FD : fds[f] = s) \/ (\E t \in Two : at[t] = s)

GcOnce == \A i, j \in 1 .. Len(gc) : gc[i] = gc[j] => i = j

Safe ==
  /\ \A s \in Sock : Held(s) => life[s] = "alive" /\ ~Collected(s)
  /\ \A s \in Sock : Collected(s) => life[s] = "alive" /\ ~IsOpen(s)
  /\ GcOnce

IInv ==
  /\ Base
  /\ asked = {} => Calm
  /\ asked = {} /\ ~quit => Safe
-----------------------------------------------------------------------------
(* The threads are the workers and the two.                                *)
LEMMA ThreadsAre ==
  /\ Thread = Closer \cup Two
  /\ Epoll # Main /\ Epoll \notin Closer /\ Main \notin Closer
  /\ Closer \subseteq Sock
  /\ NoSock \notin Sock /\ NoFd \notin FD
BY SocketsAssumption DEF Thread, Two, Epoll, Main, NoFd

(* A set of naturals has a least one: if not, each lower bound would have  *)
(* a next, and the bounds below a member would be as many as all but 0.    *)
LEMMA LowestIsMember ==
  ASSUME NEW F \in SUBSET FD, F # {}
  PROVE  Lowest(F) \in F
<1>1. \E f \in F : \A g \in F : f <= g
  <2> SUFFICES ASSUME \A f \in F : \E g \in F : g < f PROVE FALSE
    BY SocketsAssumption
  <2>1. PICK n \in F : TRUE
    OBVIOUS
  <2>2. F \subseteq Nat /\ n \in Nat
    BY SocketsAssumption
  <2> DEFINE D == {d \in 0 .. n : \A g \in F : d <= g}
             up == [d \in D |-> d + 1]
  <2>3. 0 \in D
    BY <2>2
  <2>4. ASSUME NEW d \in D PROVE d + 1 \in D \ {0}
    <3>1. d \in Nat /\ \A g \in F : d <= g
      BY <2>2
    <3>2. d \notin F
      BY <2>2, <3>1
    <3>3. \A g \in F : d + 1 <= g
      BY <2>2, <3>1, <3>2
    <3> QED
      BY <2>1, <2>2, <3>1, <3>3
  <2>5. IsFiniteSet(D)
    <3>1. IsFiniteSet(0 .. n) /\ D \subseteq 0 .. n
      BY <2>2, FS_Interval
    <3> HIDE DEF D
    <3> QED
      BY <3>1, FS_Subset
  <2>6. up \in Injection(D, D \ {0})
    <3>1. up \in [D -> D \ {0}]
      BY <2>4
    <3>2. \A a, b \in D : up[a] = up[b] => a = b
      BY <2>2
    <3> HIDE DEF D, up
    <3> QED
      BY <3>1, <3>2 DEF Injection, IsInjective
  <2> HIDE DEF D, up
  <2>7. IsFiniteSet(D \ {0}) /\ Cardinality(D \ {0}) = Cardinality(D) - 1
    BY <2>3, <2>5, FS_RemoveElement
  <2>8. Cardinality(D) <= Cardinality(D \ {0})
    BY <2>6, <2>7, FS_Injection DEF ExistsInjection
  <2>9. Cardinality(D) \in Nat
    BY <2>5, FS_CardinalityType
  <2> QED
    BY <2>7, <2>8, <2>9
<1> QED
  BY <1>1 DEF Lowest

(* A new object gets a descriptor that is free.                            *)
LEMMA OpenGets ==
  ASSUME NEW t \in Thread, NEW s \in Sock, Open(t, s)
  PROVE  \E f \in FD :
           /\ kernel[f] = NoSock /\ life[s] = "new"
           /\ life' = [life EXCEPT ![s] = "alive"]
           /\ fd' = [fd EXCEPT ![s] = f]
           /\ kernel' = [kernel EXCEPT ![f] = s]
           /\ at' = [at EXCEPT ![t] = s]
<1> DEFINE free == {f \in FD : kernel[f] = NoSock}
<1>1. /\ life[s] = "new" /\ free # {}
      /\ life' = [life EXCEPT ![s] = "alive"]
      /\ fd' = [fd EXCEPT ![s] = Lowest(free)]
      /\ kernel' = [kernel EXCEPT ![Lowest(free)] = s]
      /\ at' = [at EXCEPT ![t] = s]
  BY DEF Open
<1>2. Lowest(free) \in free
  BY <1>1, LowestIsMember
<1>3. kernel[Lowest(free)] = NoSock /\ Lowest(free) \in FD
  BY <1>2
<1> QED
  BY <1>1, <1>3

(* Every step of any thread keeps the types.                               *)
LEMMA TypeStep ==
  ASSUME Base, SharedNext
  PROVE  TypeOK'
<1> USE ThreadsAre, LowestIsMember, OpenGets
    DEF Base, TypeOK, EpollPlace, MainPlace, WorkerPlace, Closed, Opening, Go, Two,
         epollVars, objVars, gcVars, mainVars
<1>1. ASSUME NEW s \in Sock, Accept(s) PROVE TypeOK'
  <2>1. Epoll \in Thread
    OBVIOUS
  <2>2. PICK f \in FD : /\ kernel[f] = NoSock /\ life[s] = "new"
                        /\ life' = [life EXCEPT ![s] = "alive"]
                        /\ fd' = [fd EXCEPT ![s] = f]
                        /\ kernel' = [kernel EXCEPT ![f] = s]
                        /\ at' = [at EXCEPT ![Epoll] = s]
    BY <1>1, <2>1, OpenGets DEF Accept
  <2> QED
    BY <1>1, <2>1, <2>2 DEF Accept
<1>2. ASSUME NEW s \in Sock, Dial(s) PROVE TypeOK'
  <2>1. Main \in Thread
    OBVIOUS
  <2>2. PICK f \in FD : /\ kernel[f] = NoSock /\ life[s] = "new"
                        /\ life' = [life EXCEPT ![s] = "alive"]
                        /\ fd' = [fd EXCEPT ![s] = f]
                        /\ kernel' = [kernel EXCEPT ![f] = s]
                        /\ at' = [at EXCEPT ![Main] = s]
    BY <1>2, <2>1, OpenGets DEF Dial
  <2> QED
    BY <1>2, <2>1, <2>2 DEF Dial
<1>3. CASE DialFails
  BY <1>3 DEF DialFails
<1>4. CASE DialDone
  BY <1>4 DEF DialDone
<1>5. ASSUME NEW t \in Thread, Add(t) PROVE TypeOK'
  BY <1>5 DEF Add
<1>6. ASSUME NEW t \in Thread, CloseMark(t) PROVE TypeOK'
  BY <1>6 DEF CloseMark
<1>7. ASSUME NEW t \in Thread, CloseFd(t) PROVE TypeOK'
  BY <1>7 DEF CloseFd
<1>8. ASSUME NEW t \in Thread, Remove(t) PROVE TypeOK'
  BY <1>8 DEF Remove, AfterClose
<1>23. ASSUME NEW t \in Thread, Clear(t) PROVE TypeOK'
  BY <1>23 DEF Clear
<1>24. ASSUME NEW t \in Thread, Start(t) PROVE TypeOK'
  BY <1>24 DEF Start
<1>25. CASE Lose
  BY <1>25 DEF Lose
<1>9. ASSUME NEW t \in Thread, Unwatch(t) PROVE TypeOK'
  BY <1>9 DEF Unwatch, AfterClose
<1>10. ASSUME NEW t \in Thread, Delete(t) PROVE TypeOK'
  <2>1. at[t] \in Sock
    BY <1>10 DEF Delete, PlacesHold, Busy
  <2>2. gc' \in Seq(Sock)
    BY <1>10, <2>1 DEF Delete
  <2> QED
    BY <1>10, <2>2 DEF Delete
<1>11. CASE EpollWait
  BY <1>11 DEF EpollWait
<1>12. ASSUME NEW f \in FD, Skip(f) PROVE TypeOK'
  BY <1>12 DEF Skip
<1>13. ASSUME NEW f \in FD, Dispatch(f) PROVE TypeOK'
  BY <1>13 DEF Dispatch
<1>14. CASE Serve
  BY <1>14 DEF Serve
<1>15. CASE ServeCloses
  BY <1>15 DEF ServeCloses
<1>16. CASE Check
  BY <1>16 DEF Check
<1>17. CASE Collect
  BY <1>17 DEF Collect
<1>18. CASE Quit
  BY <1>18 DEF Quit
<1>19. CASE CloseAll
  BY <1>19 DEF CloseAll
<1>20. ASSUME NEW f \in FD, NEW e \in Event, Peer(f, e) PROVE TypeOK'
  BY <1>20 DEF Peer
<1>21. ASSUME NEW s \in Closer, WorkerGets(s) PROVE TypeOK'
  BY <1>21 DEF WorkerGets
<1>22. ASSUME NEW s \in Closer, WorkerCloses(s) PROVE TypeOK'
  BY <1>22 DEF WorkerCloses
<1> QED
  BY <1>1, <1>2, <1>3, <1>4, <1>5, <1>6, <1>7, <1>8, <1>9, <1>10, <1>11, <1>12, <1>13,
       <1>14, <1>15, <1>16, <1>17, <1>18, <1>19, <1>20, <1>21, <1>22, <1>23, <1>24, <1>25 DEF SharedNext,
       Next, Closing, EpollStep

(* No thread leaves the places of its own code.                            *)
LEMMA PlacesStep ==
  ASSUME Base, SharedNext
  PROVE  PlacesHold'
<1> USE ThreadsAre, LowestIsMember, OpenGets
    DEF Base, TypeOK, PlacesHold, Busy, EpollPlace, MainPlace, WorkerPlace, Closed,
         Opening, Go, Two, epollVars, objVars, gcVars, mainVars
<1>1. ASSUME NEW s \in Sock, Accept(s) PROVE PlacesHold'
  <2>1. Epoll \in Thread
    OBVIOUS
  <2>2. PICK f \in FD : /\ kernel[f] = NoSock /\ life[s] = "new"
                        /\ life' = [life EXCEPT ![s] = "alive"]
                        /\ fd' = [fd EXCEPT ![s] = f]
                        /\ kernel' = [kernel EXCEPT ![f] = s]
                        /\ at' = [at EXCEPT ![Epoll] = s]
    BY <1>1, <2>1, OpenGets DEF Accept
  <2> QED
    BY <1>1, <2>1, <2>2 DEF Accept
<1>2. ASSUME NEW s \in Sock, Dial(s) PROVE PlacesHold'
  <2>1. Main \in Thread
    OBVIOUS
  <2>2. PICK f \in FD : /\ kernel[f] = NoSock /\ life[s] = "new"
                        /\ life' = [life EXCEPT ![s] = "alive"]
                        /\ fd' = [fd EXCEPT ![s] = f]
                        /\ kernel' = [kernel EXCEPT ![f] = s]
                        /\ at' = [at EXCEPT ![Main] = s]
    BY <1>2, <2>1, OpenGets DEF Dial
  <2> QED
    BY <1>2, <2>1, <2>2 DEF Dial
<1>3. CASE DialFails
  BY <1>3 DEF DialFails
<1>4. CASE DialDone
  BY <1>4 DEF DialDone
<1>5. ASSUME NEW t \in Thread, Add(t) PROVE PlacesHold'
  BY <1>5 DEF Add
<1>6. ASSUME NEW t \in Thread, CloseMark(t) PROVE PlacesHold'
  BY <1>6 DEF CloseMark
<1>7. ASSUME NEW t \in Thread, CloseFd(t) PROVE PlacesHold'
  BY <1>7 DEF CloseFd
<1>8. ASSUME NEW t \in Thread, Remove(t) PROVE PlacesHold'
  BY <1>8 DEF Remove, AfterClose
<1>23. ASSUME NEW t \in Thread, Clear(t) PROVE PlacesHold'
  BY <1>23 DEF Clear
<1>24. ASSUME NEW t \in Thread, Start(t) PROVE PlacesHold'
  BY <1>24 DEF Start
<1>25. CASE Lose
  BY <1>25 DEF Lose
<1>9. ASSUME NEW t \in Thread, Unwatch(t) PROVE PlacesHold'
  BY <1>9 DEF Unwatch, AfterClose
<1>10. ASSUME NEW t \in Thread, Delete(t) PROVE PlacesHold'
  BY <1>10 DEF Delete
<1>11. CASE EpollWait
  BY <1>11 DEF EpollWait
<1>12. ASSUME NEW f \in FD, Skip(f) PROVE PlacesHold'
  BY <1>12 DEF Skip
<1>13. ASSUME NEW f \in FD, Dispatch(f) PROVE PlacesHold'
  BY <1>13 DEF Dispatch
<1>14. CASE Serve
  BY <1>14 DEF Serve
<1>15. CASE ServeCloses
  BY <1>15 DEF ServeCloses
<1>16. CASE Check
  BY <1>16 DEF Check
<1>17. CASE Collect
  BY <1>17 DEF Collect
<1>18. CASE Quit
  BY <1>18 DEF Quit
<1>19. CASE CloseAll
  BY <1>19 DEF CloseAll
<1>20. ASSUME NEW f \in FD, NEW e \in Event, Peer(f, e) PROVE PlacesHold'
  BY <1>20 DEF Peer
<1>21. ASSUME NEW s \in Closer, WorkerGets(s) PROVE PlacesHold'
  BY <1>21 DEF WorkerGets
<1>22. ASSUME NEW s \in Closer, WorkerCloses(s) PROVE PlacesHold'
  BY <1>22 DEF WorkerCloses
<1> QED
  BY <1>1, <1>2, <1>3, <1>4, <1>5, <1>6, <1>7, <1>8, <1>9, <1>10, <1>11, <1>12, <1>13,
       <1>14, <1>15, <1>16, <1>17, <1>18, <1>19, <1>20, <1>21, <1>22, <1>23, <1>24, <1>25 DEF SharedNext,
       Next, Closing, EpollStep

(* A socket's descriptor stays the one it was opened with.                 *)
LEMMA FdsStep ==
  ASSUME Base, SharedNext
  PROVE  FdsHold'
<1> USE ThreadsAre, LowestIsMember, OpenGets
    DEF Base, FdsHold, Collected, TypeOK, PlacesHold, Busy, Go, Two, epollVars, objVars, gcVars,
         mainVars
<1>1. ASSUME NEW s \in Sock, Accept(s) PROVE FdsHold'
  <2>1. Epoll \in Thread
    OBVIOUS
  <2>2. PICK f \in FD : /\ kernel[f] = NoSock /\ life[s] = "new"
                        /\ life' = [life EXCEPT ![s] = "alive"]
                        /\ fd' = [fd EXCEPT ![s] = f]
                        /\ kernel' = [kernel EXCEPT ![f] = s]
                        /\ at' = [at EXCEPT ![Epoll] = s]
    BY <1>1, <2>1, OpenGets DEF Accept
  <2> QED
    BY <1>1, <2>1, <2>2 DEF Accept
<1>2. ASSUME NEW s \in Sock, Dial(s) PROVE FdsHold'
  <2>1. Main \in Thread
    OBVIOUS
  <2>2. PICK f \in FD : /\ kernel[f] = NoSock /\ life[s] = "new"
                        /\ life' = [life EXCEPT ![s] = "alive"]
                        /\ fd' = [fd EXCEPT ![s] = f]
                        /\ kernel' = [kernel EXCEPT ![f] = s]
                        /\ at' = [at EXCEPT ![Main] = s]
    BY <1>2, <2>1, OpenGets DEF Dial
  <2> QED
    BY <1>2, <2>1, <2>2 DEF Dial
<1>3. CASE DialFails
  BY <1>3 DEF DialFails
<1>4. CASE DialDone
  BY <1>4 DEF DialDone
<1>5. ASSUME NEW t \in Thread, Add(t) PROVE FdsHold'
  BY <1>5 DEF Add
<1>6. ASSUME NEW t \in Thread, CloseMark(t) PROVE FdsHold'
  BY <1>6 DEF CloseMark
<1>7. ASSUME NEW t \in Thread, CloseFd(t) PROVE FdsHold'
  BY <1>7 DEF CloseFd
<1>8. ASSUME NEW t \in Thread, Remove(t) PROVE FdsHold'
  BY <1>8 DEF Remove, AfterClose
<1>23. ASSUME NEW t \in Thread, Clear(t) PROVE FdsHold'
  BY <1>23 DEF Clear
<1>24. ASSUME NEW t \in Thread, Start(t) PROVE FdsHold'
  BY <1>24 DEF Start
<1>25. CASE Lose
  BY <1>25 DEF Lose
<1>9. ASSUME NEW t \in Thread, Unwatch(t) PROVE FdsHold'
  BY <1>9 DEF Unwatch, AfterClose
<1>10. ASSUME NEW t \in Thread, Delete(t) PROVE FdsHold'
  BY <1>10 DEF Delete
<1>11. CASE EpollWait
  BY <1>11 DEF EpollWait
<1>12. ASSUME NEW f \in FD, Skip(f) PROVE FdsHold'
  BY <1>12 DEF Skip
<1>13. ASSUME NEW f \in FD, Dispatch(f) PROVE FdsHold'
  BY <1>13 DEF Dispatch
<1>14. CASE Serve
  BY <1>14 DEF Serve
<1>15. CASE ServeCloses
  BY <1>15 DEF ServeCloses
<1>16. CASE Check
  BY <1>16 DEF Check
<1>17. CASE Collect
  BY <1>17 DEF Collect
<1>18. CASE Quit
  BY <1>18 DEF Quit
<1>19. CASE CloseAll
  BY <1>19 DEF CloseAll
<1>20. ASSUME NEW f \in FD, NEW e \in Event, Peer(f, e) PROVE FdsHold'
  BY <1>20 DEF Peer
<1>21. ASSUME NEW s \in Closer, WorkerGets(s) PROVE FdsHold'
  BY <1>21 DEF WorkerGets
<1>22. ASSUME NEW s \in Closer, WorkerCloses(s) PROVE FdsHold'
  BY <1>22 DEF WorkerCloses
<1> QED
  BY <1>1, <1>2, <1>3, <1>4, <1>5, <1>6, <1>7, <1>8, <1>9, <1>10, <1>11, <1>12, <1>13,
       <1>14, <1>15, <1>16, <1>17, <1>18, <1>19, <1>20, <1>21, <1>22, <1>23, <1>24, <1>25 DEF SharedNext,
       Next, Closing, EpollStep

(* While no worker has closed a socket only the two are at work.           *)
LEMMA ThreadsAreTwo ==
  ASSUME asked = {}, Calm, Base
  PROVE  \A t \in Thread : pc[t] # "idle" => t \in Two
BY ThreadsAre DEF Calm, Apart

(* The epoll thread and the main thread keep apart.                        *)
LEMMA ApartStep ==
  ASSUME Base, Calm, Next
  PROVE  Apart'
<1> USE ThreadsAre, OpenGets
    DEF Base, FdsHold, TypeOK, PlacesHold, Busy, EpollPlace, MainPlace, Closed, Opening,
         Go, Two, Calm, Apart, InTable, IsOpen, TableOpen, Stages, epollVars, objVars, gcVars,
         mainVars
<1>1. ASSUME NEW s \in Sock, Accept(s) PROVE Apart'
  BY <1>1 DEF Accept
<1>2. ASSUME NEW s \in Sock, Dial(s) PROVE Apart'
  BY <1>2 DEF Dial
<1>3. CASE DialFails
  BY <1>3 DEF DialFails
<1>4. CASE DialDone
  BY <1>4 DEF DialDone
<1>5. ASSUME NEW t \in Thread, Add(t) PROVE Apart'
  BY <1>5 DEF Add
<1>6. ASSUME NEW t \in Thread, CloseMark(t) PROVE Apart'
  BY <1>6 DEF CloseMark
<1>7. ASSUME NEW t \in Thread, CloseFd(t) PROVE Apart'
  BY <1>7 DEF CloseFd
<1>8. ASSUME NEW t \in Thread, Remove(t) PROVE Apart'
  BY <1>8 DEF Remove, AfterClose
<1>23. ASSUME NEW t \in Thread, Clear(t) PROVE Apart'
  BY <1>23 DEF Clear
<1>24. ASSUME NEW t \in Thread, Start(t) PROVE Apart'
  BY <1>24 DEF Start
<1>25. CASE Lose
  BY <1>25 DEF Lose
<1>9. ASSUME NEW t \in Thread, Unwatch(t) PROVE Apart'
  BY <1>9 DEF Unwatch, AfterClose
<1>10. ASSUME NEW t \in Thread, Delete(t) PROVE Apart'
  BY <1>10 DEF Delete
<1>11. CASE EpollWait
  BY <1>11 DEF EpollWait
<1>12. ASSUME NEW f \in FD, Skip(f) PROVE Apart'
  BY <1>12 DEF Skip
<1>13. ASSUME NEW f \in FD, Dispatch(f) PROVE Apart'
  BY <1>13 DEF Dispatch
<1>14. CASE Serve
  BY <1>14 DEF Serve
<1>15. CASE ServeCloses
  BY <1>15 DEF ServeCloses
<1>16. CASE Check
  BY <1>16 DEF Check
<1>17. CASE Collect
  BY <1>17 DEF Collect
<1>18. CASE Quit
  BY <1>18 DEF Quit
<1>19. CASE CloseAll
  BY <1>19 DEF CloseAll
<1>20. ASSUME NEW f \in FD, NEW e \in Event, Peer(f, e) PROVE Apart'
  BY <1>20 DEF Peer
<1> QED
  BY <1>1, <1>2, <1>3, <1>4, <1>5, <1>6, <1>7, <1>8, <1>9, <1>10, <1>11, <1>12, <1>13,
       <1>14, <1>15, <1>16, <1>17, <1>18, <1>19, <1>20, <1>23, <1>24, <1>25 DEF Next, Closing, EpollStep

(* What is in the table stays open until the epoll thread closes it.       *)
LEMMA TableOpenStep ==
  ASSUME Base, Calm, Next
  PROVE  TableOpen'
<1> USE ThreadsAre, OpenGets
    DEF Base, FdsHold, TypeOK, PlacesHold, Busy, EpollPlace, MainPlace, Closed, Opening,
         Go, Two, Calm, Apart, InTable, IsOpen, TableOpen, Stages, epollVars, objVars, gcVars,
         mainVars
<1>1. ASSUME NEW s \in Sock, Accept(s) PROVE TableOpen'
  BY <1>1 DEF Accept
<1>2. ASSUME NEW s \in Sock, Dial(s) PROVE TableOpen'
  BY <1>2 DEF Dial
<1>3. CASE DialFails
  BY <1>3 DEF DialFails
<1>4. CASE DialDone
  BY <1>4 DEF DialDone
<1>5. ASSUME NEW t \in Thread, Add(t) PROVE TableOpen'
  BY <1>5 DEF Add
<1>6. ASSUME NEW t \in Thread, CloseMark(t) PROVE TableOpen'
  BY <1>6 DEF CloseMark
<1>7. ASSUME NEW t \in Thread, CloseFd(t) PROVE TableOpen'
  BY <1>7 DEF CloseFd
<1>8. ASSUME NEW t \in Thread, Remove(t) PROVE TableOpen'
  BY <1>8 DEF Remove, AfterClose
<1>23. ASSUME NEW t \in Thread, Clear(t) PROVE TableOpen'
  BY <1>23 DEF Clear
<1>24. ASSUME NEW t \in Thread, Start(t) PROVE TableOpen'
  BY <1>24 DEF Start
<1>25. CASE Lose
  BY <1>25 DEF Lose
<1>9. ASSUME NEW t \in Thread, Unwatch(t) PROVE TableOpen'
  BY <1>9 DEF Unwatch, AfterClose
<1>10. ASSUME NEW t \in Thread, Delete(t) PROVE TableOpen'
  BY <1>10 DEF Delete
<1>11. CASE EpollWait
  BY <1>11 DEF EpollWait
<1>12. ASSUME NEW f \in FD, Skip(f) PROVE TableOpen'
  BY <1>12 DEF Skip
<1>13. ASSUME NEW f \in FD, Dispatch(f) PROVE TableOpen'
  BY <1>13 DEF Dispatch
<1>14. CASE Serve
  BY <1>14 DEF Serve
<1>15. CASE ServeCloses
  BY <1>15 DEF ServeCloses
<1>16. CASE Check
  BY <1>16 DEF Check
<1>17. CASE Collect
  BY <1>17 DEF Collect
<1>18. CASE Quit
  BY <1>18 DEF Quit
<1>19. CASE CloseAll
  BY <1>19 DEF CloseAll
<1>20. ASSUME NEW f \in FD, NEW e \in Event, Peer(f, e) PROVE TableOpen'
  BY <1>20 DEF Peer
<1> QED
  BY <1>1, <1>2, <1>3, <1>4, <1>5, <1>6, <1>7, <1>8, <1>9, <1>10, <1>11, <1>12, <1>13,
       <1>14, <1>15, <1>16, <1>17, <1>18, <1>19, <1>20, <1>23, <1>24, <1>25 DEF Next, Closing, EpollStep

(* A thread goes through the stages of a close in their order.             *)
LEMMA StagesStep ==
  ASSUME Base, Calm, Next
  PROVE  Stages'
<1> USE ThreadsAre, OpenGets
    DEF Base, FdsHold, TypeOK, PlacesHold, Busy, EpollPlace, MainPlace, Closed, Opening,
         Go, Two, Calm, Apart, InTable, IsOpen, TableOpen, Stages, epollVars, objVars, gcVars,
         mainVars
<1>1. ASSUME NEW s \in Sock, Accept(s) PROVE Stages'
  BY <1>1 DEF Accept
<1>2. ASSUME NEW s \in Sock, Dial(s) PROVE Stages'
  BY <1>2 DEF Dial
<1>3. CASE DialFails
  BY <1>3 DEF DialFails
<1>4. CASE DialDone
  BY <1>4 DEF DialDone
<1>5. ASSUME NEW t \in Thread, Add(t) PROVE Stages'
  BY <1>5 DEF Add
<1>6. ASSUME NEW t \in Thread, CloseMark(t) PROVE Stages'
  BY <1>6 DEF CloseMark
<1>7. ASSUME NEW t \in Thread, CloseFd(t) PROVE Stages'
  BY <1>7 DEF CloseFd
<1>8. ASSUME NEW t \in Thread, Remove(t) PROVE Stages'
  BY <1>8 DEF Remove, AfterClose
<1>23. ASSUME NEW t \in Thread, Clear(t) PROVE Stages'
  BY <1>23 DEF Clear
<1>24. ASSUME NEW t \in Thread, Start(t) PROVE Stages'
  BY <1>24 DEF Start
<1>25. CASE Lose
  BY <1>25 DEF Lose
<1>9. ASSUME NEW t \in Thread, Unwatch(t) PROVE Stages'
  BY <1>9 DEF Unwatch, AfterClose
<1>10. ASSUME NEW t \in Thread, Delete(t) PROVE Stages'
  BY <1>10 DEF Delete
<1>11. CASE EpollWait
  BY <1>11 DEF EpollWait
<1>12. ASSUME NEW f \in FD, Skip(f) PROVE Stages'
  BY <1>12 DEF Skip
<1>13. ASSUME NEW f \in FD, Dispatch(f) PROVE Stages'
  BY <1>13 DEF Dispatch
<1>14. CASE Serve
  BY <1>14 DEF Serve
<1>15. CASE ServeCloses
  BY <1>15 DEF ServeCloses
<1>16. CASE Check
  BY <1>16 DEF Check
<1>17. CASE Collect
  BY <1>17 DEF Collect
<1>18. CASE Quit
  BY <1>18 DEF Quit
<1>19. CASE CloseAll
  BY <1>19 DEF CloseAll
<1>20. ASSUME NEW f \in FD, NEW e \in Event, Peer(f, e) PROVE Stages'
  BY <1>20 DEF Peer
<1> QED
  BY <1>1, <1>2, <1>3, <1>4, <1>5, <1>6, <1>7, <1>8, <1>9, <1>10, <1>11, <1>12, <1>13,
       <1>14, <1>15, <1>16, <1>17, <1>18, <1>19, <1>20, <1>23, <1>24, <1>25 DEF Next, Closing, EpollStep

(* _delete() adds its object and no other.                                 *)
LEMMA CollectedAppend ==
  ASSUME NEW s \in Sock, gc \in Seq(Sock), gc' = Append(gc, s)
  PROVE  /\ \A x \in Sock : Collected(x)' <=> Collected(x) \/ x = s
         /\ ~Collected(s) /\ GcOnce => GcOnce'
<1>1. /\ Len(gc) \in Nat /\ Len(gc') = Len(gc) + 1
      /\ \A i \in 1 .. Len(gc) : gc'[i] = gc[i]
      /\ gc'[Len(gc) + 1] = s
  OBVIOUS
<1>2. \A i \in 1 .. Len(gc') : i \in 1 .. Len(gc) \/ i = Len(gc) + 1
  BY <1>1
<1>3. 1 .. Len(gc) \subseteq 1 .. Len(gc') /\ Len(gc) + 1 \in 1 .. Len(gc')
  BY <1>1
<1> QED
  BY ONLY <1>1, <1>2, <1>3 DEF Collected, GcOnce

(* GCWorker takes the first object, which is not in the queue again.       *)
LEMMA CollectedTail ==
  ASSUME gc \in Seq(Sock), gc # <<>>, gc' = Tail(gc),
         GcOnce
  PROVE  /\ Head(gc) \in Sock /\ Collected(Head(gc))
         /\ \A x \in Sock : Collected(x)' => Collected(x) /\ x # Head(gc)
         /\ GcOnce'
<1>1. /\ Len(gc) \in Nat /\ Len(gc) >= 1 /\ Len(gc') = Len(gc) - 1 /\ Head(gc) = gc[1]
      /\ \A i \in 1 .. Len(gc') : gc'[i] = gc[i + 1]
      /\ gc[1] \in Sock
  OBVIOUS
<1>2. \A i \in 1 .. Len(gc') : i + 1 \in 1 .. Len(gc) /\ i + 1 # 1
  BY <1>1
<1>3. 1 \in 1 .. Len(gc)
  BY <1>1
<1>4. ASSUME NEW i \in 1 .. Len(gc'), NEW j \in 1 .. Len(gc'), gc'[i] = gc'[j]
      PROVE  i = j
  <2>1. i + 1 = j + 1
    BY <1>1, <1>2, <1>4 DEF GcOnce
  <2> QED
    BY <1>1, <2>1
<1>5. ASSUME NEW x \in Sock, Collected(x)' PROVE Collected(x) /\ x # Head(gc)
  <2>1. PICK i \in 1 .. Len(gc') : gc'[i] = x
    BY <1>5 DEF Collected
  <2>2. i + 1 \in 1 .. Len(gc) /\ i + 1 # 1 /\ gc[i + 1] = x
    BY <1>1, <1>2, <2>1
  <2> QED
    BY <1>1, <1>3, <2>2 DEF Collected, GcOnce
<1> QED
  BY <1>1, <1>3, <1>4, <1>5 DEF Collected, GcOnce

(* A step that leaves the queue alone.                                     *)
LEMMA GcSame ==
  ASSUME gc' = gc
  PROVE  (GcOnce' <=> GcOnce) /\ \A x \in Sock : Collected(x)' <=> Collected(x)
BY DEF GcOnce, Collected

(* No step of a running server collects what is still in use.              *)
LEMMA SafeStep ==
  ASSUME Base, Calm, Safe, Next, ~quit'
  PROVE  Safe'
<1> USE ThreadsAre, OpenGets, GcSame
    DEF Base, FdsHold, TypeOK, PlacesHold, Busy, EpollPlace, MainPlace, Closed, Opening,
         Go, Two, Calm, Apart, Stages, InTable, IsOpen, Held, Safe, epollVars, objVars, gcVars,
         mainVars
<1>1. ASSUME NEW s \in Sock, Accept(s) PROVE Safe'
  BY <1>1 DEF Accept
<1>2. ASSUME NEW s \in Sock, Dial(s) PROVE Safe'
  BY <1>2 DEF Dial
<1>3. CASE DialFails
  BY <1>3 DEF DialFails
<1>4. CASE DialDone
  BY <1>4 DEF DialDone
<1>5. ASSUME NEW t \in Thread, Add(t) PROVE Safe'
  BY <1>5 DEF Add
<1>6. ASSUME NEW t \in Thread, CloseMark(t) PROVE Safe'
  BY <1>6 DEF CloseMark
<1>7. ASSUME NEW t \in Thread, CloseFd(t) PROVE Safe'
  BY <1>7 DEF CloseFd
<1>8. ASSUME NEW t \in Thread, Remove(t) PROVE Safe'
  BY <1>8 DEF Remove, AfterClose
<1>23. ASSUME NEW t \in Thread, Clear(t) PROVE Safe'
  BY <1>23 DEF Clear
<1>24. ASSUME NEW t \in Thread, Start(t) PROVE Safe'
  BY <1>24 DEF Start
<1>25. CASE Lose
  <2>1. /\ \A x \in Sock : Collected(x)' => Collected(x)
        /\ GcOnce'
    BY <1>25, CollectedTail DEF Lose
  <2> QED
    BY <1>25, <2>1 DEF Lose
<1>9. ASSUME NEW t \in Thread, Unwatch(t) PROVE Safe'
  BY <1>9 DEF Unwatch, AfterClose
<1>10. ASSUME NEW t \in Thread, Delete(t) PROVE Safe'
  <2>1. PICK s \in Sock : s = at[t] /\ pc[t] = "gc" /\ fd[s] \in FD /\ t \in Two
    BY <1>10 DEF Delete
  <2>2. gc' = Append(gc, s)
    BY <1>10, <2>1 DEF Delete
  <2>3. Held(s) /\ ~Collected(s) /\ life[s] = "alive" /\ ~IsOpen(s)
    BY <2>1
  <2> HIDE DEF Calm, Stages, Apart
  <2>4. \A x \in Sock : Held(x)' => Held(x) /\ x # s
    <3>1. ~InTable(s) /\ \A f \in FD : fds[f] # s
      BY <2>1 DEF Calm, Stages
    <3>2. \A u \in Two : u # t => at[u] # s
      BY <2>1 DEF Calm, Apart
    <3> QED
      BY <1>10, <2>1, <3>1, <3>2 DEF Delete
  <2> USE DEF Calm
  <2> QED
    BY <1>10, <2>1, <2>2, <2>3, <2>4, CollectedAppend DEF Delete
<1>11. CASE EpollWait
  BY <1>11 DEF EpollWait
<1>12. ASSUME NEW f \in FD, Skip(f) PROVE Safe'
  BY <1>12 DEF Skip
<1>13. ASSUME NEW f \in FD, Dispatch(f) PROVE Safe'
  BY <1>13 DEF Dispatch
<1>14. CASE Serve
  BY <1>14 DEF Serve
<1>15. CASE ServeCloses
  BY <1>15 DEF ServeCloses
<1>16. CASE Check
  BY <1>16 DEF Check
<1>17. CASE Collect
  <2>1. /\ Head(gc) \in Sock /\ Collected(Head(gc))
        /\ \A x \in Sock : Collected(x)' => Collected(x) /\ x # Head(gc)
        /\ GcOnce'
    BY <1>17, CollectedTail DEF Collect
  <2>2. \A x \in Sock : Held(x)' => Held(x) /\ x # Head(gc)
    BY <1>17, <2>1 DEF Collect
  <2>3. \A x \in Sock : x # Head(gc) => life'[x] = life[x] /\ (IsOpen(x)' <=> IsOpen(x))
    BY <1>17 DEF Collect
  <2> QED
    BY <2>1, <2>2, <2>3
<1>18. CASE Quit
  BY <1>18 DEF Quit
<1>19. CASE CloseAll
  BY <1>19 DEF CloseAll
<1>20. ASSUME NEW f \in FD, NEW e \in Event, Peer(f, e) PROVE Safe'
  BY <1>20 DEF Peer
<1> QED
  BY <1>1, <1>2, <1>3, <1>4, <1>5, <1>6, <1>7, <1>8, <1>9, <1>10, <1>11, <1>12, <1>13,
       <1>14, <1>15, <1>16, <1>17, <1>18, <1>19, <1>20, <1>23, <1>24, <1>25 DEF Next, Closing, EpollStep

(* A server begins without connections.                                    *)
LEMMA FirstState == SharedInit => IInv
<1> SUFFICES ASSUME SharedInit PROVE IInv
  OBVIOUS
<1> USE ThreadsAre DEF SharedInit, Init
<1>1. gc \in Seq(Sock) /\ Len(gc) = 0 /\ ~\E s \in Sock : Collected(s)
  BY DEF Collected
<1>2. Base
  BY <1>1 DEF Base, TypeOK, PlacesHold, FdsHold, Busy, EpollPlace, MainPlace,
       WorkerPlace, Two
<1>3. Calm
  BY DEF Calm, Apart, TableOpen, Stages, Two, Opening, Closed
<1>4. Safe
  BY <1>1 DEF Safe, Held, GcOnce, Two
<1> QED
  BY <1>2, <1>3, <1>4 DEF IInv

(* Every step preserves the inductive invariant.                           *)
LEMMA EveryStep ==
  ASSUME IInv, [SharedNext]_sharedVars
  PROVE  IInv'
<1>1. CASE SharedNext
  <2>1. Base'
    BY <1>1, TypeStep, PlacesStep, FdsStep DEF IInv, Base
  <2>2. (asked' = {} => asked = {}) /\ (asked' = {} => Next)
    <3>1. ASSUME NEW s \in Closer, WorkerGets(s) PROVE asked' # {}
      BY <3>1 DEF WorkerGets
    <3>2. ASSUME NEW s \in Closer, WorkerCloses(s) PROVE asked # {} /\ asked' = asked
      BY <3>2, ThreadsAre DEF WorkerCloses, Go, IInv, Calm, Apart
    <3>3. CASE Next /\ UNCHANGED asked
      BY <3>3
    <3> QED
      BY <1>1, <3>1, <3>2, <3>3 DEF SharedNext
  <2>3. ASSUME asked' = {} PROVE Calm'
    BY <2>2, <2>3, ApartStep, TableOpenStep, StagesStep DEF IInv, Calm
  <2>4. ~quit' => ~quit
    BY <1>1 DEF SharedNext, Next, EpollStep, Closing, WorkerGets, WorkerCloses, Accept,
         Dial,
         DialFails, DialDone, Add, CloseMark, CloseFd, Remove, Clear, Unwatch, Delete, Start, EpollWait,
         Skip, Dispatch, Serve, ServeCloses, Check, Collect, Lose, Quit, CloseAll, Peer, mainVars
  <2>5. ASSUME asked' = {}, ~quit' PROVE Safe'
    BY <2>2, <2>4, <2>5, SafeStep DEF IInv
  <2> QED
    BY <2>1, <2>3, <2>5 DEF IInv
<1>2. CASE UNCHANGED sharedVars
  <2> USE <1>2 DEF sharedVars, vars, epollVars, objVars, gcVars, mainVars
  <2>1. UNCHANGED Base
    BY DEF Base, TypeOK, PlacesHold, FdsHold, Busy, Collected
  <2>2. UNCHANGED Calm
    BY DEF Calm, Apart, TableOpen, Stages, InTable, IsOpen
  <2>3. UNCHANGED Safe
    BY DEF Safe, Held, GcOnce, Collected, IsOpen
  <2> QED
    BY <2>1, <2>2, <2>3 DEF IInv
<1> QED
  BY <1>1, <1>2

(* Every state a server reaches satisfies it.                              *)
LEMMA Invariance == SharedSpec => []IInv
BY FirstState, EveryStep, PTL DEF SharedSpec

(***************************************************************************)
(* Every table and every thread keeps to the values the code gives it, for *)
(* any number of sockets and descriptors and whatever the workers close.   *)
(***************************************************************************)
THEOREM TypeCorrect == SharedSpec => []TypeOK
<1>1. IInv => TypeOK
  BY DEF IInv, Base
<1> QED
  BY <1>1, Invariance, PTL

(***************************************************************************)
(* As long as no worker closes a socket and the server does not stop, what *)
(* the epoll thread takes from the unlocked table is live, and the         *)
(* collector is handed every object once: for any number of sockets, and   *)
(* although the kernel gives a descriptor out again before its slot is     *)
(* cleared.                                                                *)
(***************************************************************************)
THEOREM TableSound == SharedSpec => []TableIsSound
<1>1. IInv => TableIsSound
  <2> SUFFICES ASSUME IInv, asked = {}, ~quit PROVE TableValid /\ CollectedOnce
    BY DEF TableIsSound, TableValid, CollectedOnce
  <2>1. Base /\ Safe
    BY DEF IInv
  <2>2. TableValid
    <3> SUFFICES ASSUME NEW f \in FD, fds[f] # NoSock
                 PROVE  /\ fd[fds[f]] = f /\ life[fds[f]] = "alive"
                        /\ ~Collected(fds[f])
      BY DEF TableValid
    <3>1. fds[f] \in Sock
      BY <2>1 DEF Base, TypeOK
    <3>2. Held(fds[f])
      BY <3>1 DEF Held
    <3> QED
      BY <2>1, <3>1, <3>2 DEF Base, FdsHold, Safe
  <2>3. CollectedOnce
    BY <2>1 DEF CollectedOnce, Safe, GcOnce
  <2> QED
    BY <2>2, <2>3
<1> QED
  BY <1>1, Invariance, PTL

(* Whoever frees a descriptor is closing the socket that has it.           *)
LEMMA OwnClose ==
  ASSUME IInv, SharedNext, asked = {}, NEW f \in FD, kernel[f] # NoSock, kernel'[f] = NoSock
  PROVE  \E t \in Thread : pc[t] = "shut" /\ at[t] = kernel[f]
<1>1. Base /\ Calm
  BY DEF IInv
<1>2. PICK t \in Thread : CloseFd(t)
  <2>1. ASSUME NEW s \in Sock, NEW t \in Thread, Open(t, s) PROVE FALSE
    BY <1>1, <2>1, OpenGets, ThreadsAre DEF Base, TypeOK
  <2>2. kernel' # kernel
    OBVIOUS
  <2>3. ASSUME NEW s \in Sock PROVE ~Accept(s) /\ ~Dial(s)
    BY <2>1, ThreadsAre DEF Accept, Dial, Two
  <2> QED
    BY <2>2, <2>3 DEF SharedNext, Next, EpollStep, Closing, WorkerGets, WorkerCloses,
         DialFails, DialDone, Add, CloseMark, CloseFd, Remove, Clear, Unwatch, Delete, Start, EpollWait,
         Skip, Dispatch, Serve, ServeCloses, Check, Collect, Lose, Quit, CloseAll, Peer
<1>3. pc[t] = "shut" /\ kernel' = [kernel EXCEPT ![fd[at[t]]] = NoSock]
  BY <1>2 DEF CloseFd, Go
<1>4. t \in Two
  BY <1>1, <1>3, ThreadsAreTwo
<1>5. kernel[fd[at[t]]] = at[t]
  BY <1>1, <1>3, <1>4 DEF Calm, Stages, Opening, IsOpen
<1>6. f = fd[at[t]]
  BY <1>1, <1>3 DEF Base, TypeOK
<1> QED
  BY <1>3, <1>5, <1>6

(***************************************************************************)
(* As long as no worker closes a socket, ::close() is called by the thread *)
(* that has the socket of that descriptor, never on a number that by now   *)
(* is another's: also when the server stops and objects are deleted under  *)
(* the epoll thread.                                                       *)
(***************************************************************************)
THEOREM OwnDescriptorClosed == SharedSpec => ClosesOwnDescriptor
<1>1. IInv /\ [SharedNext]_sharedVars =>
        [\A f \in FD : kernel[f] # NoSock /\ kernel'[f] = NoSock =>
           \/ asked # {}
           \/ \E t \in Thread : pc[t] = "shut" /\ at[t] = kernel[f]]_sharedVars
  BY OwnClose
<1> QED
  BY <1>1, Invariance, PTL DEF SharedSpec, ClosesOwnDescriptor

(* The life of a connection in terms of its own descriptor alone.          *)
LEMMA StatusIs ==
  ASSUME Base
  PROVE  \A s \in Sock :
           /\ life[s] = "new" => Status[s] = "none"
           /\ life[s] = "deleted" => Status[s] = "deleted"
           /\ life[s] = "alive" /\ IsOpen(s) => Status[s] = "open"
           /\ life[s] = "alive" /\ ~IsOpen(s) => Status[s] = "closed"
<1> TAKE s \in Sock
<1>1. life[s] = "alive" => (IsOpen(s) <=> \E f \in FD : kernel[f] = s)
  BY ThreadsAre DEF Base, TypeOK, FdsHold, IsOpen
<1> QED
  BY <1>1 DEF Status

(* The same of the state after a step.                                     *)
LEMMA StatusWillBe ==
  ASSUME Base'
  PROVE  (\A s \in Sock :
           /\ life[s] = "new" => Status[s] = "none"
           /\ life[s] = "deleted" => Status[s] = "deleted"
           /\ life[s] = "alive" /\ IsOpen(s) => Status[s] = "open"
           /\ life[s] = "alive" /\ ~IsOpen(s) => Status[s] = "closed")'
BY StatusIs, PTL
(* One connection goes on in its life, the others stay where they are.     *)
LEMMA OneMoves ==
  ASSUME NEW s \in Sock, UNCHANGED <<quit, asked>>,
         \A x \in Sock : x # s => Status'[x] = Status[x],
         \/ Status[s] = "none" /\ Status'[s] = "open"
         \/ Status[s] = "open" /\ Status'[s] = "closed"
         \/ Status[s] = "closed" /\ Status'[s] = "deleted"
         \/ /\ quit \/ asked # {}
            /\ Status[s] = "open" /\ Status'[s] = "deleted"
  PROVE  Connection!Next
<1>1. Status' = [Status EXCEPT ![s] = Status'[s]]
  <2>1. Status = [x \in Sock |-> Status[x]]
    BY Zenon DEF Status
  <2>2. Status' = [x \in Sock |-> Status'[x]]
    BY Zenon DEF Status
  <2> QED
    BY <2>1, <2>2
<1>2. UNCHANGED (quit \/ asked # {})
  OBVIOUS
<1> QED
  BY <1>1, <1>2 DEF Connection!Next, Connection!Step, Connection!Move

(* A step in which no connection moves.                                    *)
LEMMA SameStatus ==
  ASSUME UNCHANGED <<quit, asked>>, \A x \in Sock : Status'[x] = Status[x]
  PROVE  UNCHANGED <<Status, quit \/ asked # {}>>
<1>1. Status = [x \in Sock |-> Status[x]]
  BY Zenon DEF Status
<1>2. Status' = [x \in Sock |-> Status'[x]]
  BY Zenon DEF Status
<1>3. UNCHANGED (quit \/ asked # {})
  OBVIOUS
<1> QED
  BY <1>1, <1>2, <1>3

(* Every step is one step of one connection, the decision to stop, or none *)
(* of both.                                                                *)
LEMMA ConnectionStep ==
  ASSUME IInv, IInv', SharedNext
  PROVE  [Connection!Next]_<<Status, quit \/ asked # {}>>
<1> DEFINE stopping == quit \/ asked # {}
           St == Status
<1>1. Base /\ Base'
  BY DEF IInv
<1>2. (stopping => stopping') /\ stopping \in BOOLEAN
  BY DEF SharedNext, Next, EpollStep, Closing, WorkerGets, WorkerCloses, Accept, Dial,
         DialFails, DialDone, Add, CloseMark, CloseFd, Remove, Clear, Unwatch, Delete, Start, EpollWait,
         Skip, Dispatch, Serve, ServeCloses, Check, Collect, Lose, Quit, CloseAll, Peer, mainVars
<1>3. ASSUME UNCHANGED <<life, kernel>>
      PROVE  [Connection!Next]_<<Status, stopping>>
  <2>1. Status' = Status
    BY <1>3 DEF Status
  <2>2. CASE stopping' = stopping
    BY <2>1, <2>2
  <2>3. CASE stopping' = TRUE
    BY <2>1, <2>3 DEF Connection!Next, Connection!Stop
  <2> QED
    BY <1>2, <2>2, <2>3
<1>4. \A s \in Sock :
        /\ life[s] = "new" => Status[s] = "none"
        /\ life[s] = "deleted" => Status[s] = "deleted"
        /\ life[s] = "alive" /\ IsOpen(s) => Status[s] = "open"
        /\ life[s] = "alive" /\ ~IsOpen(s) => Status[s] = "closed"
  BY <1>1, StatusIs
<1>5. \A s \in Sock :
        /\ life'[s] = "new" => Status'[s] = "none"
        /\ life'[s] = "deleted" => Status'[s] = "deleted"
        /\ life'[s] = "alive" /\ IsOpen(s)' => Status'[s] = "open"
        /\ life'[s] = "alive" /\ ~IsOpen(s)' => Status'[s] = "closed"
  BY <1>1, StatusWillBe
<1>6. ASSUME NEW s \in Sock, IF life[s] = "alive" THEN life'[s] = "alive" /\ (IsOpen(s)' <=> IsOpen(s))
                                                  ELSE life'[s] = life[s]
      PROVE  Status'[s] = Status[s]
  <2>1. life[s] \in {"new", "alive", "deleted"}
    BY <1>1 DEF Base, TypeOK
  <2> QED
    BY <1>4, <1>5, <1>6, <2>1
<1>7. ASSUME NEW s \in Sock, NEW t \in Thread, Open(t, s), UNCHANGED <<quit, asked>>
      PROVE  Connection!Next
  <2>1. PICK f \in FD : /\ kernel[f] = NoSock /\ life[s] = "new"
                        /\ life' = [life EXCEPT ![s] = "alive"]
                        /\ fd' = [fd EXCEPT ![s] = f]
                        /\ kernel' = [kernel EXCEPT ![f] = s]
    BY <1>7, OpenGets
  <2>2. Status[s] = "none"
    BY <1>4, <2>1
  <2>3. life'[s] = "alive" /\ IsOpen(s)'
    BY <1>1, <2>1 DEF Base, TypeOK, IsOpen
  <2>4. Status'[s] = "open"
    BY <1>5, <2>3
  <2>5. ASSUME NEW x \in Sock, x # s PROVE Status'[x] = Status[x]
    <3>1. life'[x] = life[x] /\ fd'[x] = fd[x]
      BY <1>1, <2>1, <2>5 DEF Base, TypeOK
    <3>2. life[x] = "alive" => (IsOpen(x)' <=> IsOpen(x))
      BY <1>1, <2>1, <2>5, <3>1, ThreadsAre DEF Base, TypeOK, FdsHold, IsOpen
    <3> QED
      BY <1>6, <3>1, <3>2
  <2> QED
    BY <1>7, <2>2, <2>4, <2>5, OneMoves
<1>8. ASSUME NEW t \in Thread, CloseFd(t), UNCHANGED asked
      PROVE  [Connection!Next]_<<Status, stopping>>
  <2> DEFINE f == fd[at[t]]
  <2>1. f \in FD
    BY <1>1, <1>8 DEF CloseFd, Go, Base, TypeOK, PlacesHold, FdsHold, Busy
  <2>2. kernel' = [kernel EXCEPT ![f] = NoSock] /\ UNCHANGED <<life, fd, quit, asked>>
    BY <1>8 DEF CloseFd, objVars, mainVars
  <2> HIDE DEF f
  <2>0. PICK g \in Sock \cup {NoSock} : g = kernel[f]
    BY <1>1, <2>1 DEF Base, TypeOK
  <2>3. \A x \in Sock : x # g => (IsOpen(x)' <=> IsOpen(x)) /\ life'[x] = life[x]
    BY <1>1, <2>0, <2>1, <2>2, ThreadsAre DEF Base, TypeOK, IsOpen
  <2>4. \A x \in Sock : x # g => Status'[x] = Status[x]
    BY <1>6, <2>3
  <2>5. CASE g \in Sock /\ life[g] = "alive"
    <3>1. IsOpen(g) /\ ~IsOpen(g)' /\ life'[g] = "alive"
      <4>1. fd[g] = f /\ fd'[g] = f /\ g # NoSock
        BY <1>1, <2>0, <2>1, <2>2, <2>5, ThreadsAre DEF Base, FdsHold
      <4>2. kernel[f] = g /\ kernel'[f] = NoSock
        BY <1>1, <2>0, <2>1, <2>2 DEF Base, TypeOK
      <4> QED
        BY <2>2, <2>5, <4>1, <4>2 DEF IsOpen
    <3>2. Status[g] = "open" /\ Status'[g] = "closed"
      BY <1>4, <1>5, <2>5, <3>1
    <3> QED
      BY <1>8, <2>2, <2>4, <2>5, <3>2, OneMoves
  <2>6. CASE ~(g \in Sock /\ life[g] = "alive")
    <3>1. \A x \in Sock : Status'[x] = Status[x]
      BY <1>6, <2>2, <2>4, <2>6
    <3> QED
      BY <1>8, <2>2, <3>1, SameStatus
  <2> QED
    BY <2>5, <2>6
<1>9. ASSUME Collect, UNCHANGED asked
      PROVE  [Connection!Next]_<<Status, stopping>>
  <2> DEFINE g == Head(gc)
  <2>1. /\ g \in Sock /\ Collected(g)
        /\ life' = [life EXCEPT ![g] = "deleted"]
        /\ UNCHANGED <<kernel, fd, quit, asked>>
    <3>1. gc \in Seq(Sock) /\ gc # <<>>
      BY <1>1, <1>9 DEF Collect, Base, TypeOK
    <3>2. g \in Sock /\ 1 \in 1 .. Len(gc) /\ g = gc[1]
      BY <3>1
    <3> QED
      BY <1>9, <3>2 DEF Collect, Collected, mainVars
  <2> HIDE DEF g
  <2>2. life[g] \in {"alive", "deleted"} /\ life'[g] = "deleted"
    BY <1>1, <2>1 DEF Base, TypeOK, FdsHold
  <2>3. \A x \in Sock : x # g => Status'[x] = Status[x]
    <3>1. \A x \in Sock : x # g => (IsOpen(x)' <=> IsOpen(x)) /\ life'[x] = life[x]
      BY <1>1, <2>1 DEF Base, TypeOK, IsOpen
    <3> QED
      BY <1>6, <3>1
  <2>4. Status'[g] = "deleted"
    BY <1>5, <2>1, <2>2
  <2>5. CASE life[g] = "deleted"
    <3>1. \A x \in Sock : Status'[x] = Status[x]
      BY <1>4, <2>1, <2>3, <2>4, <2>5
    <3> QED
      BY <2>1, <3>1, SameStatus
  <2>6. CASE life[g] = "alive" /\ IsOpen(g)
    <3>1. quit \/ asked # {}
      BY <2>1, <2>6 DEF IInv, Safe
    <3>2. Status[g] = "open"
      BY <1>4, <2>1, <2>6
    <3> QED
      BY <2>1, <2>3, <2>4, <3>1, <3>2, OneMoves
  <2>7. CASE life[g] = "alive" /\ ~IsOpen(g)
    <3>1. Status[g] = "closed"
      BY <1>4, <2>1, <2>7
    <3> QED
      BY <2>1, <2>3, <2>4, <3>1, OneMoves
  <2> QED
    BY <2>2, <2>5, <2>6, <2>7
<1>10. ASSUME NEW s \in Sock, Accept(s) \/ Dial(s), UNCHANGED asked
       PROVE  Connection!Next
  <2>1. PICK t \in Thread : Open(t, s)
    BY <1>10, ThreadsAre DEF Accept, Dial, Two
  <2>2. UNCHANGED quit
    BY <1>10 DEF Accept, Dial, mainVars
  <2> QED
    BY <1>7, <1>10, <2>1, <2>2
<1>11. ASSUME \/ DialFails \/ DialDone \/ EpollStep \/ Lose \/ Quit \/ CloseAll
              \/ \E t \in Thread : Add(t) \/ CloseMark(t) \/ Remove(t) \/ Clear(t) \/ Unwatch(t)
                                      \/ Delete(t) \/ Start(t)
              \/ \E f \in FD : \E e \in Event : Peer(f, e)
              \/ \E s \in Closer : WorkerGets(s) \/ WorkerCloses(s)
       PROVE  UNCHANGED <<life, kernel>>
  BY <1>11 DEF EpollStep, WorkerGets, WorkerCloses, DialFails, DialDone, Add, CloseMark,
       Remove, Clear,
       Unwatch, Delete, Start, Lose, EpollWait, Skip, Dispatch, Serve, ServeCloses, Check, Quit, CloseAll,
       Peer, objVars
<1> QED
  BY <1>3, <1>8, <1>9, <1>10, <1>11 DEF SharedNext, Next, Closing

(* At first there is no connection.                                        *)
LEMMA ConnectionInit == SharedInit => Connection!Init
<1> SUFFICES ASSUME SharedInit PROVE Connection!Init
  OBVIOUS
<1>1. \A s \in Sock : life[s] = "new"
  BY DEF SharedInit, Init
<1>2. Status = [s \in Sock |-> "none"]
  BY <1>1 DEF Status
<1>3. (quit \/ asked # {}) = FALSE
  BY DEF SharedInit, Init
<1> QED
  BY <1>2, <1>3 DEF Connection!Init

(***************************************************************************)
(* Every connection is opened, closed and deleted once and in this order,  *)
(* which only a stopping server or a worker that closes may cut short.     *)
(***************************************************************************)
THEOREM LifeOfConnections == SharedSpec => ImplementsConnectionLife
<1>1. ASSUME IInv, IInv', [SharedNext]_sharedVars
      PROVE  [Connection!Next]_<<Status, quit \/ asked # {}>>
  <2>1. CASE UNCHANGED sharedVars
    BY <2>1 DEF sharedVars, vars, objVars, gcVars, mainVars, Status
  <2> QED
    BY <1>1, <2>1, ConnectionStep
<1> QED
  BY <1>1, ConnectionInit, Invariance, PTL DEF SharedSpec, ImplementsConnectionLife,
       Connection!Spec
=============================================================================
