----------------------------- MODULE ServerLife -----------------------------
(***************************************************************************)
(* The life of a server process, from main() to its end: run() of the      *)
(* login, the realm and the world server, the command quit, and what is    *)
(* destroyed when main() returns.  It composes the database manager        *)
(* (Database) with the threads that use it and end with it: the epoll      *)
(* thread, the workers it starts for packets, the collector of sockets;    *)
(* and with the connection to the parent server, which is the realm for a  *)
(* world and the login server for a realm.                                 *)
(*                                                                         *)
(* The pool is what ThreadPool shows of it: execute() runs a task until it *)
(* says that it is done; shutdown() tells every task once and returns when *)
(* no thread is left.  A task handed in after it was told may be run or    *)
(* lost, and may keep shutdown() from returning.  What a part does inside  *)
(* is left to its own module (the updater of a world, which is stopped     *)
(* before the sockets, to Updater); commands that only print are left out. *)
(***************************************************************************)
EXTENDS Database, Functions

VARIABLES
  todo,       (* what the main thread has still to do                       *)
  commanded,  (* has the main thread come as far as its commands?           *)
  unbound,    (* has a listening socket not been opened?                    *)
  ended,      (* "no", "returned", "aborted", "crashed": the process        *)
  pool,       (* "none", "open", "told" (its tasks to end), "closed"        *)
  epoll,      (* SocketWorker: "none", "created", "running", "ended"        *)
  collector,  (* GCWorker: "none", "running", "ended"                       *)
  handling,   (* the clients that have a packet worker on the pool          *)
  late,       (* was a task handed in after the pool was told?              *)
  deaf,       (* was the epoll thread told before it was in run()?          *)
  link,       (* to the parent: "none" (not made), "up" (_realm_socket or   *)
              (* _login_socket is set and connected), "down" (it is NULL)   *)
  gone        (* what was destroyed after run()                             *)

mainVars == <<todo, commanded, unbound, ended>>
threadVars == <<pool, epoll, collector, handling, late, deaf>>
lifeVars == <<mainVars, threadVars, link, gone>>
allVars == <<lifeVars, vars>>

(***************************************************************************)
(* What main() does, step by step: run(), the command quit, and at the end *)
(* the destructors of the server and of the singletons, the youngest first.*)
(***************************************************************************)
InitEnv == <<"pool", "epoll", "database">>

LoginRun == <<"load_conf", "init_packet_parser">> \o InitEnv \o
            <<"start_listen", "inter_listen_or_warn", "wait_command">>

RealmRun == <<"load_conf", "init_packet_parser">> \o InitEnv \o
            <<"start_listen", "inter_listen_or_warn", "connect", "notify", "wait_command">>

WorldRun == <<"load_conf", "init_packet_parser">> \o InitEnv \o
            <<"start_listen", "connect", "notify", "wait_command">>

LoginQuit == <<"close_all", "stop_database", "stop_pool", "pool_stops">>

RealmQuit == <<"parent?", "farewell",
               "close_all", "stop_database", "stop_pool", "pool_stops">>

(* Mutant of WorldQuit: the pool is left to its own destructor. *)
WorldQuitPoolRuns == <<"parent?", "farewell", "close_all", "stop_database">>

WorldQuit == <<"parent?", "farewell",
               "close_all", "stop_database", "stop_pool", "pool_stops">>

Exit == <<"~Server", "~SocketGC", "~DatabaseMgr", "~SocketMgr", "~ThreadPool",
          "pool_stops">>

Programs == {LoginRun \o LoginQuit, RealmRun \o RealmQuit, WorldRun \o WorldQuit}

Doing(step) == ended = "no" /\ Head(todo) = step

ContinueWith(rest) ==
  /\ todo' = rest
  /\ ended' = IF rest = <<>> THEN "returned" ELSE "no"

Proceed == ContinueWith(Tail(todo))
Dies(how) == ended' = how /\ UNCHANGED todo

LifeInit ==
  /\ Init
  /\ \E program \in Programs : todo = program \o Exit
  /\ commanded = FALSE /\ unbound = FALSE /\ ended = "no"
  /\ pool = "none" /\ epoll = "none" /\ collector = "none"
  /\ handling = {} /\ late = FALSE /\ deaf = FALSE
  /\ link = "none"
  /\ gone = {}

(***************************************************************************)
(* run()                                                                   *)
(***************************************************************************)
(* A step that succeeds, or makes run() return. *)
Prepare(step) ==
  /\ Doing(step)
  /\ step \in {"load_conf", "init_packet_parser", "start_listen"}
  /\ \/ Proceed /\ UNCHANGED unbound
     \/ ContinueWith(Exit) /\ unbound' = (step = "start_listen")
  /\ UNCHANGED <<commanded, threadVars, link, gone, vars>>

(* The login server and the realm go on without their second listening     *)
(* socket.                                                                 *)
TryInterListen ==
  /\ Doing("inter_listen_or_warn") /\ Proceed
  /\ unbound' \in BOOLEAN
  /\ UNCHANGED <<commanded, threadVars, link, gone, vars>>

StartPool ==
  /\ Doing("pool") /\ Proceed
  /\ pool' = "open"
  /\ UNCHANGED <<commanded, unbound, epoll, collector, handling, late, deaf, link,
                 gone, vars>>

StartEpoll ==
  /\ Doing("epoll") /\ Proceed
  /\ epoll' = "created"
  /\ UNCHANGED <<commanded, unbound, pool, collector, handling, late, deaf, link,
                 gone, vars>>

StartDatabase ==
  /\ Doing("database") /\ Proceed
  /\ InitDb
  /\ UNCHANGED <<commanded, unbound, threadVars, link, gone>>

(* connect_realm(), connect_login(): the configuration may leave it out; a *)
(* connection that cannot be made leaves an object that is not connected.  *)
Connect ==
  /\ Doing("connect")
  /\ \/ Proceed /\ link' = "up"
     \/ ContinueWith(Tail(Tail(todo))) /\ UNCHANGED link
  /\ UNCHANGED <<commanded, unbound, threadVars, gone, vars>>

(* send_packet() through the pointer, which the epoll thread may have      *)
(* cleared since it was set or tested.                                     *)
SendToParent(step) ==
  /\ Doing(step)
  /\ IF link = "up" THEN Proceed ELSE Dies("crashed")
  /\ UNCHANGED <<commanded, unbound, threadVars, gone, vars>>

Notify == SendToParent("notify") /\ UNCHANGED link

(* Nobody uses the connection any more: link has done its service. *)
Farewell ==
  /\ SendToParent("farewell")
  /\ link' = IF link = "up" THEN "none" ELSE link

WaitCommand ==
  /\ Doing("wait_command") /\ ~commanded
  /\ commanded' = TRUE
  /\ UNCHANGED <<todo, unbound, ended, threadVars, link, gone, vars>>

(***************************************************************************)
(* The command quit.                                                       *)
(***************************************************************************)
Command ==
  /\ Doing("wait_command") /\ commanded
  /\ Proceed
  /\ UNCHANGED <<commanded, unbound, threadVars, link, gone, vars>>

AskParent ==
  /\ Doing("parent?")
  /\ IF link = "up" THEN Proceed ELSE ContinueWith(Tail(Tail(todo)))
  /\ link' = IF link = "up" THEN link ELSE "none"
  /\ UNCHANGED <<commanded, unbound, threadVars, gone, vars>>

(* close_all(): the _delete() of an open socket starts the collector, if   *)
(* no socket was deleted before.                                           *)
CloseAll ==
  /\ Doing("close_all") /\ Proceed
  /\ collector' \in {collector, "running"}
  /\ UNCHANGED <<commanded, unbound, pool, epoll, handling, late, deaf, link, gone,
                 vars>>

(* DatabaseMgr::shutdown(), which ~DatabaseMgr calls if nobody else did. *)
StopDatabase ==
  /\ \/ Doing("stop_database")
     \/ Doing("~DatabaseMgr") /\ inited
  /\ ShutdownClose
  /\ UNCHANGED lifeVars

OnShutdown ==
  /\ ended = "no"
  /\ Shutdown
  /\ UNCHANGED lifeVars

DatabaseStopped ==
  /\ Doing("stop_database") /\ sd = "done" /\ Proceed
  /\ UNCHANGED <<commanded, unbound, threadVars, link, gone, vars>>

(* ThreadPool::shutdown(): what it has told the epoll thread is forgotten  *)
(* if run() of that thread begins after it.                                *)
TellPool ==
  /\ Doing("stop_pool")
  /\ Proceed
  /\ pool' = "told"
  /\ deaf' = (epoll = "created")
  /\ UNCHANGED <<commanded, unbound, epoll, collector, handling, late, link, gone,
                 vars>>

Running ==
  \/ epoll \in {"created", "running"}
  \/ collector = "running"
  \/ handling # {}
  \/ \E w \in Worker : pc[w] \notin {"new", "deleted"}

PoolStops ==
  /\ Doing("pool_stops") /\ ~Running
  /\ Proceed
  /\ pool' = "closed"
  /\ UNCHANGED <<commanded, unbound, epoll, collector, handling, late, deaf, link,
                 gone, vars>>

(***************************************************************************)
(* main() returns.                                                         *)
(***************************************************************************)
(* The destructor of the server deletes the listening sockets, and theirs  *)
(* asserts that they are open (a build may leave assertions out).          *)
DeleteServer ==
  /\ Doing("~Server")
  /\ \/ Proceed
     \/ unbound /\ Dies("aborted")
  /\ gone' = gone \cup {"~Server"}
  /\ UNCHANGED <<commanded, unbound, threadVars, link, vars>>

Destroy(step) ==
  /\ Doing(step) /\ step \in {"~SocketGC", "~DatabaseMgr", "~SocketMgr"}
  /\ step = "~DatabaseMgr" => ~inited /\ sd \in {"ready", "done"}
  /\ Proceed
  /\ gone' = gone \cup {step}
  /\ UNCHANGED <<commanded, unbound, threadVars, link, vars>>

(* ~ThreadPool calls shutdown(), which does nothing when it was called     *)
(* before or the pool was never opened.                                    *)
DestroyPool ==
  /\ Doing("~ThreadPool")
  /\ IF pool = "open" THEN Proceed /\ pool' = "told" /\ deaf' = (epoll = "created")
     ELSE ContinueWith(<<>>) /\ UNCHANGED <<pool, deaf>>
  /\ gone' = gone \cup {"~ThreadPool"}
  /\ UNCHANGED <<commanded, unbound, epoll, collector, handling, late, link, vars>>

(***************************************************************************)
(* The other threads.                                                      *)
(***************************************************************************)
EpollBegins ==
  /\ ended = "no" /\ epoll = "created"
  /\ epoll' = "running"
  /\ UNCHANGED <<mainVars, pool, collector, handling, late, deaf, link, gone, vars>>

EpollEnds ==
  /\ ended = "no" /\ epoll = "running" /\ pool = "told" /\ ~deaf
  /\ epoll' = "ended"
  /\ UNCHANGED <<mainVars, pool, collector, handling, late, deaf, link, gone, vars>>

(* execute(): a task that comes after shutdown() has told the others. *)
HandIn(told) == late' = (late \/ told)

(* A packet arrives on a socket that has no worker. *)
Packet(c) ==
  /\ ended = "no" /\ epoll = "running" /\ c \notin handling
  /\ HandIn(pool = "told")
  /\ \/ handling' = handling \cup {c}
     \/ pool = "told" /\ ~late /\ UNCHANGED handling
  /\ UNCHANGED <<mainVars, pool, epoll, collector, deaf, link, gone, vars>>

(* The packets are handled, or the worker was told to end. *)
PacketsDone(c) ==
  /\ ended = "no" /\ c \in handling /\ pc[c] = "idle"
  /\ handling' = handling \ {c}
  /\ UNCHANGED <<mainVars, pool, epoll, collector, late, deaf, link, gone, vars>>

(* A connection is deleted by the epoll thread, the first starts GCWorker; *)
(* the collector is not looked at before the server stops.                 *)
Collect ==
  /\ ended = "no" /\ epoll = "running" /\ collector = "none"
  /\ "wait_command" \notin Range(todo)
  /\ HandIn(pool = "told")
  /\ collector' = "running"
  /\ UNCHANGED <<mainVars, pool, epoll, handling, deaf, link, gone, vars>>

(* Told to end, it goes when _data is empty, up to two seconds later. *)
CollectorEnds ==
  /\ ended = "no" /\ collector = "running" /\ pool = "told"
  /\ collector' = "ended"
  /\ UNCHANGED <<mainVars, pool, epoll, handling, late, deaf, link, gone, vars>>

(* The parent hangs up: on_close(), lost_realm() or lost_login().  It is   *)
(* looked at when the main thread is about to use the connection.          *)
LoseParent ==
  /\ epoll = "running" /\ link = "up"
  /\ Doing("notify") \/ Doing("parent?") \/ Doing("farewell")
  /\ link' = "down"
  /\ UNCHANGED <<mainVars, threadVars, gone, vars>>

(* A packet worker calls the database. *)
Begins(c) ==
  /\ ended = "no" /\ c \in handling
  /\ ExecuteBegin(c) \/ QueryBegin(c)
  /\ UNCHANGED lifeVars

OnCall(c) ==
  /\ ended = "no"
  /\ Call(c)
  /\ HandIn(pool = "told" /\ worker' # worker)
  /\ UNCHANGED <<mainVars, pool, epoll, collector, handling, deaf, link, gone>>

OnRun(w) ==
  /\ ended = "no"
  /\ Run(w)
  /\ UNCHANGED lifeVars

-----------------------------------------------------------------------------
(* What the main thread does without being told by anybody. *)
MainStep ==
  \/ \E step \in {"load_conf", "init_packet_parser", "start_listen"} : Prepare(step)
  \/ TryInterListen \/ StartPool \/ StartEpoll \/ StartDatabase
  \/ Connect \/ Notify \/ Farewell
  \/ WaitCommand \/ AskParent \/ CloseAll
  \/ StopDatabase \/ OnShutdown \/ DatabaseStopped \/ TellPool
  \/ DeleteServer \/ DestroyPool
  \/ \E step \in {"~SocketGC", "~DatabaseMgr", "~SocketMgr"} : Destroy(step)

Next ==
  \/ MainStep \/ Command \/ PoolStops
  \/ EpollBegins \/ EpollEnds \/ Collect \/ CollectorEnds \/ LoseParent
  \/ \E c \in Client : Packet(c) \/ PacketsDone(c) \/ Begins(c) \/ OnCall(c)
  \/ \E w \in Worker : OnRun(w)

Spec == LifeInit /\ [][Next]_allVars
-----------------------------------------------------------------------------
LifeTypeOK ==
  /\ ended \in {"no", "returned", "aborted", "crashed"}
  /\ ended = "returned" <=> todo = <<>>
  /\ commanded \in BOOLEAN /\ unbound \in BOOLEAN /\ late \in BOOLEAN
  /\ deaf \in BOOLEAN
  /\ pool \in {"none", "open", "told", "closed"}
  /\ epoll \in {"none", "created", "running", "ended"}
  /\ collector \in {"none", "running", "ended"}
  /\ handling \subseteq Client
  /\ link \in {"none", "up", "down"}
  /\ gone \subseteq {"~Server", "~SocketGC", "~DatabaseMgr", "~SocketMgr", "~ThreadPool"}

(***************************************************************************)
(* The singletons are destroyed when main() returns, whatever still runs.  *)
(* A server that has come as far as its commands destroys none while a     *)
(* thread of the pool is left: quit closes the sockets, the database and   *)
(* the pool in an order in which each ends without the ones before it.     *)
(* (A server that cannot listen returns from run() with its threads        *)
(* running.)                                                               *)
(***************************************************************************)
PartsOutliveThreads == gone # {} /\ commanded => ~Running

EndIsClean == LifeTypeOK /\ PartsOutliveThreads

(***************************************************************************)
(* shutdown() of the database comes to its end, in the command quit and at *)
(* the end of main(): the worker it waits for is there to clear _worker,   *)
(* and with _closing set every step of a worker, whatever it was doing and *)
(* whatever connections it finds in use, brings it nearer to on_close().   *)
(***************************************************************************)
WaitsForSomebody == worker # NoWorker => pc[worker] \notin {"new", "deleted"}

(* How many steps a worker may still have before it is deleted. *)
StepsLeft(place, conn) ==
  CASE place = "deleted" -> 0
    [] place = "close" -> 1
    [] place = "run" -> 2
    [] place \in {"check", "send"} -> 3
    [] place \in {"pop", "scan"} -> 4 + Conns - conn

ComesNearer ==
  closing /\ closing' =>
    \A w \in Worker :
      pc[w] # "new" /\ <<pc[w], at[w]>>' # <<pc[w], at[w]>> =>
        StepsLeft(pc'[w], at'[w]) < StepsLeft(pc[w], at[w])

DatabaseStops == []WaitsForSomebody /\ [][ComesNearer]_allVars
=============================================================================
