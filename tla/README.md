# A verification of the srdgame servers

srdgame is a multiplayer game server in C++ (Linux, pthreads, epoll, MySQL). It
consists of three programs built from one set of libraries: a *login* server
that checks accounts, a *realm* server that keeps characters and knows which
world server holds which map, and any number of *world* servers in which the
players walk. This directory holds TLA+ models of what these programs do, the
TLC configurations that check them on small instances, and proofs for every
size of the most important results.

Run things from this directory: `tlc -workers 2 -config SharedSockets.cfg
MCSharedSockets.tla` checks a configuration, `tlapm ThreadPoolProofs.tla` a
proof. Paths below are relative to `src/src/`. `PROJECT.json` maps every
definition to the lines it stands for, lists the runs, and names for each
property a fault in the model that the run detects.

## 1. The system

### Threads

Every server has the same threads:

| thread | what it does | created by |
|---|---|---|
| main | starts the parts; reads commands from the console; connects to the parent server; quits | `main.cpp` |
| epoll | accepts, reads, writes and closes every connection | `SocketWorker`, a task of the pool |
| collector | deletes closed sockets two seconds after they were handed to it | `SocketGC::GCWorker`, a task of the pool |
| packet workers | handle the packets of one socket, one worker per socket at a time | `start_worker()`, tasks of the pool |
| database | sends the queued SQL statements | `DatabaseMgr::Worker`, a task of the pool |
| updater (world) | notifies spawners of the passing of time | `WorldUpdater`, a task of the pool |

### Components

| component | state | operations | interacts with |
|---|---|---|---|
| Thread pool `shared/thread` | active and idle sets, one task per handle, a condition per handle | `init`, `execute`, `shutdown`, the threads | all others hand it tasks |
| Bip buffer `shared/network/bipbuffer.h` | a byte array with two regions and a reservation | `reserve`, `commit`, `get_data`, `free`, `clear` | one per direction of a socket |
| Receive path `tcpsocket.cpp`, `on_rev()`, `packetparser.cpp` | receive buffer | `read_callback`, framing | fills `_packets` |
| Protocol library `sample/` | tables of functions and lengths | `from_stream`, `to_stream` | frames the game client's requests, writes its answers |
| Packet workers `*worker.cpp`, `*socketbase.cpp` | `_packets`, `_worker` of a socket | push, `start_worker`, `run`, `shutdown` | epoll thread pushes, pool runs |
| Send path `tcpsocket.cpp` | send buffer, its lock, the epoll mask | `send`, `write_callback`, `post_event` | packet workers put bytes, the epoll thread writes them |
| Connections `shared/network` | `_fds`, `_max_fd`, descriptors, the collector's list | accept, `connect`, `add`, `close`, `remove`, `_delete`, `close_all` | epoll thread, collector, packet workers, main |
| Database manager `shared/database` | queue of statements, worker, connections | `execute`, `query`, `shutdown` | every packet worker |
| Start and quit `*server.cpp`, `main.cpp` | which parts are there, the connection to the parent | `run`, `quit`, destructors | all of the above |
| World registry `realm/realmmgr.cpp` | worlds, their information, maps and routes | notify, offline, information, maps, lookup | world servers, clients of the realm |
| Realm registry `login/loginmgr.cpp` | realms and their information | notify, offline, information, list | realm servers, clients of login |
| Accounts `login/accountmgr.cpp`, `loginauth.cpp` | `_users` over the account table | log in, create, load, release | packet workers, the queue of statements |
| Characters `realm/charmgr.cpp`, `realmsocket.cpp` | `_chars` of a connection over the character table | list, create, select | packet workers, the queue of statements |
| World `world/worldmgr.cpp`, `map.cpp`, `player.cpp` | players, their map, units, six kinds of mutexes | log in, activate, act, leave | packet workers, epoll thread (`on_close`) |
| Updater `world/worldupdater.cpp`, `spawner*.cpp` | queues by priority, waitors to remove, Npcs | `load`, `add`, `remove`, `update`, `unload` | updater thread, main |
| Game data, crypto, configuration, log, scripts | none that others depend on | conversions, files | |

### What is hard

* **Signals without a predicate.** The pool suspends a thread with a bare
  condition wait. A wakeup that comes a moment early is lost, one that comes
  from nowhere is believed.
* **Sections that end too early.** "The queue is empty" and "there is no worker
  any more" are two critical sections (packet workers, database); "which number
  is free" and "take it" are two queries (accounts, characters).
* **No lock at all.** The table of sockets has none, on the argument that only
  the epoll thread uses it. Descriptors are reused by the kernel at once.
* **Pointers that outlive a lock.** An entry of `_users`, a unit of a map, a
  Player are found under a lock and used after it.
* **Delayed deletion.** Closed sockets are deleted after two seconds, without
  looking who uses them; packets that were received before the close are
  handled after it.
* **One epoll mask, two writers.** Senders arm a socket for writing, the epoll
  thread arms it for reading, and each replaces what the other has set.
* **Framing without a length check.** A stream is cut at lengths that the parser
  looks up, in a buffer whose contents come in two regions.
* **Many locks, many orders.** Socket, player, character, clients, map and the
  map's players are locked in the middle of each other.
* **Time in an int.** The updater multiplies delays with priorities.
* **Quit.** The pool, the sockets, the database and the updater are shut down
  while their users run.

### What each component promises

* Pool: a task has one thread, is run before it is deleted, and `shutdown()`
  returns when no thread and no task is left.
* Bip buffer: a bounded queue of bytes; a reserved block is free.
* Receive path, protocol library: what is pushed is what was sent, in order and
  once; what is sent is what the client takes.
* Packet workers: packets are handled in order, once, one at a time, and it is
  known which of them may lie in the queue until the next one comes.
* Send path: the bytes of `send()` go out, in order and once; `send()` returns
  or the process dies in it, in one known state.
* Connections: open, closed, deleted, in this order; nobody closes or uses the
  connection of another.
* Database: a statement is executed once and in order; after `shutdown()` nobody
  uses a deleted database.
* Start and quit: no part is destroyed under a thread; quit comes to its end.
* Registries: the tables agree; a server that is up and that a client is sent to
  is known completely, and the ways to one that is gone are known.
* Accounts, characters: a client is told of its own account and characters;
  what is created is kept.
* World: who has left is in no table and used by nobody, up to the places that
  are named; threads wait for each other in the rings that are named only.
* Updater: no waitor is lost or doubled, every spawner fills, a deleted one is
  not notified.

## 2. The modules

| component | modules | abstract specification |
|---|---|---|
| Thread pool | `ThreadPool` | `TaskRunner`: new, accepted, running, deleted |
| Bip buffer | `BipBuffer` | `ByteFifo`: a bounded queue |
| Receive path | `ReceivePath` over the variables of `BipBuffer` | the stream of packets itself |
| Protocol library | `ClientPackets`, `ClientAnswers`, and `ClientStream` over the first | the requests that were sent |
| Packet workers | `PacketWorker` | `PacketService`: pending, current, served |
| Send path | `SendPath` over `BipBuffer` | |
| Connections | `Sockets`, and `SharedSockets` which adds closing workers | `ConnectionLife`: none, open, closed, deleted |
| Database manager | `Database` | `StatementLog`: queued statements, each executed once |
| Start and quit | `ServerLife` over `Database` | |
| World registry | `WorldRegistry` | |
| Accounts and login | `Accounts` over `StatementLog` | |
| Realm registry | `RealmTable`; `LoginServer` composes it with `Accounts` | |
| Characters | `Characters` over `StatementLog` | |
| Players and maps | `World` | |
| Updater, spawners | `Updater` | |

The layers rest on each other through the abstract specifications: `Accounts`
and `Characters` take from `Database` that statements are executed once and in
order, which `ServerLife` checks as a refinement; the registries take from
`PacketWorker` that the packets of one connection are handled in order by one
worker; `ServerLife` takes from `ThreadPool` what becomes of a task.

The `MC` modules make small instances, the `Proofs` modules hold the theorems.
A definition marked *Mutant* in a module is a wrong form of the definition that
follows it; no specification uses it. It is there to show that the properties
notice.

### ThreadPool

A thread is named by its `ThreadHandle`. `pc` says where it is in `thread_proc`
(`top`: before `on_thread_run`; `run`: inside the task's `run`; `finish`,
`retire`: the two critical sections of `on_thread_finish`; `remove`: before
`remove_thread`; `suspend`, `wait`: before and inside the condition wait). `sd`
says the same of the thread that calls `shutdown()`. A section under a lock is
one action, except for the first part of `shutdown()`, which keeps `_lock`
while it visits the handles: there `locked` excludes the others. `handle->task`
is tested and read again without the handle's lock, in two steps
(`ShutdownPeek`, `ShutdownStop`): the call through what is then NULL or deleted
ends the process (`crashed`). `resume` moves a thread only if it is in `wait`;
otherwise its handle is `missed`. A task may go on after it was told to stop,
since `run()` may undo it (`RunAgain`).

A condition wait may return by itself, as POSIX allows; the variable `jolted`
remembers that one has. `execute()` may be called after `shutdown()` has begun:
the code admits it, and no server stops its sockets' workers before that.
`adjust()` has no caller (`PoolAdjust` is never started) and is not an action.

### BipBuffer

`buf` is the array, `ixa sza ixb szb ixr szr` are the fields of the class. All
the case distinctions of `reserve` and `commit` are actions of their own. The
refinement mapping is `Contents`, region A followed by region B. Sizes are
natural numbers: the theorem `LayoutHolds` is what shows that the unsigned
differences in `get_a_free` and `get_b_free` do not wrap around.

### ReceivePath

A byte is its position in the peer's stream, so that "these bytes are packet
k" can be said without contents. The peer's stream is `ends`, the places at
which its packets end: `Length(k)` is the distance between two of them, and the
parser has a packet before it if it stands at one (`Found`). `read_callback()`
reserves, receives, commits
and goes on while it has filled its block; `on_rev()` parses region A packet by
packet, one action per turn of its loop. Inside a packet there is no header, so
once the framing is lost the parser may take any number of bytes. The peer
frames its packets correctly, sends byte by byte and may close or reset at any
of them; epoll is edge-triggered. The four copies of `on_rev()` are one here.
Three history variables name what the code does not handle: `straddled`,
`aside`, `cut`. `MCReceivePath` puts the path and a buffer that is called in any
way side by side; the bytes of the second are those of `AnyByte`.

### ClientPackets, ClientAnswers, ClientStream

`ClientPackets` has the length of every request in the packet database and what
the function of each reads; `Dispatched` is `FromDispatch::call()`, in which the
length in the database wins over the function's result. A request is known by
the name its number has in the last packet version. The four numbers of version
23 lie above `MAX_FROM_INDEX` (`Beyond`): they have no function, and what is read
in its place, behind the array, is a length of any size or the end of the
process (`Crash`). `Unnamed` stands for the numbers that have no name.
`ClientStream` lets a
client send requests that the network cuts anywhere near their ends, and cuts
the stream again with these operators. `ClientAnswers` gives every answer as the
widths of its fields; `to_stream` is what `ToDispatch::call()` puts on the wire. What
the fields mean is left out: only widths and lengths can break a stream.

### PacketWorker

One socket with its queue, its worker pointer and the workers it creates; the
three servers share the text of these classes up to one difference, the
constant `ClearsOnStop`: a stopped worker of the realm and world server resets
`_worker`, one of the login server does not (`MCPacketWorker`). The push of the epoll thread and
`start_worker()` are two actions, as are the test for an empty queue and the
reset of `_worker`. `PoolStops` allows `ThreadPool::shutdown()` to stop a
worker at any time. Packets are numbered in the order of arrival.

### SendPath

The buffer is an instance of `BipBuffer` whose bytes are the senders' names, so
a byte knows who sent it. A sender waits for the lock, reserves a block and
copies (with the lock, `send()` lines 108-130), and arms the socket for
writing. The epoll thread waits, writes under the same lock, finds the kernel
full or the buffer empty, and arms the socket for reading. `unread` counts the
bytes between `::send` and the peer. `ready` is the edge of the epoll event:
`EPOLL_CTL_MOD` looks at the socket again, the peer's reading raises it only if
the socket is armed for writing.

### Sockets and SharedSockets

`kernel` is the kernel's table of descriptors, `fds` and `maxFd` the server's
table, `fd` and `life` the objects, `gc` the collector's list. Each thread has
a position `pc` and the object `at` it works on. `close()` is taken apart
(`CloseMark`, `CloseFd`, `Remove`, `Clear`, `Unwatch`), because between `::close`
and `remove` the descriptor can be given out again, and `remove` tests the slot
before it clears it. `Lowest` is the kernel's rule of the lowest free
descriptor. `_delete()` puts the object on the list and then looks for a
GCWorker without a lock (`Delete`, `Start`), so there can be two (`workers`);
their one static variable then makes one of them forget an entry (`Lose`). A
GCWorker deletes an object only when no thread of the module is inside a call on
it: the two seconds are taken for long enough, an assumption on time that the
code makes as well.

`Sockets` has the epoll thread and the main thread (a refused `connect`,
`quit`). `SharedSockets` adds workers that close their socket, which they do in
`login/intersocket.cpp:69` and `world/worldsocket.cpp:139`.

### Database and ServerLife

`Database` is the manager alone: a client in `execute()` or `query()`, a worker
between `pop` and `send_query`, the main thread in `shutdown()`, each with its
`pc`; every try of a connection's lock is an action of its own. A worker object
counts until `on_close()` has reset `_worker`. `overlapped` remembers that a
client had passed the test of `_inited` when `shutdown()` cleared it. The
database may fail a statement that was sent (`PutToDatabase`); nobody looks.

`ServerLife` writes what the main thread of each of the three servers does as
a list of steps, from `load_conf` to the destructors, so that the order of
start and quit is read off one line per server; `todo` is what is left of the
list. Each step of the start may fail; a login or realm server that cannot listen
for its inner connections says so and goes on. The epoll thread, the collector and the
packet workers are there with what quitting needs to know of them, and the pool
with what `ThreadPool` shows: `shutdown()` tells every task once, a task that
comes later may run, be lost, or keep it from returning. The parent may hang up
at any time; it is looked at when the main thread is about to use the
connection, and the collector from the moment the sockets are closed, since
before that neither can be told apart from a later one.

### WorldRegistry

`packets[w]` are the packets between a world and the handler of the realm,
including those already in `_packets`; `requests[w]` those in the other
direction. Both are handled by one worker each, in order, which is what
`PacketWorker` establishes (`SerialHandling`, `ImplementsPacketService`). A
world is up, is told to quit, ends or crashes at any point; the realm's epoll
thread then runs `on_close()`, loses an arbitrary part of what was still in the
connection, and leaves to the worker what was already queued. `known[w]` is the
set of parts (name, information, status) the entry in `_servers_info` has got.
A world that is started again is another member of `World`. Its object at the
realm may get the address of a deleted one and with it the routes that were left
under that key (`Inherit`, `heirs`). `get_server_by_map()` reads two tables
without a lock (`FindServer`, `CopyInfo`, with `found` between them), and a map
announced by a packet handled after `on_close()` makes a route to a world that is
gone (`revived`). The run and the proofs take the module as an instance
(`MCWorldRegistry`).

### Accounts, RealmTable, LoginServer

`rows` is the account table and `waiting` the INSERTs in the queue; `users` is
the set of entries of `_users`. A login is the query for the number of a name, the
query for the row, a use of the entry through the pointer and a release, each an
action, because the pointer is used without the lock: `stale` says that the
entry is gone, and what is then read is any number. Names with the suffix `_M`
or `_F` create an account, which costs one query for the next number and one
INSERT that is waited for by sleeping. Each query and each statement may fail:
the next number is then 1000 (`Fallback`), the INSERT is forgotten (`failed`),
and a row that cannot be fetched is used through a NULL pointer, which ends the
process.
`RealmTable` is the conversation with one or more realm servers, whose entries
are `none`, `partial` (without address) or `full`. `LoginServer` lets a login
that succeeds take the list.

### Characters

`table` holds for each number which creation has written each of the three
groups of columns, `waiting` the statements on the way, `chars` the table of a
connection. A creation draws a number, draws it again for `save_char()`, looks
for the row and queues three statements. A failing query for the number gives
1000, which may be taken, and a failing statement is lost; `spoiled` are the
numbers to which one of the two, or a second creation, has happened. `Restart`
empties the queue and the connections and keeps the table.

### World

What matters in `world/` is which lock is held when. A function is therefore
written as the sequence of what it does, `<<"lock", l>>`, `<<"unlock", l>>` and
the sections between, with calls spliced in; `todo[t]` is what thread `t` has
still to do. Every session has a worker, and the epoll thread closes
connections. The mutexes are not recursive. Tables hold players by the character
they play; there is one map. A socket makes a new Player for each login it
handles while it has none, also while its own closing is under way: `Player` are
those of the sessions and, for the n-th further login, those in `Again`. `info`
are the players whose character has been loaded, which a failing query leaves
out. A player that was deleted and is used again is noted in `touched` with the
place that did it. Where the source stops saying what happens the model stops
as well (`Over`): after a use of a NULL pointer (`crashed`), and after a deleted
player was called by the socket he was bound to.

### Updater

Spawners are loaded one by one from files of five kinds, entered on their map
and in the queue of their priority; the thread selects a queue, pops, notifies
and puts back, all with `_lock`, one waitor per action, and the quit command
runs beside it. Times are ints: `Wrap` is the two's complement at `Half`, and
the clock moves while the thread runs. `_thread` is not initialised by the
constructor, so it is arbitrary before `start()`.

## 3. The runs

| run | instance | what it shows |
|---|---|---|
| `Pool` | 3 handles, 2 tasks, capacity 1 | ownership, a complete `shutdown()`, refinement of `TaskRunner`, all reasons for which it may hang |
| `ReceivePath` | 5 bytes, packets of 1 and 3, 4 of them, `MAX_PACKET_LEN` 4 | packets come out in order, once and all, and well-behaved peers stay; the buffer under any calls |
| `ClientStream` | 2 requests, the first of every kind | requests are pushed as sent up to the first that is torn or misread, answers are as long as the client takes them for |
| `PacketRealm` | 3 workers, 3 packets, stops | serial handling, refinement of `PacketService`, the reasons for which a packet lies in the queue |
| `SendStream` | 2 senders, 3 messages of 2 bytes, buffer of 3, kernel room for 2 | the stream is exact, `send()` ends or dies in one known state |
| `SharedSockets` | 2 sockets, 2 descriptors, table of 2, both workers may close | table and collector without the workers, own descriptor, refinement of `ConnectionLife`, closed sockets are deleted |
| `ServerLife` | 2 clients, 2 workers of the queue, 3 connections, 2 statements, 3 calls | safe calls, clean end, refinement of `StatementLog`, the database's `shutdown()` comes to its end |
| `RegistryTables` | 2 worlds, 2 maps, one in common | tables agree, routes to live worlds are complete and others have two known origins, the handshake loses nothing |
| `LoginServer` | 2 sessions, 3 logins, 1 realm, numbers to 4 | a client is told its own account, why an account may not be found or not be made, an address that is missing is on its way |
| `RealmServer` | 2 sessions, 2 accounts, 2 slots, 2 creations, 3 packets, 1 restart | slots and rows belong together, what was shown is kept, silence has known reasons |
| `World` | 2 sessions, 2 characters, 3 packets, 1 further login each | which deadlocks and which uses after delete there are, and that there are no others |
| `Updater` | 2 spawners of 5 kinds of file, 2 maps, ints of 3 bits | no waitor lost or doubled, no deleted one notified, spawners fill, quit ends |

Each run of a composed module checks several components at once: `ReceivePath`
contains the buffer, `ServerLife` the database, `LoginServer` two tables.

### Why the bounds are enough

* *Pool.* The conflicts are between one thread that retires, one `execute()`
  that picks a handle and one `shutdown()`. Two tasks on two handles make a
  handle be reused; the third handle lets `execute()` create a thread when the
  other two are busy or about to end. With capacity 1 a thread goes idle when
  it is alone and retires when it is not. The theorems cover every number.
* *Buffer and receive path.* With 5 bytes every order of the two regions, the
  wrap, a reservation cut at the end and one cut before region A occur; packets
  of 3 lie across the end of the array, packets of 1 fill a block exactly.
* *Client stream.* What one request does to the next shows with two; `Offsets`
  lets a read end up to four bytes before and two bytes behind the end of each,
  which is every branch the functions have. Reads never end elsewhere.
* *Workers.* A worker is created for a packet, so as many workers as packets are
  needed; three cover an old worker, its successor, and the packet between.
* *Send path.* The message is shorter than the buffer and two do not fit, so
  `reserve` is cut, wraps and fails; the kernel takes less than is there, so a
  write is partial and EAGAIN occurs.
* *Connections.* Two sockets share two descriptors, so that one is given out
  again under its former owner; the table is small enough that the step in
  which a descriptor equals its size is taken too. `MaxGc` bounds how often an
  object may wait for the collector before the epoll thread serves another.
* *Server life.* Two clients and one worker may hold one connection each, hence
  `Conns` is 3; two statements let a new worker be created while the old one
  is on its way out. A third call overlaps with the other two.
* *Registry.* Two worlds with a map in common, one of which has another: routes
  are taken over, given up, kept, revived and inherited. A world sends each
  packet at most once.
* *Login server.* Two creations that overlap, and one in turn. `Fallback` is 3: a
  failed query gives a number that is free, taken, or taken later. Steps of a realm
  and steps of overlapping logins commute except for the list a login takes:
  `CheckedSpec` leaves out their products (`Apart`) and keeps everything else.
* *Characters.* Two creations share a number, or not, on one account or two, and
  the restart falls between any two statements. The smallest number stands for
  1000 as well, so a failed query meets a number in use.
* *World.* Two sessions on the same and on different characters. Sessions and
  characters are interchangeable and no liveness is checked, so symmetry
  (`Perms`) is sound. `MCInit` lets a connection that logs in again play the
  character it played before; the theorems do not need that.
* *Updater.* Two spawners are in one queue, in two, on one map, on a missing map,
  endless or failed. `Half` = 4 makes the clock wrap within a few steps, from
  any start.

CHECK_DEADLOCK is off in all of them: an instance ends when its tasks, packets,
messages or sockets are used up or the server has quit, and in `World` a
deadlock of the mutexes is stated by `KnotsAreKnown` instead, which sees partial
ones too.

### Fairness

Most properties are about safety and assume nothing of the scheduler: where the
code does not guarantee that something happens in the end, the property says
which states are the only ones in which it does not (`HangsAreKnown`,
`StrandedIsKnown`, `HandshakeLosesNothing`, `NotFoundIsKnown`), or that each step
brings the end nearer (`DatabaseStops`). Five runs take liveness on:

* *Receive path, client stream.* The epoll thread is scheduled. The peer may
  stop at any byte; what is promised is about what has arrived.
* *Send path.* Threads are scheduled and the peer goes on reading. A sender
  that waits for room takes and releases the lock again and again, so the lock
  must be granted to each thread in the end (strong fairness of taking it). A
  pthread mutex does not promise this, but the holder leaves the lock for a
  system call in each round.
* *Connections.* The epoll thread, the collector and a worker that has such a
  packet are scheduled; connections come and go as they like.
* *Updater.* The threads are scheduled and the clock does not stand still. For
  `_lock`, which the updater takes without pause, `remove()` needs strong
  fairness, as above.

### What the runs found out about the code

Every run passes: a property that the code does not keep in all cases names the
cases, and says that there are no others. These are the cases. Each is a state
TLC reaches when the exception is taken out of the property.

*Pool and queues*

* A thread that has put its handle into the idle set is not yet waiting. If
  `execute()` picks the handle now, its signal is lost, and the task stays in
  the handle until somebody signals again. This is one of the reasons for which
  `shutdown()` waits for ever; a thread that has read `reuse` before the mark, a
  task that came too late, and a task that does not return are the others
  (`HangsAreKnown`). `SocketWorker::run()` sets `_running` again, so a worker
  that was told to stop before it ran is such a task.
* A condition wait that returns by itself makes the thread delete a task that
  has not run, after which a handle may be offered twice.
* A task handed in after `shutdown()` has passed its handle is not told to end.
* `shutdown()` looks at `handle->task` twice without a lock
  (`threadpool.cpp:72-75`). In between the thread may clear it, or delete the
  task: the call of `stop()` then ends the process.
* The packet pushed between "empty" and `_worker = NULL` starts no worker; it is
  handled when the next one arrives (`StrandedIsKnown`). A statement in the
  database's queue waits in the same way. In the login server `_worker` dangles
  after a stop.

*Bytes*

* After EAGAIN the socket is armed for writing, and immediately for reading
  instead; bytes that wrapped around stay in the send buffer. Both go out with
  the next `send()`.
* In the middle of a message `reserve()` may find no room and leave `r_size` as
  the part before had set it; `send()` then copies that many bytes to NULL. It
  happens when region B has met region A, and is the only way in which
  `send()` does not come to its end (`SendEndsOrDies`).
* A packet that lies across the two regions of the receive buffer is parsed and
  not pushed, and its bytes are freed twice: from there on the framing is lost
  (`straddled`). Region B waits for the next event of the socket (`aside`). A
  last read that fills its block exactly and is followed by the end of the
  stream is not parsed (`cut`).
* The world server takes a request that the network has cut for a whole one, and
  the rest of it for new ones. Requests of two bytes wait for a byte more.
  Requests the library ignores without knowing their length take all that was
  read with them, and some kinds of the login server are read with the length
  of another (`Misread`). What follows the first of these is not what was sent
  (`Misled`), which is why the property is about the requests before it.
* The four highest numbers of the packet database, 0x0436 to 0x0439, are beyond
  the table of 1024 functions: `wanttoconnection`, `actionrequest`,
  `useskilltoid` and `useitem` of the newest clients have no function, their
  lengths are written behind the array of lengths, and looking their function
  up reads behind the array of functions. A number within the table that has no
  function is answered with its length, which may be 0 or -1 (`Beyond`,
  `Unnamed`).
* Of a player's four names (0x0195) only the first is sent, since the database
  has the length of another packet; nothing writes 0x014e. A list longer than
  the buffer of 1024 bytes is written beyond it, which is why `AnswersAreWhole`
  speaks of those that fit.

*Connections and servers*

* A worker that closes a socket which the epoll thread closes too closes the
  descriptor of a newcomer.
* Two calls of `_delete()` may both find no GCWorker and start one. The two
  share a static variable, and one object is then never deleted.
* A packet of a world that is handled after `on_close()` makes a route to a
  world that is gone. The next world whose object is put at the same address
  inherits such a route (`RoutedIsKnown`).
* A map goes to the world that announced it last, not to the first.
* A server that cannot listen for clients returns from `run()` with its threads
  running. One that cannot listen for the servers behind it logs this and goes
  on without them; the destructor of a listening socket that was never opened then fails its
  assertion. An epoll thread that is told to end before it is in `run()` never
  ends. A parent that hangs up while the main thread says goodbye to it leaves
  a NULL pointer in its hand. A call that passed the door of the database while
  it closed may use the deleted one.
* Nobody looks at the result of `send_query()`: a statement that fails is lost.

*Accounts and characters*

* Two creations that overlap get one number. At the login server the second
  INSERT is refused and the account is lost; at the realm a slot may lead to the
  character of somebody else. `save_char()` refuses when the number it draws is
  another one, and the client is told of success.
* When the query for the highest number fails, the number is 1000, taken or not
  (`rosql.cpp:132`, `rosql.cpp:200`). Nothing has to overlap for an INSERT to be
  refused then, or for a slot to lead to a stranger's character.
* A result that has no row is used through a NULL pointer (`rosql.cpp:106`) when
  the second query of a login fails.
* Two logins of one account share one entry of `_users`; the first release takes
  it away from the second.
* A realm's entry stays when its connection closes, and only `I_OFFLINE` removes
  it. Between name and address clients are sent the address zero. The list says
  how many realms there are and carries the entry of one (`loginauth.cpp:175`).
* A restart of the realm leaves characters without their levels.

*World*

* A player whose account is in the world already is deleted and stays in the
  tables: what follows uses him.
* Deadlocks: `set_map()` against the walks of the map (player, map),
  `equip_item()` with itself, and the takeover of a character, which closes the
  other connection with `_client_lock` held: that connection's lock may be
  taken, or, when it has logged in once more between the two calls of
  `~Player()` (`player.cpp:31-32`), the closing thread asks for `_client_lock`
  a second time.
* Uses after delete with one session per character: on the walk of
  `send_to_all()`, through the unit a player leaves on the map, and by his own
  socket, which keeps `_player` after `on_close()` and passes packets on to it.
* A player without a character ends the process: `save_player()` uses `_info`
  when the connection closes before `set_info()` or after a failed
  `setup_player()`, and LOAD_END_ACK uses the unit that such a player lacks.

*Updater*

* A door, or a spawner without a count, never leaves the higher queue, and the
  spawners below it starve. The first delay is the whole clock, which as an int
  is negative for half of all uptimes, and a negative product is not selected
  until it has turned. `start()` does nothing when `_thread` is garbage.

## 4. The proofs

TLAPS checks the theorems below for every value of the constants that satisfies
the module's assumption. Each rests on an inductive invariant `IInv`, proved for
the initial states and, action by action, for the steps. The assumptions say
what the code fixes: sizes are positive, a table of `Seeded` accounts is
delivered and has no empty row (`AccountsAssumption`), the epoll and the main
thread are not sockets (`SocketsAssumption`), the epoll thread is not the worker
of a session, and the sessions are finitely many (`WorldAssumption`, needed
since `add_player()` goes through the players of the map), the threads that call
the database are finitely many (`DatabaseAssumption`, needed to compare their
number with that of the connections), the bounds are numbers.

* **ThreadPoolProofs**, with and without spurious wakeups. There are two
  invariants: `BaseInv` holds for good and is what types, single ownership of
  tasks and the end of all threads rest on; `IInv` holds until the first jolt.
  It says for each handle what its `pc` implies: which sets it is in, whether it
  holds a task, and that a thread that is to die has been marked; and for the
  caller of `shutdown()` which handles it has still to visit. The properties
  alone are not inductive: that no thread is left at the end needs that every
  living thread's handle is in one of the two sets until its last step.
  Results: `TypeCorrect`, `OwnershipHolds`, `ShutdownIsComplete`,
  `RunPrecedesDelete`, `Refinement`, the pool implements `TaskRunner`, and
  `HangsKnown`. For the last, `SleepInv` adds that a handle `shutdown()` has
  passed is marked, or its thread is among the known exceptions.
  The workers that the pool's threads run for a socket (`PacketWorker`, through
  `MCPacketWorker`) are proved about in the same module, for every number of
  workers and packets and for both forms of the class. `WorkerInv` ties the
  position of a worker to the pointer: a worker between creation and end is the
  one `_worker` names, except after its last step. Results: `WorkersTyped`,
  `HandlersAreSerial`, `NoDanglingWorker` (where a stopped worker resets the
  pointer, or none is stopped), `StrandedKnown`, and `PacketsServed`, the
  refinement of `PacketService`.
* **BipBufferProofs**, for every capacity. `IInv` is `TypeOK`, `Layout` and where
  the reserved block lies relative to the regions, since `commit` finds out from
  addresses what `reserve` had decided. Results: `TypeCorrect`, `LayoutHolds`,
  `ReservedBlockIsFree`, `UnreadBytesAreKept`, and `Refinement` of `ByteFifo`.
  The same module proves `StreamRight` for `SendPath`, whose buffer this is
  (`StreamHolds`):
  `SendIInv` says who holds the lock, and that what a sender is about to copy is
  the reserved block, of no more than it has left. A copy then appends
  (`CommitAppends`) and a write drops from the front what it hands to the kernel
  (`FreeDrops`), so nothing is lost between the two. `SendAssumption` keeps the
  names of the epoll thread and of nobody apart from those of senders.
  `ReceivePath`, for any lengths of the packets, is there as well, with
  `PacketsInOrder` and `PeerKeptOpen`. `RevIInv` says that the buffer holds the
  positions up to the last one taken (`Positions`), and, as long as no packet
  has lain across the regions, that `on_rev()` stands where the packets it has
  pushed end (`Framed`); the ends grow strictly, which takes the well-founded
  order of the numbers (`LeastNumber`), so a parser at an end has one packet
  before it and no other (`OneStart`).
* **SharedSocketsProofs**, for any number of sockets, descriptors and closing
  workers. `Base` holds for good: the types, the places at which a thread can
  be, and that a socket keeps the descriptor it was opened with. `Calm` holds
  until a worker closes: the epoll and the main thread are never at the same
  socket, what is in the table is open, and a thread goes through the stages of
  a close in their order. `Safe` holds until the server stops too, and says that
  the collector's list has no doubles and nothing that is in use. The table
  property alone is not inductive because a descriptor is free for the kernel
  before its slot is cleared; `Stages` is what connects the two. Results:
  `TypeCorrect`, `TableSound`, `OwnDescriptorClosed`, `LifeOfConnections`.
* **ServerLifeProofs**, for each of the three servers, any number of packet
  workers, statements, connections and calls. The part about the database says
  who may be behind its door, that there is one worker at a time, and how far the
  threads that look for a connection can have come (`ConnsSuffice`): whoever
  goes on to the next connection leaves somebody behind on the last, so of n + 1
  threads at most n + 2 - k stand at the k-th or later, an argument about
  cardinalities. The part about the main thread describes the
  list `todo` as a suffix of a server's start or quit, and what of the pool, the
  collector and the singletons is there at each step of it. Results:
  `TypeCorrect`, `CallsSafe`, `EndClean`, `StatementsInOrder`, the refinement of
  `StatementLog`, and `WorkerIsOnItsWay`: whoever `shutdown()` of the database
  waits for is there, and comes nearer to its end with each step it takes.
* **LoginServerProofs**, for any number of clients, accounts, logins and realms.
  `AccountInv` says that a creation which is neither `raced` nor `failed` is
  alone between `get_max_id()` and the execution of its INSERT, and that its
  number is free; that it was free when it was chosen is a lemma about the
  maximum (`NextIsFree`). `Creator` follows a creation's row: on the way, there,
  or given up. Until two sessions have been inside one entry of `_users`,
  sessions inside are apart, so no release can take an entry from another
  (`Apart`, `Own`). `RealmInv` follows a realm through its registration: not
  there, announced, or in a conversation of three questions, where the answers
  handled, the answers on their way and the questions not yet answered add up to
  three at all times, with `I_OFFLINE` somewhere among them. Results:
  `TypeCorrect`, `AccountsRight`, `NotFoundKnown`, `RealmsRight`.
  The registry of worlds that the realm server keeps (`WorldRegistry`, through
  `MCWorldRegistry`) is proved about in the same module, for all sets of worlds
  and maps and every assignment of maps to worlds. That a route to a live world
  leads to a complete entry, unless it was inherited, is a fact about the past
  of a conversation, so `RegistryInv`
  describes the conversation: while a world is up it has its `I_NOTIFY` on the
  way or is conversing, and for every part of its information either the part
  is known, or it is on its way, or it will be asked for, with the maps asked for
  last and no map on its way ahead of a part. A route to a closed world was made
  after the close. Results: `RegistryTyped`,
  `RoutesOwned`, `RoutedKnown`.
* **CharactersProofs**, for any number of connections, accounts, slots, creations
  and restarts (`CharactersAssumption`: accounts are numbered from 1). Two things
  hold for good: a creation has one number, whether it stands in a row, in a
  statement or in a packet that is handled (`OneNumber`), and the numbers have
  no gap (`NoGap`). The first gives by
  counting that a creation always finds a number left (`NextHasRoom`), the
  second that `MAX(char_id) + 1`, asked again, is the number in memory for as
  long as that one has no row (`NextIsOwn`). Until a number is `spoiled` it is
  `Alone` while it is being saved, its row and the three statements in the queue
  are `Followed` from one state to the next, and what a slot `Shows` is saved
  there or its INSERT is waiting. Neither half of the property is inductive
  without the queue: a row that an UPDATE will complete and a slot whose row
  does not exist yet are both right only because of what waits. Results:
  `TypeCorrect`, `CharactersRight`, `CharactersKept`.

* **UpdaterProofs**, for any number of spawners and maps and any width of an int.
  What holds waitors (queues, lists to add and remove, the hand of the thread)
  is a row of places, and pop, push and erase move what is behind a place; the
  lemmas say which old place each new one was. `Queued` adds to `HeldOnce` that
  whoever has been entered has a place until `remove()` notes it. `Lives` says
  that nobody is deleted who was not noted before, that nobody noted is in hand,
  and that `unload()` comes to each spawner once; `OnMap`, that the Npcs on a map
  are those its spawners count. Results: `TypeCorrect`, `WaitorsHeldOnce`,
  `NotifiedLive`.

* **WorldProofs**, for any number of sessions and characters. `IInv` is `Good`
  until two sessions play one character or the model stops (`Over`), and says
  how it stopped: by a use of a NULL pointer, or of a deleted player in one of the three
  known places. `Good` says what each thread is in the middle of (`Role`): its
  list `todo` is empty, or what is left of `handle_login()`, of `on_close()` or
  of the removal behind it, or it is a packet of a player who is in the world.
  Of the last kind only the order around the map's table is kept: entries that
  leave the table alone (`Calm`), then `reg_to_map` and `join` with
  `_players_lock` held between them. The lock of the socket keeps a session's
  worker and the epoll thread out of each other's way; the player is off the map
  and out of `_clients` before he is deleted (`Shutting`); and whoever is bound
  is connected, was closed before he was bound, is deleted, or is being shut out
  (`Stays`), which is where a removal that missed somebody would show. A step of
  one thread is taken apart from the rest: `Effect` says what it may change, and
  `Frame` that the roles of all others survive that. Results:
  `NoneUsedWhenDeleted`, `GoneFromTables`.

Only model-checked: all liveness (the proof system does not reach fairness);
`KnotsAreKnown`, whose proof would have to follow the locks of every entry of
every list, also while two sessions share a character;
`HandshakeLosesNothing`; and the safety properties of `ClientStream`, which
compute with tables of lengths, as TLC does for every request and answer.

## 5. What is not modelled

`PROJECT.json` lists every component with its status. Left out for good are:

* readers of the game data and the structs they fill, configuration, log, and
  the empty script files: sequential conversions and pure I/O;
* AES, MD5 and SHA, which are third-party code that no server calls;
* commands that only print, `load_user(long)` and other functions without a
  caller, handlers that are empty.

Within the modelled parts:

* `adjust()` of the pool; `_servers` of realm and login (only a log line reads
  it); the values of the fields of packets; the contents of map files;
* what a packet of the world changes in a character, and more than one map. A
  change of map is `remove_player()` and `add_player()` in turn;
* errors of `::send` other than a full kernel buffer, which close the
  connection as an error of `recv` does in `ReceivePath`;
* memory that is freed and read in the same critical section
  (`fastqueue.h:88`), and races inside a `std::map` that is read without its
  lock (`realmmgr.cpp:132`), which are undefined below the level of these
  models. Signed overflow, undefined in C++, is taken to wrap around, as it does
  on the machines the servers are built for;
* reconnection: no server connects to its parent a second time by itself;
* a game client that does something before it says that its map is loaded: its
  first packet in the map is that one.

`PROJECT.json` lists forty hazards. Others were met that are no property's
business yet: `close_all()` does not close (`socketmgr.cpp:154`), a world keeps
the pointer to a realm connection it has lost (`mapmgr.cpp:117`), and the time
of a deletion wraps around once in 49 days (`socketgc.cpp:29`).

## 6. What could follow

1. `World` with two maps, so that a change of map meets a walk over both.
2. `ServerLife` of two processes, a realm and a world, joined through
   `WorldRegistry`, in place of a parent that merely hangs up.
3. A proof of `KnotsAreKnown`: an order of the locks that the lists of all
   threads respect, up to the rings the property names.
