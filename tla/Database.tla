------------------------------ MODULE Database ------------------------------
(***************************************************************************)
(* The database manager of a server (DatabaseMgr, Database, MySQLDatabase).*)
(* Packet workers call query(), which takes a free connection and waits    *)
(* for the result, and execute(), which puts a statement into a queue and  *)
(* returns; a worker on the thread pool sends the queued statements.  When *)
(* the queue is empty the worker goes, and on_close() clears _worker; the  *)
(* next execute() creates another one.  The main thread calls shutdown().  *)
(*                                                                         *)
(* Every section under a lock is one action, and so is every trylock of    *)
(* get_free_conn().  A call that is refused because the manager is not     *)
(* open changes nothing and is left out.  Statements are numbered in the   *)
(* order in which they enter the queue; no caller sets a callback (_func). *)
(* Nothing is said of a step taken on a deleted database: the behaviour    *)
(* ends there.                                                             *)
(***************************************************************************)
EXTENDS Naturals, Sequences, FiniteSets

CONSTANTS
  Client,         (* the threads that handle packets                        *)
  Worker,         (* the worker objects that can be created (a bound)       *)
  NoWorker,       (* the NULL of _worker                                    *)
  Conns,          (* DB_MAX_CONNECTION_COUNT                                *)
  MaxStatements,  (* calls of execute() (a bound)                           *)
  MaxCalls        (* calls of execute() and query() (a bound)               *)

ASSUME DatabaseAssumption ==
  /\ NoWorker \notin Worker
  /\ Client \cap Worker = {}
  /\ IsFiniteSet(Client)
  /\ Conns \in Nat \ {0}
  /\ MaxStatements \in Nat
  /\ MaxCalls \in Nat

VARIABLES
  db,         (* "none" before init(), "open", "null" (could not be opened),*)
              (* "deleted"                                                  *)
  inited,     (* _inited                                                    *)
  closing,    (* _closing                                                   *)
  queue,      (* _query_queue                                               *)
  dead,       (* clear() has freed nodes _last still points into            *)
  called,     (* statements taken by execute() so far                       *)
  pushed,     (* statements pushed so far                                   *)
  queries,    (* queries begun so far                                       *)
  worker,     (* _worker                                                    *)
  pc,         (* where each client and each worker is                       *)
  at,         (* the connection it tries or holds                           *)
  hand,       (* the statement a worker has popped                          *)
  sent,       (* what was put to the database: each statement, and whether  *)
              (* it was executed                                            *)
  sd,         (* where the main thread is in shutdown()                     *)
  overlapped  (* was a client inside a call when shutdown() closed the door?*)

managerVars == <<db, inited, closing, sd, overlapped>>
queueVars == <<queue, dead, pushed>>
vars == <<managerVars, queueVars, called, queries, worker, pc, at, hand, sent>>

Statement == 1 .. MaxStatements
NoStatement == 0
Thread == Client \cup Worker

(* The connections whose _lock is held. *)
Using(t) == pc[t] \in {"query", "send"}
Free(i) == ~\E t \in Thread : Using(t) /\ at[t] = i

Go(t, from, to) == pc[t] = from /\ pc' = [pc EXCEPT ![t] = to]

Init ==
  /\ db = "none" /\ inited = FALSE /\ closing = FALSE
  /\ queue = <<>> /\ dead = FALSE
  /\ called = 0 /\ pushed = 0 /\ queries = 0
  /\ worker = NoWorker
  /\ pc = [t \in Thread |-> IF t \in Client THEN "idle" ELSE "new"]
  /\ at = [t \in Thread |-> 1]
  /\ hand = [w \in Worker |-> NoStatement]
  /\ sent = <<>>
  /\ sd = "ready" /\ overlapped = FALSE

(* init(): without a known DB_TYPE it returns at once; otherwise _inited is *)
(* set whether open() says yes or no.                                      *)
InitDb ==
  /\ db = "none"
  /\ \/ db' = "null" /\ UNCHANGED inited
     \/ db' \in {"open", "null"} /\ inited' = TRUE
  /\ UNCHANGED <<closing, sd, overlapped, queueVars, called, queries, worker,
                 pc, at, hand, sent>>

(***************************************************************************)
(* execute(), in the thread of a client.                                   *)
(***************************************************************************)
ExecuteBegin(c) ==
  /\ inited /\ db = "open"
  /\ called < MaxStatements /\ called + queries < MaxCalls
  /\ called' = called + 1
  /\ Go(c, "idle", "push")
  /\ UNCHANGED <<managerVars, queueVars, queries, worker, at, hand, sent>>

(* push(); behind a queue that clear() emptied the node is linked to freed *)
(* memory and never found.                                                 *)
ExecutePush(c) ==
  /\ Go(c, "push", "start")
  /\ IF dead THEN UNCHANGED <<queue, pushed>>
             ELSE pushed' = pushed + 1 /\ queue' = Append(queue, pushed + 1)
  /\ UNCHANGED <<managerVars, dead, called, queries, worker, at, hand, sent>>

(* new Worker: the objects differ in nothing, so any unused one will do. *)
Fresh == {w \in Worker : pc[w] = "new"}
Newest == CHOOSE w \in Fresh : TRUE

(* Mutant of StartWorker: the test `if (_worker)` is missing. *)
StartWorkerAlways(c) ==
  /\ pc[c] = "start"
  /\ Fresh # {}
  /\ worker' = Newest
  /\ pc' = [pc EXCEPT ![c] = "idle", ![Newest] = "run"]
  /\ UNCHANGED <<managerVars, queueVars, called, queries, at, hand, sent>>

(* start_worker(), under _worker_lock. *)
StartWorker(c) ==
  /\ pc[c] = "start"
  /\ IF worker # NoWorker
     THEN pc' = [pc EXCEPT ![c] = "idle"] /\ UNCHANGED worker
     ELSE /\ Fresh # {}
          /\ worker' = Newest
          /\ pc' = [pc EXCEPT ![c] = "idle", ![Newest] = "run"]
  /\ UNCHANGED <<managerVars, queueVars, called, queries, at, hand, sent>>

(***************************************************************************)
(* query(), in the thread of a client.                                     *)
(***************************************************************************)
QueryBegin(c) ==
  /\ inited /\ db = "open"
  /\ called + queries < MaxCalls
  /\ queries' = queries + 1
  /\ Go(c, "idle", "scan")
  /\ at' = [at EXCEPT ![c] = 1]
  /\ UNCHANGED <<managerVars, queueVars, called, worker, hand, sent>>

(* One round of the loop of get_free_conn(): take the connection, or go to *)
(* the next; after the last there is none, and query() unlocks NULL.       *)
TryLock(t, taken, none) ==
  /\ db = "open"
  /\ pc[t] = "scan"
  /\ \/ Free(at[t]) /\ pc' = [pc EXCEPT ![t] = taken] /\ UNCHANGED at
     \/ /\ ~Free(at[t]) /\ at[t] < Conns
        /\ at' = [at EXCEPT ![t] = @ + 1] /\ UNCHANGED pc
     \/ /\ ~Free(at[t]) /\ at[t] = Conns
        /\ pc' = [pc EXCEPT ![t] = none] /\ UNCHANGED at
  /\ UNCHANGED <<managerVars, queueVars, called, queries, worker, hand, sent>>

QueryScan(c) == TryLock(c, "query", "null")

(* The result has arrived, the connection is unlocked. *)
QueryEnd(c) ==
  /\ db = "open"
  /\ Go(c, "query", "idle")
  /\ at' = [at EXCEPT ![c] = 1]
  /\ UNCHANGED <<managerVars, queueVars, called, queries, worker, hand, sent>>

(***************************************************************************)
(* run() of a worker; the pool calls it again until it returns true.       *)
(***************************************************************************)
RunBegin(w) ==
  /\ Go(w, "run", IF closing THEN "close" ELSE "pop")
  /\ UNCHANGED <<managerVars, queueVars, called, queries, worker, at, hand, sent>>

Pop(w) ==
  /\ IF queue = <<>>
     THEN Go(w, "pop", "close") /\ UNCHANGED <<queue, hand>>
     ELSE /\ Go(w, "pop", "check")
          /\ hand' = [hand EXCEPT ![w] = Head(queue)]
          /\ queue' = Tail(queue)
  /\ UNCHANGED <<managerVars, dead, pushed, called, queries, worker, at, sent>>

(* Mutant of Check: _closing is not looked at while there is no connection.*)
CheckNever(w) ==
  /\ Go(w, "check", "scan")
  /\ at' = [at EXCEPT ![w] = 1]
  /\ UNCHANGED <<managerVars, queueVars, called, queries, worker, hand, sent>>

(* while (!_mgr->_closing): when the manager closes, the statement that    *)
(* was popped is dropped.                                                  *)
Check(w) ==
  /\ Go(w, "check", IF closing THEN "run" ELSE "scan")
  /\ hand' = [hand EXCEPT ![w] = IF closing THEN NoStatement ELSE @]
  /\ at' = [at EXCEPT ![w] = 1]
  /\ UNCHANGED <<managerVars, queueVars, called, queries, worker, sent>>

(* No free connection: `continue`, with the statement still in hand. *)
WorkerScan(w) == TryLock(w, "send", "check")

(* mysql_query() may fail: the line in the log is all that is left of it.  *)
PutToDatabase(s) ==
  \E executed \in BOOLEAN :
    sent' = Append(sent, [statement |-> s, executed |-> executed])

(* Mutant of Send: no break after the statement was sent. *)
SendAgain(w) ==
  /\ db = "open"
  /\ Go(w, "send", "check")
  /\ PutToDatabase(hand[w])
  /\ UNCHANGED <<managerVars, queueVars, called, queries, worker, at, hand>>

(* send_query() and unlock; what it says is not looked at, and run()       *)
(* returns false: a statement that failed is not tried again.              *)
Send(w) ==
  /\ db = "open"
  /\ Go(w, "send", "run")
  /\ PutToDatabase(hand[w])
  /\ hand' = [hand EXCEPT ![w] = NoStatement]
  /\ UNCHANGED <<managerVars, queueVars, called, queries, worker, at>>

(* on_close(), called by the pool before it deletes the worker. *)
OnClose(w) ==
  /\ Go(w, "close", "deleted")
  /\ worker' = NoWorker
  /\ UNCHANGED <<managerVars, queueVars, called, queries, at, hand, sent>>

(***************************************************************************)
(* shutdown(), in the main thread.                                         *)
(***************************************************************************)
ShutdownClose ==
  /\ sd = "ready"
  /\ closing' = TRUE
  /\ sd' = "close"
  /\ UNCHANGED <<db, inited, overlapped, queueVars, called, queries, worker, pc,
                 at, hand, sent>>

ShutdownRefuse ==
  /\ sd = "close"
  /\ inited' = FALSE
  /\ overlapped' = \E c \in Client : pc[c] # "idle"
  /\ sd' = "wait"
  /\ UNCHANGED <<db, closing, queueVars, called, queries, worker, pc, at, hand,
                 sent>>

(* Mutant of ShutdownClear: shutdown() waits for the queue, not for the    *)
(* worker.                                                                 *)
ShutdownClearEarly ==
  /\ sd = "wait" /\ queue = <<>>
  /\ sd' = "clear"
  /\ UNCHANGED <<db, inited, closing, overlapped, queueVars, called, queries,
                 worker, pc, at, hand, sent>>

(* `while (_worker)` has ended, and the queue is cleared. *)
ShutdownClear ==
  /\ sd = "wait" /\ worker = NoWorker
  /\ dead' = (queue # <<>>)
  /\ queue' = <<>>
  /\ sd' = "clear"
  /\ UNCHANGED <<db, inited, closing, overlapped, pushed, called, queries,
                 worker, pc, at, hand, sent>>

ShutdownDelete ==
  /\ sd = "clear"
  /\ db' = IF db = "open" THEN "deleted" ELSE db
  /\ closing' = FALSE
  /\ sd' = "done"
  /\ UNCHANGED <<inited, overlapped, queueVars, called, queries, worker, pc, at,
                 hand, sent>>

-----------------------------------------------------------------------------
Call(c) ==
  ExecutePush(c) \/ StartWorker(c) \/ QueryScan(c) \/ QueryEnd(c)

Run(w) ==
  \/ RunBegin(w) \/ Pop(w) \/ Check(w) \/ WorkerScan(w) \/ Send(w)
  \/ OnClose(w)

Shutdown == ShutdownRefuse \/ ShutdownClear \/ ShutdownDelete

(* Who calls them, and when, is in ServerLife. *)
-----------------------------------------------------------------------------
TypeOK ==
  /\ db \in {"none", "open", "null", "deleted"}
  /\ inited \in BOOLEAN /\ closing \in BOOLEAN
  /\ queue \in Seq(Statement) /\ dead \in BOOLEAN
  /\ called \in 0 .. MaxStatements
  /\ pushed \in 0 .. called
  /\ queries \in 0 .. MaxCalls
  /\ worker \in Worker \cup {NoWorker}
  /\ \A c \in Client : pc[c] \in {"idle", "push", "start", "scan", "query", "null"}
  /\ \A w \in Worker :
       pc[w] \in {"new", "run", "pop", "check", "scan", "send", "close", "deleted"}
  /\ at \in [Thread -> 1 .. Conns]
  /\ hand \in [Worker -> Statement \cup {NoStatement}]
  /\ \A w \in Worker :
       hand[w] # NoStatement <=> pc[w] \in {"check", "scan", "send"}
  /\ sent \in Seq([statement : Statement, executed : BOOLEAN])
  /\ sd \in {"ready", "close", "wait", "clear", "done"}
  /\ overlapped \in BOOLEAN

(***************************************************************************)
(* shutdown() deletes the database when the worker is gone: no thread is   *)
(* inside it any more, and no worker is started after it, unless a client  *)
(* was inside execute() or query() when the calls were refused.            *)
(***************************************************************************)
DeletedWhenUnused ==
  db = "deleted" /\ ~overlapped =>
    /\ \A c \in Client : pc[c] = "idle"
    /\ \A w \in Worker : pc[w] \in {"new", "deleted"}

(***************************************************************************)
(* query() never unlocks a connection it did not get: with one connection  *)
(* for each thread get_free_conn() finds one, in whatever order the others *)
(* take and free theirs while it looks.                                    *)
(***************************************************************************)
QueryHasConnection ==
  Conns > Cardinality(Client) => \A c \in Client : pc[c] # "null"

(***************************************************************************)
(* No call and no worker comes upon a database that was deleted or a       *)
(* connection it does not have.                                            *)
(***************************************************************************)
CallsAreSafe == TypeOK /\ DeletedWhenUnused /\ QueryHasConnection

(***************************************************************************)
(* Statements are put to the database in the order of the calls, none      *)
(* twice and none left out before the server quits: at most one worker     *)
(* sends, though a new one may be created while the old one is on its way  *)
(* out.  (Whether the database executes them, nobody asks.)                *)
(***************************************************************************)
InHand ==
  IF \E w \in Worker : hand[w] # NoStatement
  THEN hand[CHOOSE w \in Worker : hand[w] # NoStatement]
  ELSE NoStatement

Log == INSTANCE StatementLog WITH
  Nothing <- NoStatement, waiting <- queue, sending <- InHand,
  quitting <- (sd # "ready")

ImplementsStatementLog == Log!Spec
=============================================================================
