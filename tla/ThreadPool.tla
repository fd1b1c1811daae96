----------------------------- MODULE ThreadPool -----------------------------
(***************************************************************************)
(* The thread pool of shared/thread (threadpool.h, threadpool.cpp with the *)
(* ThreadCtl of threadctl.h and the Condition of condition.h).             *)
(*                                                                         *)
(* Threads are identified with their ThreadHandle.  A section under _lock  *)
(* or under a handle's lock that calls nothing that waits is one action;   *)
(* the first part of shutdown() keeps _lock over many steps, so its        *)
(* ownership is a variable.  ThreadCtl::suspend and resume are a bare      *)
(* pthread_cond_wait and pthread_cond_signal with no predicate: a signal   *)
(* sent while the thread is not yet waiting is lost, and a thread may go   *)
(* on without one.                                                         *)
(***************************************************************************)
EXTENDS Naturals, FiniteSets

CONSTANTS
  Handle,          (* the ThreadHandles that can be allocated (a bound)      *)
  Task,            (* the ThreadBase objects handed to execute() (a bound)   *)
  NoTask,          (* the NULL of handle->task                               *)
  Cap              (* the argument of init()                                 *)

ASSUME PoolAssumption ==
  /\ NoTask \notin Task
  /\ Cap \in Nat

VARIABLES
  active,    (* _active_set                                                  *)
  idle,      (* _idle_set                                                    *)
  inited,    (* _inited                                                      *)
  locked,    (* is _lock held by shutdown() across its steps?                *)
  task,      (* handle->task                                                 *)
  reuse,     (* handle->reuse                                                *)
  pc,        (* where the thread of a handle is in thread_proc               *)
  cur,       (* the local `task` of on_thread_run                            *)
  dying,     (* the local need_delete of on_thread_finish                    *)
  submitted, (* tasks that were passed to execute()                          *)
  deleted,   (* task objects that were deleted                               *)
  stopped,   (* tasks whose shutdown() was called                            *)
  before,    (* tasks that had been handed in when shutdown() took _lock     *)
  sd,        (* where the thread that calls shutdown() is                    *)
  todo,      (* handles its loop has still to visit                          *)
  sdAt,      (* the handle it visits and the task pointer it has read        *)
  missed,    (* handles signalled while their thread was not waiting         *)
  late,      (* handles whose thread has read reuse before shutdown() marked *)
             (* it, or that execute() has created after that                 *)
  jolted     (* has pthread_cond_wait returned without a signal?             *)

threadVars == <<task, reuse, pc, cur, dying>>
setVars == <<active, idle, inited, locked>>
taskVars == <<submitted, deleted, stopped, before>>
sdVars == <<sd, todo, sdAt>>
wakeVars == <<missed, late, jolted>>
vars == <<threadVars, setVars, taskVars, sdVars, wakeVars>>

NoHandle == "no handle"

ThreadPcs == {"none", "top", "run", "finish", "clear", "retire", "remove",
              "suspend", "wait", "gone"}
ShutdownPcs == {"ready", "scan", "peek", "stop", "drain", "done", "crashed"}

Init ==
  /\ active = {}
  /\ idle = {}
  /\ inited = FALSE
  /\ locked = FALSE
  /\ task = [h \in Handle |-> NoTask]
  /\ reuse = [h \in Handle |-> TRUE]
  /\ pc = [h \in Handle |-> "none"]
  /\ cur = [h \in Handle |-> NoTask]
  /\ dying = [h \in Handle |-> FALSE]
  /\ submitted = {}
  /\ deleted = {}
  /\ stopped = {}
  /\ before = {}
  /\ sd = "ready"
  /\ todo = {}
  /\ sdAt = [handle |-> NoHandle, task |-> NoTask]
  /\ missed = {}
  /\ late = {}
  /\ jolted = FALSE

(***************************************************************************)
(* pthread_cond_signal on the conditions of the handles H: it reaches only *)
(* a thread that waits.                                                    *)
(***************************************************************************)
resume(H) ==
  /\ pc' = [h \in Handle |-> IF h \in H /\ pc[h] = "wait" THEN "top" ELSE pc[h]]
  /\ missed' = missed \cup {h \in H : pc[h] # "wait"}

(* The handle's lock, which on_thread_finish holds while it deletes.       *)
Unlocked(h) == pc[h] # "clear"

(* init(): create_thread(NULL) for every thread of the capacity. *)
InitPool ==
  /\ ~inited /\ ~locked /\ sd = "ready"
  /\ \E H \in SUBSET {h \in Handle : pc[h] = "none"} :
       /\ Cardinality(H) = Cap
       /\ pc' = [h \in Handle |-> IF h \in H THEN "top" ELSE pc[h]]
       /\ active' = active \cup H
  /\ inited' = TRUE
  /\ UNCHANGED <<idle, locked, task, reuse, cur, dying, taskVars, sdVars,
                 wakeVars>>

(***************************************************************************)
(* execute(task): one section under _lock, also while shutdown() waits.    *)
(***************************************************************************)
MaySubmit(t) ==
  /\ t \notin submitted
  /\ ~locked

ExecuteRejected(t) ==
  /\ MaySubmit(t)
  /\ ~inited
  /\ submitted' = submitted \cup {t}
  /\ deleted' = deleted \cup {t}
  /\ UNCHANGED <<threadVars, setVars, stopped, before, sdVars, wakeVars>>

(* Mutant of ExecuteReuse: the handle is not erased from the idle set. *)
ExecuteReuseKeepsIdle(t) ==
  /\ MaySubmit(t)
  /\ inited
  /\ \E h \in idle :
       /\ Unlocked(h)
       /\ active' = active \cup {h}
       /\ task' = [task EXCEPT ![h] = t]
       /\ resume({h})
  /\ submitted' = submitted \cup {t}
  /\ UNCHANGED <<idle, inited, locked, reuse, cur, dying, deleted, stopped,
                 before, sdVars, late, jolted>>

ExecuteReuse(t) ==
  /\ MaySubmit(t)
  /\ inited
  /\ \E h \in idle :
       /\ Unlocked(h)
       /\ idle' = idle \ {h}
       /\ active' = active \cup {h}
       /\ task' = [task EXCEPT ![h] = t]
       /\ resume({h})
  /\ submitted' = submitted \cup {t}
  /\ UNCHANGED <<inited, locked, reuse, cur, dying, deleted, stopped, before,
                 sdVars, late, jolted>>

ExecuteCreate(t) ==
  /\ MaySubmit(t)
  /\ inited
  /\ idle = {}
  /\ \E h \in Handle :
       /\ pc[h] = "none"
       /\ pc' = [pc EXCEPT ![h] = "top"]
       /\ task' = [task EXCEPT ![h] = t]
       /\ active' = active \cup {h}
       /\ late' = IF sd = "drain" THEN late \cup {h} ELSE late
  /\ submitted' = submitted \cup {t}
  /\ UNCHANGED <<idle, inited, locked, reuse, cur, dying, deleted, stopped,
                 before, sdVars, missed, jolted>>

(***************************************************************************)
(* thread_proc: the loop of every thread.  on_thread_run reads the task    *)
(* (its AutoLock is a temporary, released at once) and calls run().        *)
(***************************************************************************)
RunTop(h) ==
  /\ pc[h] = "top"
  /\ cur' = [cur EXCEPT ![h] = task[h]]
  /\ pc' = [pc EXCEPT ![h] = IF task[h] = NoTask THEN "finish" ELSE "run"]
  /\ missed' = missed \ {h}
  /\ UNCHANGED <<task, reuse, dying, setVars, taskVars, sdVars, late, jolted>>

(* run() returned false: it is called again, also after shutdown() of the  *)
(* task: SocketWorker::run() sets its _running again.                      *)
RunAgain(h) ==
  /\ pc[h] = "run"
  /\ pc' = [pc EXCEPT ![h] = "top"]
  /\ UNCHANGED <<task, reuse, cur, dying, setVars, taskVars, sdVars, wakeVars>>

(* run() returned true. *)
RunDone(h) ==
  /\ pc[h] = "run"
  /\ pc' = [pc EXCEPT ![h] = "finish"]
  /\ UNCHANGED <<task, reuse, cur, dying, setVars, taskVars, sdVars, wakeVars>>

(* on_thread_finish takes the handle's lock: on_close(), delete ...        *)
FinishTask(h) ==
  /\ pc[h] = "finish"
  /\ deleted' = deleted \cup ({task[h]} \ {NoTask})
  /\ cur' = [cur EXCEPT ![h] = NoTask]
  /\ pc' = [pc EXCEPT ![h] = "clear"]
  /\ UNCHANGED <<task, dying, reuse, setVars, submitted, stopped, before, sdVars,
                 wakeVars>>

(* ... and only then handle->task = NULL; the lock is given back.          *)
ClearTask(h) ==
  /\ pc[h] = "clear"
  /\ task' = [task EXCEPT ![h] = NoTask]
  /\ dying' = [dying EXCEPT ![h] = ~reuse[h]]
  /\ pc' = [pc EXCEPT ![h] = "retire"]
  /\ UNCHANGED <<reuse, cur, setVars, taskVars, sdVars, wakeVars>>

(* on_thread_finish, the section under _lock. *)
Retire(h) ==
  /\ pc[h] = "retire"
  /\ ~locked
  /\ active' = active \ {h}
  /\ idle' = idle \cup {h}
  /\ pc' = [pc EXCEPT ![h] = IF dying[h] THEN "remove" ELSE "suspend"]
  /\ UNCHANGED <<inited, locked, task, reuse, cur, dying, taskVars, sdVars,
                 wakeVars>>

(* Mutant of RemoveThread: the handle is deleted but stays in the idle set. *)
RemoveThreadKeepsIdle(h) ==
  /\ pc[h] = "remove"
  /\ ~locked
  /\ pc' = [pc EXCEPT ![h] = "gone"]
  /\ UNCHANGED <<idle, active, inited, locked, task, reuse, cur, dying,
                 taskVars, sdVars, wakeVars>>

(* remove_thread, then thread_proc deletes the handle and returns. *)
RemoveThread(h) ==
  /\ pc[h] = "remove"
  /\ ~locked
  /\ idle' = idle \ {h}
  /\ pc' = [pc EXCEPT ![h] = "gone"]
  /\ UNCHANGED <<active, inited, locked, task, reuse, cur, dying, taskVars,
                 sdVars, wakeVars>>

(* ThreadCtl::suspend: from here on a signal is seen. *)
Suspend(h) ==
  /\ pc[h] = "suspend"
  /\ pc' = [pc EXCEPT ![h] = "wait"]
  /\ UNCHANGED <<task, reuse, cur, dying, setVars, taskVars, sdVars, wakeVars>>

SpuriousWake(h) ==
  /\ pc[h] = "wait"
  /\ pc' = [pc EXCEPT ![h] = "top"]
  /\ jolted' = TRUE
  /\ UNCHANGED <<task, reuse, cur, dying, setVars, taskVars, sdVars, missed,
                 late>>

(***************************************************************************)
(* shutdown(): takes _lock and visits the active handles.                  *)
(***************************************************************************)
ShutdownBegin ==
  /\ sd = "ready" /\ inited /\ ~locked
  /\ sd' = "scan"
  /\ locked' = TRUE
  /\ todo' = active
  /\ before' = submitted
  /\ UNCHANGED <<active, idle, inited, threadVars, submitted, deleted, stopped,
                 sdAt, wakeVars>>

(* handle->reuse = false, under the handle's lock. *)
ShutdownMark ==
  /\ sd = "scan"
  /\ \E h \in todo :
       /\ Unlocked(h)
       /\ reuse' = [reuse EXCEPT ![h] = FALSE]
       /\ todo' = todo \ {h}
       /\ sdAt' = [handle |-> h, task |-> NoTask]
       /\ late' = IF pc[h] = "retire" THEN late \cup {h} ELSE late
  /\ sd' = "peek"
  /\ UNCHANGED <<task, pc, cur, dying, setVars, taskVars, missed, jolted>>

(* if (handle->task), read without the handle's lock. *)
ShutdownPeek ==
  /\ sd = "peek"
  /\ sdAt' = [sdAt EXCEPT !.task = task[sdAt.handle]]
  /\ sd' = IF task[sdAt.handle] = NoTask THEN "scan" ELSE "stop"
  /\ UNCHANGED <<threadVars, setVars, taskVars, todo, wakeVars>>

(* Mutant of ShutdownStop: shutdown() deletes the task it has stopped. *)
ShutdownStopDeletes ==
  /\ sd = "stop"
  /\ LET t == task[sdAt.handle]
     IN /\ t \in Task \ deleted
        /\ stopped' = stopped \cup {t}
        /\ deleted' = deleted \cup {t}
        /\ sd' = "scan"
  /\ UNCHANGED <<threadVars, setVars, submitted, before, todo, sdAt, wakeVars>>

(***************************************************************************)
(* handle->task->shutdown(): the pointer is read again, still without the  *)
(* handle's lock.  By now the thread may have set it to NULL, and the call *)
(* ends the process; or have deleted the task, and the call writes to      *)
(* freed memory, without effect if it does not end the process.            *)
(***************************************************************************)
Told(t) ==
  /\ stopped' = stopped \cup {t}
  /\ sd' = "scan"

Stray(t) ==
  /\ UNCHANGED stopped
  /\ \/ sd' = "crashed"
     \/ t # NoTask /\ sd' = "scan"

ShutdownStop ==
  /\ sd = "stop"
  /\ LET t == task[sdAt.handle]
     IN IF t \in Task \ deleted THEN Told(t) ELSE Stray(t)
  /\ UNCHANGED <<threadVars, setVars, submitted, deleted, before, todo, sdAt,
                 wakeVars>>

(* Mutant of ShutdownKillIdle: the idle threads are not told to end. *)
ShutdownWakesOnly ==
  /\ sd = "scan" /\ todo = {}
  /\ \A h \in idle : Unlocked(h)
  /\ task' = [h \in Handle |-> IF h \in idle THEN NoTask ELSE task[h]]
  /\ active' = active \cup idle
  /\ idle' = {}
  /\ resume(idle)
  /\ locked' = FALSE
  /\ sd' = "drain"
  /\ UNCHANGED <<inited, reuse, cur, dying, taskVars, todo, sdAt, late, jolted>>

(* kill_idle_thread(_idle_set.size()), then _lock is released. *)
ShutdownKillIdle ==
  /\ sd = "scan" /\ todo = {}
  /\ \A h \in idle : Unlocked(h)
  /\ reuse' = [h \in Handle |-> reuse[h] /\ h \notin idle]
  /\ task' = [h \in Handle |-> IF h \in idle THEN NoTask ELSE task[h]]
  /\ active' = active \cup idle
  /\ idle' = {}
  /\ resume(idle)
  /\ locked' = FALSE
  /\ sd' = "drain"
  /\ UNCHANGED <<inited, cur, dying, taskVars, todo, sdAt, late, jolted>>

(* Mutant of ShutdownDone: the loop does not wait for the active threads. *)
ShutdownDoneIdleOnly ==
  /\ sd = "drain" /\ ~locked
  /\ idle = {}
  /\ inited' = FALSE
  /\ sd' = "done"
  /\ UNCHANGED <<active, idle, locked, threadVars, taskVars, todo, sdAt,
                 wakeVars>>

(* The polling loop finds both sets empty. *)
ShutdownDone ==
  /\ sd = "drain" /\ ~locked
  /\ active = {} /\ idle = {}
  /\ inited' = FALSE
  /\ sd' = "done"
  /\ UNCHANGED <<active, idle, locked, threadVars, taskVars, todo, sdAt,
                 wakeVars>>

-----------------------------------------------------------------------------
ThreadStep(h) ==
  \/ RunTop(h) \/ RunAgain(h) \/ RunDone(h) \/ FinishTask(h) \/ ClearTask(h)
  \/ Retire(h) \/ RemoveThread(h) \/ Suspend(h) \/ SpuriousWake(h)

Execute(t) == ExecuteRejected(t) \/ ExecuteReuse(t) \/ ExecuteCreate(t)

Shutdown ==
  \/ ShutdownBegin \/ ShutdownMark \/ ShutdownPeek \/ ShutdownStop
  \/ ShutdownKillIdle \/ ShutdownDone

(* Nothing happens after the process has crashed. *)
Next ==
  /\ sd # "crashed"
  /\ \/ InitPool
     \/ \E t \in Task : Execute(t)
     \/ \E h \in Handle : ThreadStep(h)
     \/ Shutdown

Spec == Init /\ [][Next]_vars
-----------------------------------------------------------------------------
TypeOK ==
  /\ jolted \in BOOLEAN
  /\ active \in SUBSET Handle
  /\ idle \in SUBSET Handle
  /\ inited \in BOOLEAN
  /\ locked \in BOOLEAN
  /\ task \in [Handle -> Task \cup {NoTask}]
  /\ reuse \in [Handle -> BOOLEAN]
  /\ pc \in [Handle -> ThreadPcs]
  /\ cur \in [Handle -> Task \cup {NoTask}]
  /\ dying \in [Handle -> BOOLEAN]
  /\ submitted \in SUBSET Task
  /\ deleted \in SUBSET Task
  /\ stopped \in SUBSET Task
  /\ before \in SUBSET Task
  /\ missed \in SUBSET Handle
  /\ late \in SUBSET Handle
  /\ sd \in ShutdownPcs
  /\ todo \in SUBSET Handle
  /\ sdAt \in [handle : Handle \cup {NoHandle}, task : Task \cup {NoTask}]

(***************************************************************************)
(* A task has one handle; and until pthread_cond_wait returns without a    *)
(* signal a thread inside run() executes the task its handle holds, that   *)
(* task is not deleted, and its handle is not offered to execute() as an   *)
(* idle one: on_thread_finish, execute and shutdown together never hand    *)
(* one handle to two tasks.                                                *)
(***************************************************************************)
OneHolder ==
  \A g, h \in Handle : task[g] = task[h] /\ task[g] # NoTask => g = h

RunsItsOwn ==
  \A h \in Handle :
    pc[h] = "run" => /\ cur[h] = task[h]
                     /\ cur[h] \in submitted \ deleted
                     /\ h \in active \ idle

IdleHoldsNothing == \A h \in idle : task[h] = NoTask

Ownership == OneHolder /\ (jolted \/ (RunsItsOwn /\ IdleHoldsNothing))

(***************************************************************************)
(* When shutdown() returns no thread of the pool is left ("Make sure all   *)
(* the threads could existed before pool has been deleted"), and every     *)
(* task that execute() was given, also one given while shutdown() was      *)
(* waiting, has been deleted, unless pthread_cond_wait has returned        *)
(* without a signal.                                                       *)
(***************************************************************************)
ShutdownComplete ==
  sd = "done" =>
    /\ \A h \in Handle : pc[h] \in {"none", "gone"}
    /\ jolted \/ submitted \subseteq deleted

(***************************************************************************)
(* "The task object will be not delete before it's run() has been          *)
(* completed": a task that was accepted is deleted only by the thread      *)
(* whose on_thread_run read it and called its run(), until                 *)
(* pthread_cond_wait returns without a signal.                             *)
(***************************************************************************)
RunBeforeDelete ==
  [][\A t \in (deleted' \ deleted) \cap submitted :
       jolted \/ \E h \in Handle : cur[h] = t /\ pc[h] = "finish"]_vars

(***************************************************************************)
(* The life of every task as a user of the pool sees it.                   *)
(***************************************************************************)
TaskStatus ==
  [t \in Task |->
     IF \E h \in Handle : cur[h] = t THEN "running"
     ELSE IF t \in deleted THEN "deleted"
     ELSE IF t \in submitted THEN "accepted"
     ELSE "new"]

Runner == INSTANCE TaskRunner WITH
  status <- TaskStatus, alive <- (sd # "crashed")

(***************************************************************************)
(* The pool implements the task runner (execute, on_thread_run,            *)
(* on_thread_finish and shutdown seen from outside): no task is started    *)
(* after it was deleted or deleted twice, and the process dies of a call   *)
(* of shutdown() only after a task has come to its end.                    *)
(***************************************************************************)
ImplementsTaskRunner == Runner!Spec

(***************************************************************************)
(* All that can keep the polling loop of shutdown() from ending.  A thread *)
(* whose handle is active sleeps, or is gone, only if the signal sent to   *)
(* it found it not waiting; an idle one sleeps through the shutdown only   *)
(* for the same reason, or because it had read reuse before it was marked, *)
(* or was created after that; and until pthread_cond_wait returns without  *)
(* a signal every task that was there when shutdown() began was told to    *)
(* stop or is deleted, so that what else it waits for is a task that does  *)
(* not return from run() or was handed in later.                           *)
(***************************************************************************)
SleepsUnwoken == \A h \in active : pc[h] \in {"wait", "gone"} => h \in missed

StaysIdle ==
  sd = "drain" => \A h \in idle : pc[h] = "wait" => h \in missed \cup late

KnownAreTold == sd = "drain" => jolted \/ before \subseteq stopped \cup deleted

HangsAreKnown == SleepsUnwoken /\ StaysIdle /\ KnownAreTold
=============================================================================
