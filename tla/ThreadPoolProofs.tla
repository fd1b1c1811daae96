-------------------------- MODULE ThreadPoolProofs --------------------------
(***************************************************************************)
(* Theorems about the thread pool, for any number of threads and tasks and *)
(* any interleaving of execute(), shutdown() and the threads.  Most of     *)
(* what holds ends with the first return of pthread_cond_wait without a    *)
(* signal, so there are two inductive invariants: one up to that moment    *)
(* and one for good.                                                       *)
(***************************************************************************)
EXTENDS ThreadPool, MCPacketWorker, TLAPS

(***************************************************************************)
(* The invariant up to that moment: what the place of a thread in thread_proc says *)
(* about its handle.  An awake thread's handle is active, so neither       *)
(* execute() nor kill_idle_thread() writes its task behind its back.       *)
(***************************************************************************)
Awake == {"top", "run", "finish", "clear", "retire"}

HandleInv(h) ==
  /\ pc[h] \in Awake => h \in active \ idle
  /\ pc[h] = "none" => h \notin active \cup idle /\ task[h] = NoTask
  /\ h \in idle => h \notin active /\ task[h] = NoTask
  /\ pc[h] \in {"run", "finish"} => cur[h] = task[h]
  /\ pc[h] = "run" => cur[h] # NoTask
  /\ pc[h] = "retire" => task[h] = NoTask
  /\ pc[h] = "clear" => task[h] \in deleted \cup {NoTask}
  /\ cur[h] # NoTask => pc[h] \in {"top", "run", "finish"} /\ cur[h] = task[h]
  /\ task[h] # NoTask => task[h] \in submitted /\ h \in active
  /\ pc[h] # "clear" => task[h] \notin deleted
  /\ pc[h] \notin {"none", "gone"} => h \in active \cup idle

AcceptedIsHeld ==
  \A t \in submitted \ deleted : \E h \in Handle : task[h] = t

DoneInv == sd = "done" => ~inited /\ active = {} /\ idle = {}

(* shutdown() holds _lock while it visits the handles, so no other task    *)
(* comes into the handle it looks at: the one it saw goes on being told,   *)
(* or has been deleted.                                                    *)
VisitInv ==
  /\ locked <=> sd \in {"scan", "peek", "stop", "crashed"}
  /\ sd \in {"peek", "stop"} => sdAt.handle \in Handle
  /\ sd = "stop" =>
       /\ sdAt.task \in Task
       /\ task[sdAt.handle] = sdAt.task \/ sdAt.task \in deleted
  /\ sd = "crashed" => deleted # {}

DeletedInv == deleted \subseteq submitted

IInv ==
  /\ TypeOK
  /\ VisitInv
  /\ DeletedInv
  /\ \A h \in Handle : HandleInv(h)
  /\ OneHolder
  /\ AcceptedIsHeld
  /\ DoneInv

LEMMA InitIInv == Init => IInv
<1> SUFFICES ASSUME Init PROVE IInv
  OBVIOUS
<1> USE PoolAssumption DEF Init
<1>1. TypeOK
  BY DEF TypeOK, ThreadPcs, ShutdownPcs
<1>2. \A h \in Handle : HandleInv(h)
  BY DEF HandleInv, Awake
<1>3. OneHolder /\ AcceptedIsHeld /\ DoneInv /\ VisitInv /\ DeletedInv
  BY DEF OneHolder, AcceptedIsHeld, DoneInv, VisitInv, DeletedInv
<1> QED
  BY <1>1, <1>2, <1>3 DEF IInv

LEMMA NextIInv ==
  ASSUME IInv, [Next]_vars, ~jolted'
  PROVE  IInv'
<1> USE PoolAssumption
    DEF IInv, TypeOK, HandleInv, Awake, OneHolder, AcceptedIsHeld, DoneInv,
        VisitInv, DeletedInv, ThreadPcs, ShutdownPcs, setVars, taskVars, sdVars, threadVars, wakeVars
<1>1. CASE InitPool
  BY <1>1 DEF InitPool
<1>2. ASSUME NEW t \in Task, ExecuteRejected(t) PROVE IInv'
  BY <1>2 DEF ExecuteRejected, MaySubmit
<1>3. ASSUME NEW t \in Task, ExecuteReuse(t) PROVE IInv'
  <2>1. PICK h \in idle :
          /\ idle' = idle \ {h}
          /\ active' = active \cup {h}
          /\ task' = [task EXCEPT ![h] = t]
          /\ resume({h})
    BY <1>3 DEF ExecuteReuse
  <2>2. TypeOK' /\ DoneInv' /\ VisitInv' /\ DeletedInv'
    BY <1>3, <2>1 DEF ExecuteReuse, MaySubmit, resume
  <2>3. \A g \in Handle : HandleInv(g)'
    BY <1>3, <2>1 DEF ExecuteReuse, MaySubmit, resume
  <2>4. h \in Handle /\ task[h] = NoTask /\ t \notin submitted \cup deleted
    BY <1>3, <2>1 DEF ExecuteReuse, MaySubmit
  <2>5. OneHolder'
    BY <1>3, <2>1, <2>4 DEF ExecuteReuse
  <2>6. AcceptedIsHeld'
    BY <1>3, <2>1, <2>4 DEF ExecuteReuse
  <2> QED
    BY <2>2, <2>3, <2>5, <2>6
<1>4. ASSUME NEW t \in Task, ExecuteCreate(t) PROVE IInv'
  <2>1. PICK h \in Handle :
          /\ pc[h] = "none"
          /\ pc' = [pc EXCEPT ![h] = "top"]
          /\ task' = [task EXCEPT ![h] = t]
          /\ active' = active \cup {h}
    BY <1>4 DEF ExecuteCreate
  <2>2. TypeOK' /\ DoneInv' /\ VisitInv' /\ DeletedInv'
    BY <1>4, <2>1 DEF ExecuteCreate, MaySubmit
  <2>3. \A g \in Handle : HandleInv(g)'
    BY <1>4, <2>1 DEF ExecuteCreate, MaySubmit
  <2>4. h \in Handle /\ task[h] = NoTask /\ t \notin submitted \cup deleted
    BY <1>4, <2>1 DEF ExecuteCreate, MaySubmit
  <2>5. OneHolder'
    BY <1>4, <2>1, <2>4 DEF ExecuteCreate
  <2>6. AcceptedIsHeld'
    BY <1>4, <2>1, <2>4 DEF ExecuteCreate
  <2> QED
    BY <2>2, <2>3, <2>5, <2>6
<1>5. ASSUME NEW h \in Handle, RunTop(h) PROVE IInv'
  BY <1>5 DEF RunTop
<1>6. ASSUME NEW h \in Handle, RunAgain(h) PROVE IInv'
  BY <1>6 DEF RunAgain
<1>7. ASSUME NEW h \in Handle, RunDone(h) PROVE IInv'
  BY <1>7 DEF RunDone
<1>8. ASSUME NEW h \in Handle, FinishTask(h) PROVE IInv'
  BY <1>8 DEF FinishTask
<1>19. ASSUME NEW h \in Handle, ClearTask(h) PROVE IInv'
  BY <1>19 DEF ClearTask
<1>9. ASSUME NEW h \in Handle, Retire(h) PROVE IInv'
  BY <1>9 DEF Retire
<1>10. ASSUME NEW h \in Handle, RemoveThread(h) PROVE IInv'
  BY <1>10 DEF RemoveThread
<1>11. ASSUME NEW h \in Handle, Suspend(h) PROVE IInv'
  BY <1>11 DEF Suspend
<1>12. CASE ShutdownBegin
  BY <1>12 DEF ShutdownBegin
<1>13. CASE ShutdownMark
  BY <1>13 DEF ShutdownMark
<1>14. CASE ShutdownPeek
  BY <1>14 DEF ShutdownPeek
<1>15. CASE ShutdownStop
  BY <1>15 DEF ShutdownStop, Told, Stray
<1>16. CASE ShutdownKillIdle
  BY <1>16 DEF ShutdownKillIdle, resume
<1>17. CASE ShutdownDone
  BY <1>17 DEF ShutdownDone
<1>18. CASE UNCHANGED vars
  BY <1>18 DEF vars
<1> QED
  BY <1>1, <1>2, <1>3, <1>4, <1>5, <1>6, <1>7, <1>8, <1>9, <1>10, <1>11,
     <1>12, <1>13, <1>14, <1>15, <1>16, <1>17, <1>18, <1>19
     DEF Next, Execute, ThreadStep, SpuriousWake, Shutdown

(* Which steps write the three variables a user of the pool sees. *)
LEMMA WhoWrites ==
  ASSUME [Next]_vars
  PROVE  /\ \/ \E h \in Handle : SpuriousWake(h)
            \/ jolted' = jolted
         /\ \/ \E t \in Task : ExecuteRejected(t)
            \/ \E h \in Handle : FinishTask(h)
            \/ UNCHANGED deleted
         /\ \/ \E h \in Handle : RunTop(h) \/ FinishTask(h)
            \/ UNCHANGED cur
<1> USE DEF setVars, taskVars, sdVars, threadVars, wakeVars
<1>1. CASE UNCHANGED vars
  BY <1>1 DEF vars
<1>2. CASE InitPool
  BY <1>2 DEF InitPool
<1>3. ASSUME NEW t \in Task, Execute(t)
      PROVE  /\ UNCHANGED <<cur, jolted>>
             /\ ExecuteRejected(t) \/ UNCHANGED deleted
  BY <1>3 DEF Execute, ExecuteRejected, ExecuteReuse, ExecuteCreate
<1>4. ASSUME NEW h \in Handle, ThreadStep(h)
      PROVE  /\ SpuriousWake(h) \/ jolted' = jolted
             /\ FinishTask(h) \/ UNCHANGED deleted
             /\ RunTop(h) \/ FinishTask(h) \/ UNCHANGED cur
  BY <1>4
     DEF ThreadStep, RunTop, RunAgain, RunDone, FinishTask, ClearTask, Retire,
         RemoveThread, Suspend, SpuriousWake
<1>5. CASE Shutdown
  BY <1>5
     DEF Shutdown, ShutdownBegin, ShutdownMark, ShutdownPeek, ShutdownStop,
         ShutdownKillIdle, ShutdownDone
<1> QED
  BY <1>1, <1>2, <1>3, <1>4, <1>5 DEF Next

(* A jolt is not taken back. *)
LEMMA JoltedForGood ==
  ASSUME [Next]_vars, jolted
  PROVE  jolted'
<1>1. ASSUME NEW h \in Handle, SpuriousWake(h) PROVE jolted'
  BY <1>1 DEF SpuriousWake
<1>2. CASE jolted' = jolted
  BY <1>2
<1> QED
  BY <1>1, <1>2, WhoWrites

LEMMA Invariance == Spec => [](jolted \/ IInv)
<1> DEFINE Calm == jolted \/ IInv
<1>1. Init => Calm
  BY InitIInv
<1>2. Calm /\ [Next]_vars => Calm'
  BY NextIInv, JoltedForGood
<1> HIDE DEF Calm
<1>3. Spec => []Calm
  BY <1>1, <1>2, PTL DEF Spec
<1> QED
  BY <1>3 DEF Calm

(***************************************************************************)
(* The invariant for good.                                                 *)
(***************************************************************************)
BaseHandle(h) ==
  /\ task[h] # NoTask => task[h] \in submitted
  /\ pc[h] = "clear" => task[h] \in deleted \cup {NoTask}
  /\ pc[h] # "clear" => task[h] \notin deleted
  /\ cur[h] # NoTask => cur[h] \in submitted \ deleted
  /\ pc[h] \notin {"none", "gone"} => h \in active \cup idle

OneRunner ==
  \A g, h \in Handle : cur[h] = task[g] /\ cur[h] # NoTask => g = h

BaseInv ==
  /\ TypeOK
  /\ VisitInv
  /\ DeletedInv
  /\ \A h \in Handle : BaseHandle(h)
  /\ OneHolder
  /\ OneRunner
  /\ DoneInv

LEMMA BaseInvariance == Spec => []BaseInv
<1>1. Init => BaseInv
  BY InitIInv DEF Init, IInv, BaseInv, BaseHandle, OneRunner
<1>2. ASSUME BaseInv, [Next]_vars PROVE BaseInv'
  <2> USE <1>2, PoolAssumption
      DEF BaseInv, TypeOK, BaseHandle, OneHolder, OneRunner, DoneInv, VisitInv,
          DeletedInv, ThreadPcs, ShutdownPcs, setVars, taskVars, sdVars,
          threadVars, wakeVars
  <2>1. CASE InitPool
    BY <2>1 DEF InitPool
  <2>2. ASSUME NEW t \in Task, ExecuteRejected(t) PROVE BaseInv'
    BY <2>2 DEF ExecuteRejected, MaySubmit
  <2>3. ASSUME NEW t \in Task, ExecuteReuse(t) PROVE BaseInv'
    <3>1. PICK h \in idle :
            /\ Unlocked(h)
            /\ idle' = idle \ {h}
            /\ active' = active \cup {h}
            /\ task' = [task EXCEPT ![h] = t]
            /\ resume({h})
      BY <2>3 DEF ExecuteReuse
    <3>2. t \notin submitted \cup deleted /\ t # NoTask
      BY <2>3 DEF ExecuteReuse, MaySubmit
    <3>3. \A g \in Handle : BaseHandle(g)'
      BY <2>3, <3>1, <3>2 DEF ExecuteReuse, MaySubmit, resume, Unlocked
    <3>4. OneHolder' /\ OneRunner'
      BY <2>3, <3>1, <3>2 DEF ExecuteReuse
    <3> QED
      BY <2>3, <3>1, <3>3, <3>4 DEF ExecuteReuse, MaySubmit, resume
  <2>4. ASSUME NEW t \in Task, ExecuteCreate(t) PROVE BaseInv'
    BY <2>4 DEF ExecuteCreate, MaySubmit
  <2>5. ASSUME NEW h \in Handle, RunTop(h) \/ RunAgain(h) \/ RunDone(h)
        PROVE  BaseInv'
    BY <2>5 DEF RunTop, RunAgain, RunDone
  <2>6. ASSUME NEW h \in Handle, FinishTask(h) PROVE BaseInv'
    BY <2>6 DEF FinishTask
  <2>18. ASSUME NEW h \in Handle, ClearTask(h) PROVE BaseInv'
    BY <2>18 DEF ClearTask
  <2>7. ASSUME NEW h \in Handle, Retire(h) PROVE BaseInv'
    BY <2>7 DEF Retire
  <2>8. ASSUME NEW h \in Handle, RemoveThread(h) PROVE BaseInv'
    BY <2>8 DEF RemoveThread
  <2>9. ASSUME NEW h \in Handle, Suspend(h) PROVE BaseInv'
    BY <2>9 DEF Suspend
  <2>17. ASSUME NEW h \in Handle, SpuriousWake(h) PROVE BaseInv'
    <3>1. jolted' \in BOOLEAN
      BY <2>17, Zenon DEF SpuriousWake
    <3> QED
      BY <2>17, <3>1 DEF SpuriousWake
  <2>10. CASE ShutdownBegin
    BY <2>10 DEF ShutdownBegin
  <2>11. CASE ShutdownMark
    BY <2>11 DEF ShutdownMark
  <2>12. CASE ShutdownPeek
    BY <2>12 DEF ShutdownPeek
  <2>13. CASE ShutdownStop
    BY <2>13 DEF ShutdownStop, Told, Stray
  <2>14. CASE ShutdownKillIdle
    BY <2>14 DEF ShutdownKillIdle, resume
  <2>15. CASE ShutdownDone
    BY <2>15 DEF ShutdownDone
  <2>16. CASE UNCHANGED vars
    BY <2>16 DEF vars
  <2> QED
    BY <2>1, <2>2, <2>3, <2>4, <2>5, <2>6, <2>7, <2>8, <2>9, <2>10, <2>11,
       <2>12, <2>13, <2>14, <2>15, <2>16, <2>17, <2>18
       DEF Next, Execute, ThreadStep, Shutdown
<1> QED
  BY <1>1, <1>2, PTL DEF Spec

(***************************************************************************)
(* Every variable of the pool keeps its type: in particular only real      *)
(* tasks, never NULL, are deleted or told to stop.                         *)
(***************************************************************************)
THEOREM TypeCorrect == Spec => []TypeOK
BY BaseInvariance, PTL DEF BaseInv

(***************************************************************************)
(* No task is ever held by two handles; until pthread_cond_wait returns    *)
(* without a signal none is run by the thread of another handle, and no    *)
(* idle handle holds one.                                                  *)
(***************************************************************************)
THEOREM OwnershipHolds == Spec => []Ownership
<1>1. BaseInv /\ (jolted \/ IInv) => Ownership
  <2>1. BaseInv => OneHolder
    BY DEF BaseInv
  <2>2. IInv => RunsItsOwn /\ IdleHoldsNothing
    BY DEF IInv, TypeOK, HandleInv, Awake, RunsItsOwn, IdleHoldsNothing
  <2> QED
    BY <2>1, <2>2 DEF Ownership
<1> QED
  BY <1>1, Invariance, BaseInvariance, PTL

(***************************************************************************)
(* When shutdown() returns, every thread has exited and, unless            *)
(* pthread_cond_wait has returned without a signal, every task that was    *)
(* accepted has been deleted.                                              *)
(***************************************************************************)
THEOREM ShutdownIsComplete == Spec => []ShutdownComplete
<1>1. BaseInv /\ (jolted \/ IInv) => ShutdownComplete
  <2>1. BaseInv /\ sd = "done" => \A h \in Handle : pc[h] \in {"none", "gone"}
    BY DEF BaseInv, BaseHandle, DoneInv
  <2>2. IInv /\ sd = "done" => submitted \subseteq deleted
    BY PoolAssumption DEF IInv, TypeOK, HandleInv, AcceptedIsHeld, DoneInv
  <2> QED
    BY <2>1, <2>2 DEF ShutdownComplete
<1> QED
  BY <1>1, Invariance, BaseInvariance, PTL

(***************************************************************************)
(* A task that was accepted is deleted only by the thread that ran it,     *)
(* until pthread_cond_wait returns without a signal.                       *)
(***************************************************************************)
THEOREM RunPrecedesDelete == Spec => RunBeforeDelete
<1> DEFINE Step == \A t \in (deleted' \ deleted) \cap submitted :
                     jolted \/ \E h \in Handle : cur[h] = t /\ pc[h] = "finish"
           Calm == jolted \/ IInv
<1>1. ASSUME Calm, [Next]_vars PROVE [Step]_vars
  <2>0. CASE jolted
    BY <2>0
  <2> SUFFICES ASSUME IInv PROVE [Step]_vars
    BY <1>1, <2>0
  <2> USE <1>1 DEF setVars, taskVars, sdVars, threadVars, wakeVars
  <2>1. ASSUME NEW h \in Handle, FinishTask(h) PROVE Step
    BY <2>1 DEF FinishTask, IInv, HandleInv
  <2>2. ASSUME NEW t \in Task, ExecuteRejected(t) PROVE Step
    BY <2>2 DEF ExecuteRejected, MaySubmit
  <2> QED
    BY <1>1, <2>1, <2>2, WhoWrites
<1>2. Spec => []Calm
  BY Invariance
<1> HIDE DEF Calm
<1>3. Spec => [][Step]_vars
  BY <1>1, <1>2, PTL DEF Spec
<1> QED
  BY <1>3 DEF RunBeforeDelete

(***************************************************************************)
(* The pool implements the task runner: accepting, rejecting, running and  *)
(* deleting a task are the steps of TaskRunner, everything else the pool   *)
(* does leaves the life of every task as it is.                            *)
(***************************************************************************)
Alive == sd # "crashed"

Seen == <<TaskStatus, Alive, jolted>>

LEMMA StatusUpdate ==
  ASSUME NEW t \in Task, NEW s,
         \A u \in Task \ {t} : TaskStatus'[u] = TaskStatus[u],
         TaskStatus'[t] = s
  PROVE  TaskStatus' = [TaskStatus EXCEPT ![t] = s]
<1> DEFINE S == TaskStatus
<1>1. S = [u \in Task |-> S[u]] /\ S' = [u \in Task |-> S'[u]]
  BY DEF TaskStatus
<1> HIDE DEF S
<1> QED
  BY <1>1 DEF S

(* One task moves on and nothing else a user sees changes.                 *)
LEMMA SeenMove ==
  ASSUME NEW t \in Task, NEW from, NEW to, Alive, UNCHANGED <<sd, jolted>>,
         TaskStatus[t] = from, TaskStatus' = [TaskStatus EXCEPT ![t] = to],
         <<from, to>> \in {<<"new", "accepted">>, <<"new", "deleted">>,
                          <<"accepted", "running">>, <<"running", "deleted">>}
  PROVE  [Runner!Next]_Seen
<1>1. Alive' = Alive
  BY DEF Alive
<1>2. Runner!Move(t, from, to)
  BY <1>1 DEF Runner!Move, Alive
<1>3. Runner!Accept(t) \/ Runner!Reject(t) \/ Runner!Start(t) \/ Runner!Finish(t)
  BY <1>2 DEF Runner!Accept, Runner!Reject, Runner!Start, Runner!Finish
<1> QED
  BY <1>3 DEF Runner!Next, Alive

LEMMA SeenSame ==
  ASSUME UNCHANGED <<cur, submitted, deleted, sd, jolted>>
  PROVE  UNCHANGED Seen
<1>1. UNCHANGED TaskStatus
  BY DEF TaskStatus
<1>2. UNCHANGED Alive
  BY DEF Alive
<1> QED
  BY <1>1, <1>2 DEF Seen

LEMMA StartStep ==
  ASSUME IInv, Alive, NEW h \in Handle, RunTop(h)
  PROVE  [Runner!Next]_Seen
<1> USE DEF IInv, TypeOK, HandleInv, OneHolder
<1>0. UNCHANGED <<submitted, deleted, sd, jolted>>
  BY DEF RunTop, taskVars, sdVars
<1>1. CASE cur[h] = task[h]
  <2>1. cur' = cur
    BY <1>1 DEF RunTop
  <2> QED
    BY <1>0, <2>1, SeenSame
<1>2. CASE cur[h] # task[h]
  <2> DEFINE t == task[h]
  <2>1. t \in Task /\ cur[h] = NoTask /\ t \in submitted \ deleted
    BY <1>2, PoolAssumption DEF RunTop
  <2>2. \A g \in Handle : cur[g] # t
    BY <1>2, <2>1, PoolAssumption
  <2>a. \A u \in Task \ {t} :
          (\E g \in Handle : cur'[g] = u) <=> (\E g \in Handle : cur[g] = u)
    BY <1>2, <2>1, PoolAssumption DEF RunTop
  <2>b. cur'[h] = t
    BY DEF RunTop
  <2>c. \A u \in Task \ {t} : TaskStatus'[u] = TaskStatus[u]
    BY <1>0, <2>a DEF TaskStatus
  <2>d. TaskStatus'[t] = "running"
    BY <2>1, <2>b DEF TaskStatus
  <2>3. TaskStatus' = [TaskStatus EXCEPT ![t] = "running"]
    BY <2>1, <2>c, <2>d, StatusUpdate
  <2>4. TaskStatus[t] = "accepted"
    BY <2>1, <2>2 DEF TaskStatus
  <2> QED
    BY <1>0, <2>1, <2>3, <2>4, SeenMove
<1> QED
  BY <1>1, <1>2

LEMMA FinishStep ==
  ASSUME IInv, Alive, NEW h \in Handle, FinishTask(h)
  PROVE  [Runner!Next]_Seen
<1> USE DEF IInv, TypeOK, HandleInv, OneHolder
<1>0. UNCHANGED <<submitted, sd, jolted>>
  BY DEF FinishTask, sdVars, wakeVars
<1>1. CASE task[h] = NoTask
  <2>1. deleted' = deleted /\ cur' = cur
    BY <1>1 DEF FinishTask
  <2> QED
    BY <1>0, <2>1, SeenSame
<1>2. CASE task[h] # NoTask
  <2> DEFINE t == task[h]
  <2>1. t \in Task /\ cur[h] = t
    BY <1>2 DEF FinishTask
  <2>2. \A g \in Handle \ {h} : cur[g] # t
    BY <1>2, <2>1, PoolAssumption
  <2>3. TaskStatus[t] = "running"
    BY <2>1 DEF TaskStatus
  <2>4. \A u \in Task \ {t} :
          (\E g \in Handle : cur'[g] = u) <=> (\E g \in Handle : cur[g] = u)
    BY <2>1, PoolAssumption DEF FinishTask
  <2>5. ~\E g \in Handle : cur'[g] = t
    BY <2>1, <2>2, PoolAssumption DEF FinishTask
  <2>6. deleted' = deleted \cup {t}
    BY <1>2 DEF FinishTask
  <2>7. \A u \in Task \ {t} : TaskStatus'[u] = TaskStatus[u]
    BY <1>0, <2>4, <2>6 DEF TaskStatus
  <2>8. TaskStatus'[t] = "deleted"
    BY <2>1, <2>5, <2>6 DEF TaskStatus
  <2>9. TaskStatus' = [TaskStatus EXCEPT ![t] = "deleted"]
    BY <2>1, <2>7, <2>8, StatusUpdate
  <2> QED
    BY <1>0, <2>1, <2>3, <2>9, SeenMove
<1> QED
  BY <1>1, <1>2

LEMMA SubmitStep ==
  ASSUME IInv, Alive, NEW t \in Task, Execute(t)
  PROVE  [Runner!Next]_Seen
<1> USE DEF IInv, TypeOK, HandleInv, DeletedInv
<1>1. cur' = cur /\ submitted' = submitted \cup {t} /\ t \notin submitted
      /\ (deleted' = deleted \/ deleted' = deleted \cup {t})
      /\ UNCHANGED <<sd, jolted>>
  BY DEF Execute, ExecuteRejected, ExecuteReuse, ExecuteCreate, MaySubmit,
         threadVars, sdVars, wakeVars
<1>2. t \notin deleted /\ \A h \in Handle : cur[h] # t
  BY <1>1, PoolAssumption
<1>3. TaskStatus[t] = "new"
  BY <1>1, <1>2 DEF TaskStatus
<1>4. CASE deleted' = deleted
  <2>1. TaskStatus' = [TaskStatus EXCEPT ![t] = "accepted"]
    BY <1>1, <1>2, <1>4 DEF TaskStatus
  <2> QED
    BY <1>1, <1>3, <2>1, SeenMove
<1>5. CASE deleted' = deleted \cup {t}
  <2>1. TaskStatus' = [TaskStatus EXCEPT ![t] = "deleted"]
    BY <1>1, <1>2, <1>5 DEF TaskStatus
  <2> QED
    BY <1>1, <1>3, <2>1, SeenMove
<1> QED
  BY <1>1, <1>4, <1>5

(* The process dies only where shutdown() calls a task that is gone.       *)
LEMMA DieStep ==
  ASSUME BaseInv, Alive, ShutdownStop
  PROVE  [Runner!Next]_Seen
<1>1. UNCHANGED <<cur, submitted, deleted, jolted>>
  BY DEF ShutdownStop, threadVars, wakeVars
<1>2. UNCHANGED TaskStatus
  BY <1>1 DEF TaskStatus
<1>3. CASE sd' # "crashed"
  <2>1. UNCHANGED Alive
    BY <1>3 DEF Alive
  <2> QED
    BY <1>1, <1>2, <2>1 DEF Seen
<1>4. CASE sd' = "crashed"
  <2> USE PoolAssumption
  <2>1. sdAt.task \in deleted /\ sdAt.task \in Task
    BY <1>4
       DEF ShutdownStop, Told, Stray, BaseInv, VisitInv, BaseHandle, TypeOK
  <2>2. \A h \in Handle : cur[h] # sdAt.task
    BY <2>1 DEF BaseInv, BaseHandle, TypeOK
  <2>3. TaskStatus[sdAt.task] = "deleted"
    BY <2>1, <2>2 DEF TaskStatus
  <2>4. Alive' = FALSE
    BY <1>4 DEF Alive
  <2>5. Runner!Die
    BY <1>1, <1>2, <2>1, <2>3, <2>4, Zenon DEF Runner!Die, Alive
  <2> QED
    BY <2>5 DEF Runner!Next, Alive
<1> QED
  BY <1>3, <1>4

LEMMA StillAlive ==
  ASSUME Alive, [Next]_vars, ~ShutdownStop
  PROVE  sd' # "crashed"
<1>1. ASSUME NEW t \in Task, Execute(t) PROVE sd' = sd
  BY <1>1
     DEF Execute, ExecuteRejected, ExecuteReuse, ExecuteCreate, sdVars
<1>2. ASSUME NEW h \in Handle, ThreadStep(h) PROVE sd' = sd
  BY <1>2
     DEF ThreadStep, RunTop, RunAgain, RunDone, FinishTask, ClearTask, Retire,
         RemoveThread, Suspend, SpuriousWake, sdVars
<1>3. CASE Shutdown
  BY <1>3
     DEF Shutdown, ShutdownBegin, ShutdownMark, ShutdownPeek, ShutdownKillIdle,
         ShutdownDone
<1>4. CASE InitPool \/ UNCHANGED vars
  BY <1>4 DEF InitPool, vars, sdVars, Alive
<1> QED
  BY <1>1, <1>2, <1>3, <1>4 DEF Next, Alive

(* After the first jolt: what was deleted stays deleted. *)
LEMMA MuddleStep ==
  ASSUME BaseInv, jolted, Alive, [Next]_vars, ~ShutdownStop
  PROVE  [Runner!Next]_Seen
<1> USE PoolAssumption DEF BaseInv, TypeOK, BaseHandle
<1>1. jolted' = jolted
  BY JoltedForGood
<1>2. TaskStatus' \in [Task -> Runner!Statuses]
  BY DEF TaskStatus, Runner!Statuses
<1>3. \A h \in Handle : cur'[h] \in {cur[h], task[h], NoTask}
  <2>1. ASSUME NEW g \in Handle, RunTop(g) \/ FinishTask(g)
        PROVE  \A h \in Handle : cur'[h] \in {cur[h], task[h], NoTask}
    <3>1. \E v \in {task[g], NoTask} : cur' = [cur EXCEPT ![g] = v]
      BY <2>1 DEF RunTop, FinishTask
    <3>2. cur \in [Handle -> Task \cup {NoTask}]
      OBVIOUS
    <3> QED
      BY <3>1, <3>2
  <2>2. CASE UNCHANGED cur
    BY <2>2
  <2> QED
    BY <2>1, <2>2, WhoWrites
<1>6. \A h \in Handle : cur'[h] \in {cur[h], NoTask} \/ cur'[h] \notin deleted
  <2>1. ASSUME NEW g \in Handle, RunTop(g)
        PROVE  task[g] \notin deleted
    BY <2>1 DEF RunTop
  <2>2. ASSUME NEW g \in Handle, RunTop(g)
        PROVE  \A h \in Handle :
                 cur'[h] \in {cur[h], NoTask} \/ cur'[h] \notin deleted
    BY <2>1, <2>2 DEF RunTop
  <2>3. ASSUME NEW g \in Handle, FinishTask(g)
        PROVE  \A h \in Handle : cur'[h] \in {cur[h], NoTask}
    BY <2>3 DEF FinishTask
  <2>4. CASE UNCHANGED cur
    BY <2>4
  <2> QED
    BY <2>2, <2>3, <2>4, WhoWrites
<1>4. deleted \subseteq deleted'
  BY WhoWrites DEF ExecuteRejected, FinishTask
<1>5. ASSUME NEW t \in Task, TaskStatus[t] = "deleted"
      PROVE  TaskStatus'[t] = "deleted"
  <2>1. t \in deleted /\ \A h \in Handle : cur[h] # t
    BY <1>5 DEF TaskStatus
  <2>2. \A h \in Handle : cur'[h] # t
    BY <1>6, <2>1
  <2> QED
    BY <1>4, <2>1, <2>2 DEF TaskStatus
<1>7. UNCHANGED Alive
  <2>1. sd' # "crashed"
    BY StillAlive
  <2> QED
    BY <2>1 DEF Alive
<1> QED
  BY <1>1, <1>2, <1>5, <1>7 DEF Runner!Next, Runner!Muddle, Alive

THEOREM Refinement == Spec => ImplementsTaskRunner
<1> DEFINE Inv == BaseInv /\ (jolted \/ IInv)
<1>1. Init => Runner!Init
  BY PoolAssumption DEF Init, Runner!Init, TaskStatus
<1>2. ASSUME Inv, [Next]_vars PROVE [Runner!Next]_Seen
  <2>a. CASE UNCHANGED vars
    BY <2>a, SeenSame DEF vars, threadVars, setVars, taskVars, sdVars, wakeVars
  <2>b. CASE ShutdownStop /\ Alive
    BY <1>2, <2>b, DieStep
  <2> SUFFICES ASSUME Next, Alive, ~ShutdownStop PROVE [Runner!Next]_Seen
    BY <1>2, <2>a, <2>b DEF Next, Alive
  <2>0. CASE jolted
    BY <1>2, <2>0, MuddleStep
  <2> SUFFICES ASSUME IInv PROVE [Runner!Next]_Seen
    BY <1>2, <2>0
  <2>1. ASSUME NEW t \in Task, Execute(t) PROVE [Runner!Next]_Seen
    BY <2>1, SubmitStep
  <2>2. ASSUME NEW h \in Handle, RunTop(h) PROVE [Runner!Next]_Seen
    BY <2>2, StartStep
  <2>3. ASSUME NEW h \in Handle, FinishTask(h) PROVE [Runner!Next]_Seen
    BY <2>3, FinishStep
  <2>4. \/ \E t \in Task : Execute(t)
        \/ \E h \in Handle : RunTop(h) \/ FinishTask(h)
        \/ UNCHANGED <<cur, submitted, deleted>>
           /\ sd' # "crashed"
           /\ (jolted' = jolted \/ jolted' = TRUE)
    <3>1. ASSUME NEW h \in Handle, ThreadStep(h), ~RunTop(h), ~FinishTask(h)
          PROVE  /\ UNCHANGED <<cur, submitted, deleted, sd>>
                 /\ jolted' = jolted \/ jolted' = TRUE
      BY <3>1
         DEF setVars, taskVars, sdVars, threadVars, wakeVars,
             ThreadStep, RunAgain, RunDone, ClearTask, Retire, RemoveThread,
             Suspend, SpuriousWake
    <3>2. ASSUME Shutdown
          PROVE  /\ UNCHANGED <<cur, submitted, deleted, jolted>>
                 /\ sd' # "crashed"
      BY <3>2
         DEF setVars, taskVars, sdVars, threadVars, wakeVars, Shutdown,
             ShutdownBegin, ShutdownMark, ShutdownPeek, ShutdownKillIdle,
             ShutdownDone
    <3>3. ASSUME InitPool PROVE UNCHANGED <<cur, submitted, deleted, jolted, sd>>
      BY <3>3 DEF InitPool, taskVars, sdVars, wakeVars
    <3> QED
      BY <3>1, <3>2, <3>3 DEF Next, Alive
  <2>5. CASE UNCHANGED <<cur, submitted, deleted>> /\ sd' # "crashed"
             /\ (jolted' = jolted \/ jolted' = TRUE)
    <3>1. UNCHANGED TaskStatus
      BY <2>5 DEF TaskStatus
    <3>2. UNCHANGED Alive
      BY <2>5 DEF Alive
    <3>3. CASE jolted' = jolted
      BY <3>1, <3>2, <3>3 DEF Seen
    <3>4. CASE jolted' = TRUE
      BY <3>1, <3>2, <3>4 DEF Runner!Next, Runner!Jolt, Alive
    <3> QED
      BY <2>5, <3>3, <3>4
  <2> QED
    BY <2>1, <2>2, <2>3, <2>4, <2>5
<1>3. Spec => []Inv
  BY Invariance, BaseInvariance, PTL
<1> HIDE DEF Inv
<1>4. Runner!Spec <=> Runner!Init /\ [][Runner!Next]_Seen
  BY DEF Runner!Spec, Seen, Alive
<1> QED
  BY <1>1, <1>2, <1>3, <1>4, PTL DEF Spec, ImplementsTaskRunner

(***************************************************************************)
(* What can keep shutdown() waiting.  A handle that has been visited is    *)
(* marked: its thread ends after its next task, unless it has read reuse   *)
(* before, was created since, or missed the signal.  A task not told yet   *)
(* is held by a handle that is still to be visited.                        *)
(***************************************************************************)
Visiting == {"scan", "peek", "stop"}

Marked(h) ==
  /\ reuse[h] => h \in late
  /\ pc[h] \in {"suspend", "wait"} \/ (pc[h] = "retire" /\ ~dying[h])
       => h \in late \cup missed

SleepInv(h) ==
  /\ h \in active /\ pc[h] \in {"suspend", "wait", "remove", "gone"}
       => h \in missed
  /\ sd \in Visiting /\ h \in active \ todo => Marked(h)
  /\ sd \in {"drain", "done"} /\ pc[h] \notin {"none", "gone"} => Marked(h)

SleepersInv == \A h \in Handle : SleepInv(h)

LEMMA SleepersStep ==
  ASSUME BaseInv, SleepersInv, [Next]_vars
  PROVE  SleepersInv'
<1> USE PoolAssumption
    DEF SleepersInv, SleepInv, Marked, Visiting, BaseInv, TypeOK, BaseHandle,
        VisitInv, ThreadPcs, ShutdownPcs, setVars, taskVars, sdVars,
        threadVars, wakeVars
<1>1. CASE InitPool
  BY <1>1 DEF InitPool
<1>2. ASSUME NEW t \in Task, ExecuteRejected(t) PROVE SleepersInv'
  BY <1>2 DEF ExecuteRejected, MaySubmit
<1>3. ASSUME NEW t \in Task, ExecuteReuse(t) PROVE SleepersInv'
  <2>1. PICK h \in idle :
          /\ Unlocked(h)
          /\ idle' = idle \ {h}
          /\ active' = active \cup {h}
          /\ resume({h})
    BY <1>3 DEF ExecuteReuse
  <2> QED
    BY <1>3, <2>1 DEF ExecuteReuse, MaySubmit, resume
<1>4. ASSUME NEW t \in Task, ExecuteCreate(t) PROVE SleepersInv'
  <2>1. PICK h \in Handle :
          /\ pc[h] = "none"
          /\ pc' = [pc EXCEPT ![h] = "top"]
          /\ active' = active \cup {h}
          /\ late' = IF sd = "drain" THEN late \cup {h} ELSE late
    BY <1>4 DEF ExecuteCreate
  <2>2. sd # "done" /\ sd \notin Visiting
    BY <1>4 DEF ExecuteCreate, MaySubmit, DoneInv
  <2> QED
    BY <1>4, <2>1, <2>2 DEF ExecuteCreate
<1>5. ASSUME NEW h \in Handle, RunTop(h) \/ RunAgain(h) \/ RunDone(h)
      PROVE  SleepersInv'
  BY <1>5 DEF RunTop, RunAgain, RunDone
<1>6. ASSUME NEW h \in Handle, FinishTask(h) PROVE SleepersInv'
  BY <1>6 DEF FinishTask
<1>16. ASSUME NEW h \in Handle, ClearTask(h) PROVE SleepersInv'
  <2>1. /\ pc[h] = "clear"
        /\ dying' = [dying EXCEPT ![h] = ~reuse[h]]
        /\ pc' = [pc EXCEPT ![h] = "retire"]
        /\ UNCHANGED <<reuse, active, sd, todo, late, missed>>
    BY <1>16 DEF ClearTask
  <2>2. ASSUME NEW g \in Handle PROVE SleepInv(g)'
    <3>1. CASE g = h
      BY <2>1, <3>1
    <3>2. CASE g # h
      BY <2>1, <3>2
    <3> QED
      BY <3>1, <3>2
  <2> QED
    BY <2>2
<1>7. ASSUME NEW h \in Handle, Retire(h) PROVE SleepersInv'
  BY <1>7 DEF Retire
<1>8. ASSUME NEW h \in Handle, RemoveThread(h) \/ Suspend(h)
      PROVE  SleepersInv'
  BY <1>8 DEF RemoveThread, Suspend
<1>9. ASSUME NEW h \in Handle, SpuriousWake(h) PROVE SleepersInv'
  BY <1>9 DEF SpuriousWake
<1>10. CASE ShutdownBegin
  BY <1>10 DEF ShutdownBegin
<1>11. CASE ShutdownMark
  BY <1>11 DEF ShutdownMark
<1>12. CASE ShutdownPeek \/ ShutdownStop
  BY <1>12 DEF ShutdownPeek, ShutdownStop, Told, Stray
<1>13. CASE ShutdownKillIdle
  BY <1>13 DEF ShutdownKillIdle, resume
<1>14. CASE ShutdownDone
  BY <1>14 DEF ShutdownDone
<1>15. CASE UNCHANGED vars
  BY <1>15 DEF vars
<1> QED
  BY <1>1, <1>2, <1>3, <1>4, <1>5, <1>6, <1>7, <1>8, <1>9, <1>10, <1>11,
     <1>12, <1>13, <1>14, <1>15, <1>16
     DEF Next, Execute, ThreadStep, Shutdown

Visited == IF sd \in {"peek", "stop"} THEN {sdAt.handle} ELSE {}

ToldInv ==
  /\ sd \in Visiting =>
       /\ before = submitted
       /\ \A t \in before \ (stopped \cup deleted) :
            \E h \in Handle : h \in todo \cup Visited /\ task[h] = t
  /\ sd \in {"drain", "done"} => before \subseteq stopped \cup deleted

LEMMA ToldStep ==
  ASSUME IInv, ToldInv, [Next]_vars, ~jolted'
  PROVE  ToldInv'
<1> USE PoolAssumption
    DEF ToldInv, Visited, Visiting, IInv, TypeOK, VisitInv, HandleInv,
        ShutdownPcs, setVars, taskVars, sdVars, threadVars, wakeVars
<1>1. CASE InitPool
  BY <1>1 DEF InitPool
<1>2. ASSUME NEW t \in Task, Execute(t) PROVE ToldInv'
  BY <1>2
     DEF Execute, ExecuteRejected, ExecuteReuse, ExecuteCreate, MaySubmit
<1>3. ASSUME NEW h \in Handle, ThreadStep(h), ~FinishTask(h), ~ClearTask(h)
      PROVE  ToldInv'
  <2>1. UNCHANGED <<task, sd, todo, sdAt, before, submitted, deleted, stopped>>
    BY <1>3
       DEF ThreadStep, RunTop, RunAgain, RunDone, Retire, RemoveThread,
           Suspend, SpuriousWake
  <2> QED
    BY <2>1
<1>4. ASSUME NEW h \in Handle, FinishTask(h) \/ ClearTask(h) PROVE ToldInv'
  BY <1>4 DEF FinishTask, ClearTask, Awake
<1>5. CASE ShutdownBegin
  BY <1>5 DEF ShutdownBegin, AcceptedIsHeld
<1>6. CASE ShutdownMark
  BY <1>6 DEF ShutdownMark
<1>7. CASE ShutdownPeek
  BY <1>7 DEF ShutdownPeek
<1>8. CASE ShutdownStop
  BY <1>8 DEF ShutdownStop, Told, Stray
<1>9. CASE ShutdownKillIdle
  BY <1>9 DEF ShutdownKillIdle
<1>10. CASE ShutdownDone
  BY <1>10 DEF ShutdownDone
<1>11. CASE UNCHANGED vars
  BY <1>11 DEF vars
<1> QED
  BY <1>1, <1>2, <1>3, <1>4, <1>5, <1>6, <1>7, <1>8, <1>9, <1>10, <1>11
     DEF Next, Shutdown

(***************************************************************************)
(* For any number of threads and tasks: shutdown() is kept waiting only by *)
(* a thread whose signal found it not waiting, by one that had read reuse  *)
(* before it was marked or was created after that, by a task that was told *)
(* to stop and goes on, and by tasks handed in since.                      *)
(***************************************************************************)
THEOREM HangsKnown == Spec => []HangsAreKnown
<1> DEFINE Calm == jolted \/ IInv
           Quiet == jolted \/ ToldInv
<1>1. Init => SleepersInv /\ Quiet
  BY DEF Init, SleepersInv, SleepInv, ToldInv, Visiting
<1>2. BaseInv /\ SleepersInv /\ [Next]_vars => SleepersInv'
  BY SleepersStep
<1>3. Calm /\ Quiet /\ [Next]_vars => Quiet'
  BY ToldStep, JoltedForGood
<1>4. BaseInv /\ SleepersInv /\ Quiet => HangsAreKnown
  <2>1. BaseInv => active \subseteq Handle /\ idle \subseteq Handle
    BY DEF BaseInv, TypeOK
  <2> QED
    BY <2>1
       DEF SleepersInv, SleepInv, Marked, ToldInv, HangsAreKnown,
           SleepsUnwoken, StaysIdle, KnownAreTold
<1>5. Spec => []Calm
  BY Invariance
<1> HIDE DEF Calm, Quiet
<1> QED
  BY <1>1, <1>2, <1>3, <1>4, <1>5, BaseInvariance, PTL DEF Spec

-----------------------------------------------------------------------------
(***************************************************************************)
(* The packet workers, the tasks that the sockets hand to the pool: for    *)
(* any number of packets and workers and for the workers of all three      *)
(* servers.                                                                *)
(***************************************************************************)

(* A worker that may have been stopped while it could still go without     *)
(* resetting _worker.                                                      *)
CanDangle == PoolStops /\ ~ClearsOnStop

Created ==
  /\ worker # NoWorker => workerPc[worker] # "new"
  /\ \A w \in Worker : workerPc[w] = "new" => running[w]

NotStopped == ~PoolStops => \A w \in Worker : W!Alive(w) => running[w]

WorkerInv ==
  /\ W!TypeOK
  /\ W!SerialHandling
  /\ Created
  /\ NotStopped
  /\ CanDangle \/ W!WorkerPointerValid

LEMMA WorkerConstants ==
  /\ NoWorker \notin Worker
  /\ MaxPackets \in Nat
  /\ ClearsOnStop \in BOOLEAN
  /\ PoolStops \in BOOLEAN
  BY Workers DEF W!WorkerAssumption

LEMMA WorkerInit == W!Init => WorkerInv
<1> SUFFICES ASSUME W!Init PROVE WorkerInv
  OBVIOUS
<1>1. overlooked \in BOOLEAN
  BY Zenon DEF W!Init
<1> QED
  BY <1>1, WorkerConstants
     DEF W!Init, WorkerInv, W!TypeOK, W!SerialHandling, Created, NotStopped,
         W!WorkerPointerValid, W!Alive, W!Steps, W!NoPacket, W!Packet

(* The queue and the list of handled packets stay sequences of packets.    *)
LEMMA QueueFacts ==
  ASSUME NEW S, NEW q \in Seq(S)
  PROVE  /\ \A e \in S : Append(q, e) \in Seq(S)
         /\ q # <<>> => Head(q) \in S /\ Tail(q) \in Seq(S)
OBVIOUS

LEMMA WorkerTypeStep ==
  ASSUME W!TypeOK, [W!Next]_W!vars
  PROVE  W!TypeOK'
<1> USE WorkerConstants DEF W!TypeOK, W!Packet, W!NoPacket, W!Steps, W!Go
<1>1. CASE W!Push
  <2>1. received + 1 \in W!Packet
    BY <1>1 DEF W!Push
  <2> QED
    BY <1>1, <2>1, QueueFacts DEF W!Push
<1>2. CASE W!StartWorker
  BY <1>2 DEF W!StartWorker
<1>3. ASSUME NEW w \in Worker, W!RunBegin(w) PROVE W!TypeOK'
  BY <1>3 DEF W!RunBegin, W!epollVars
<1>4. ASSUME NEW w \in Worker, W!RunOwn(w) PROVE W!TypeOK'
  BY <1>4 DEF W!RunOwn, W!epollVars
<1>5. ASSUME NEW w \in Worker, W!Pop(w) PROVE W!TypeOK'
  <2>1. CASE packets = <<>>
    BY <1>5, <2>1 DEF W!Pop
  <2>2. CASE packets # <<>>
    <3>1. Head(packets) \in W!Packet /\ Tail(packets) \in Seq(W!Packet)
      BY <2>2, QueueFacts
    <3>2. /\ workerPc[w] = "pop" /\ workerPc' = [workerPc EXCEPT ![w] = "popped"]
          /\ hand' = [hand EXCEPT ![w] = Head(packets)]
          /\ packets' = Tail(packets)
          /\ UNCHANGED <<received, epoll, socket, worker, running, overlooked,
                         handled>>
      BY <1>5, <2>2 DEF W!Pop
    <3> HIDE DEF W!Packet
    <3>3. packets' \in Seq(W!Packet) /\ hand' \in [Worker -> W!Packet \cup {0}]
          /\ workerPc' \in [Worker -> W!Steps \cup {"new", "deleted"}]
      BY <3>1, <3>2
    <3>4. Head(packets) # 0
      BY <3>1 DEF W!Packet
    <3>5. \A v \in Worker : hand'[v] # 0 <=> workerPc'[v] \in {"popped", "handle"}
      BY <3>2, <3>4
    <3> QED
      BY <3>2, <3>3, <3>5
  <2> QED
    BY <2>1, <2>2
<1>6. ASSUME NEW w \in Worker, W!Recheck(w) PROVE W!TypeOK'
  BY <1>6 DEF W!Recheck, W!epollVars
<1>7. ASSUME NEW w \in Worker, W!Handle(w) PROVE W!TypeOK'
  <2>1. hand[w] \in W!Packet
    BY <1>7 DEF W!Handle
  <2> QED
    BY <1>7, <2>1, QueueFacts DEF W!Handle, W!epollVars
<1>8. ASSUME NEW w \in Worker, W!Clear(w) PROVE W!TypeOK'
  BY <1>8 DEF W!Clear, W!epollVars
<1>9. ASSUME NEW w \in Worker, W!StopWorker(w) PROVE W!TypeOK'
  BY <1>9 DEF W!StopWorker, W!epollVars
<1>10. CASE W!Close
  BY <1>10 DEF W!Close
<1>11. CASE W!Destroy
  <2>1. running' \in [Worker -> BOOLEAN]
    BY <1>11 DEF W!Destroy
  <2> QED
    BY <1>11, <2>1 DEF W!Destroy
<1>12. CASE UNCHANGED W!vars
  BY <1>12 DEF W!vars, W!epollVars
<1> QED
  BY <1>1, <1>2, <1>3, <1>4, <1>5, <1>6, <1>7, <1>8, <1>9, <1>10, <1>11,
     <1>12 DEF W!Next, W!Run

LEMMA WorkerNext ==
  ASSUME WorkerInv, [W!Next]_W!vars
  PROVE  WorkerInv'
<1>0. W!TypeOK'
  BY WorkerTypeStep DEF WorkerInv
<1> USE WorkerConstants
    DEF WorkerInv, W!SerialHandling, Created, NotStopped, W!WorkerPointerValid,
        CanDangle, W!Alive, W!Steps, W!Go
<1>1. CASE W!Push \/ W!Close
  BY <1>0, <1>1 DEF W!Push, W!Close, W!TypeOK
<1>2. CASE W!StartWorker
  <2>1. CASE worker # NoWorker
    BY <1>0, <1>2, <2>1 DEF W!StartWorker, W!TypeOK
  <2>2. CASE worker = NoWorker
    <3>1. PICK w \in Worker : worker' = w /\ W!Go(w, "new", "run")
      BY <1>2, <2>2 DEF W!StartWorker
    <3> QED
      BY <1>0, <1>2, <2>2, <3>1 DEF W!StartWorker, W!TypeOK
  <2> QED
    BY <2>1, <2>2
<1>3. ASSUME NEW w \in Worker, W!RunBegin(w) PROVE WorkerInv'
  BY <1>0, <1>3 DEF W!RunBegin, W!epollVars, W!TypeOK
<1>4. ASSUME NEW w \in Worker, W!RunOwn(w) PROVE WorkerInv'
  BY <1>0, <1>4 DEF W!RunOwn, W!epollVars, W!TypeOK
<1>5. ASSUME NEW w \in Worker, W!Pop(w) PROVE WorkerInv'
  BY <1>0, <1>5 DEF W!Pop, W!TypeOK
<1>6. ASSUME NEW w \in Worker, W!Recheck(w) PROVE WorkerInv'
  BY <1>0, <1>6 DEF W!Recheck, W!epollVars, W!TypeOK
<1>7. ASSUME NEW w \in Worker, W!Handle(w) PROVE WorkerInv'
  BY <1>0, <1>7 DEF W!Handle, W!epollVars, W!TypeOK
<1>8. ASSUME NEW w \in Worker, W!Clear(w) PROVE WorkerInv'
  BY <1>0, <1>8 DEF W!Clear, W!epollVars, W!TypeOK
<1>9. ASSUME NEW w \in Worker, W!StopWorker(w) PROVE WorkerInv'
  BY <1>0, <1>9 DEF W!StopWorker, W!epollVars, W!TypeOK
<1>11. CASE W!Destroy
  BY <1>0, <1>11 DEF W!Destroy, W!TypeOK
<1>12. CASE UNCHANGED W!vars
  BY <1>0, <1>12 DEF W!vars, W!epollVars
<1> QED
  BY <1>1, <1>2, <1>3, <1>4, <1>5, <1>6, <1>7, <1>8, <1>9, <1>11, <1>12
     DEF W!Next, W!Run

(* A packet left in the queue was overlooked.                              *)
LEMMA StrandedStep ==
  ASSUME WorkerInv, W!StrandedIsKnown, [W!Next]_W!vars
  PROVE  W!StrandedIsKnown'
<1> USE WorkerConstants
    DEF WorkerInv, W!TypeOK, W!SerialHandling, W!StrandedIsKnown, W!WillLook,
        W!Stopping, W!Alive, W!Steps, W!Go
<1>1. CASE W!Push
  BY <1>1 DEF W!Push
<1>2. CASE W!StartWorker
  <2>1. CASE worker # NoWorker
    <3>1. worker \in Worker /\ workerPc[worker] # "new"
      BY <2>1 DEF Created
    <3>2. /\ UNCHANGED <<packets, workerPc, running>>
          /\ workerPc[worker] \in {"clear", "deleted"} => overlooked'
      BY <1>2, <2>1 DEF W!StartWorker
    <3>3. CASE workerPc[worker] \in {"clear", "deleted"}
      BY <3>2, <3>3
    <3>4. CASE workerPc[worker] \notin {"clear", "deleted"}
      BY <3>1, <3>2, <3>4
    <3> QED
      BY <3>3, <3>4
  <2>2. CASE worker = NoWorker
    <3>1. PICK w \in Worker : worker' = w /\ W!Go(w, "new", "run")
      BY <1>2, <2>2 DEF W!StartWorker
    <3> QED
      BY <3>1
  <2> QED
    BY <2>1, <2>2
<1>3. ASSUME NEW w \in Worker, W!RunBegin(w) PROVE W!StrandedIsKnown'
  BY <1>3 DEF W!RunBegin, W!epollVars
<1>4. ASSUME NEW w \in Worker, W!RunOwn(w) PROVE W!StrandedIsKnown'
  BY <1>4 DEF W!RunOwn, W!epollVars
<1>5. ASSUME NEW w \in Worker, W!Pop(w) PROVE W!StrandedIsKnown'
  <2>1. CASE packets = <<>>
    BY <1>5, <2>1 DEF W!Pop
  <2>2. CASE packets # <<>>
    <3>1. workerPc'[w] = "popped"
      BY <1>5, <2>2 DEF W!Pop
    <3> QED
      BY <3>1
  <2> QED
    BY <2>1, <2>2
<1>6. ASSUME NEW w \in Worker, W!Recheck(w) PROVE W!StrandedIsKnown'
  BY <1>6 DEF W!Recheck, W!epollVars
<1>7. ASSUME NEW w \in Worker, W!Handle(w) PROVE W!StrandedIsKnown'
  BY <1>7 DEF W!Handle, W!epollVars
<1>8. ASSUME NEW w \in Worker, W!Clear(w) PROVE W!StrandedIsKnown'
  BY <1>8 DEF W!Clear, W!epollVars
<1>9. ASSUME NEW w \in Worker, W!StopWorker(w) PROVE W!StrandedIsKnown'
  BY <1>9 DEF W!StopWorker
<1>10. CASE W!Close
  BY <1>10 DEF W!Close
<1>11. CASE W!Destroy
  BY <1>11 DEF W!Destroy
<1>12. CASE UNCHANGED W!vars
  BY <1>12 DEF W!vars, W!epollVars
<1> QED
  BY <1>1, <1>2, <1>3, <1>4, <1>5, <1>6, <1>7, <1>8, <1>9, <1>10, <1>11,
     <1>12 DEF W!Next, W!Run

THEOREM WorkerInvariance == W!Spec => []WorkerInv
<1>1. WorkerInv /\ [W!Next]_W!vars => WorkerInv'
  BY WorkerNext
<1> QED
  BY <1>1, WorkerInit, PTL DEF W!Spec

(* Every variable keeps its type, and a worker has a packet in hand        *)
(* exactly between try_pop() and the end of on_handle().                   *)
THEOREM WorkersTyped == W!Spec => []W!TypeOK
  BY WorkerInvariance, PTL DEF WorkerInv

(* One worker per socket, in all three servers, with or without a shutdown *)
(* of the pool.                                                            *)
THEOREM HandlersAreSerial == W!Spec => []SerialHandling
  BY WorkerInvariance, PTL DEF WorkerInv, SerialHandling

(* A packet waits for nobody only after start_worker() has taken a worker  *)
(* on its way out for one that would look, or a worker was stopped.        *)
THEOREM StrandedKnown == W!Spec => []StrandedIsKnown
<1>1. W!Init => W!StrandedIsKnown
  BY DEF W!Init, W!StrandedIsKnown
<1>2. WorkerInv /\ W!StrandedIsKnown /\ [W!Next]_W!vars => W!StrandedIsKnown'
  BY StrandedStep
<1> QED
  BY <1>1, <1>2, WorkerInvariance, PTL DEF W!Spec, StrandedIsKnown

(* _worker never dangles where a stopped worker resets it (realm and world *)
(* server), or where no worker is stopped.                                 *)
THEOREM NoDanglingWorker ==
  ASSUME ~PoolStops \/ ClearsOnStop
  PROVE  W!Spec => []W!WorkerPointerValid
<1>1. WorkerInv => W!WorkerPointerValid
  BY DEF WorkerInv, CanDangle
<1> QED
  BY <1>1, WorkerInvariance, PTL

(***************************************************************************)
(* Refinement: the packet in hand is that of the one worker there is.      *)
(***************************************************************************)
HandOf(h) ==
  IF \E w \in Worker : h[w] # W!NoPacket
  THEN h[CHOOSE w \in Worker : h[w] # W!NoPacket]
  ELSE W!NoPacket

OnlyHand(h, w) == \A v \in Worker : v # w => h[v] = W!NoPacket

LEMMA OneHand ==
  ASSUME NEW h, NEW w \in Worker, OnlyHand(h, w)
  PROVE  HandOf(h) = h[w]
<1>1. CASE h[w] = W!NoPacket
  BY <1>1 DEF HandOf, OnlyHand
<1>2. CASE h[w] # W!NoPacket
  <2>1. (CHOOSE v \in Worker : h[v] # W!NoPacket) = w
    BY <1>2 DEF OnlyHand
  <2> QED
    BY <1>2, <2>1 DEF HandOf
<1> QED
  BY <1>1, <1>2

(* A step of the only live worker: what it does to the packet in hand.     *)
LEMMA HandStep ==
  ASSUME WorkerInv, NEW w \in Worker, W!Alive(w), NEW x,
         hand' = [hand EXCEPT ![w] = x]
  PROVE  W!InHand = hand[w] /\ W!InHand' = x
<1>1. OnlyHand(hand, w)
  BY DEF WorkerInv, W!TypeOK, W!SerialHandling, OnlyHand, W!Alive, W!Steps
<1> DEFINE h == hand'
<1>2. OnlyHand(h, w) /\ h[w] = x
  BY <1>1 DEF WorkerInv, W!TypeOK, OnlyHand
<1> HIDE DEF h
<1>3. HandOf(hand) = hand[w] /\ HandOf(h) = x
  BY <1>1, <1>2, OneHand
<1> QED
  BY <1>3 DEF h, W!InHand, HandOf

LEMMA RunRefines ==
  ASSUME WorkerInv, NEW w \in Worker, W!Run(w)
  PROVE  [W!Service!Next]_(W!Service!vars)
<1> USE DEF W!Service!vars, W!Go
<1>1. CASE W!RunBegin(w) \/ W!RunOwn(w) \/ W!Clear(w)
  BY <1>1 DEF W!RunBegin, W!RunOwn, W!Clear, W!epollVars, W!InHand, W!Stopping
<1>2. CASE W!Pop(w)
  <2>1. W!Alive(w) /\ hand[w] = W!NoPacket
    BY <1>2 DEF W!Pop, W!Alive, W!Steps, WorkerInv, W!TypeOK
  <2>2. CASE packets = <<>>
    BY <1>2, <2>2 DEF W!Pop, W!InHand, W!Stopping
  <2>3. CASE packets # <<>>
    <3>1. hand' = [hand EXCEPT ![w] = Head(packets)]
          /\ packets' = Tail(packets)
          /\ UNCHANGED <<handled, running>>
      BY <1>2, <2>3 DEF W!Pop
    <3>2. W!InHand = W!NoPacket /\ W!InHand' = Head(packets)
      BY <2>1, <3>1, HandStep
    <3> QED
      BY <2>3, <3>1, <3>2 DEF W!Service!Next, W!Service!Take, W!Stopping
  <2> QED
    BY <2>2, <2>3
<1>3. CASE W!Recheck(w)
  <2>1. W!Alive(w) /\ UNCHANGED <<packets, handled, running>>
    BY <1>3 DEF W!Recheck, W!Alive, W!Steps, W!epollVars
  <2>2. CASE running[w]
    <3>1. hand' = hand
      BY <1>3, <2>2 DEF W!Recheck, WorkerInv, W!TypeOK
    <3> QED
      BY <2>1, <3>1 DEF W!InHand, W!Stopping
  <2>3. CASE ~running[w]
    <3>1. hand' = [hand EXCEPT ![w] = W!NoPacket]
      BY <1>3, <2>3 DEF W!Recheck
    <3>2. W!InHand' = W!NoPacket
      BY <2>1, <3>1, HandStep
    <3> QED
      BY <2>1, <2>3, <3>2 DEF W!Service!Next, W!Service!Drop, W!Stopping
  <2> QED
    BY <2>2, <2>3
<1>4. CASE W!Handle(w)
  <2>1. /\ W!Alive(w) /\ hand[w] # W!NoPacket
        /\ hand' = [hand EXCEPT ![w] = W!NoPacket]
        /\ handled' = Append(handled, hand[w])
        /\ UNCHANGED <<packets, running>>
    BY <1>4 DEF W!Handle, W!Alive, W!Steps, WorkerInv, W!TypeOK, W!epollVars
  <2>2. W!InHand = hand[w] /\ W!InHand' = W!NoPacket
    BY <2>1, HandStep
  <2> QED
    BY <2>1, <2>2 DEF W!Service!Next, W!Service!Serve, W!Stopping
<1> QED
  BY <1>1, <1>2, <1>3, <1>4 DEF W!Run

(***************************************************************************)
(* For any number of packets, workers and shutdowns: the packets of a      *)
(* socket are handled one at a time and in their order, and none is left   *)
(* out before a later one unless a worker was stopped.                     *)
(***************************************************************************)
THEOREM PacketsServed == W!Spec => ImplementsPacketService
<1>1. W!Init => W!Service!Init
  BY DEF W!Init, W!Service!Init, W!InHand, W!Stopping
<1>2. ASSUME WorkerInv, [W!Next]_W!vars PROVE [W!Service!Next]_(W!Service!vars)
  <2> USE DEF W!Service!vars
  <2>1. CASE W!Push
    <3>1. received + 1 \in W!Packet
      BY <1>2, <2>1, WorkerConstants DEF W!Push, WorkerInv, W!TypeOK, W!Packet
    <3> QED
      BY <2>1, <3>1
         DEF W!Push, W!Service!Next, W!Service!Arrive, W!InHand, W!Stopping
  <2>2. CASE W!StartWorker \/ W!Close
    BY <2>2 DEF W!StartWorker, W!Close, W!InHand, W!Stopping
  <2>3. ASSUME NEW w \in Worker, W!StopWorker(w)
        PROVE  [W!Service!Next]_(W!Service!vars)
    <3>1. running'[w] = FALSE
      BY <1>2, <2>3 DEF W!StopWorker, WorkerInv, W!TypeOK
    <3>2. W!Stopping'
      BY <3>1 DEF W!Stopping
    <3> QED
      BY <2>3, <3>2
         DEF W!StopWorker, W!epollVars, W!InHand, W!Service!Next, W!Service!Stop
  <2>4. CASE W!Destroy
    <3>1. UNCHANGED <<packets, W!InHand, handled>>
      BY <2>4 DEF W!Destroy, W!InHand
    <3>2. W!Stopping => W!Stopping'
      BY <2>4 DEF W!Destroy, W!Stopping
    <3>3. W!Stopping \in BOOLEAN /\ W!Stopping' \in BOOLEAN
      BY DEF W!Stopping
    <3> QED
      BY <3>1, <3>2, <3>3 DEF W!Service!Next, W!Service!Stop
  <2>5. CASE UNCHANGED W!vars
    BY <2>5 DEF W!vars, W!epollVars, W!InHand, W!Stopping
  <2> QED
    BY <1>2, <2>1, <2>2, <2>3, <2>4, <2>5, RunRefines DEF W!Next
<1> QED
  BY <1>1, <1>2, WorkerInvariance, PTL
     DEF W!Spec, ImplementsPacketService, W!ImplementsPacketService,
         W!Service!Spec
=============================================================================
