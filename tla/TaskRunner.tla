----------------------------- MODULE TaskRunner -----------------------------
(***************************************************************************)
(* What the thread pool promises to the code that hands it tasks           *)
(* (threadbase.h, threadpool.h): a task is executed by one thread at a     *)
(* time, its run() is repeated until it returns true, and the object is    *)
(* deleted once, after that, never to be touched again.  A task handed in  *)
(* while the pool is not initialized is deleted without having run.  Once  *)
(* a thread has been woken by nobody tasks are abandoned while they run    *)
(* and deleted unrun, but none is started after it was deleted.  A task    *)
(* that is told to stop in the moment of its deletion may take the process *)
(* with it: without a deleted task the pool does not die.                  *)
(***************************************************************************)
CONSTANT Task

VARIABLES
  status,   (* where each task is in its life     *)
  alive,    (* has the process not crashed?       *)
  jolted    (* has a thread been woken by nobody? *)

Statuses == {"new", "accepted", "running", "deleted"}

Init == status = [t \in Task |-> "new"] /\ alive = TRUE /\ jolted = FALSE

Move(t, from, to) ==
  /\ status[t] = from
  /\ status' = [status EXCEPT ![t] = to]
  /\ UNCHANGED <<alive, jolted>>

Accept(t) == Move(t, "new", "accepted")

Reject(t) == Move(t, "new", "deleted")

Start(t) == Move(t, "accepted", "running")

Finish(t) == Move(t, "running", "deleted")

Jolt == jolted' = TRUE /\ UNCHANGED <<status, alive>>

Die ==
  /\ \E t \in Task : status[t] = "deleted"
  /\ alive' = FALSE
  /\ UNCHANGED <<status, jolted>>

Muddle ==
  /\ jolted /\ UNCHANGED <<alive, jolted>>
  /\ status' \in [Task -> Statuses]
  /\ \A t \in Task : status[t] = "deleted" => status'[t] = "deleted"

Next ==
  /\ alive
  /\ \/ \E t \in Task : Accept(t) \/ Reject(t) \/ Start(t) \/ Finish(t)
     \/ Jolt \/ Muddle \/ Die

Spec == Init /\ [][Next]_<<status, alive, jolted>>
=============================================================================
