---------------------------- MODULE StatementLog ----------------------------
(***************************************************************************)
(* What the servers count on when they hand an INSERT or UPDATE to the     *)
(* database manager and go on: the statements are put to the database one  *)
(* after the other, in the order in which they were accepted, none twice,  *)
(* and none is left out before the server is told to quit.  They may not   *)
(* count on more: the database may refuse a statement, and the next ones   *)
(* follow as if nothing had happened.                                      *)
(***************************************************************************)
EXTENDS Sequences

CONSTANTS
  Statement,  (* the statements that can be accepted *)
  Nothing     (* no statement is being sent          *)

VARIABLES
  waiting,    (* accepted and not yet sent           *)
  sending,    (* on its way to the database          *)
  sent,       (* what was put to the database, and   *)
              (* whether it was executed             *)
  quitting    (* has the server begun to quit?       *)

vars == <<waiting, sending, sent, quitting>>

Init == waiting = <<>> /\ sending = Nothing /\ sent = <<>> /\ quitting = FALSE

Accept(s) ==
  /\ waiting' = Append(waiting, s)
  /\ UNCHANGED <<sending, sent, quitting>>

Begin ==
  /\ waiting # <<>> /\ sending = Nothing
  /\ sending' = Head(waiting)
  /\ waiting' = Tail(waiting)
  /\ UNCHANGED <<sent, quitting>>

Send ==
  /\ sending # Nothing
  /\ \E executed \in BOOLEAN :
       sent' = Append(sent, [statement |-> sending, executed |-> executed])
  /\ sending' = Nothing
  /\ UNCHANGED <<waiting, quitting>>

Quit == quitting' = TRUE /\ UNCHANGED <<waiting, sending, sent>>

(* What is still waiting, or on its way, is given up. *)
GiveUp ==
  /\ quitting
  /\ waiting' \in {waiting, <<>>}
  /\ sending' \in {sending, Nothing}
  /\ UNCHANGED <<sent, quitting>>

Next ==
  \/ \E s \in Statement : Accept(s)
  \/ Begin \/ Send \/ Quit \/ GiveUp

Spec == Init /\ [][Next]_vars
=============================================================================
