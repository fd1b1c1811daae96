--------------------------- MODULE ConnectionLife ---------------------------
(***************************************************************************)
(* The life of a connection as the servers count on it: it is opened once, *)
(* its descriptor is closed once, and its object is deleted once, after    *)
(* that; only a server that stops may delete an object with its connection *)
(* still open.                                                             *)
(***************************************************************************)
CONSTANT Sock

VARIABLES
  status,     (* where each connection is in its life *)
  stopping    (* is the server about to quit?         *)

Statuses == {"none", "open", "closed", "deleted"}

Init == status = [s \in Sock |-> "none"] /\ stopping = FALSE

Move(s, from, to) ==
  /\ status[s] = from
  /\ status' = [status EXCEPT ![s] = to]

Step(s) ==
  /\ \/ Move(s, "none", "open")
     \/ Move(s, "open", "closed")
     \/ Move(s, "closed", "deleted")
     \/ stopping /\ Move(s, "open", "deleted")
  /\ UNCHANGED stopping

Stop == stopping' = TRUE /\ UNCHANGED status

Next == Stop \/ \E s \in Sock : Step(s)

Spec == Init /\ [][Next]_<<status, stopping>>
=============================================================================
