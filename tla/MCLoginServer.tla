--------------------------- MODULE MCLoginServer ----------------------------
(* A small instance of LoginServer: one account is there, a second one is  *)
(* created, perhaps twice at a time or twice in turn.                      *)
EXTENDS LoginServer

Named(n, suffix, pass) ==
  [name |-> n, bar |-> FALSE, suffix |-> suffix, pass |-> pass]

MCRequest ==
  {Named("ann", "none", "key"), Named("ann", "none", "wrong"),
   Named("bob", "F", "key"), Named("bob", "M", "key")}

MCSeeded == <<[name |-> "ann", bar |-> FALSE, pass |-> "key"]>>

(* Steps of realm servers and steps of logins commute but for the list a   *)
(* login takes: realms come and go during the first login here, and the    *)
(* ones that overlap are handled while none is connected.                  *)
Apart == logins <= 1 \/ \A r \in Realm : life[r] = "off"

CheckedSpec == Init /\ [][Next /\ Apart']_vars
=============================================================================
