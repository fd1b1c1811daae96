--------------------------- MODULE PacketService ----------------------------
(***************************************************************************)
(* What a handler on_handle() may assume about the packets of its socket:  *)
(* they are handled one at a time, in the order in which they arrived,     *)
(* none twice and none left out, unless the server is stopping.            *)
(***************************************************************************)
EXTENDS Sequences

CONSTANTS
  Packet,     (* the packets that can arrive    *)
  Nothing     (* no packet is being handled     *)

VARIABLES
  pending,    (* packets that have arrived                      *)
  current,    (* the packet in the hands of the handler         *)
  served,     (* packets that were handled                      *)
  stopping    (* is the server shutting its workers down?       *)

vars == <<pending, current, served, stopping>>

Init == pending = <<>> /\ current = Nothing /\ served = <<>> /\ stopping = FALSE

Arrive(p) ==
  /\ pending' = Append(pending, p)
  /\ UNCHANGED <<current, served, stopping>>

Take ==
  /\ pending # <<>> /\ current = Nothing
  /\ current' = Head(pending)
  /\ pending' = Tail(pending)
  /\ UNCHANGED <<served, stopping>>

Serve ==
  /\ current # Nothing
  /\ served' = Append(served, current)
  /\ current' = Nothing
  /\ UNCHANGED <<pending, stopping>>

Stop == stopping' = TRUE /\ UNCHANGED <<pending, current, served>>

Drop ==
  /\ stopping
  /\ current' = Nothing
  /\ UNCHANGED <<pending, served, stopping>>

Next == (\E p \in Packet : Arrive(p)) \/ Take \/ Serve \/ Stop \/ Drop

Spec == Init /\ [][Next]_vars
=============================================================================
