----------------------------- MODULE MCUpdater ------------------------------
(* Two spawners on a server with two maps, of every kind: one Npc and two, *)
(* on a map of this server and of another, a door and an unreadable file.  *)
(* An int has three bits: the clock starts anywhere and wraps around.      *)
EXTENDS Updater

CONSTANTS m1, m2

MCFile ==
  {[type |-> "npc", count |-> 1, map |-> m2],
   [type |-> "npc", count |-> 2, map |-> m1],
   [type |-> "npc", count |-> 2, map |-> Elsewhere],
   [type |-> "door", count |-> 1, map |-> m1],
   [type |-> "bad", count |-> 0, map |-> Elsewhere]}
=============================================================================
