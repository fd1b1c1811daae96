---------------------------- MODULE MCCharacters ----------------------------
(* Small instances of Characters: two connections, two accounts. *)
EXTENDS Characters
=============================================================================
