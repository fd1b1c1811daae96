---------------------------- MODULE MCServerLife ----------------------------
(* Small instances of ServerLife: a worker of the database for every       *)
(* statement, one connection more than packet workers.                     *)
EXTENDS ServerLife
=============================================================================
