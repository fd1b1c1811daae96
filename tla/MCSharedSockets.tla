-------------------------- MODULE MCSharedSockets ---------------------------
(***************************************************************************)
(* Two connections and two descriptors, of which the second is already too *)
(* high for _fds: the one that is opened while the other is being closed   *)
(* is given its number or is refused.  The worker of either may close it.  *)
(***************************************************************************)
EXTENDS SharedSockets
=============================================================================
