---------------------------- MODULE MCThreadPool ----------------------------
(* Small instances of ThreadPool: model values for handles and tasks.      *)
EXTENDS ThreadPool
=============================================================================
