----------------------------- MODULE MCTaskQueue -----------------------------
(* TLC instances of TaskQueue; the cfg files choose who calls what. *)
EXTENDS TaskQueue
==============================================================================
