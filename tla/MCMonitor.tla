------------------------------ MODULE MCMonitor ------------------------------
(***************************************************************************)
(* Two namespaces.  Three changes let a namespace leave, come again and    *)
(* leave; with one lost watch and one failure.                             *)
(***************************************************************************)
EXTENDS Monitor
==============================================================================
