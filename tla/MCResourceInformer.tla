-------------------------- MODULE MCResourceInformer --------------------------
(***************************************************************************)
(* Two objects with four values: two that the filter cannot tell apart,    *)
(* one that differs, and one that it fails on.                             *)
(***************************************************************************)
EXTENDS ResourceInformer

FourValues == {"x1", "x2", "y", "bad"}
FilterResult == [x1 |-> "x", x2 |-> "x", y |-> "y", bad |-> "bad"]
==============================================================================
