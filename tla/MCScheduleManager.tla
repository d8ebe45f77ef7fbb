-------------------------- MODULE MCScheduleManager --------------------------
(***************************************************************************)
(* Two bindings that share a crontab, and one with a crontab of its own.   *)
(***************************************************************************)
EXTENDS ScheduleManager

ThreeIds == {"x", "y", "z"}
TwoCrontabs == [x |-> "hourly", y |-> "hourly", z |-> "daily"]
==============================================================================
