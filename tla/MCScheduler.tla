---------------------------- MODULE MCScheduler ----------------------------
(***************************************************************************)
(* Instances of Scheduler for TLC: two tasks, one with a range that wraps  *)
(* around, so that each refuses an event the other takes.                  *)
(***************************************************************************)
EXTENDS Scheduler

MCCfg == {[fn |-> "A", first |-> 1, last |-> 3], [fn |-> "B", first |-> 3, last |-> 2]}
=============================================================================
