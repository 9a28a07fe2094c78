---------------------------- MODULE MCScheduler ----------------------------
(* Small instances of Scheduler for TLC; the values are in the .cfg files. *)
EXTENDS Scheduler
=============================================================================
