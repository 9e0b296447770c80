---------------------------- MODULE MCScheduler ----------------------------
(***************************************************************************)
(* Instance of Scheduler; the configurations give every constant a value.  *)
(***************************************************************************)
EXTENDS Scheduler
============================================================================
