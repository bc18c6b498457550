---------------------------- MODULE MCScheduler ----------------------------
(***************************************************************************)
(* Two tasks, so that one may be changed while the other is claimed; each  *)
(* becomes due twice.                                                      *)
(***************************************************************************)
EXTENDS Scheduler, TLC
==============================================================================
