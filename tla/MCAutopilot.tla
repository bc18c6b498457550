---------------------------- MODULE MCAutopilot ----------------------------
(***************************************************************************)
(* A run of three turns (two, once it is resumed) that may be steered      *)
(* once, while its first loop is still at work or after it ended; a budget *)
(* that one paid turn exhausts; one stop of the process.  The run about    *)
(* cancelling needs one loop of two turns only.                            *)
(***************************************************************************)
EXTENDS Autopilot, TLC
==============================================================================
