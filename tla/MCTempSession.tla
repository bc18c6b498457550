----------------------------- MODULE MCTempSession ----------------------------
(***************************************************************************)
(* Two writers of a temporary session, for the run that shows what a       *)
(* refused upload does to its messages.  MCTurn checks the properties that *)
(* hold.                                                                   *)
(***************************************************************************)
EXTENDS TempSession, TLC

Symmetry == Permutations(Writers)
==============================================================================
