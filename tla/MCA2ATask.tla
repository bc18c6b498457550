----------------------------- MODULE MCA2ATask -----------------------------
(***************************************************************************)
(* Two resumers and one canceller beside the runner: enough for two of them *)
(* to work on the task while the third settles it.                         *)
(***************************************************************************)
EXTENDS A2ATask, TLC
==============================================================================
