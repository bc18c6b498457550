------------------------------ MODULE MCWorkflow -----------------------------
(***************************************************************************)
(* The two ways in which a message is answered (Chat): a workflow of two   *)
(* steps, with three messages or resumes in any mixture, the last of which *)
(* is a resume; or a turn of an agent with two tools, and at most two      *)
(* updates of the framework beside their results. Beside them, the search  *)
(* for a cycle in every definition of four steps.                          *)
(***************************************************************************)
EXTENDS Chat, WorkflowValidation, TLC

Symmetry == Permutations(Topologies)
==============================================================================
