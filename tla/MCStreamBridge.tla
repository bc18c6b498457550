--------------------------- MODULE MCStreamBridge ---------------------------
(***************************************************************************)
(* Two connections to one bridge whose buffer is shorter than the run, so  *)
(* that a late joiner misses the oldest events and a replay can be         *)
(* overtaken by a put.                                                     *)
(***************************************************************************)
EXTENDS StreamBridge, TLC

\* Subscribers are interchangeable (used by the run without liveness only).
Symmetry == Permutations(Subscribers)
==============================================================================
