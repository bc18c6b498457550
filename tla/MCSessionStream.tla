--------------------------- MODULE MCSessionStream ---------------------------
(***************************************************************************)
(* Two runs of one session: the second one overlaps the first, or comes    *)
(* after what the first has left behind.                                   *)
(***************************************************************************)
EXTENDS SessionStream, TLC
==============================================================================
