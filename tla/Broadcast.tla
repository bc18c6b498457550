------------------------------ MODULE Broadcast ------------------------------
(***************************************************************************)
(* What a StreamBridge promises to the readers of one agent run, without   *)
(* its buffer, its queues or the way they are scheduled.                   *)
(*                                                                         *)
(* Events are numbered in the order the run produces them.  A reader that  *)
(* joins is entitled to the events still retained at that moment (at most  *)
(* Window of them) and to everything produced later; what it is given is   *)
(* that stream, in order and with nothing skipped or repeated, for as long *)
(* as it stays.  A reader may stop early: the promise is about the order   *)
(* and the gaps, not about how far a reader gets.                          *)
(***************************************************************************)
EXTENDS Integers, Sequences

CONSTANTS Readers,   \* SSE connections of one session
          Window     \* how many past events a late joiner is given

VARIABLES produced,  \* events the run has produced so far
          finished,  \* the run is over
          joined,    \* reader -> value of "produced" when it joined, or -1
          seen       \* reader -> events it was given, in order

vars == <<produced, finished, joined, seen>>

\* The oldest event retained once n events were produced.
Oldest(n) == IF n <= Window THEN 1 ELSE n - Window + 1

NotJoined == -1

Init ==
  /\ produced = 0
  /\ finished = FALSE
  /\ joined = [r \in Readers |-> NotJoined]
  /\ seen = [r \in Readers |-> <<>>]

Produce ==
  /\ ~finished
  /\ produced' = produced + 1
  /\ UNCHANGED <<finished, joined, seen>>

Finish ==
  /\ finished' = TRUE
  /\ UNCHANGED <<produced, joined, seen>>

NextFor(r) == Oldest(joined[r]) + Len(seen[r])

Join(r) ==
  /\ joined[r] = NotJoined
  /\ joined' = [joined EXCEPT ![r] = produced]
  /\ IF produced = 0
     THEN UNCHANGED seen
     ELSE seen' = [seen EXCEPT ![r] = <<Oldest(produced)>>]
  /\ UNCHANGED <<produced, finished>>

Deliver(r) ==
  /\ joined[r] # NotJoined
  /\ NextFor(r) <= produced
  /\ seen' = [seen EXCEPT ![r] = Append(@, NextFor(r))]
  /\ UNCHANGED <<produced, finished, joined>>

Next ==
  \/ Produce
  \/ Finish
  \/ \E r \in Readers : Join(r) \/ Deliver(r)

Spec == Init /\ [][Next]_vars
==============================================================================
