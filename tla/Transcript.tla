------------------------------ MODULE Transcript -----------------------------
(***************************************************************************)
(* What a permanent session promises of its messages, without the requests *)
(* and the steps of the turns that change them.                            *)
(*                                                                         *)
(* A turn has at most one message of each kind, and stores it at the end   *)
(* of what is there. A message is never changed but by the mark of the one *)
(* summary that it is in, and that summary is yet to come. What is gone is *)
(* gone: no message is stored, or marked, a second time, and nothing comes *)
(* into a session that was deleted.                                        *)
(***************************************************************************)
EXTENDS Naturals

CONSTANTS
  Turns,    \* the turns, as positive numbers
  Senders   \* the kinds of messages, "summary" among them

VARIABLES
  alive,    \* the session exists
  shown,    \* its messages
  due       \* what turns may yet store, as <<turn, sender>>

vars == <<alive, shown, due>>

Key(m) == <<m.turn, m.sender>>

Init ==
  /\ alive = TRUE
  /\ shown = {}
  /\ due = Turns \X Senders

\* A turn stores messages, later than all there are.
Store ==
  LET new == shown' \ shown IN
  /\ alive /\ alive' = alive
  /\ shown \subseteq shown'
  /\ \A m \in new :
       /\ Key(m) \in due \ due' /\ m.summarized = 0
       /\ \A n \in shown' : n.at <= m.at /\ (Key(n) = Key(m) => n = m)
  /\ due' \subseteq due

\* Messages are marked, each for the first time, by a turn that has its summary in hand.
Fold(t) ==
  LET chosen == shown \ shown' IN
  /\ alive' = alive
  /\ \A m \in chosen : m.summarized = 0
  /\ shown' = (shown \ chosen) \union {[m EXCEPT !.summarized = t] : m \in chosen}
  /\ <<t, "summary">> \in due' /\ due' \subseteq due

\* Messages are deleted, all of them with the session.
Drop ==
  /\ shown' \subseteq shown
  /\ alive' \in {alive, FALSE}
  /\ ~alive' => shown' = {}
  /\ due' \subseteq due

Next == Store \/ Drop \/ \E t \in Turns : Fold(t)

Spec == Init /\ [][Next]_vars
==============================================================================
