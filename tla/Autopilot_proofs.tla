-------------------------- MODULE Autopilot_proofs --------------------------
(***************************************************************************)
(* Proofs about Autopilot for any number of loops, turns and stops of the  *)
(* process: type correctness, that a pause is heeded, and that a run which *)
(* is not steered while a loop is at work never repeats a turn.            *)
(***************************************************************************)
EXTENDS Autopilot, TLAPS

InTurn == {"progress", "agent", "after", "recordPaused", "record", "pausing", "completing"}

\* A loop passes the turn check only with a turn left.
WithinLimit == \A l \in Loops : pc[l] \in InTurn => turn[l] <= TurnLimit(l)

Typed == TypeOK /\ WithinLimit

\* Every loop between its check and its turn was there when the pause came.
GapKnown == state = "PAUSED" => \A l \in Loops : pc[l] = "progress" => l \in inGap

\* While no loop was ever overtaken, a single loop is at work, on a turn that
\* no loop has started before it, and a steer request finds nobody at work.
OneAtWork == \A k, l \in Loops : Live(k) /\ Live(l) => k = l
Before(l) == pc[l] \in {"fetch", "check", "progress"}
Within(l) == pc[l] \in InTurn \ {"progress"}
NextTurnIsNew ==
  \A l \in Loops : (Before(l) => turn[l] > currentTurn) /\ (Within(l) => turn[l] = currentTurn)
SteerIsFresh ==
  steerTurn # 0 => steerTurn = currentTurn + 1 /\ \A l \in Loops : ~Live(l)
RanIsRecorded == \A t \in ranTurns : t <= currentTurn

InOrder ==
  /\ repeated = {}
  /\ OneAtWork
  /\ NextTurnIsNew
  /\ SteerIsFresh
  /\ RanIsRecorded

Ordered == overlapped = {} => InOrder

LEMMA Bounds ==
  /\ TurnBound \in Nat
  /\ RunTurns <= TurnBound /\ DefaultTurns <= TurnBound /\ TurnBound >= 1
  /\ \A l \in Loops : l \in Nat /\ TurnLimit(l) \in 1..TurnBound
BY AutopilotAssumption DEF TurnBound, TurnLimit, Loops

------------------------------------------------------------------------------
LEMMA InitTyped == Init => Typed
<1> SUFFICES ASSUME Init PROVE Typed
  OBVIOUS
<1> USE Bounds, AutopilotAssumption DEF Init
<1>1. TypeOK
  <2>1. notified \in BOOLEAN /\ up \in BOOLEAN /\ cancelling \in BOOLEAN
    OBVIOUS
  <2>4. currentTurn \in 0..TurnBound /\ crashes \in 0..MaxCrashes /\ steerTurn \in 0..TurnBound + 1
    OBVIOUS
  <2>5. state \in State /\ inGap \subseteq Loops /\ overlapped \subseteq Loops
    BY DEF State
  <2>6. ranTurns \subseteq 1..TurnBound /\ repeated \subseteq ranTurns
    OBVIOUS
  <2>2. pc \in [Loops -> PC] /\ turn \in [Loops -> 1..TurnBound + 1]
    BY DEF PC, Body, First
  <2>3. spent \in [Loops -> Nat] /\ signals \in [Loops -> SUBSET Signal]
    BY DEF Signal
  <2> QED
    BY <2>1, <2>2, <2>3, <2>4, <2>5, <2>6 DEF TypeOK
<1>2. WithinLimit
  BY DEF WithinLimit, InTurn, First
<1> QED
  BY <1>1, <1>2 DEF Typed

\* A stop of the process ends every loop at work and changes no row by itself.
LEMMA StopTyped ==
  ASSUME Typed, Stop, state' \in State, inGap' \subseteq Loops
  PROVE  Typed'
<1>1. pc' \in [Loops -> PC] /\ WithinLimit'
  BY DEF Typed, TypeOK, WithinLimit, InTurn, PC, Body, Stop, locals, Live, TurnLimit
<1>2. crashes' \in 0..MaxCrashes
  BY AutopilotAssumption DEF Typed, TypeOK, Stop
<1>3. up' \in BOOLEAN /\ cancelling' \in BOOLEAN /\ notified' \in BOOLEAN
  BY DEF Typed, TypeOK, Stop
<1>4. currentTurn' \in 0..TurnBound /\ steerTurn' \in 0..TurnBound + 1
  BY Bounds DEF Typed, TypeOK, Stop
<1>5. /\ turn' \in [Loops -> 1..TurnBound + 1] /\ spent' \in [Loops -> Nat]
      /\ signals' \in [Loops -> SUBSET Signal]
  BY DEF Typed, TypeOK, Stop, locals
<1>6. /\ overlapped' \subseteq Loops /\ ranTurns' \subseteq 1..TurnBound
      /\ repeated' \subseteq ranTurns'
  BY DEF Typed, TypeOK, Stop, history
<1>7. TurnBound' = TurnBound /\ Loops' = Loops
  BY DEF TurnBound, Loops
<1> QED
  BY <1>1, <1>2, <1>3, <1>4, <1>5, <1>6, <1>7 DEF Typed, TypeOK

LEMMA TypedStep == Typed /\ [Next]_vars => Typed'
<1> SUFFICES ASSUME Typed, [Next]_vars PROVE Typed'
  OBVIOUS
<1> USE Bounds, AutopilotAssumption
    DEF Typed, TypeOK, WithinLimit, InTurn, State, PC, Body, Signal, At, Goto, SetState,
        locals, row, process, requests, history
<1>1. ASSUME NEW l \in Loops, Fetch(l) PROVE Typed'
  BY <1>1 DEF Fetch
<1>2. ASSUME NEW l \in Loops, GiveUp(l) PROVE Typed'
  BY <1>2 DEF GiveUp
<1>3. ASSUME NEW l \in Loops, StopOverBudget(l) PROVE Typed'
  BY <1>3 DEF StopOverBudget
<1>4. ASSUME NEW l \in Loops, CheckTurn(l) PROVE Typed'
  BY <1>4 DEF CheckTurn, Exhausted
<1>5. ASSUME NEW l \in Loops, StartTurn(l) PROVE Typed'
  <2>1. turn[l] \in 1..TurnBound /\ ranTurns' = ranTurns \union {turn[l]}
    BY <1>5 DEF StartTurn
  <2>2. ranTurns' \subseteq 1..TurnBound
    BY <2>1
  <2>3. repeated' \subseteq ranTurns'
    BY <1>5 DEF StartTurn
  <2>4. inGap' \subseteq Loops
    BY <1>5 DEF StartTurn
  <2> QED
    BY <1>5, <2>1, <2>2, <2>3, <2>4 DEF StartTurn, ProgressTurn
<1>6. ASSUME NEW l \in Loops, RunAgent(l) PROVE Typed'
  BY <1>6 DEF RunAgent, Tools
<1>7. ASSUME NEW l \in Loops, CheckAfter(l) PROVE Typed'
  BY <1>7 DEF CheckAfter
<1>8. ASSUME NEW l \in Loops, Record(l) PROVE Typed'
  BY <1>8 DEF Record
<1>9. ASSUME NEW l \in Loops, PauseItself(l) PROVE Typed'
  BY <1>9 DEF PauseItself
<1>10. ASSUME NEW l \in Loops, Complete(l) PROVE Typed'
  BY <1>10 DEF Complete
<1>11. ASSUME NEW l \in Loops, Notify(l) PROVE Typed'
  BY <1>11 DEF Notify, NoticeSent
<1>12. ASSUME NEW l \in Loops, RunDetached(l) \/ Cleanup(l) PROVE Typed'
  BY <1>12 DEF RunDetached, Cleanup
<1>13. ASSUME NEW l \in Loops, Raise(l) PROVE Typed'
  BY <1>13 DEF Raise
<1>14. CASE Pause
  BY <1>14 DEF Pause
<1>15. CASE SteerInstruct
  BY <1>15 DEF SteerInstruct
<1>16. CASE SteerResume
  BY <1>16 DEF SteerResume, Unused
<1>17. CASE CancelRequest
  BY <1>17 DEF CancelRequest
<1>18. CASE CancelCommit
  BY <1>18 DEF CancelCommit
<1>19. CASE Crash
  <2>1. Stop /\ state' = state /\ inGap' = inGap
    BY <1>19 DEF Crash
  <2> QED
    BY <2>1, StopTyped
<1>20. CASE Shutdown
  <2>1. Stop /\ state' \in State /\ inGap' \subseteq Loops
    BY <1>20 DEF Shutdown
  <2> QED
    BY <2>1, StopTyped
<1>21. CASE Restart
  BY <1>21 DEF Restart, StaleFailed
<1>22. CASE UNCHANGED vars
  BY <1>22 DEF vars
<1> QED
  BY <1>1, <1>2, <1>3, <1>4, <1>5, <1>6, <1>7, <1>8, <1>9, <1>10, <1>11, <1>12, <1>13,
     <1>14, <1>15, <1>16, <1>17, <1>18, <1>19, <1>20, <1>21, <1>22 DEF Next, LoopStep

THEOREM TypeCorrect == Spec => []TypeOK
<1>1. Init => Typed
  BY InitTyped
<1>2. Typed /\ [Next]_vars => Typed'
  BY TypedStep
<1>3. Typed => TypeOK
  BY DEF Typed
<1> QED
  BY <1>1, <1>2, <1>3, PTL DEF Spec

------------------------------------------------------------------------------
(* A pause is heeded.                                                       *)

LEMMA GapStep == Typed /\ GapKnown /\ [Next]_vars => GapKnown'
<1> SUFFICES ASSUME Typed, GapKnown, [Next]_vars PROVE GapKnown'
  OBVIOUS
<1> USE DEF Typed, TypeOK, GapKnown, At, Goto, SetState, row
<1>1. ASSUME NEW l \in Loops, LoopStep(l) PROVE GapKnown'
  BY <1>1 DEF LoopStep, Fetch, GiveUp, StopOverBudget, CheckTurn, StartTurn, RunAgent,
     CheckAfter, Record, PauseItself, Complete, Notify, RunDetached, Cleanup, PauseSeen
<1>2. ASSUME NEW l \in Loops, Raise(l) PROVE GapKnown'
  BY <1>2 DEF Raise
<1>3. CASE Pause \/ SteerInstruct \/ SteerResume \/ CancelRequest \/ CancelCommit
  BY <1>3 DEF Pause, SteerInstruct, SteerResume, CancelRequest, CancelCommit
<1>4. CASE Crash \/ Shutdown \/ Restart
  BY <1>4 DEF Crash, Shutdown, Stop, Restart, StaleFailed, Live
<1>5. CASE UNCHANGED vars
  BY <1>5 DEF vars
<1> QED
  BY <1>1, <1>2, <1>3, <1>4, <1>5 DEF Next

\* A loop that finds the row PAUSED starts no further turn: the only turn that
\* begins under a pause is that of a loop which had passed its check before.
THEOREM PauseHeeded == Spec => StopsAfterCurrentTurn
<1> DEFINE Heeded == \A l \in Loops :
      (state = "PAUSED" /\ pc[l] = "progress" /\ pc'[l] = "agent") => l \in inGap
<1>1. Init => Typed /\ GapKnown
  BY InitTyped DEF Init, GapKnown
<1>2. Typed /\ GapKnown /\ [Next]_vars => (Typed /\ GapKnown)'
  BY TypedStep, GapStep
<1>3. Typed /\ GapKnown => Heeded
  BY DEF GapKnown
<1>4. Spec => [](Typed /\ GapKnown)
  BY <1>1, <1>2, PTL DEF Spec
<1> QED
  BY <1>3, <1>4, PTL DEF StopsAfterCurrentTurn

------------------------------------------------------------------------------
(* Turns are not repeated.                                                  *)

\* Steps of a loop that does not start a turn: it stays the only one at work,
\* and stays on its turn or moves to the next.
LEMMA OrderLoopStep ==
  ASSUME Typed, InOrder, NEW l \in Loops, LoopStep(l) \/ Raise(l)
  PROVE  InOrder'
<1> USE Bounds DEF Typed, TypeOK, InOrder, OneAtWork, NextTurnIsNew, SteerIsFresh, RanIsRecorded,
        Live, Before, Within, InTurn, At, Goto, locals, row, requests, history
<1>1. Live(l) /\ steerTurn = 0
  BY DEF LoopStep, Raise, Body, Fetch, GiveUp, StopOverBudget, CheckTurn, StartTurn, RunAgent,
     CheckAfter, Record, PauseItself, Complete, Notify, RunDetached, Cleanup
<1>2. \A k \in Loops \ {l} : pc[k] \in {"idle", "ended"}
  BY <1>1
<1>3. CASE Fetch(l)
  BY <1>1, <1>2, <1>3 DEF Fetch
<1>4. CASE GiveUp(l)
  BY <1>1, <1>2, <1>4 DEF GiveUp
<1>5. CASE StopOverBudget(l)
  BY <1>1, <1>2, <1>5 DEF StopOverBudget
<1>6. CASE CheckTurn(l)
  BY <1>1, <1>2, <1>6 DEF CheckTurn
<1>7. CASE StartTurn(l)
  <2>1. turn[l] \notin ranTurns /\ turn[l] > currentTurn
    BY <1>1, <1>7 DEF StartTurn
  <2>2. repeated' = {} /\ currentTurn' = turn[l] /\ ranTurns' = ranTurns \union {turn[l]}
    BY <1>7, <2>1 DEF StartTurn, ProgressTurn
  <2>3. RanIsRecorded'
    BY <2>1, <2>2
  <2> QED
    BY <1>1, <1>2, <1>7, <2>2, <2>3 DEF StartTurn, ProgressTurn
<1>8. CASE RunAgent(l)
  BY <1>1, <1>2, <1>8 DEF RunAgent
<1>9. CASE CheckAfter(l)
  BY <1>1, <1>2, <1>9 DEF CheckAfter
<1>10. CASE Record(l)
  BY <1>1, <1>2, <1>10 DEF Record
<1>11. CASE PauseItself(l)
  BY <1>1, <1>2, <1>11 DEF PauseItself
<1>12. CASE Complete(l)
  BY <1>1, <1>2, <1>12 DEF Complete
<1>13. CASE Notify(l) \/ RunDetached(l) \/ Cleanup(l)
  BY <1>1, <1>2, <1>13 DEF Notify, RunDetached, Cleanup
<1>14. CASE Raise(l)
  BY <1>1, <1>2, <1>14 DEF Raise
<1> QED
  BY <1>3, <1>4, <1>5, <1>6, <1>7, <1>8, <1>9, <1>10, <1>11, <1>12, <1>13, <1>14 DEF LoopStep

LEMMA OrderStep == Typed /\ Ordered /\ [Next]_vars => Ordered'
<1> SUFFICES ASSUME Typed, Ordered, [Next]_vars, overlapped' = {} PROVE InOrder'
  BY DEF Ordered
<1> USE DEF history, requests, row, locals
<1>1. overlapped = {}
  <2>1. overlapped \subseteq overlapped'
    BY DEF Next, LoopStep, Fetch, GiveUp, StopOverBudget, CheckTurn, StartTurn, RunAgent,
       CheckAfter, Record, PauseItself, Complete, Notify, RunDetached, Cleanup, Raise,
       Pause, SteerInstruct, SteerResume, CancelRequest, CancelCommit, Crash, Shutdown,
       Stop, Restart, vars
  <2> QED
    BY <2>1
<1>2. InOrder
  BY <1>1 DEF Ordered
<1> USE Bounds, <1>2 DEF Typed, TypeOK, InOrder, OneAtWork, NextTurnIsNew, SteerIsFresh,
        RanIsRecorded, Live, Before, Within, InTurn, Goto
<1>3. ASSUME NEW l \in Loops, LoopStep(l) \/ Raise(l) PROVE InOrder'
  BY ONLY <1>3, Typed, InOrder, OrderLoopStep
<1>4. CASE SteerInstruct
  <2>1. \A l \in Loops : ~Live(l)
    BY <1>4, overlapped' = {} DEF SteerInstruct
  <2> QED
    BY <1>4, <2>1 DEF SteerInstruct
<1>5. CASE SteerResume
  BY <1>5 DEF SteerResume
<1>6. CASE Pause \/ CancelRequest \/ CancelCommit \/ Restart
  BY <1>6 DEF Pause, CancelRequest, CancelCommit, Restart
<1>7. CASE Crash \/ Shutdown
  BY <1>7 DEF Crash, Shutdown, Stop
<1>8. CASE UNCHANGED vars
  BY <1>8 DEF vars
<1> QED
  BY <1>3, <1>4, <1>5, <1>6, <1>7, <1>8 DEF Next

\* However a loop ended, the loop that follows it goes on with a new turn; only
\* steering a run whose loop is still at work can repeat one.
THEOREM NoTurnTwice == Spec => []TurnsOnce
<1>1. Init => Typed /\ Ordered
  <2>1. ASSUME Init PROVE InOrder
    BY <2>1, Bounds DEF Init, InOrder, OneAtWork, NextTurnIsNew, SteerIsFresh, RanIsRecorded,
       Live, Before, Within, InTurn, First
  <2> QED
    BY <2>1, InitTyped DEF Ordered
<1>2. Typed /\ Ordered /\ [Next]_vars => (Typed /\ Ordered)'
  BY TypedStep, OrderStep
<1>3. Typed /\ Ordered => TurnsOnce
  BY DEF Ordered, InOrder, TurnsOnce
<1> QED
  BY <1>1, <1>2, <1>3, PTL DEF Spec
==============================================================================
