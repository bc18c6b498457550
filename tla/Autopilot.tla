------------------------------ MODULE Autopilot ------------------------------
(***************************************************************************)
(* One background autopilot run: its row in autopilot_runs, the loops that *)
(* work on it (agents/autopilot.py: run_autopilot_stream, started by       *)
(* api/chat.py: _run_autopilot_background) and the requests that pause,    *)
(* steer and cancel it.                                                    *)
(*                                                                         *)
(* Loops and requests reach the row through short transactions and keep    *)
(* what they read in local variables: a step of the model is one such      *)
(* transaction, or one agent turn.  Nothing keeps a request from starting  *)
(* a loop while another one is still at work.                              *)
(*                                                                         *)
(* The Redis flag stream:cancel:<session>, which cancel requests set too,  *)
(* is left out: the runner that finds it set ends the current turn early,  *)
(* with whatever outcome and tokens it has, and clears it.                 *)
(***************************************************************************)
EXTENDS Integers, FiniteSets

CONSTANTS
  MaxLoops,     \* bound of the model: loops ever started on the run
  RunTurns,     \* turn limit the run was created with (a skill may set it)
  DefaultTurns, \* AUTOPILOT_MAX_TURNS, what a resumed loop uses instead
  MaxTokens,    \* AUTOPILOT_MAX_TOKENS, 0 for no budget; a turn costs 0 or 1
  MaxCrashes    \* bound of the model: times the process stops

ASSUME AutopilotAssumption ==
  /\ MaxLoops \in Nat \ {0}
  /\ RunTurns \in Nat \ {0}
  /\ DefaultTurns \in Nat \ {0}
  /\ MaxTokens \in Nat
  /\ MaxCrashes \in Nat

VARIABLES
  state,        \* the row: its state,
  currentTurn,  \*   the last turn recorded,
  notified,     \*   and notification_sent
  up,           \* the process is running
  crashes,      \* times it stopped
  pc,           \* where each loop stands
  turn,         \* the loop's "turn"
  spent,        \* its cumulative tokens
  signals,      \* what the agent's tools told it
  cancelling,   \* a cancel request stands between its check and its write
  steerTurn,    \* resume_from_turn of the steer request under way, or 0
  inGap,        \* history: loops between check and turn when the row was paused
  ranTurns,     \* history: turns started by any loop
  repeated,     \* history: turns started more than once
  overlapped    \* history: loops that were at work when the run was steered

row == <<state, currentTurn, notified>>
requests == <<cancelling, steerTurn>>
process == <<up, crashes>>
locals == <<turn, spent, signals>>
history == <<ranTurns, repeated, overlapped>>
vars == <<row, process, pc, locals, requests, inGap, history>>

Loops == 1..MaxLoops
First == 1                  \* the loop the run was created for
State == {"EXECUTING", "PAUSED", "COMPLETED", "FAILED", "CANCELLED"}
Signal == {"done", "paused", "unrecorded"}

\* Points where an exception leaves run_autopilot_stream.
Body == {"check", "progress", "agent", "after", "recordPaused", "record",
         "pausing", "completing", "notify"}
PC == Body \union {"idle", "fetch", "detached", "finally", "ended"}

Live(l) == pc[l] \notin {"idle", "ended"}
TurnLimit(l) == IF l = First THEN RunTurns ELSE DefaultTurns
TurnBound == IF RunTurns > DefaultTurns THEN RunTurns ELSE DefaultTurns

\* create_autopilot_run has just committed the row for the first loop.
Init ==
  /\ state = "EXECUTING" /\ currentTurn = 0 /\ notified = FALSE
  /\ up = TRUE /\ crashes = 0
  /\ pc = [l \in Loops |-> IF l = First THEN "check" ELSE "idle"]
  /\ turn = [l \in Loops |-> 1]
  /\ spent = [l \in Loops |-> 0]
  /\ signals = [l \in Loops |-> {}]
  /\ cancelling = FALSE /\ steerTurn = 0
  /\ inGap = {}
  /\ ranTurns = {} /\ repeated = {} /\ overlapped = {}

At(l, here) == up /\ pc[l] = here
Goto(l, there) == pc' = [pc EXCEPT ![l] = there]

\* set_state: no transition is refused.  (inGap is history only.)
SetState(s) ==
  /\ state' = s
  /\ inGap' = IF s # "PAUSED" THEN {}
              ELSE IF state = "PAUSED" THEN inGap
              ELSE {l \in Loops : pc[l] = "progress"}

------------------------------------------------------------------------------
(* One loop.                                                                *)

\* A plausible bug: the loop keeps the row it loaded when it started.
NeverPaused == FALSE

\* The row, read afresh, is PAUSED.
PauseSeen == state = "PAUSED"

\* A plausible bug: range(start_turn, max_turns + 2).
OneTurnMore(l) == turn[l] > TurnLimit(l) + 1

\* range(start_turn, max_turns + 1) is exhausted.
Exhausted(l) == turn[l] > TurnLimit(l)

OverBudget(l) == MaxTokens > 0 /\ spent[l] >= MaxTokens

\* A resumed loop looks its run up again.  When that fails the exception is
\* swallowed and it starts over at turn 1, without a row.
Fetch(l) ==
  /\ At(l, "fetch")
  /\ \/ Goto(l, "check") /\ UNCHANGED signals
     \/ Goto(l, "detached") /\ signals' = [signals EXCEPT ![l] = {"unrecorded"}]
  /\ UNCHANGED <<row, process, turn, spent, requests, inGap, history>>

\* Max turns reached.
GiveUp(l) ==
  /\ At(l, "check")
  /\ Exhausted(l)
  /\ SetState("FAILED")
  /\ Goto(l, "notify")
  /\ UNCHANGED <<currentTurn, notified, process, locals, requests, history>>

\* This write alone goes through the session the task opened at its start,
\* whose snapshot (REPEATABLE READ) is older than the row of a fresh run:
\* set_state does not find the row, and only logs.
StopOverBudget(l) ==
  /\ At(l, "check")
  /\ ~Exhausted(l)
  /\ OverBudget(l)
  /\ IF l = First
     THEN signals' = [signals EXCEPT ![l] = {"unrecorded"}] /\ UNCHANGED <<state, inGap>>
     ELSE SetState("FAILED") /\ UNCHANGED signals
  /\ Goto(l, "notify")
  /\ UNCHANGED <<currentTurn, notified, process, turn, spent, requests, history>>

CheckTurn(l) ==
  /\ At(l, "check")
  /\ ~Exhausted(l)
  /\ ~OverBudget(l)
  /\ Goto(l, IF PauseSeen THEN "finally" ELSE "progress")
  /\ UNCHANGED <<row, process, locals, requests, inGap, history>>

\* A plausible bug: the turn is recorded only once it is over.
TurnNotKept(l) == currentTurn

ProgressTurn(l) == turn[l]

\* The progress message is committed with current_turn, and the agent starts.
StartTurn(l) ==
  /\ At(l, "progress")
  /\ currentTurn' = ProgressTurn(l)
  /\ Goto(l, "agent")
  /\ ranTurns' = ranTurns \union {turn[l]}
  /\ repeated' = repeated \union (ranTurns \intersect {turn[l]})
  /\ inGap' = inGap \ {l}
  /\ UNCHANGED <<state, notified, process, locals, requests, overlapped>>

\* The first turn of a fresh run has no task_complete and pause_and_report.
Tools(l) == IF l = First /\ turn[l] = 1 THEN {} ELSE {"done", "paused"}

\* run_agent_stream: completed, failed (an "error" event and no tokens), or
\* stopped by the cancel flag.  The loop sees no difference.
RunAgent(l) ==
  /\ At(l, "agent")
  /\ \E told \in SUBSET Tools(l), tokens \in 0..1 :
       /\ signals' = [signals EXCEPT ![l] = @ \union told]
       /\ spent' = [spent EXCEPT ![l] = @ + tokens]
  /\ Goto(l, "after")
  /\ UNCHANGED <<row, process, turn, requests, inGap, history>>

CheckAfter(l) ==
  /\ At(l, "after")
  /\ Goto(l, IF "done" \notin signals[l] /\ PauseSeen THEN "recordPaused" ELSE "record")
  /\ UNCHANGED <<row, process, locals, requests, inGap, history>>

\* update_turn.
Record(l) ==
  /\ \/ At(l, "recordPaused") /\ Goto(l, "finally") /\ UNCHANGED turn
     \/ /\ At(l, "record")
        /\ signals[l] = {}
        /\ turn' = [turn EXCEPT ![l] = @ + 1]
        /\ Goto(l, "check")
     \/ /\ At(l, "record")
        /\ signals[l] # {}
        /\ Goto(l, IF "paused" \in signals[l] THEN "pausing" ELSE "completing")
        /\ UNCHANGED turn
  /\ currentTurn' = turn[l]
  /\ UNCHANGED <<state, notified, process, spent, signals, requests, inGap, history>>

\* The agent's own pause: update_turn and set_state, in one session.
PauseItself(l) ==
  /\ At(l, "pausing")
  /\ currentTurn' = turn[l]
  /\ SetState("PAUSED")
  /\ Goto(l, "finally")
  /\ UNCHANGED <<notified, process, locals, requests, history>>

\* task_complete: update_turn and set_state, in one session.
Complete(l) ==
  /\ At(l, "completing")
  /\ currentTurn' = turn[l]
  /\ SetState("COMPLETED")
  /\ Goto(l, "notify")
  /\ UNCHANGED <<notified, process, locals, requests, history>>

\* A plausible bug: the "background" argument of the task, which a steer
\* request does not pass, is consulted instead of the row.
NoticeByArgument(l) == notified \/ l = First

NoticeSent(l) == TRUE

\* _notify_if_background, of a run whose row says background_task.
Notify(l) ==
  /\ At(l, "notify")
  /\ notified' = NoticeSent(l)
  /\ Goto(l, "finally")
  /\ UNCHANGED <<state, currentTurn, process, locals, requests, inGap, history>>

\* A loop without a row runs its turns and records nothing.
RunDetached(l) ==
  /\ At(l, "detached")
  /\ Goto(l, "finally")
  /\ UNCHANGED <<row, process, locals, requests, inGap, history>>

\* The finally clause of _run_autopilot_background.
Cleanup(l) ==
  /\ At(l, "finally")
  /\ Goto(l, "ended")
  /\ UNCHANGED <<row, process, locals, requests, inGap, history>>

\* Any transaction or agent turn may raise: even a completed run is FAILED.
Raise(l) ==
  /\ up
  /\ pc[l] \in Body
  /\ SetState("FAILED")
  /\ Goto(l, "finally")
  /\ UNCHANGED <<currentTurn, notified, process, locals, requests, history>>

LoopStep(l) ==
  \/ Fetch(l) \/ GiveUp(l) \/ StopOverBudget(l) \/ CheckTurn(l)
  \/ StartTurn(l) \/ RunAgent(l) \/ CheckAfter(l) \/ Record(l)
  \/ PauseItself(l) \/ Complete(l) \/ Notify(l) \/ RunDetached(l) \/ Cleanup(l)

------------------------------------------------------------------------------
(* Requests.                                                                *)

\* POST .../autopilot/pause: whatever the state.
Pause ==
  /\ up
  /\ SetState("PAUSED")
  /\ UNCHANGED <<currentTurn, notified, process, pc, locals, requests, history>>

\* POST .../autopilot/steer: the row is read and, with the instruction, PAUSED
\* is committed.  Bound of the model: one steer request at a time.
SteerInstruct ==
  /\ up
  /\ steerTurn = 0
  /\ \E l \in Loops : pc[l] = "idle"
  /\ steerTurn' = currentTurn + 1
  /\ overlapped' = overlapped \union {l \in Loops : Live(l)}
  /\ SetState("PAUSED")
  /\ UNCHANGED <<currentTurn, notified, process, pc, locals,
                 cancelling, ranTurns, repeated>>

\* Loops are started in the order of their numbers.
Unused(l) == pc[l] = "idle" /\ \A k \in 1..l-1 : pc[k] # "idle"

\* ... then EXECUTING is committed, and a loop is spawned at the turn read.
SteerResume ==
  /\ up
  /\ steerTurn # 0
  /\ SetState("EXECUTING")
  /\ \E l \in Loops :
       /\ Unused(l)
       /\ Goto(l, "fetch")
       /\ turn' = [turn EXCEPT ![l] = steerTurn]
  /\ steerTurn' = 0
  /\ UNCHANGED <<currentTurn, notified, process, spent, signals,
                 cancelling, history>>

\* DELETE /background-tasks/{id}: only an EXECUTING task is accepted; then the
\* Redis flag is set ...
CancelRequest ==
  /\ up
  /\ ~cancelling
  /\ state = "EXECUTING"
  /\ cancelling' = TRUE
  /\ UNCHANGED <<row, process, pc, locals, steerTurn, inGap, history>>

\* ... then the state is written, whatever it is by now; a server with
\* innodb_snapshot_isolation refuses the write if the row changed meanwhile.
CancelCommit ==
  /\ up
  /\ cancelling
  /\ cancelling' = FALSE
  /\ SetState("CANCELLED") \/ UNCHANGED <<state, inGap>>
  /\ UNCHANGED <<currentTurn, notified, process, pc, locals, steerTurn, history>>

------------------------------------------------------------------------------
(* The process.                                                             *)

Stop ==
  /\ up
  /\ crashes < MaxCrashes
  /\ up' = FALSE
  /\ crashes' = crashes + 1
  /\ pc' = [l \in Loops |-> IF Live(l) THEN "ended" ELSE pc[l]]
  /\ cancelling' = FALSE
  /\ steerTurn' = 0
  /\ UNCHANGED <<currentTurn, notified, locals, history>>

Crash == Stop /\ UNCHANGED <<state, inGap>>

\* An orderly stop cancels the tasks: CancelledError in a loop's body.
Shutdown ==
  /\ Stop
  /\ \E l \in Loops : pc[l] \in Body
  /\ SetState("CANCELLED")

\* A plausible bug: the runs a crash left behind are not looked for.
NoneFailed == state

\* fail_stale_runs.
StaleFailed == IF state = "EXECUTING" THEN "FAILED" ELSE state

Restart ==
  /\ ~up
  /\ up' = TRUE
  /\ SetState(StaleFailed)
  /\ UNCHANGED <<currentTurn, notified, crashes, pc, locals, requests, history>>

Next ==
  \/ \E l \in Loops : LoopStep(l) \/ Raise(l)
  \/ Pause \/ SteerInstruct \/ SteerResume
  \/ CancelRequest \/ CancelCommit
  \/ Crash \/ Shutdown \/ Restart

\* A spawned task is scheduled, an agent turn ends (it has its own budget and
\* timeouts), a request that was begun is finished, the service is restarted.
Fairness ==
  /\ \A l \in Loops : WF_vars(LoopStep(l))
  /\ WF_vars(SteerResume) /\ WF_vars(CancelCommit) /\ WF_vars(Restart)

Spec == Init /\ [][Next]_vars /\ Fairness

------------------------------------------------------------------------------
(* Properties.                                                              *)

TypeOK ==
  /\ state \in State /\ currentTurn \in 0..TurnBound /\ notified \in BOOLEAN
  /\ up \in BOOLEAN /\ crashes \in 0..MaxCrashes
  /\ pc \in [Loops -> PC]
  /\ turn \in [Loops -> 1..TurnBound + 1]
  /\ spent \in [Loops -> Nat]
  /\ signals \in [Loops -> SUBSET Signal]
  /\ cancelling \in BOOLEAN /\ steerTurn \in 0..TurnBound + 1
  /\ inGap \subseteq Loops /\ overlapped \subseteq Loops
  /\ ranTurns \subseteq 1..TurnBound /\ repeated \subseteq ranTurns

\* "The agent stops after its current action": once the row is PAUSED, and as
\* long as it stays so, a loop starts no further turn, except the one turn of
\* a loop that had just passed its check when the pause was committed.
StopsAfterCurrentTurn ==
  [][\A l \in Loops :
       (state = "PAUSED" /\ pc[l] = "progress" /\ pc'[l] = "agent") => l \in inGap]_vars

\* A resumed run goes on where the loop before it ended, however that loop
\* ended (pause, exception or crash): a turn is started twice only when the
\* run was steered while a loop was still at work on it.
TurnsOnce == repeated # {} => overlapped # {}

Newest == CHOOSE l \in Loops : pc[l] # "idle" /\ \A k \in l+1..MaxLoops : pc[k] = "idle"

\* A run does not stay EXECUTING with nobody to end it: its loops run out of
\* turns, and a run that lost its loop to a crash is failed at the restart.
\* The exception is a newest loop that cannot reach the row: one that could
\* not look it up, or a fresh run that ends on its token budget.
EveryRunEnds ==
  state = "EXECUTING" ~> (state # "EXECUTING" \/ "unrecorded" \in signals[Newest])

\* The user is notified of a completed background run, unless the row is
\* changed again (an exception, a request) or the process stopped before.
CompletionNotified ==
  state = "COMPLETED" ~> (notified \/ state # "COMPLETED" \/ crashes > 0)

\* The guide says of Cancel: "the agent stops at the next safe boundary".
CancelStops ==
  [][\A l \in Loops :
       (state = "CANCELLED" /\ pc[l] = "check") => pc'[l] # "progress"]_vars
==============================================================================
