---------------------------- MODULE SessionStream ----------------------------
(***************************************************************************)
(* The streams of one chat session: the background tasks that run its      *)
(* agent (api/chat.py), the registry entry by which a reader finds the     *)
(* bridge of a run (agents/stream_bridge.py), and the two Redis keys that  *)
(* say that a run is at work and that it is to stop (core/redis.py).       *)
(*                                                                         *)
(* Nothing keeps a request (a message, a regeneration, a steer) from       *)
(* starting a run while another one of the session is at work.  A step of  *)
(* the model is one call of Redis, or the code between two of them.  Redis *)
(* may fail, and each caller deals with that in its own way.               *)
(***************************************************************************)
EXTENDS FiniteSets

CONSTANTS
  Runs,        \* background runs of the session
  NoRun        \* no bridge is registered

ASSUME SessionStreamAssumption == NoRun \notin Runs

VARIABLES
  registry,    \* _active_bridges[session]: the run whose bridge it is, or NoRun
  closed,      \* runs whose bridge is closed
  active,      \* the key stream:active:<session> exists
  cancel,      \* the key stream:cancel:<session> exists
  setting,     \* what became of the future that sets the active key
  kept,        \* runs whose keepalive task is at work
  pc,          \* where each run stands
  meant,       \* history: runs at work when the cancel key was last set
  overlapped   \* history: runs that shared the session with another one

keys == <<active, cancel>>
history == <<meant, overlapped>>
vars == <<registry, closed, keys, setting, kept, pc, history>>

\* The finally clause goes through "keepalive" ... "close".
Cleaning == {"keepalive", "clearActive", "clearCancel", "close"}
Lost == {"broken", "crashed"}
PC == {"idle", "running"} \union Cleaning \union {"ended"} \union Lost

AtWork(r) == pc[r] = "running" \/ pc[r] \in Cleaning
CanClear(r) == pc[r] \in {"running", "keepalive", "clearActive", "clearCancel"}

Goto(r, there) == pc' = [pc EXCEPT ![r] = there]

Init ==
  /\ registry = NoRun
  /\ closed = {}
  /\ active = FALSE /\ cancel = FALSE
  /\ setting = [r \in Runs |-> "none"]
  /\ kept = {}
  /\ pc = [r \in Runs |-> "idle"]
  /\ meant = {} /\ overlapped = {}

------------------------------------------------------------------------------
(* A run.                                                                   *)

\* A plausible bug: dict.setdefault.
FirstRegistered(r) == IF registry = NoRun THEN r ELSE registry

\* register_bridge: the newest bridge wins.
Registered(r) == r

\* _spawn_agent_background, _spawn_autopilot_background; the key is set by a
\* future that nobody awaits.
Spawn(r) ==
  /\ pc[r] = "idle"
  /\ registry' = Registered(r)
  /\ setting' = [setting EXCEPT ![r] = "pending"]
  /\ kept' = kept \union {r}
  /\ Goto(r, "running")
  /\ LET others == {x \in Runs : AtWork(x)} IN
     overlapped' = IF others = {} THEN overlapped ELSE overlapped \union others \union {r}
  /\ UNCHANGED <<closed, keys, meant>>

SetActive(r) ==
  /\ setting[r] = "pending"
  /\ \/ active' = TRUE /\ setting' = [setting EXCEPT ![r] = "done"]
     \/ UNCHANGED active /\ setting' = [setting EXCEPT ![r] = "failed"]
  /\ UNCHANGED <<registry, closed, cancel, kept, pc, history>>

\* _keep_stream_active_loop refreshes the key, which keeps it from expiring and
\* creates none; an error of Redis ends the loop, unnoticed.
KeepaliveFails(r) ==
  /\ r \in kept
  /\ pc[r] = "running"
  /\ kept' = kept \ {r}
  /\ UNCHANGED <<registry, closed, keys, setting, pc, history>>

\* The runner finds the cancel key, deletes it and ends its turn; an autopilot
\* goes on with the next one.
TurnCancelled(r) ==
  /\ pc[r] = "running"
  /\ cancel
  /\ cancel' = FALSE
  /\ Goto(r, "running") \/ Goto(r, "keepalive")
  /\ UNCHANGED <<registry, closed, active, setting, kept, history>>

\* The agent is done, it failed, or its task is cancelled; or the task itself
\* found the cancel key.
Finish(r) ==
  /\ pc[r] = "running"
  /\ Goto(r, "keepalive")
  /\ UNCHANGED <<registry, closed, keys, setting, kept, history>>

\* A plausible bug: the keepalive task, which waits for the bridge to close, is
\* awaited but not cancelled.
KeepaliveAwaited(r) == r \notin kept \/ r \in closed

KeepaliveStopped(r) == TRUE

StopKeepalive(r) ==
  /\ pc[r] = "keepalive"
  /\ KeepaliveStopped(r)
  /\ kept' = kept \ {r}
  /\ Goto(r, "clearActive")
  /\ UNCHANGED <<registry, closed, keys, setting, history>>

ClearActive(r) ==
  /\ pc[r] = "clearActive"
  /\ active' = FALSE
  /\ Goto(r, "clearCancel")
  /\ UNCHANGED <<registry, closed, cancel, setting, kept, history>>

\* A plausible bug: the cancel key is left to the runner that polls it.
CancelKept == cancel

CancelCleared == FALSE

ClearCancel(r) ==
  /\ pc[r] = "clearCancel"
  /\ cancel' = CancelCleared
  /\ Goto(r, "close")
  /\ UNCHANGED <<registry, closed, active, setting, kept, history>>

\* Redis fails inside the finally clause: what follows is not executed, and the
\* bridge stays open and registered.
ClearFails(r) ==
  /\ pc[r] \in {"clearActive", "clearCancel"}
  /\ Goto(r, "broken")
  /\ UNCHANGED <<registry, closed, keys, setting, kept, history>>

WithClosed(r) == closed \union {r}

\* remove_bridge pops the entry of the session, whoever's it is.
EntryRemoved == NoRun

\* bridge.close() and remove_bridge(), without a suspension in between.
Close(r) ==
  /\ pc[r] = "close"
  /\ closed' = WithClosed(r)
  /\ registry' = EntryRemoved
  /\ Goto(r, "ended")
  /\ UNCHANGED <<keys, setting, kept, history>>

RunStep(r) ==
  \/ TurnCancelled(r) \/ Finish(r)
  \/ StopKeepalive(r) \/ ClearActive(r) \/ ClearCancel(r) \/ ClearFails(r) \/ Close(r)

------------------------------------------------------------------------------
(* Requests, time and the process.                                          *)

\* DELETE .../stream and the cancelling of a background task set the key
\* whether or not a run is at work.
CancelRequest ==
  /\ cancel' = TRUE
  /\ meant' = {r \in Runs : AtWork(r) /\ CanClear(r)}
  /\ UNCHANGED <<registry, closed, active, setting, kept, pc, overlapped>>

CancelExpires ==
  /\ cancel
  /\ cancel' = FALSE
  /\ UNCHANGED <<registry, closed, active, setting, kept, pc, history>>

Expired == FALSE

\* The key outlives its last refresh by minutes, and a keepalive refreshes it.
ActiveExpires ==
  /\ active
  /\ kept = {}
  /\ active' = Expired
  /\ UNCHANGED <<registry, closed, cancel, setting, kept, pc, history>>

\* The process stops and starts again: the keys stay, the registry does not.
Crash ==
  /\ \E r \in Runs : AtWork(r)
  /\ pc' = [r \in Runs |-> IF AtWork(r) THEN "crashed" ELSE pc[r]]
  /\ setting' = [r \in Runs |-> IF setting[r] = "pending" THEN "failed" ELSE setting[r]]
  /\ registry' = NoRun
  /\ kept' = {}
  /\ UNCHANGED <<closed, keys, history>>

Next ==
  \/ \E r \in Runs : Spawn(r) \/ SetActive(r) \/ KeepaliveFails(r) \/ RunStep(r)
  \/ CancelRequest \/ CancelExpires \/ ActiveExpires \/ Crash

\* An agent turn ends (budgets and timeouts), a future runs, time passes.
Fairness ==
  /\ \A r \in Runs : WF_vars(RunStep(r)) /\ WF_vars(Finish(r)) /\ WF_vars(SetActive(r))
  /\ WF_vars(ActiveExpires)

Spec == Init /\ [][Next]_vars /\ Fairness

------------------------------------------------------------------------------
(* Properties.                                                              *)

\* Beside the types: the bridge of a run is closed once its task ended in good
\* order, and only then.
TypeOK ==
  /\ registry \in Runs \union {NoRun}
  /\ active \in BOOLEAN /\ cancel \in BOOLEAN
  /\ setting \in [Runs -> {"none", "pending", "done", "failed"}]
  /\ pc \in [Runs -> PC]
  /\ closed = {r \in Runs : pc[r] = "ended"}
  /\ kept \subseteq {r \in Runs : pc[r] \in {"running", "keepalive"}}
  /\ meant \subseteq Runs /\ overlapped \subseteq Runs

\* A reader that looks a bridge up never gets a closed one, which would replay
\* an old run and end, however runs overlap and Redis fails.
RegisteredIsOpen == registry \notin closed

\* reconnect_stream looks for the key, then for the registry entry.
Found(r) == active /\ registry = r

\* Its key was set and is kept alive.
Announced(r) == pc[r] = "running" /\ setting[r] = "done" /\ r \in kept

\* A run that shares the session with no other is found by a reader that comes
\* back, all the time it is at work: nothing that an earlier run of the session
\* left undone, or does too late, hides it.
LoneRunFound == \A r \in Runs \ overlapped : Announced(r) => Found(r)

\* A cancel that came while a run was at work does not outlive that run, so it
\* cannot stop the next one; unless the run could not clean up.
CancelDiesWithRun ==
  cancel => \A r \in meant : CanClear(r) \/ pc[r] \in Lost

\* The readers of a run are released: its bridge is closed, unless Redis fails
\* in the clean-up, or the process stops.
BridgesClose ==
  \A r \in Runs : pc[r] = "running" ~> (r \in closed \/ pc[r] \in Lost)

\* The reconnect endpoint says: "If an agent is still running [...] opens an
\* SSE stream".
ReconnectFinds == \A r \in Runs : Announced(r) => \E x \in Runs : Found(x)
==============================================================================
