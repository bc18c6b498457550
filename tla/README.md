# PH Agent Hub: verification project

PH Agent Hub is a multi-tenant platform for AI agents: a FastAPI service
(`backend/src`), a MariaDB database, Redis, an object store, and a React client.
Most of its code is configuration (models, tools, templates, users), wrappers of
external services, and requests that read and write rows in one transaction. This
project is about the part where several actors work on one piece of state at
different times: runs in the background, the readers that follow them, requests that
pause, steer, resume, edit or cancel, turns of an agent with their sub-agents and
their bill, a polling loop, a sweep, and a process that may stop anywhere.

Contents: 1 inventory - 2 modules - 3 correspondence with the code - 4 runs and
bounds - 5 fairness - 6 findings - 7 proofs - 8 what is not modelled - 9 plan.

## 1. Inventory

The service runs on one asyncio loop. A coroutine is interrupted only at an
`await` that really suspends; between two of those, code is atomic within the
process. The database (`mariadb:11`, REPEATABLE READ with snapshot isolation) and
Redis are shared state.

| Component | State it keeps | Operations | What is hard | Makes it correct |
|---|---|---|---|---|
| Stream bridge (`agents/stream_bridge.py`) | replay buffer, one queue per subscriber, closed flag | put, close, subscribe | replay overtaken by a put, joining a closed bridge, slow and vanishing clients | clients get the stream without gaps; everyone is released |
| Session streams (`api/chat.py`, `core/redis.py`) | registry of bridges, keys `stream:active` and `stream:cancel` | start, keepalive, clean-up, cancel, reconnect | overlapping runs, failing Redis, a future nobody awaits, crash | a run at work can be found; a cancel hits the run it was meant for; nothing is left open |
| Autopilot (`agents/autopilot.py`, `services/autopilot_service.py`, `api/chat.py`, `api/background_tasks.py`) | row `autopilot_runs`, each loop's turn, tokens and tool signals | turn, pause, steer, cancel, complete, fail, restart sweep | requests between two transactions of a loop, two loops on a row, exceptions, stop at any point | pause is heeded, no turn is repeated, runs end, completion is notified |
| Scheduler (`main.py`, `services/scheduled_task_service.py`, `services/scheduler_executor.py`) | row `scheduled_tasks`, the poll's batch, spawned wrappers | poll, claim, execute, pause, resume, update, delete | owners' requests between query and claim, crash after the claim | at most one execution per due time; due tasks are taken; recurring ones recur |
| A2A server tasks (`api/a2a_server.py`, `services/a2a_task_service.py`) | row `a2a_tasks`, Redis keys for cancel, question, authentication | send, stream, resume, cancel | objects held across an agent turn, snapshots, a row locked for a turn, cancel before, during and after the agent | an outcome is not replaced; a cancelled task does not run; tasks settle |
| A2A client (`services/a2a_circuit_breaker.py`, `services/a2a_client.py`) | a hash of failures per server | check, success, failure, reset | read-modify-write by several callers, records that come late, expiry | it opens at the threshold and for a reason, and then blocks |
| Workflows (`agents/workflows`, `services/workflow_*`) | definition, rows `workflow_checkpoints`, outputs of the steps | message, resume, save, edit, sweep | concurrent resumes, a target looked up twice, edits under a paused run, a sweep in two transactions | no saved step is done again; a pause is answered; outputs stay readable |
| Balance and usage (`services/balance_service.py`, `services/usage_service.py`, `agents/runner.py`) | balance of a tenant, usage log, buses of sub-agents by session | check, use, log, deduct, change | check and deduction apart, overlapping turns, failures at the end | a lone turn is billed what it used; nothing twice; overdrafts need company |
| Temporary sessions (`core/redis.py`, `agents/runner.py`, `api/chat.py`) | a JSON list and a blob per session | append, summarize, rename, finalize, promote, delete, expire | lost updates, promotion in two stores | no message is lost, marked without a summary, or back from the dead |
| Agent turn (`agents/runner.py`, `agents/budget.py`, `agents/subagent_bus.py`, `tools/subagent.py`) | counters, outbox, bus, accumulated parts | update, tool batch, sub-agent, multiplex, persist | every await may be the last; two producers of one stream; budgets reached together | what was shown is stored; sub-agents are whole; limits bind and are said |
| Permanent sessions (`api/chat.py`, `services/session_service.py`) | rows of sessions, messages, feedback | send, summarize, delete, edit, regenerate, rate, purge | truncation by whole seconds, requests during a turn, commit before the new turn | the conversation stays linear; nothing outlives its session |
| Uploads and retrieval (`services/upload_service.py`, `services/rag_service.py`, `storage/s3.py`) | object, row, chunks of a file | upload, link, index, delete | two stores and no transaction over both, indexing nobody awaits | a listed file can be fetched |
| Users, tenants, models, tools, templates, OAuth, notifications, memories | rows | CRUD | little | single transactions |

How they interact. A message request registers a bridge and spawns a background
task; the task feeds the bridge with what the agent produces; SSE readers follow
the bridge, and come back through the registry. The skill of the session decides
whether a message is answered by an agent or by a workflow. A turn checks the balance
first, summarizes the session if it is long, runs with a bus on which its sub-agents
report, stores its message and is billed in its `finally` clause. An autopilot task
does the same for several turns, and consults its row between them. Pause, steer and
cancel requests write that row, and the cancel key that the runner polls. The
scheduler spawns executions. The A2A server runs the same agent for another agent's
task, and shares the cancel key of the session with the streams; the A2A client calls
other servers behind a circuit breaker. Requests edit and delete the messages of a
session whether or not a turn is at work in it.

Hazards are listed in `PROJECT.json`, each at its line with the properties that
cover it, or the reason why none does.

## 2. Modules

| Module | What it is |
|---|---|
| `Broadcast` | abstract: what a stream of events promises to the readers of a run |
| `StreamBridge` | one bridge, its producer and its subscribers; refines `Broadcast` |
| `SessionStream` | the runs of one session: registry, Redis keys, keepalive, clean-up |
| `Autopilot` | one background autopilot run, its loops and the requests on it |
| `Scheduler` | scheduled tasks: owners, polling loop, wrappers, executor |
| `A2ATask` | one task of the A2A server: runner (three kinds), resumers, cancellers |
| `CircuitBreaker` | the circuit of one remote server and its callers |
| `Workflow` | the runs of a workflow in one session: messages, resumes, checkpoints, sweep |
| `WorkflowGraph`, `WorkflowValidation` | the graph built from a definition; the search for a cycle in it, as an algorithm |
| `AgentTurn` | one streamed turn: events, budgets, sub-agents, multiplexer, the stored message |
| `Chat` | composition: a message is answered by `Workflow` or by `AgentTurn` |
| `Billing` | what the turns of a tenant use, log and pay |
| `TempSession` | the messages of a temporary session in Redis |
| `Transcript` | abstract: what a permanent session promises of its messages |
| `Conversation` | the messages, feedback and a file of a permanent session; refines `Transcript` |
| `MC*` | the instances TLC checks |
| `*_proofs` | theorems; `Session_proofs` has those of `TempSession` and `Conversation`, `Turn_proofs` those of `SessionStream`, `Billing`, `CircuitBreaker` and of the composition `MCTurn`, `Workflow_proofs` also those of `WorkflowGraph` and of the composition `Chat` |

`SessionStream` composes what the runs of a session share: of a bridge it keeps
whether it is open (the rest is `StreamBridge`), of a run its life cycle (the rest is
`Autopilot`, or one turn of `AgentTurn`).

Two MC modules check several components in one run, because the program has them in
one request. `MCWorkflow` has both ways in which a message is answered, as `Chat`
composes them, and the search for a cycle: the variable `execution_type`, as the skill's column of that name, is settled before either begins
(`runner.py` branches on it), and the other way stays at rest. `MCTurn` has what the
turns of a session share: `scene` says whether the streams, the bill, a temporary
session's messages, a circuit, or a permanent session run, the others being at
rest. The components of an MC module share no variable, so that an interleaving of
two of them shows nothing that each alone does not; fairness is that of the
streams, whose steps are all disabled at rest. The permanent session comes in three
parts, to stay small: with summaries and one request; with two requests and feedback;
with a file and one request that may fail.

Each component module is parameterised by CONSTANTS, with a named assumption.
Definitions introduced by "A plausible bug" are variants of the definition that
follows them; no behaviour uses them, they serve to see that the properties are able
to fail. Fields and variables marked "history" exist for the properties only.

## 3. Correspondence with the code

The exact lines of every definition are in `PROJECT.json`, "map".

**StreamBridge.** `Put` and `Close` are the two methods; neither suspends.
`subscribe()` is an async generator: `pc` says at which `yield` or `await` it
stands. `SubscribeReplay`, `ReplayNext`, `ReplayDone` are the loop over the deque,
one event per pull of the SSE writer; `ReplayBroken` is the RuntimeError of a deque
iterator whose deque changed, which is what keeps the hand-over from losing events;
`Wake` and `Heartbeat` are the two results of `wait_for`; `Disconnect` is the
`finally` of a generator closed by the framework. Events are numbers.

**SessionStream.** A step is one Redis call, or the code between two. `Spawn`
registers the bridge and starts the future that sets the active key; `SetActive` is
that future, which may fail or come after the clean-up. `TurnCancelled`, `Finish` end
the agent's turn. The `finally` clause is `StopKeepalive`, `ClearActive`, `ClearCancel`,
`Close`, in this order; `ClearFails` is a Redis error in it, which skips the rest.
`ActiveExpires` is the TTL, which a keepalive prevents. Simplifications: keepalive
starts with the run (in the code after a first query); the runner's EXISTS and DELETE
of the cancel key are one step.

**Autopilot.** A step is one transaction of a loop, or one agent turn.
The loop's locals (`turn`, `spent`, `signals`) survive only in the loop; what it
knows of the row it reads at `CheckTurn` and `CheckAfter`. `Raise` is an exception
anywhere in the body. `SteerInstruct` and `SteerResume` are the two commits of the
steer endpoint, with the turn number kept in between; `CancelRequest` and `CancelCommit`
the two halves of the cancel endpoint. `Crash`, `Shutdown`, `Restart` are the process;
`Restart` includes `fail_stale_runs`. `StopOverBudget` writes through the session
opened at the task's start, whose snapshot does not contain a fresh run's row.
`stream:cancel` is left out here: it ends a turn with an outcome `RunAgent` includes.

**Scheduler.** `next_run_at` is "none", "later" or "due". `Poll` reads all due
tasks; `Claim` clears one and spawns its wrapper, in a transaction of its own;
`GiveUp` is the error of the database when the first of the batch was changed after
the poll's snapshot. Requests are single steps. `Execute` is the whole executor as it
runs today: it raises on its first line.

**A2ATask.** A SELECT and the UPDATE next to it are one step, because the
database (innodb_snapshot_isolation, the default of MariaDB from 11.6.2) refuses the
update of a row changed after the snapshot; `changed` is the set of actors it would
refuse. `seen` is the state in an ORM object held across an agent's turn: sessions
use `expire_on_commit=False`, so a later SELECT does not refresh it, while
`add_artifact` does (`Refreshed`). `Suspend` leaves the column out of the UPDATE when
the object believes it has that value already. The background runner and the one inside
a request (`kind`) differ in their checks before the agent. Assumption:
`FlagsExpire` waits for cancel requests and for a runner before its agent (the TTL is
two minutes).

The task's third kind is `message:stream`: it writes WORKING without a commit, so
that the row stays locked during the agent's turn. A cancel sets its keys and then
waits for the lock, or times out on it; a client that leaves during the stream rolls
WORKING back, and the task stays SUBMITTED.

**CircuitBreaker.** A call is checked once, retried inside, and recorded once at the
end. `record_failure` reads the hash (`HGETALL`), counts in the process and writes
back, in two steps, `HSET` and `EXPIRE` as one; `record_success` and the
administrator's reset write at once. A call may be lost, and the hash expires after
two cooldowns. `log` is history: the records in the order in which they were
written, each with how many there were when its caller read. A retried call that
succeeds keeps the status "timeout" or "error" in the call log (a2a_client.py:95-107);
the log decides nothing and is left out, and so is `last_probe_at`, which is
written and never read.

**Workflow.** The steps are a chain, each superstep runs one of them and saves a
checkpoint. A message and a resume are both attempts. A resume looks its target up
twice, when the request is checked and when it begins (`Locate`), and takes the open
checkpoint that `Latest` gives: the newest second, then the highest count. Each
executor keeps the outputs that it was seeded with; a snapshot has what the first
executor of the superstep knows (`Snapshot`), so that outputs are missing in a
second resume. After a run that reports "completed" (also when a step had
failed, engine.py:668-690), the target is marked (`Mark`, `SetExpiry`). The sweep is
`Stamp` and `DeleteExpired`, two transactions, and the service may stop between them.
Saves are those of the framework: one after each superstep, none after a failed one.

**WorkflowGraph, WorkflowValidation.** `Edges` is what `add_definition_topology`
builds: the chain of the steps that do not branch, and an edge for each branch, the
default among them (engine.py:388-389). `CycleFound` is the depth-first search of
`validate_branches`, colours included, which leaves the chain out.

**AgentTurn.** The framework is external: it answers in deltas, calls tools in
batches, reports usage, ends, or fails. The generator handles an update in one step,
since it yields only afterwards to others; the events then wait in `outbox`. The
multiplexer waits for the bus and for the generator, and prefers the bus; while
it waits, its own task holds the head of the queue, which a drain therefore misses
(`Drained`). The cancel key is a choice at each look (`PassCancelled`), a Redis error
another (`CheckFails`). `LoopClosed` is the producer that leaves the loop, is
cancelled, or fails; `Persist` is the `finally` clause. `BusTaken` is an overlapping
run of the session. Left out: blank reasoning and XML remnants that are stripped
from the text, whether the framework goes on for a while after an early break, the
end of the process, `memory_updated` events, the extraction of token counts.

**Billing.** A call costs one unit. A turn checks (`Refuse`, `Pass`), registers its
bus, delegates (`Delegate` finds the bus of the session, whosever it is), and ends:
a completed stream folds its own usage and that on its bus, an interrupted one
that on its bus only, a plain turn its own. `WriteLog`, then the read of the balance,
then the deduction, each of which may fail, and the process may end. An administrator
adds, sets, or lifts the limit in between.

**TempSession.** Every operation on the list is a read, a change in the process, and
a write. A writer goes through its plan: a stream stores the user's message, may
summarize, and stores the answer; a plain turn summarizes first. A summary reads the
list, waits for the model, reads it again, writes it with marks, and then appends
the summary. Finalizing and an upload move the messages to the database and wipe the
keys; an upload commits after that. `exposed`, `gone`, `ghosts` are history: what
somebody's open write may lose, what was deleted, what somebody held when it was.

**Conversation.** A transaction is its reads, in one step, and its commit, in
another. A commit needs the rows as they were read, and that no foreign key is left
behind (`Committable`): MariaDB refuses the rest. `created_at` has whole seconds:
messages of one second come in any order, though in the same one in the two
queries of a regeneration. A streamed turn stores its question first; a plain turn
stores both at its end, in one transaction and second. The object of a file is
removed before the commit that deletes its row (`RemoveObject`), and its chunks only
by `DeleteUpload`; the foreign key of the chunks is SET NULL. `Index` runs in the
background after an upload, or for an administrator. A request that failed may be
sent again. `Exchange` is a turn here: `Turn` is that of `Billing`. A summary's marks are
updates of rows read before the model answered: `Mark` fails when one of them is gone
or has changed since (`Unchanged`). In `Transcript`, `alive` is the session, `shown` its
messages, and `due` is `Outstanding`: what the turns that are not over may still store.

## 4. Runs, bounds, what they show

| Run | Checks | Bounds |
|---|---|---|
| `bridge` | `Gapless`, `ClosedStops`, `LiveEventsArrive`, refinement of `Broadcast` | 2 subscribers, buffer 2, 4 events: the buffer overflows, a reader joins before, during and after that |
| `bridge_tail` | `AllEventsDelivered` fails | same |
| `autopilot` | `TurnsOnce`, `StopsAfterCurrentTurn`, `EveryRunEnds`, `CompletionNotified` | 2 loops, 3 turns (2 when resumed), a budget of one paid turn, one stop |
| `autopilot_cancel` | `CancelStops` fails | 1 loop, 2 turns |
| `scheduler` | `OncePerDueTime`, `DueIsTaken` | 2 tasks due twice, 3 requests, one stop |
| `scheduler_recurs` | `Recurs` fails | 1 task, no request |
| `a2a` | `AnswersOnce`, `CanceledNeverStarts`, `EarlyCancelHeeded`, `Settles` | 2 resumers, 1 canceller, each kind of runner |
| `a2a_final` | `TerminalIsFinal` fails | 1 resumer, 1 canceller |
| `workflow` | workflow: `NoStepRedone`, `AskedIsAnswered`, `OutputsKept`, `SweepTakesOldest`; agent: `ShownIsKept`, `SubagentsWhole`, `LimitsAreSaid` | 2 steps, 3 attempts, 2 topologies and 1 edit, retention 1 of time 2; 2 tool calls, 2 other updates, 2 steps, 3 input tokens in reports of 2, a loop of 2, 1 round of a sub-agent; definitions of 4 steps |
| `session` | streams: `LoneRunFound`, `CancelDiesWithRun`, `BridgesClose`; bill: `OverdraftHasCompany`, `UsageBilled`, `BilledOnce`; temporary session: `MessagesKept`, `MarkedIsSummarized`, `DeletedStayDeleted`; circuit: `OpenHasCause`, `OpenBlocks`; permanent session: `AnswersHaveQuestions`, `FilesAreThere`, refinement of `Transcript` | 2 runs; 2 turns in 2 sessions, 2 changes by an administrator; 2 writers, 1 pair kept; 2 callers, threshold 2, window 1, cooldown 2, time 4, 3 records; 2 turns, 2 requests, 1 pair kept, 2 seconds |
| `session_overlap` | `ReconnectFinds` fails | 2 runs |
| `upload` | `UploadKeepsMessages` fails | 2 writers |

Each passing run but `scheduler` checks one type invariant beside these (that of
`Scheduler` is proved); `ChatTypeOK` and `TurnTypeOK`
are those of all the components of their run. `ConversationTypeOK`, part of the
latter, also says that nothing is left in a session that is gone, and that a rated
answer exists.

What the properties say is in the comments above them, with their exceptions. An
exception is never wider than what the code does: where one stands, TLC finds a
counterexample without it, and section 6 or the paragraphs below say what it is.

- `NoStepRedone` excepts runs whose attempts overlap, and those in which a resume
  completed its checkpoint without saving any (a failed step does that).
- `AskedIsAnswered` excepts a resume that found another checkpoint when it was
  checked than when it began (chat.py:2038).
- `OutputsKept` speaks of a run and its first resume; in a second one, with three
  steps, outputs are missing, though workflow_checkpoint_service.py:167-168 says every
  step carries the same snapshot.
- `OverdraftHasCompany` excepts turns whose balance another turn or an administrator
  changed since their check.
- `UsageBilled` speaks of turns that ended by themselves with no other turn in their
  session; `BilledOnce` of all of them.
- `MessagesKept` excepts messages appended while somebody else was between the read
  and the write of the list.
- `AnswersHaveQuestions` excepts turns that a request overtook, and those whose
  question and answer have one second.
- `FilesAreThere` excepts a file whose object a failed request had removed.
- `KeepsTranscript`, the refinement, is a promise of permanent sessions only: in a
  temporary one messages get lost, come back, and are marked for a summary that never
  comes, with the exceptions of `MessagesKept`, `DeletedStayDeleted` and
  `MarkedIsSummarized`.
- `OpenBlocks` excepts a late record of an earlier failure, which takes `degraded_at`
  back.

The bounds are enough for the interactions the code has: no operation involves more
than two loops, runs, readers, writers, callers or resumers at once, except by
repetition; three attempts of a workflow, the last a resume, are a run and two resumes
of it or of one another, or two runs and a resume of either; a third turn of a
conversation adds nothing to what a request sees, because truncation knows only before
and after. In `session`, sessions, writers and requests are interchangeable, and
`MCTurn` lets a fixed one of each go first. What is proved (section 7) does not depend
on bounds. Counters that a bound limits: `MaxEvents`, `MaxLoops`, `MaxCrashes`,
`MaxDue`, `MaxRequests`, `Attempts`, `MaxTime`, `MaxEdits`, `MaxDeltas`, `MaxCalls`,
`Turns`, `MaxAdmin`, `MaxClock`, `MaxRecords`, `Exchanges`, `Requests`, `MaxSecond`.
Because of `MaxRequests`, `DueIsTaken` says what happens once owners stop changing
their tasks: a poll may be given up as often as they go on. Deadlock checking is off
everywhere: a bridge whose clients left, an ended run, a settled task, or a turn that
is over rightly have no further step.

To repeat: `tlc -config MCAutopilot.cfg MCAutopilot`, `tlapm Autopilot_proofs.tla`, and
likewise for the others. The longest runs, `session` and `workflow`, take about three
minutes each with two workers.

## 5. Fairness

Weak fairness, for what the code does by itself:

- the event loop runs ready generators, tasks and futures; an agent turn ends, because
  runs have a budget and calls have timeouts; `RunStep`, `LoopStep`, `Work` and the
  runner's steps are fair;
- a request that has begun is finished (`SteerResume`, `CancelCommit`, `Cancel`);
- the scheduler polls at an interval and goes through its batch;
- the service is restarted after a stop (`restart: unless-stopped`);
- keys expire.

Nothing is assumed of users, of clients, of failures, or of a run ever being started.
The modules without liveness properties (`Workflow`, `AgentTurn`, `Billing`,
`TempSession`, `CircuitBreaker`, `Conversation`) have no fairness.

## 6. Findings

Six statements of the repository that the code does not keep; each has a run
whose counterexample is the evidence. Details and lines in `PROJECT.json`.

1. *"each subscriber gets ALL events"*: a client that is being sent an event while
   the bridge closes loses what its queue still holds.
2. *"The agent stops at the next safe boundary"* (Cancel): the autopilot loop looks for
   PAUSED only, runs on, and overwrites CANCELLED.
3. *"will execute at its scheduled time"*: the executor fails on a constant that does
   not exist, and the task is never scheduled again.
4. *"terminal states cannot be changed"*: a resumed A2A task overwrites CANCELED,
   since the guard tests an old object.
5. *"If an agent is still running [...] opens an SSE stream"*: of two overlapping runs
   of a session, the first to end hides the other.
6. *"must migrate them to MariaDB or they are lost with the Redis keys"*: an upload
   that promotes a temporary session deletes the keys before the commit; when the file
   is refused after that, the messages are lost.

The models show more, as exceptions of their properties or as cases that no property
speaks of. They are noted here for whoever changes that code.

- *Conversation.* A rated answer cannot be regenerated: `regenerate` deletes it without
  its feedback, whose foreign key does not cascade (chat.py:3322); nor can one whose
  turn stored a summary after its question, since the message before it is then no
  question (user-guide.md:542 promises both). An edit leaves the old answer when it
  has the second of its question, as every plain turn's has (chat.py:675;
  user-guide.md:538). An edit commits its deletions before its turn stores the new
  question: in between the session may be empty, and a list of sessions purges it
  (session_service.py:283-297). A truncation deletes a summary, which is newer than
  what it stands for, and leaves the marks: those messages are shown, and the agent
  sees neither them nor a summary (chat.py:691, runner.py:536-538; data-model.md:452).
  The chunks of a file that goes with its message or session are still searched, and
  those of one deleted while it is indexed (upload_service.py:599, db/orm/rag.py:34;
  user-guide.md:461). A failed commit after the removal of an object leaves a row
  without one, a failed upload an object without a row. A plain edit or regeneration
  whose run fails has lost the prompt. data-model.md:436 and 733 and
  architecture-overview.md:128 still describe branches; the schema has none.
- *Temporary sessions.* "Atomically append" (redis.py:108) reads and writes in two
  pipelines. `store_temp_session` refreshes one key of two, and an append sets the
  remaining TTL again, though it is said to refresh it. Finalizing drops the
  `summarized` flags. The deletion of a permanent session looks for nothing in Redis.
  session_service.py:651-662 removes from the list that it iterates over. With fewer
  user messages than are to be kept, everything is summarized. A message to a session
  that is promoted meanwhile is lost (chat.py:1690-1717).
- *Billing.* The sub-agents of a plain turn are never billed; A2A turns are neither
  checked nor billed; an interrupted turn is billed for its sub-agents only, although
  runner.py:3721-3723 says otherwise; lifting a limit on a stale read writes an audit
  row without effect.
- *Circuit breaker.* A failed probe does not start a new cooldown, as
  admin-guide.md:624 says it does (a2a_circuit_breaker.py:166-180).
- *Workflow.* A failed step of a resume reports "completed" (engine.py:668-690,
  1184-1255): its checkpoint is closed, and the next resume takes an older one.
- *Agent turn.* A failure to store the message is swallowed, and `message_complete`
  is sent (backend-architecture.md:1055: "message persisted"). When the producer leaves
  the loop on a cancel, the generator is closed later by the event loop, and its message
  stored after the bridge is closed. A sub-agent that its wrapper gives up stays
  "running" in the record. A stream that breaks off looks like one that ends.
- *A2A server.* An agent that calls `ask_user` and `request_auth` leaves the second key
  behind. The task is INPUT_REQUIRED, is resumed, and becomes AUTH_REQUIRED without an
  artifact for the answer, although nobody has requested that in this turn
  (a2a_server.py:689). `A2ATask` has this: `asked` is of the task, not of a turn.
- *Autopilot.* The limit of concurrent runs (config.py:178) is counted in the request,
  and the row created by the task it spawns (chat.py:1823, 2399): requests pass it
  together. A paused run is not counted, and steering it counts nothing. The timeout sweep compares a naive with an aware datetime, and the error
  is swallowed: no run times out (main.py:113).

## 7. Proofs

All theorems hold for every value of the constants that satisfies the named assumption
of the component. They are of the form `Init => Inv`, `Inv /\ [Next]_vars => Inv'`,
with one step per action.

- **StreamBridge_proofs**. `Gapless` and `NothingMissed` are not inductive: they need
  that the buffer is the newest `MaxBuffer` events in order, that a queue holds a
  contiguous run of events that ends at the newest one, with the sentinel behind
  it once closed (`QueueIsTail`), and how far the iterator of a replaying reader can be
  (`IteratorOK`). `IInv` adds these. `Refinement` follows: each action is a `Produce`,
  `Finish`, `Join`, `Deliver` or a stutter of `Broadcast`, and it needs `IInv` for the
  number of the event that is delivered.
  `TruncationIsBounded` says what is true of "each subscriber gets ALL events" (finding
  1): a generator that ends with its bridge has sent everything, unless the close met it
  at a yield; then exactly what its queue still held is lost.
- **Autopilot_proofs**. `StopsAfterCurrentTurn`: a loop stands at "progress" in a
  PAUSED run only if it is in `inGap`. `TurnsOnce`: as long as no steer overlapped a
  loop (`Ordered`), at most one loop is alive, its turn is ahead of `currentTurn` before
  it starts and equal to it afterwards, no turn beyond `currentTurn` was run, and a steer
  under way holds `currentTurn + 1`: what it resumes is new.
- **Scheduler_proofs**. `OncePerDueTime` needs the accounting
  of what is on its way (`Accounted`): executions spawned, plus one if the task is due
  or in the batch (once, if it is both), do not exceed the times it became due.
- **A2ATask_proofs**. Until the agent is started no resumer can be
  at work and whoever is about to write CANCELED has set the flag before. `AnswersOnce`
  follows from `add_artifact`'s refresh. `OnlyStaleReplaceOutcomes` says what is true of
  "terminal states cannot be changed" (finding 4): only a resumer replaces an outcome, at
  its end, and holding the suspended task. It needs that a cancel whose transaction is not
  behind the row has an open task before it, and that a stream holds its lock on a task
  that nobody has settled or resumed (`Outstanding`). `FinalUnlessResumed` is the case of
  a task that nobody resumes.
- **Workflow_proofs**. A checkpoint is known by its attempt and count (`Identified`), as
  long as no attempt counts twice. `OutputsAlwaysKept` needs what a snapshot has, by how
  often its run was resumed (`Carried`); `PausesAnswered` who may be about to complete a
  paused checkpoint (`Answered`); `OldestTaken` how the stamps of the sweep go with the
  age of the rows (`Dated`).
  `StepsRunOnce`: an attempt at work begins behind every step that the others of its run
  have saved, and no open checkpoint of the run is newer than its next one (`Ahead`). A
  resume begins so because whatever an open checkpoint does not know of its run, a newer
  open one does (`Bettered`), and the resume takes the newest. Completing a checkpoint
  keeps that only if the attempt has saved a newer one; the sweep only because it never
  takes the newer of two open ones (`Dated`).
  `BranchesDecide`: the code looks for cycles among the branches only. That is enough, for
  definitions of any size: chain edges go from steps that do not branch to later ones, so
  that a set of steps that each lead to another one of the set has its cycle among the
  branches. TLC compares the search itself, a recursive algorithm, with this definition
  for every definition of four steps (`SearchIsRight`).
  The composition: a behaviour of `Chat` is one of the workflow and one of the agent
  (`ChatIsEach`), and the safety properties of the run `workflow` are theorems of its
  specification (`ChatTypeCorrect`, `ChatIsSafe`).
- **Session_proofs**. Temporary session: `TempIInv` says what each writer has yet to do
  (`Writing`) and that no list and no copy has a message twice. `AppendedStays` needs that
  the list and every open copy of it differ in nothing but what is safe otherwise
  (`Agree`); `DeletedStays` that a copy holds nothing that is gone unless it was open at
  the time (`Haunted`); `MarkedIsIn` that a summary which is not in the list stands in
  its writer's plan (`Summed`). Permanent session: the types
  are inductive with what each turn may have stored already (`Single`, `Known`) and whose
  file it is (`Filed`, `Gone`). `AnswersKeepQuestions` needs that an answer is no earlier
  than its question (`Ordered`), that a stream which is to answer has its question unless
  a request took it (`Asked`), and that a request which takes a question takes its answer
  along, unless that has come since (`Whole`). `ListedFilesAreThere` follows each request
  between the object store and the database (`Put`, `Removing`). `IsTranscript`, the
  refinement: an insertion of a turn is a `Store`, a mark a `Fold`, the commit of a
  request a `Drop`, everything else leaves the messages alone and makes nothing due. It
  needs the types, `Single` and `Known` (a turn's message of a kind is stored once, and
  what it may yet store is not there), `Gone` (nothing in a session that was deleted),
  and that what a summary is being made of was in no summary when it was read
  (`Unfolded`).
- **Turn_proofs**. Streams: `RegisteredIsOpen` and `CancelDiesWithRun` are inductive
  with the types. `LoneRunFound` needs `Alone`: while a run that has never
  overlapped works, no other run does, the registry entry is its own, and nobody else
  clears the key.
  Bill: `OverdraftNeedsCompany` needs that a balance nobody else changed is
  the one that was checked (`Solvent`). `TurnsAreBilled` needs where the usage of a
  sub-agent can be: a turn alone in its session holds its own bus or none
  (`Accounted`: `Lone`, `Owned`, `Foreign`, `Exactly`). Circuit: `CircuitTypeCorrect` bounds the
  counter by the records (`Counts`); `OpenCircuitHasCause` keeps for every counter a
  chain of as many failures (`Founded`). `OpenCircuitBlocks` is about the other direction:
  the hash, and every caller about to write it, know of each chain of failures that ends
  the log (`Remembered`, `Counted`), so that the one that completes Threshold of them opens the
  circuit and no record takes that back within the cooldown (`Blocked`).
  `NothingBilledTwice`: an invariant over the sums of all turns (`BillsCovered`): what was
  charged or is still to be, with the calls that each bus and each turn holds, is at most
  the calls that were made; a sub-agent's call is handed from one turn to at most one.
  `SumOf` is a choice of a function that satisfies the equations of a sum, and the lemmas
  on it (`SumsExist`, `SumIs`, `SumMonotone`) come from the least index at which two such
  functions would differ.
  The composition: a behaviour of `MCTurn` is one of each component (`TurnIsEach`), since
  a step of one leaves the variables of the others alone, and what starts them is a case
  of their own initial states. So every safety property of the run `session` is a theorem
  of the very specification the run checks (`TurnTypeCorrect`, `TurnsAreSafe`).
- **AgentTurn_proofs**. `BudgetsBind`: a step or input budget that is
  used up ends the turn, since whatever check one budget skips another one has made.
  `AgentTypeCorrect`: the batches of a turn's calls come in the order of the calls
  (`Batched`). `SubagentsAreWhole`: what a sub-agent told is, as long as the loop was not
  left, with the record of its call or still on the bus (`AllHeard`), a call that is over
  says nothing more (`Told`), and a result is passed on only then (`Pending`); so that
  nothing of a call whose result is in the message is on the bus (`Settles`).
  `LimitsSaid`: while nothing is lost (`Smooth`), what was shown and what is about to be
  tell which warnings were given (`Marked`), why the turn stopped (`Stopped`) and how many
  batches it made (`Stepped`); the events of one round of checks climb in rank (`Climbs`).
  `ShownStaysKept`: what is held for the record is, in its order, what was shown and at
  most one event more, the one at which the turn was cancelled (`KeptInv`). The lemmas on
  `FlattenSeq` (`FlattenIs`, `FlattenConcat`, `FlattenAppend`) are proved from its
  definition, by the least index at which two functions would differ.

Only model-checked: every liveness property (`LiveEventsArrive`, `ClosedStops`,
`EveryRunEnds`, `CompletionNotified`, `DueIsTaken`, `EarlyCancelHeeded`, `Settles` of
`A2ATask`, `BridgesClose`), which the prover cannot treat under fairness; the search for a
cycle, which is recursive.

## 8. Not modelled, and why

- What a model and the tools of an agent do (`tools/`, the framework): external; their
  visible outcomes are nondeterministic choices. How an agent, its prompt and its
  history are put together, compaction, and the repair of providers' messages: data.
- The turn that is not streamed, and the events of a workflow's stream; how the
  framework runs a branching workflow.
- Rows that one request reads and writes in one transaction: users, tenants, templates,
  models, skills, folders, notifications, credentials, licences, memories.
- Autopilot runs that are not background tasks, the limit of concurrent runs.
- Uploads to a session that does not exist yet, batch deletion, export and import.
- Two workers of the service: bridges and loops live in one process, and the
  deployment runs one.
- Data: event payloads, amounts of money, chunks and embeddings, token counts beyond
  those of a budget, cron arithmetic.

## 9. Plan

Done, the most important behaviour first: `StreamBridge` with `Broadcast`,
`Autopilot`, `Scheduler`, `A2ATask`, `SessionStream`; then `Workflow` with its graph,
`Billing`, `TempSession`, `CircuitBreaker`, the streamed kind of `A2ATask`,
`AgentTurn`, `Conversation`; `Transcript`; and, of each of these, the proof of the safety
properties that the runs check and of the two refinements.

Next:

1. `Autopilot`: the limit of concurrent runs, as a component of its own.
2. An abstract run (started, paused, ended) that `Autopilot` and `A2ATask` implement
   as refinements.
3. `AgentTurn`: the turn that is not streamed, and the end of the process.
4. `Conversation`: two files, and more than two requests at once.
