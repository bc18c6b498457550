------------------------------ MODULE A2ATask ------------------------------
(***************************************************************************)
(* One task of the A2A server (api/a2a_server.py), its row in a2a_tasks    *)
(* (services/a2a_task_service.py), its keys in Redis, and everyone who     *)
(* works on it: the runner that was started with it (in the background,    *)
(* inside the request that created it, or inside the stream of events that *)
(* answers it), the requests that resume it, and the requests that cancel  *)
(* it.                                                                     *)
(*                                                                         *)
(* The server runs with REPEATABLE READ and, as every MariaDB from 11.6.2  *)
(* on, with innodb_snapshot_isolation: an UPDATE of a row that was changed *)
(* after the transaction took its snapshot fails.  A SELECT and the UPDATE *)
(* that follows it at once are therefore one step.  What a request keeps   *)
(* across an await is not: "seen" is the state in an ORM object it holds,  *)
(* which a new SELECT does not refresh (expire_on_commit=False), and       *)
(* "changed" says whose open transaction is older than the row.            *)
(***************************************************************************)
EXTENDS FiniteSets

CONSTANTS
  Runner,      \* the task that create spawned, or its request
  Resumers,    \* message:send requests that name the task
  Cancellers   \* :cancel requests

ASSUME A2ATaskAssumption ==
  /\ Runner \notin Resumers \union Cancellers
  /\ Resumers \intersect Cancellers = {}

VARIABLES
  kind,        \* "background" (returnImmediately), "inline", or "stream"
  state,       \* the row's state
  flags,       \* cancel keys: "a2a" for the task, "stream" for its session
  asked,       \* keys ask_user: and auth_request:
  pc,          \* where each actor stands
  seen,        \* the state in the ORM object each actor holds, or "none"
  changed      \* actors whose open transaction is older than the row

vars == <<kind, state, flags, asked, pc, seen, changed>>

Actors == {Runner} \union Resumers \union Cancellers
Workers == {Runner} \union Resumers

Suspended == {"INPUT_REQUIRED", "AUTH_REQUIRED"}
Terminal == {"COMPLETED", "FAILED", "CANCELED"}   \* nothing ever writes REJECTED
State == {"SUBMITTED", "WORKING"} \union Suspended \union Terminal

\* Points at which an actor has a transaction open across an await.
Open == {"context", "preflight", "agent", "flag", "write"}
Collected == {"collect", "toInput", "toAuth", "toComplete"}
Over == {"ended", "broken"}
PC == {"idle", "start", "begin", "recheck"} \union Open \union Collected \union Over

Kinds == {"background", "inline", "stream"}

Goto(a, there) == pc' = [pc EXCEPT ![a] = there]

\* create_task was committed; the runner is about to start.
Init ==
  /\ kind \in Kinds
  /\ state = "SUBMITTED"
  /\ flags = {} /\ asked = {}
  /\ pc = [a \in Actors |-> IF a # Runner THEN "idle"
                            ELSE IF kind = "background" THEN "start" ELSE "begin"]
  /\ seen = [a \in Actors |-> "none"]
  /\ changed = {}

\* a writes and commits the row.
Write(a, s) ==
  /\ state' = s
  /\ changed' = {x \in Actors \ {a} : pc[x] \in Open}

\* a rolls back, or had nothing to write.
Refused(a) == state' = state /\ changed' = changed \ {a}

\* A stream has flushed WORKING and not committed it: it holds the lock of the
\* row, and everybody else still reads SUBMITTED.
Locked == kind = "stream" /\ pc[Runner] \in {"preflight", "agent"}

\* A plausible bug: the guard asks for suspended states only.
OnlySuspendedRefused(s) == s \in Suspended

\* The guard of update_task_state.
Final(s) == s \in Terminal

\* The state get_task hands to an actor: the object it holds wins.
Believed(a) == IF seen[a] = "none" THEN state ELSE seen[a]

------------------------------------------------------------------------------
(* The runner, up to its agent.                                             *)

\* The first check of the background runner.
Start ==
  /\ pc[Runner] = "start"
  /\ IF "a2a" \in flags
     THEN /\ IF Final(state) THEN Refused(Runner) ELSE Write(Runner, "CANCELED")
          /\ Goto(Runner, "ended")
     ELSE Goto(Runner, "begin") /\ UNCHANGED <<state, changed>>
  /\ UNCHANGED <<kind, flags, asked, seen>>

\* To WORKING.  Refused, it raises; recording the failure is refused as well.
Begin ==
  /\ pc[Runner] = "begin"
  /\ IF Final(state)
     THEN Refused(Runner) /\ Goto(Runner, "ended")
     ELSE /\ IF kind = "stream" THEN UNCHANGED <<state, changed>> ELSE Write(Runner, "WORKING")
          /\ Goto(Runner, IF kind = "background" THEN "recheck" ELSE "preflight")
  /\ UNCHANGED <<kind, flags, asked, seen>>

Recheck ==
  /\ pc[Runner] = "recheck"
  /\ IF "a2a" \in flags
     THEN /\ IF Final(state) THEN Refused(Runner) ELSE Write(Runner, "CANCELED")
          /\ Goto(Runner, "ended")
     ELSE Goto(Runner, "preflight") /\ UNCHANGED <<state, changed>>
  /\ UNCHANGED <<kind, flags, asked, seen>>

------------------------------------------------------------------------------
(* The runner and the resumers.                                             *)

\* A plausible bug: the handler logs the exception and leaves the row alone.
FailureLogged(a) == FALSE

\* The "except" clause records FAILED, if the transaction it finds open still
\* can, and the state it believes in is not terminal.
FailureKept(a) == a \notin changed /\ ~Final(Believed(a))

RecordFailure(a) ==
  /\ IF FailureKept(a) THEN Write(a, "FAILED") ELSE Refused(a)
  /\ Goto(a, "ended")

\* A plausible bug: only finished tasks are turned away.
UnfinishedResumable == state \notin Terminal

Resumable == state \in Suspended

\* _resume_task reads a suspended task, and holds on to it.
Resume(r) ==
  /\ pc[r] = "idle"
  /\ Resumable
  /\ seen' = [seen EXCEPT ![r] = state]
  /\ Goto(r, "context")
  /\ UNCHANGED <<kind, state, flags, asked, changed>>

\* The context of the agent: after AUTH_REQUIRED a system message is committed,
\* and the history may be summarized, which commits too: a new snapshot.
Context(r) ==
  /\ pc[r] = "context"
  /\ Goto(r, "preflight")
  /\ \/ changed' = changed \ {r}
     \/ seen[r] # "AUTH_REQUIRED" /\ UNCHANGED changed
  /\ UNCHANGED <<kind, state, flags, asked, seen>>

\* A plausible bug: the check is left to the streaming runner.
NotPolled == FALSE

CancelSeen == "stream" \in flags

\* run_agent checks the session's flag once, before the agent is started.
PreflightStops(a) ==
  /\ pc[a] = "preflight"
  /\ CancelSeen
  /\ flags' = flags \ {"stream"}
  /\ RecordFailure(a)
  /\ UNCHANGED <<kind, asked, seen>>

PreflightPasses(a) ==
  /\ pc[a] = "preflight"
  /\ ~CancelSeen
  /\ Goto(a, "agent")
  /\ UNCHANGED <<kind, state, flags, asked, seen, changed>>

\* The agent answers, having called ask_user, request_auth, both or neither,
\* and its messages are committed: those of a stream with its WORKING.
AgentAnswers(a) ==
  /\ pc[a] = "agent"
  /\ \E tools \in SUBSET {"input", "auth"} : asked' = asked \union tools
  /\ IF a = Runner /\ Locked THEN Write(a, "WORKING") ELSE Refused(a)
  /\ Goto(a, "collect")
  /\ UNCHANGED <<kind, flags, seen>>

AgentFails(a) ==
  /\ pc[a] = "agent"
  /\ \E tools \in SUBSET {"input", "auth"} : asked' = asked \union tools
  /\ RecordFailure(a)
  /\ UNCHANGED <<kind, flags, seen>>

\* get_a2a_question, then get_a2a_auth_request.
Collect(a) ==
  /\ pc[a] = "collect"
  /\ Goto(a, IF "input" \in asked THEN "toInput"
             ELSE IF "auth" \in asked THEN "toAuth" ELSE "toComplete")
  /\ UNCHANGED <<kind, state, flags, asked, seen, changed>>

\* The key is cleared, then the row suspended.  An ORM object whose state is
\* set to what it already is leaves the column out of its UPDATE.
Suspend(a, key, s) ==
  /\ asked' = asked \ {key}
  /\ IF Final(Believed(a)) THEN Refused(a)
     ELSE IF Believed(a) = s THEN Write(a, state) ELSE Write(a, s)
  /\ Goto(a, "ended")
  /\ UNCHANGED <<kind, flags, seen>>

ToInput(a) == pc[a] = "toInput" /\ Suspend(a, "input", "INPUT_REQUIRED")
ToAuth(a) == pc[a] = "toAuth" /\ Suspend(a, "auth", "AUTH_REQUIRED")

\* A plausible bug: the object is used as it was read when the task resumed.
NotRefreshed(a) == Believed(a)

\* add_artifact flushes and refreshes the object, held or not.
Refreshed(a) == state

\* add_artifact and update_task_state, in one transaction.
Complete(a) ==
  /\ pc[a] = "toComplete"
  /\ IF Final(Refreshed(a)) THEN Refused(a) ELSE Write(a, "COMPLETED")
  /\ Goto(a, "ended")
  /\ UNCHANGED <<kind, flags, asked, seen>>

\* An error of Redis between the agent's answer and the last write.
Stumble(a) ==
  /\ pc[a] \in Collected
  /\ RecordFailure(a)
  /\ UNCHANGED <<kind, flags, asked, seen>>

Work(a) ==
  \/ Context(a)
  \/ PreflightStops(a) \/ PreflightPasses(a) \/ AgentAnswers(a) \/ AgentFails(a)
  \/ Collect(a) \/ ToInput(a) \/ ToAuth(a) \/ Complete(a)

------------------------------------------------------------------------------
(* The cancel requests.                                                     *)

CancelRead(c) ==
  /\ pc[c] = "idle"
  /\ ~Final(state)
  /\ seen' = [seen EXCEPT ![c] = state]
  /\ Goto(c, "flag")
  /\ UNCHANGED <<kind, state, flags, asked, changed>>

\* A plausible bug: only the key of the task is written.
TaskKeyOnly == {"a2a"}

CancelKeys == {"a2a", "stream"}

SetFlags(c) ==
  /\ pc[c] = "flag"
  /\ flags' = flags \union CancelKeys
  /\ Goto(c, "write")
  /\ UNCHANGED <<kind, state, asked, seen, changed>>

\* update_task_state waits for the lock of the row.
CancelWrite(c) ==
  /\ pc[c] = "write" /\ ~Locked
  /\ IF c \in changed THEN Refused(c) ELSE Write(c, "CANCELED")
  /\ Goto(c, "ended")
  /\ UNCHANGED <<kind, flags, asked, seen>>

\* The lock is held longer than the database lets anyone wait.
LockTimeout(c) ==
  /\ pc[c] = "write" /\ Locked
  /\ changed' = changed \ {c}
  /\ Goto(c, "ended")
  /\ UNCHANGED <<kind, state, flags, asked, seen>>

Cancel(c) == SetFlags(c) \/ CancelWrite(c) \/ LockTimeout(c)

------------------------------------------------------------------------------

\* The keys live for A2A_TASK_CANCEL_TTL_SECONDS: longer than a cancel request
\* takes to write the row, and than a runner takes to reach its agent.
FlagsExpire ==
  /\ flags # {}
  /\ pc[Runner] \notin {"start", "begin", "recheck", "preflight"}
  /\ \A c \in Cancellers : pc[c] # "write"
  /\ flags' = {}
  /\ UNCHANGED <<kind, state, asked, pc, seen, changed>>

\* The process stops, the database fails the write of the failure too, or the
\* client of a stream is gone, whose handler catches no cancellation.
Break(a) ==
  /\ pc[a] \notin Over \union {"idle"}
  /\ changed' = changed \ {a}
  /\ Goto(a, "broken")
  /\ UNCHANGED <<kind, state, flags, asked, seen>>

Next ==
  \/ Start \/ Begin \/ Recheck
  \/ \E a \in Workers : Work(a) \/ Stumble(a)
  \/ \E r \in Resumers : Resume(r)
  \/ \E c \in Cancellers : CancelRead(c) \/ Cancel(c)
  \/ FlagsExpire
  \/ \E a \in Actors : Break(a)

\* What was begun goes on: the agent has a budget and timeouts.  Requests,
\* failures and expiries are not promised.
Fairness ==
  /\ WF_vars(Start) /\ WF_vars(Begin) /\ WF_vars(Recheck)
  /\ \A a \in Workers : WF_vars(Work(a))
  /\ \A c \in Cancellers : WF_vars(Cancel(c))

Spec == Init /\ [][Next]_vars /\ Fairness

------------------------------------------------------------------------------
(* Properties.                                                              *)

\* Beside the types: a resumer holds a suspended task, the runner holds none,
\* and only actors with an open transaction are behind the row.
TypeOK ==
  /\ kind \in Kinds
  /\ state \in State
  /\ flags \subseteq {"a2a", "stream"} /\ asked \subseteq {"input", "auth"}
  /\ pc \in [Actors -> PC]
  /\ seen \in [Actors -> (State \ Terminal) \union {"none"}]
  /\ \A r \in Resumers : seen[r] \in Suspended \union {"none"}
  /\ seen[Runner] = "none"
  /\ changed \subseteq {a \in Actors : pc[a] \in Open}

\* An answer never replaces the outcome of a task: whoever completes it, and
\* however old the object it holds, the task was not completed, failed or
\* canceled by another.
AnswersOnce ==
  [][state' = "COMPLETED" => state \notin Terminal \/ state = "COMPLETED"]_vars

\* The agent of a task that was canceled before it was started does not start:
\* the flag is there before the row is CANCELED.
CanceledNeverStarts ==
  [][(state = "CANCELED" /\ pc[Runner] = "preflight") => pc'[Runner] # "agent"]_vars

\* A cancel that reaches the runner before its agent does takes effect, even
\* when the request's own write is refused because the runner has just moved
\* the task on: the task ends CANCELED or FAILED, never with an answer.
EarlyCancelHeeded ==
  ("stream" \in flags /\ pc[Runner] \in {"start", "begin", "recheck", "preflight"})
    ~> (state \in {"CANCELED", "FAILED"} \/ pc[Runner] = "broken")

\* A submitted task does not stay SUBMITTED or WORKING for ever, unless its
\* runner could not write any more, or its stream was left (nothing looks for
\* such tasks at a restart).
Settles ==
  state \in {"SUBMITTED", "WORKING"}
    ~> (state \notin {"SUBMITTED", "WORKING"} \/ pc[Runner] = "broken")

\* The service says "terminal states cannot be changed".
TerminalIsFinal == [][(state \in Terminal) => state' = state]_vars
==============================================================================
