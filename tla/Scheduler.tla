----------------------------- MODULE Scheduler -----------------------------
(***************************************************************************)
(* The scheduled tasks: their rows (services/scheduled_task_service.py),   *)
(* the polling loop and the wrappers it spawns (main.py), the executor     *)
(* (services/scheduler_executor.py) and the requests of their owners       *)
(* (api/scheduled_tasks.py).                                               *)
(*                                                                         *)
(* A request reads its task and writes it in one short transaction, which  *)
(* is one step.  The polling loop reads all due tasks first and then       *)
(* clears them one by one, each in a transaction of its own: requests come *)
(* in between.  Of the time of the next run the model keeps whether there  *)
(* is one and whether it has come.                                         *)
(***************************************************************************)
EXTENDS Integers, FiniteSets

CONSTANTS
  Tasks,       \* the scheduled tasks
  MaxDue,      \* bound of the model: times a task becomes due
  MaxRequests, \* bound of the model: requests of the owners
  MaxCrashes   \* bound of the model: times the process stops

ASSUME SchedulerAssumption ==
  MaxDue \in Nat /\ MaxRequests \in Nat /\ MaxCrashes \in Nat

VARIABLES
  state,       \* the state of each task
  next,        \* its next_run_at
  parses,      \* its cron expression and timezone yield a next run
  batch,       \* due tasks the poll has read and not yet cleared
  outdated,    \* those changed since, while the poll's snapshot stands
  wrappers,    \* number of wrappers spawned for each task, still at work
  dueCount,    \* history: times each task became due
  spawned,     \* history: wrappers ever spawned for it
  requests,    \* requests made
  crashes      \* times the process stopped

rows == <<state, next, parses>>
bounded == <<requests, crashes>>
vars == <<rows, batch, outdated, wrappers, dueCount, spawned, bounded>>

State == {"ACTIVE", "PAUSED", "DELETED"}

\* _compute_next_run.
Computed(ok) == IF ok THEN "later" ELSE "none"

\* create_scheduled_task, for every task.
Init ==
  /\ state = [t \in Tasks |-> "ACTIVE"]
  /\ parses \in [Tasks -> BOOLEAN]
  /\ next = [t \in Tasks |-> Computed(parses[t])]
  /\ batch = {} /\ outdated = {}
  /\ wrappers = [t \in Tasks |-> 0]
  /\ dueCount = [t \in Tasks |-> 0]
  /\ spawned = [t \in Tasks |-> 0]
  /\ requests = 0 /\ crashes = 0

Put(t, s, n) ==
  /\ state' = [state EXCEPT ![t] = s]
  /\ next' = [next EXCEPT ![t] = n]

\* Time passes.
BecomeDue(t) ==
  /\ next[t] = "later"
  /\ dueCount[t] < MaxDue
  /\ next' = [next EXCEPT ![t] = "due"]
  /\ dueCount' = [dueCount EXCEPT ![t] = @ + 1]
  /\ UNCHANGED <<state, parses, batch, outdated, wrappers, spawned, bounded>>

------------------------------------------------------------------------------
(* The polling loop and its wrappers.                                       *)

\* A plausible bug: only tasks that never ran are looked for.
DueFirstTime == {t \in Tasks : state[t] = "ACTIVE" /\ next[t] = "due" /\ spawned[t] = 0}

Due == {t \in Tasks : state[t] = "ACTIVE" /\ next[t] = "due"}

\* get_due_tasks.
Poll ==
  /\ batch = {}
  /\ Due # {}
  /\ batch' = Due
  /\ outdated' = {}
  /\ UNCHANGED <<rows, wrappers, dueCount, spawned, bounded>>

\* A plausible bug: next_run_at is left to the executor.
NextKept(t) == next[t]

NextCleared(t) == "none"

\* One turn of the loop: next_run_at is cleared, in whatever state the row is
\* by now, and a wrapper is spawned.  The first commit ends the snapshot.
Claim(t) ==
  /\ t \in batch \ outdated
  /\ next' = [next EXCEPT ![t] = NextCleared(t)]
  /\ batch' = batch \ {t}
  /\ outdated' = {}
  /\ wrappers' = [wrappers EXCEPT ![t] = @ + 1]
  /\ spawned' = [spawned EXCEPT ![t] = @ + 1]
  /\ UNCHANGED <<state, parses, dueCount, bounded>>

\* The first task of the batch was changed since it was read: the UPDATE
\* fails, and the poll is given up.
GiveUp ==
  /\ batch \intersect outdated # {}
  /\ batch' = {} /\ outdated' = {}
  /\ UNCHANGED <<rows, wrappers, dueCount, spawned, bounded>>

Finish(t) ==
  /\ wrappers[t] > 0
  /\ wrappers' = [wrappers EXCEPT ![t] = @ - 1]
  /\ UNCHANGED <<rows, batch, outdated, dueCount, spawned, bounded>>

\* The wrapper's own check.
Skip(t) == state[t] # "ACTIVE" /\ Finish(t)

\* execute_scheduled_task: ScheduledTask has no STATE_FAILED, so the line
\* before its "try" raises, and the wrapper logs.  No run is recorded, and
\* nothing computes the next one.
Execute(t) == state[t] = "ACTIVE" /\ Finish(t)

------------------------------------------------------------------------------
(* Requests.                                                                *)

\* A task's row is written by its owner.
Owner(t) ==
  /\ requests < MaxRequests
  /\ requests' = requests + 1
  /\ outdated' = outdated \union ({t} \intersect batch)
  /\ UNCHANGED <<batch, wrappers, dueCount, spawned, crashes>>

Pause(t) ==
  /\ state[t] # "DELETED"
  /\ Put(t, "PAUSED", "none")
  /\ UNCHANGED parses
  /\ Owner(t)

Resume(t) ==
  /\ state[t] # "DELETED"
  /\ Put(t, "ACTIVE", Computed(parses[t]))
  /\ UNCHANGED parses
  /\ Owner(t)

\* PATCH: any state, which leaves next_run_at alone, and a new schedule, which
\* computes it whatever the state.
Update(t) ==
  /\ state[t] # "DELETED"
  /\ \E s \in State :
       \/ Put(t, s, next[t]) /\ UNCHANGED parses
       \/ \E ok \in BOOLEAN :
            Put(t, s, Computed(ok)) /\ parses' = [parses EXCEPT ![t] = ok]
  /\ Owner(t)

Delete(t) ==
  /\ Put(t, "DELETED", "none")
  /\ UNCHANGED parses
  /\ Owner(t)

Crash ==
  /\ crashes < MaxCrashes
  /\ crashes' = crashes + 1
  /\ batch' = {} /\ outdated' = {}
  /\ wrappers' = [t \in Tasks |-> 0]
  /\ UNCHANGED <<rows, dueCount, spawned, requests>>

Scheduled(t) == Claim(t) \/ Skip(t) \/ Execute(t)

Next ==
  \/ Poll \/ GiveUp
  \/ \E t \in Tasks :
       \/ BecomeDue(t) \/ Scheduled(t)
       \/ Pause(t) \/ Resume(t) \/ Update(t) \/ Delete(t)
  \/ Crash

\* The loop polls every SCHEDULER_POLL_INTERVAL_SECONDS, and goes through its
\* batch; a spawned wrapper runs.
Fairness ==
  /\ WF_vars(Poll) /\ WF_vars(GiveUp)
  /\ \A t \in Tasks : WF_vars(Claim(t)) /\ WF_vars(Skip(t) \/ Execute(t))

Spec == Init /\ [][Next]_vars /\ Fairness

------------------------------------------------------------------------------
(* Properties.                                                              *)

\* Beside the types: a task whose schedule yields no run has no next run.
TypeOK ==
  /\ state \in [Tasks -> State]
  /\ next \in [Tasks -> {"none", "later", "due"}]
  /\ parses \in [Tasks -> BOOLEAN]
  /\ \A t \in Tasks : next[t] # "none" => parses[t]
  /\ outdated \subseteq batch /\ batch \subseteq Tasks
  /\ dueCount \in [Tasks -> 0..MaxDue]
  /\ spawned \in [Tasks -> Nat]
  /\ \A t \in Tasks : wrappers[t] \in 0..spawned[t]
  /\ requests \in 0..MaxRequests /\ crashes \in 0..MaxCrashes

\* The dedup guard: however polls, requests and stops interleave, a task is
\* executed at most once for each time it becomes due.
OncePerDueTime == \A t \in Tasks : spawned[t] <= dueCount[t]

\* A due task does not wait for ever, however often its owners made the loop
\* give up a batch: it is taken up, or its owner paused or rescheduled it.
DueIsTaken ==
  \A t \in Tasks :
    (state[t] = "ACTIVE" /\ next[t] = "due") ~> (state[t] # "ACTIVE" \/ next[t] # "due")

\* The guide says of an ACTIVE task that it "will execute at its scheduled
\* time": a due task whose schedule is sound is scheduled again, or it is no
\* longer active or sound.
Recurs ==
  \A t \in Tasks :
    (state[t] = "ACTIVE" /\ next[t] = "due" /\ parses[t])
      ~> (state[t] # "ACTIVE" \/ next[t] = "later" \/ ~parses[t])
==============================================================================
