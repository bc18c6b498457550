------------------------------ MODULE Workflow -------------------------------
(***************************************************************************)
(* The durable runs of a workflow in one chat session: the executors that  *)
(* carry the outputs of the steps (agents/workflows/executors.py), the     *)
(* rows of the checkpoint table (agents/workflows/checkpoint_storage.py),  *)
(* the resume of the latest open one (api/chat.py and services/            *)
(* workflow_resume_service.py), the edit of the definition and the         *)
(* retention sweep.                                                        *)
(*                                                                         *)
(* The steps are a chain; a superstep runs one of them and then saves a    *)
(* checkpoint.  Every message starts a run and every resume continues the  *)
(* run of the checkpoint it finds: both are attempts here, and nothing     *)
(* keeps two of them from being at work together.  What the framework does *)
(* between the calls of this code is external.                             *)
(***************************************************************************)
EXTENDS Integers, FiniteSets

CONSTANTS
  Steps,        \* number of steps of the chain
  Attempts,     \* bound: messages and resumes, numbered as they start
  Topologies,   \* graph signatures of the definition
  Ttl,          \* WORKFLOW_CHECKPOINT_TTL_SECONDS
  MaxTime,      \* bound of the clock
  MaxEdits      \* bound: edits of the topology

ASSUME WorkflowAssumption ==
  /\ Steps \in Nat \ {0} /\ Attempts \in Nat
  /\ Ttl \in Nat \ {0} /\ MaxTime \in Nat /\ MaxEdits \in Nat

VARIABLES
  now,      \* the clock of the database, in whole seconds
  topo,     \* the signature of the stored definition
  edits,    \* topology edits so far
  rows,     \* the checkpoints of the session
  att       \* the attempts

vars == <<now, topo, edits, rows, att>>

Attempt == 1 .. Attempts
Step == 1 .. Steps
Never == -1       \* expires_at is NULL
NoTarget == <<0, 0>>

\* One row of workflow_checkpoints.  "next" is the step whose message is
\* pending, "ask" the attempt that asked for an approval (0: none).
Row ==
  [by: Attempt, count: Nat, run: Attempt, topo: Topologies, at: Nat,
   next: 1 .. Steps + 1, ask: 0 .. Attempts, snap: SUBSET Step, depth: Nat,
   completed: BOOLEAN, expires: Int]

Working == {"working", "saving"}
PC == {"idle", "validated"} \union Working \union {"finishing", "marked", "done", "ended"}

\* An attempt: the memory of the request or background task, and its history.
AttemptState ==
  [pc: PC,
   topo: Topologies,             \* the definition it loaded
   target: Nat \X Nat,           \* the checkpoint it resumes: by and count
   first: 1 .. Steps + 1,        \* where it began
   base: SUBSET Step,            \* the outputs it was seeded with
   step: 1 .. Steps + 1,
   shared: SUBSET Step,          \* the outputs that its steps can read
   ask: 0 .. Attempts,           \* the request it is paused on
   count: Nat,                   \* iteration_count
   depth: Nat,                   \* resumes since a run of step 1
   run: 0 .. Attempts,           \* history: the message it serves
   answer: 0 .. Attempts,        \* the request it has an answer for; history
   kept: SUBSET Step,            \* history: steps it completed and saved
   saves: Nat,                   \* history: checkpoints it saved
   alone: BOOLEAN]               \* history: no other attempt of the run was at work

Fresh ==
  [pc |-> "idle", run |-> 0, topo |-> topo, target |-> NoTarget, answer |-> 0,
   first |-> 1, base |-> {}, step |-> 1, shared |-> {}, ask |-> 0, count |-> 0,
   kept |-> {}, saves |-> 0, depth |-> 0, alone |-> TRUE]

Init ==
  /\ now = 0
  /\ topo \in Topologies
  /\ edits = 0
  /\ rows = {}
  /\ att = [a \in Attempt |-> Fresh]

\* The attempt is over, and its memory gone.
Over(attempt, end) ==
  [Fresh EXCEPT !.pc = end, !.run = attempt.run, !.answer = attempt.answer,
                !.target = attempt.target, !.kept = attempt.kept, !.saves = attempt.saves,
                !.alone = attempt.alone]

NextIdle(a) == att[a].pc = "idle" /\ \A b \in Attempt : b < a => att[b].pc # "idle"
Id(row) == <<row.by, row.count>>
Resumes(a) == att[a].target # NoTarget
TargetRows(a) == {row \in rows : Id(row) = att[a].target}

------------------------------------------------------------------------------
(* Which checkpoint a resume takes.                                         *)

Open == {row \in rows : ~row.completed}

\* A plausible bug: the tie of whole seconds is not broken.
NewerSecond(x, y) == x.at > y.at

\* created_at, then iteration_count; the id that decides a tie is random.
Newer(x, y) == x.at > y.at \/ (x.at = y.at /\ x.count > y.count)

\* latest_resumable_checkpoint.
Latest == {row \in Open : \A other \in Open : ~Newer(other, row)}

------------------------------------------------------------------------------
(* Attempts.                                                                *)

AtWork(r) == {b \in Attempt : att[b].run = r /\ att[b].pc \in Working}

\* _run_workflow_stream: a message starts the chain at its first step.
Send(a) ==
  /\ NextIdle(a)
  /\ att' = [att EXCEPT ![a] = [Fresh EXCEPT !.pc = "working", !.run = a]]
  /\ UNCHANGED <<now, topo, edits, rows>>

\* resume_workflow: the checkpoint is found and checked, and the responses are
\* built from its pending requests; without approvals there are none.
Resume(a) ==
  /\ NextIdle(a)
  /\ \E row \in Latest :
       /\ row.topo = topo
       /\ \E answer \in {0, row.ask} :
            att' = [att EXCEPT ![a] = [Fresh EXCEPT !.pc = "validated", !.answer = answer]]
  /\ UNCHANGED <<now, topo, edits, rows>>

\* An attempt restored from the checkpoint.
Restored(attempt, row, where) ==
  [attempt EXCEPT !.pc = where, !.run = row.run, !.target = Id(row),
     !.first = row.next, !.step = row.next, !.base = row.snap, !.shared = row.snap,
     !.count = row.count, !.ask = IF attempt.answer = 0 THEN row.ask ELSE 0,
     !.depth = row.depth + 1]

\* It begins there, with others of its run or without.
Begun(a, row, where) ==
  LET others == AtWork(row.run) IN
  [b \in Attempt |->
     IF b = a THEN [Restored(att[a], row, where) EXCEPT !.alone = (others = {})]
     ELSE IF b \in others THEN [att[b] EXCEPT !.alone = FALSE] ELSE att[b]]

\* resume_workflow_with_responses finds the checkpoint again: it need not be
\* the one the responses were built from.
Locate(a) ==
  /\ att[a].pc = "validated"
  /\ \E row \in Latest :
       /\ row.topo = att[a].topo
       /\ LET where == IF att[a].answer \notin {0, row.ask} THEN "finishing"
                       ELSE IF att[a].answer = 0 /\ (row.ask # 0 \/ row.next > Steps)
                            THEN "saving" ELSE "working"
          IN att' = Begun(a, row, where)
  /\ UNCHANGED <<now, topo, edits, rows>>

\* There is none any more, or the topology was edited.
LocateFails(a) ==
  /\ att[a].pc = "validated"
  /\ \/ Latest = {}
     \/ \E row \in Latest : row.topo # att[a].topo
  /\ att' = [att EXCEPT ![a] = Over(@, "ended")]
  /\ UNCHANGED <<now, topo, edits, rows>>

------------------------------------------------------------------------------
(* Steps.                                                                   *)

\* When its stream ends with the outcome "completed", a resume goes on to mark
\* its target; a run that was sent leaves its checkpoints as they are.
Streamed(a, next) == IF Resumes(a) THEN [next EXCEPT !.pc = "finishing"] ELSE Over(next, "ended")

\* A plausible bug: the output is stored under the step that follows.
StoredNext(a) == att[a].shared \union {att[a].step + 1}

\* StepAgent.run stores the output in the dict that the steps share; a step
\* that pauses ends its stream as well, so that its partial text is stored.
Stored(a) == att[a].shared \union {att[a].step}

StepCompletes(a) ==
  /\ att[a].pc = "working"
  /\ att' = [att EXCEPT ![a] =
       [att[a] EXCEPT !.shared = Stored(a), !.step = @ + 1, !.ask = 0, !.pc = "saving"]]
  /\ UNCHANGED <<now, topo, edits, rows>>

StepAsks(a) ==
  /\ att[a].pc = "working"
  /\ att' = [att EXCEPT ![a] = [@ EXCEPT !.shared = Stored(a), !.ask = a, !.pc = "saving"]]
  /\ UNCHANGED <<now, topo, edits, rows>>

\* The failed superstep saves nothing.  iter_workflow_sse turns the exception
\* into an error event, and still reports an outcome.
StepFails(a) ==
  /\ att[a].pc = "working"
  /\ att' = [att EXCEPT ![a] = Streamed(a, @)]
  /\ UNCHANGED <<now, topo, edits, rows>>

\* A plausible bug: the outputs are not written to the session of the step.
SnapshotUnsynced(a) == att[a].base

\* extract_state_snapshot takes the session of the first executor that has
\* outputs.  That of step 1 is the shared dict itself in the attempt that ran
\* it, and the restored copy in any other.
Snapshot(a) == IF att[a].first = 1 THEN att[a].shared ELSE att[a].base

Checkpoint(a) ==
  [by |-> a, count |-> att[a].count + 1, run |-> att[a].run, topo |-> att[a].topo,
   at |-> now, next |-> att[a].step, ask |-> att[a].ask, snap |-> Snapshot(a),
   depth |-> IF att[a].first = 1 THEN 0 ELSE att[a].depth, completed |-> FALSE, expires |-> Never]

\* A plausible bug: the end of the stream is taken for the end of the run.
AfterAnyEnd(a, next) ==
  IF next.ask # 0 \/ next.step > Steps THEN Streamed(a, next) ELSE [next EXCEPT !.pc = "working"]

\* After the superstep: a pause ends the stream, and so does the last step.
After(a, next) ==
  CASE next.ask # 0 -> Over(next, "ended")
    [] next.ask = 0 /\ next.step > Steps -> Streamed(a, next)
    [] OTHER -> [next EXCEPT !.pc = "working"]

\* The framework counts the superstep, saved or not.
Counted(a) == [att[a] EXCEPT !.count = @ + 1]
Saved(a) ==
  [Counted(a) EXCEPT !.saves = @ + 1, !.kept = att[a].first .. (att[a].step - 1)]

Save(a) ==
  /\ att[a].pc = "saving"
  /\ rows' = rows \union {Checkpoint(a)}
  /\ att' = [att EXCEPT ![a] = After(a, Saved(a))]
  /\ UNCHANGED <<now, topo, edits>>

\* A checkpoint that cannot be saved is logged, and the run goes on.
SaveFails(a) ==
  /\ att[a].pc = "saving"
  /\ att' = [att EXCEPT ![a] = After(a, Counted(a))]
  /\ UNCHANGED <<now, topo, edits, rows>>

------------------------------------------------------------------------------
(* The end of an attempt.                                                   *)

\* mark_checkpoint_state: the target, and only that one, is completed.
Mark(a) ==
  /\ att[a].pc = "finishing" /\ TargetRows(a) # {}
  /\ rows' = {IF row \in TargetRows(a) THEN [row EXCEPT !.completed = TRUE] ELSE row : row \in rows}
  /\ att' = [att EXCEPT ![a].pc = "marked"]
  /\ UNCHANGED <<now, topo, edits>>

\* NotFoundError: the sweep has deleted the row meanwhile.
MarkFails(a) ==
  /\ att[a].pc = "finishing" /\ TargetRows(a) = {}
  /\ att' = [att EXCEPT ![a] = Over(@, "ended")]
  /\ UNCHANGED <<now, topo, edits, rows>>

SetExpiry(a) ==
  /\ att[a].pc = "marked"
  /\ rows' = {IF row \in TargetRows(a) THEN [row EXCEPT !.expires = now + Ttl] ELSE row : row \in rows}
  /\ att' = [att EXCEPT ![a] = Over(@, "done")]
  /\ UNCHANGED <<now, topo, edits>>

\* The process dies, or the client that reads the resumed stream is gone.  One
\* that dies outside of its steps just does nothing more.
Stop(a) ==
  /\ att[a].pc \in Working
  /\ att' = [att EXCEPT ![a] = Over(@, "ended")]
  /\ UNCHANGED <<now, topo, edits, rows>>

------------------------------------------------------------------------------
(* The surroundings.                                                        *)

\* admin_update_workflow, confirmed.
Edit ==
  /\ edits < MaxEdits
  /\ topo' \in Topologies \ {topo}
  /\ edits' = edits + 1
  /\ UNCHANGED <<now, rows, att>>

Cutoff == now - Ttl

\* A plausible bug: every checkpoint without an expiry is stamped.
Unset == {row \in rows : row.expires = Never}

Old == {row \in rows : row.expires = Never /\ row.at < Cutoff}

\* enforce_checkpoint_retention: two transactions, between which anything may
\* happen, or the process die.
Stamp ==
  /\ Old # {}
  /\ rows' = {IF row \in Old THEN [row EXCEPT !.expires = Cutoff] ELSE row : row \in rows}
  /\ UNCHANGED <<now, topo, edits, att>>

Expired == {row \in rows : row.expires # Never /\ row.expires < now}

DeleteExpired ==
  /\ Expired # {}
  /\ rows' = rows \ Expired
  /\ UNCHANGED <<now, topo, edits, att>>

Tick ==
  /\ now < MaxTime
  /\ now' = now + 1
  /\ UNCHANGED <<topo, edits, rows, att>>

Next ==
  \/ \E a \in Attempt :
       \/ Send(a) \/ Resume(a) \/ Locate(a) \/ LocateFails(a)
       \/ StepCompletes(a) \/ StepAsks(a) \/ StepFails(a)
       \/ Save(a) \/ SaveFails(a)
       \/ Mark(a) \/ MarkFails(a) \/ SetExpiry(a) \/ Stop(a)
  \/ Edit \/ Stamp \/ DeleteExpired \/ Tick

Spec == Init /\ [][Next]_vars

------------------------------------------------------------------------------
(* Correctness.                                                             *)

\* Everything has its type.
TypeOK ==
  /\ now \in Nat
  /\ topo \in Topologies
  /\ edits \in Nat
  /\ rows \subseteq Row
  /\ att \in [Attempt -> AttemptState]

RunOf(r) == {b \in Attempt : att[b].run = r}

\* An attempt that completes its target without a checkpoint of its own leaves
\* the run with older ones only.
Barren(a) == att[a].saves = 0 /\ att[a].pc \in {"marked", "done"}

Sound(r) == \A b \in RunOf(r) : att[b].alone /\ ~Barren(b)

Executes(a) == att[a].pc = "working" /\ att'[a].pc = "saving"

\* "Resume does not redo completed steps": a step whose completion was saved is
\* not run again by an attempt of the run, as long as its attempts do not
\* overlap and no resume is marked completed without having saved anything.
NoStepRedone ==
  [][\A a \in Attempt :
       Executes(a) /\ Sound(att[a].run)
         => \A b \in RunOf(att[a].run) \ {a} : att[a].step \notin att[b].kept]_vars

\* The checkpoint of a paused run is not completed before its request has an
\* answer, unless the resume had found another checkpoint when it was checked
\* than the one it then took.
AskedIsAnswered ==
  \A row \in rows : row.completed /\ row.ask # 0 =>
    \E b \in Attempt :
      \/ att[b].answer = row.ask
      \/ att[b].target = Id(row) /\ att[b].answer \notin {0, row.ask}

\* "Every executed step carries the same snapshot": a step can read the output
\* of every step before it, in the run that was sent and in its first resume.
OutputsKept ==
  \A a \in Attempt :
    att[a].pc = "working" /\ att[a].depth <= 1 => 1 .. (att[a].step - 1) \subseteq att[a].shared

\* The sweep deletes what is older than the retention window, and of the open
\* checkpoints the oldest: it does not leave an older one behind to be resumed.
SweepTakesOldest ==
  [][\A row \in rows : (\A kept \in rows' : Id(kept) # Id(row)) =>
       /\ now - row.at > Ttl
       /\ \A kept \in Open' : ~row.completed => kept.at >= row.at]_vars
==============================================================================
