------------------------------ MODULE AgentTurn ------------------------------
(***************************************************************************)
(* One streamed turn of an agent: the generator that turns the updates of  *)
(* the framework into events and keeps the budgets of the turn, the        *)
(* sub-agents that its delegate tools run, the multiplexer of the two, and *)
(* the loop that folds the events into the message it stores               *)
(* (agents/runner.py, agents/subagent_bus.py, agents/subagent_events.py,   *)
(* tools/subagent.py; the reader of the loop is api/chat.py).              *)
(*                                                                         *)
(* The framework is external: it answers in deltas, calls tools in batches *)
(* and reports the results of a batch in one update, or it ends.  The      *)
(* generator is suspended at each event it yields; nobody else sees its    *)
(* counters, so that it handles an update in one step, and its events wait *)
(* in the outbox.  A delta is a unit of text; all calls of a tool have the *)
(* same arguments.                                                         *)
(***************************************************************************)
EXTENDS SequencesExt, Integers

CONSTANTS
  MaxSteps,     \* budget.max_steps
  MaxInput,     \* budget.max_input_tokens; 0: no such budget
  Usage,        \* the input tokens that a report of the provider counts
  Repeats,      \* AGENT_LOOP_REPEAT_THRESHOLD
  MaxRounds,    \* SUBAGENT_MAX_STEPS
  MaxDeltas,    \* bound: updates without results
  MaxCalls      \* bound: tool calls

ASSUME AgentTurnAssumption ==
  /\ MaxSteps \in Nat \ {0} /\ MaxInput \in Nat /\ Usage \in Nat \ {0}
  /\ Repeats \in Nat \ {0}
  /\ MaxRounds \in Nat \ {0} /\ MaxDeltas \in Nat /\ MaxCalls \in Nat

VARIABLES
  work,      \* what the framework is at
  deltas,    \* updates without results so far
  calls,     \* the tool calls, in order
  run,       \* the counters of the generator
  outbox,    \* the events that it is about to yield
  ourBus,    \* whose bus is registered: that of the turn, of another run, none
  queue,     \* the queue of the bus of the turn
  hand,      \* where the loop is
  ending,    \* how it ended
  acc,       \* what it has accumulated
  folded,    \* subagent_state: the events folded, by call
  shown,     \* the events it has yielded, those of sub-agents aside
  message    \* the message stored at the end, if any

agentVars ==
  <<work, deltas, calls, run, outbox, ourBus, queue, hand, ending, acc, folded, shown, message>>

framework == <<work, deltas, calls, run, outbox>>
loop == <<hand, ending, acc, folded, shown, message>>

Call == 1 .. MaxCalls
Tools == {"delegate", "other"}
Stops == {"step_limit", "input_budget", "loop"}
Budgets == {"steps", "input_tokens"}

ChildKinds == {"start", "step", "complete", "error"}
Final == {"complete", "error"}

ToolCall ==
  [tool: Tools,
   batch: 1 .. MaxCalls,
   pc: {"called", "running", "done"},
   bus: {"none", "ours", "other"},   \* the bus that the child has found
   sent: Seq(ChildKinds),            \* history: the events of the child
   timedOut: BOOLEAN]                \* history: the tool was abandoned

\* An event, or a part of a message; size counts the deltas of a part, sub is
\* the payload of a delegate's result.
Sse(kind, c) == [kind |-> kind, call |-> c]
Part(kind, c, size) == [kind |-> kind, call |-> c, size |-> size, sub |-> <<>>]

TextKinds == {"token", "wrapup"}
ToolKinds == {"tool_start", "tool_result"}
EventKinds ==
  {"reasoning", "step_complete", "loop_detected", "message_complete", "failed"}
    \union TextKinds \union ToolKinds
    \union {"warned_steps", "warned_input_tokens", "exceeded_steps", "exceeded_input_tokens"}

AgentInit ==
  /\ work = "answering" /\ deltas = 0 /\ calls = <<>>
  /\ run = [steps |-> 0, spent |-> 0, warned |-> {}, recent |-> <<>>, stop |-> "none"]
  /\ outbox = <<>>
  /\ ourBus = "ours" /\ queue = <<>>
  /\ hand = "waiting" /\ ending = "none"
  /\ acc = [text |-> 0, open |-> 0, parts |-> <<>>]
  /\ folded = [c \in Call |-> <<>>]
  /\ shown = <<>>
  /\ message = [state |-> "none", text |-> 0, parts |-> <<>>]

------------------------------------------------------------------------------
(* The generator, _run_agent_stream.                                        *)

\* max(1, ceil(limit * 0.6)).
WarnAt(limit) == (3 * limit + 4) \div 5

\* A batch is one step.
StepsOf(n) == IF n = 0 THEN 0 ELSE 1

\* The counters after an update with results of these tools, or with usage.
Tally(tools, usage) ==
  [run EXCEPT !.steps = @ + StepsOf(Len(tools)),
              !.spent = @ + usage,
              !.recent = @ \o tools]

Warns(limit, used, budget, r) == budget \notin r.warned /\ used >= WarnAt(limit)

StepWarns(tools, r) == tools # <<>> /\ Warns(MaxSteps, r.steps, "steps", r)
StepStops(tools, r) == tools # <<>> /\ r.steps >= MaxSteps

\* A budget of 0 tokens is none.
InputWarns(r) == MaxInput > 0 /\ Warns(MaxInput, r.spent, "input_tokens", r)

\* A plausible bug: the input budget is looked at when tools have run, only.
InputStopsLate(tools, r) == tools # <<>> /\ MaxInput > 0 /\ r.spent >= MaxInput

InputStops(tools, r) == MaxInput > 0 /\ r.spent >= MaxInput

Loops(r) ==
  LET n == Len(r.recent) IN
    n >= Repeats /\ \A i \in n - Repeats + 1 .. n : r.recent[i] = r.recent[n]

\* Each check may end the turn, and keeps the later ones from being made.
StopReason(tools, r) ==
  CASE StepStops(tools, r) -> "step_limit"
    [] ~StepStops(tools, r) /\ InputStops(tools, r) -> "input_budget"
    [] ~StepStops(tools, r) /\ ~InputStops(tools, r) /\ Loops(r) -> "loop"
    [] OTHER -> "none"

When(condition, kind) == IF condition THEN <<Sse(kind, 0)>> ELSE <<>>

\* The checks, in their order.
ChecksSay(tools, r) ==
  LET why == StopReason(tools, r) IN
    When(StepWarns(tools, r), "warned_steps")
      \o When(why = "step_limit", "exceeded_steps")
      \o When(why # "step_limit" /\ InputWarns(r), "warned_input_tokens")
      \o When(why = "input_budget", "exceeded_input_tokens")
      \o When(why = "loop", "loop_detected")

Wrapup(why) == When(why # "none", "wrapup")

\* The events of an update, the checks after it, and the words of a turn that
\* they end.
Handle(tools, usage, events) ==
  LET r == Tally(tools, usage)
      why == StopReason(tools, r)
      warned == {b \in Budgets : \/ b = "steps" /\ StepWarns(tools, r)
                                 \/ b = "input_tokens" /\ why # "step_limit" /\ InputWarns(r)}
  IN /\ run' = [r EXCEPT !.warned = @ \union warned, !.stop = why]
     /\ outbox' = events \o ChecksSay(tools, r) \o Wrapup(why)
     /\ work' = IF why = "none" THEN "answering" ELSE "over"

\* The multiplexer has asked the generator for an event, and it has none left.
Asked == hand \in {"waiting", "child"} /\ outbox = <<>>

Answer(kind, usage) ==
  /\ Asked /\ work = "answering"
  /\ deltas < MaxDeltas
  /\ usage > 0 <=> kind = "usage"
  /\ deltas' = deltas + 1
  /\ Handle(<<>>, usage, When(kind # "usage", kind))
  /\ UNCHANGED <<calls, ourBus, queue, loop>>

LastBatch == IF calls = <<>> THEN 0 ELSE calls[Len(calls)].batch
Running == {c \in DOMAIN calls : work = "calling" /\ calls[c].batch = LastBatch}

CallTools(tools) ==
  /\ Asked /\ work = "answering"
  /\ Len(calls) + Len(tools) <= MaxCalls
  /\ calls' = calls \o [i \in DOMAIN tools |->
                 [tool |-> tools[i], batch |-> LastBatch + 1, bus |-> "none", sent |-> <<>>,
                  pc |-> IF tools[i] = "delegate" THEN "called" ELSE "done",
                  timedOut |-> FALSE]]
  /\ work' = "calling"
  /\ UNCHANGED <<deltas, run, outbox, ourBus, queue, loop>>

\* One pair of events for each result, and one step for the batch.
ResultEvents(first, n) ==
  [i \in 1 .. 2 * n |->
     Sse(IF i % 2 = 1 THEN "tool_start" ELSE "tool_result", first + (i - 1) \div 2)]

Results ==
  /\ Asked /\ work = "calling"
  /\ \A c \in Running : calls[c].pc = "done"
  /\ LET n == Cardinality(Running)
         first == Len(calls) - n + 1
         tools == [i \in 1 .. n |-> calls[first + i - 1].tool]
     IN Handle(tools, 0, ResultEvents(first, n) \o <<Sse("step_complete", 0)>>)
  /\ UNCHANGED <<deltas, calls, ourBus, queue, loop>>

\* The stream is exhausted, it raises, or it is idle for too long; in the last
\* case the tools at work are cancelled.  The generator says nothing of it.
FrameworkEnds ==
  /\ Asked /\ work # "over"
  /\ work' = "over"
  /\ UNCHANGED <<deltas, calls, run, outbox, ourBus, queue, loop>>

------------------------------------------------------------------------------
(* A sub-agent.  It says what it does on the bus it has found when it was   *)
(* called, before its tool returns.                                         *)

Child(c, state) ==
  /\ hand \in {"waiting", "child"}
  /\ c \in Running
  /\ calls[c].tool = "delegate" /\ calls[c].pc = state

\* _emit: an event on the bus of another run is lost to this turn.
Emit(c, to, kind, then) ==
  /\ calls' = [calls EXCEPT ![c].bus = to, ![c].sent = Append(@, kind), ![c].pc = then]
  /\ queue' = IF to = "ours" THEN Append(queue, [call |-> c, kind |-> kind]) ELSE queue
  /\ UNCHANGED <<work, deltas, run, outbox, ourBus, loop>>

\* Its model is found, or it is not.
ChildStarts(c) ==
  /\ Child(c, "called")
  /\ Emit(c, ourBus, "start", "running") \/ Emit(c, ourBus, "error", "done")

Rounds(c) == Cardinality({i \in DOMAIN calls[c].sent : calls[c].sent[i] = "step"})

ChildWorks(c) ==
  /\ Child(c, "running")
  /\ Rounds(c) < MaxRounds
  /\ Emit(c, calls[c].bus, "step", "running")

\* It is done; or it is cancelled, out of time or rounds, or it has failed.
ChildEnds(c) ==
  /\ Child(c, "running")
  /\ \/ Rounds(c) < MaxRounds /\ Emit(c, calls[c].bus, "complete", "done")
     \/ Emit(c, calls[c].bus, "error", "done")

\* The wrapper of the tool gives up: the child is cancelled and cannot say so.
ChildTimesOut(c) ==
  /\ Child(c, "called") \/ Child(c, "running")
  /\ calls' = [calls EXCEPT ![c].pc = "done", ![c].timedOut = TRUE]
  /\ UNCHANGED <<work, deltas, run, outbox, ourBus, queue, loop>>

\* Another run of the session registers its bus, or removes what is registered;
\* it matters to the calls that have yet to look for theirs.
BusTaken ==
  /\ \E c \in DOMAIN calls : Child(c, "called")
  /\ \E to \in {"other", "none"} : ourBus' = to
  /\ UNCHANGED <<framework, queue, loop>>

------------------------------------------------------------------------------
(* The loop of run_agent_stream over _multiplex_with_subagents.             *)

\* What these events say of a call.
SaidOf(c, events) ==
  FlattenSeq([i \in DOMAIN events |-> IF events[i].call = c THEN <<events[i].kind>> ELSE <<>>])

\* A sub-agent's event goes to the record of its call.
FoldAll(events, state) == [c \in Call |-> state[c] \o SaidOf(c, events)]

\* Results without a payload get a copy of the record of their call, if any.
Attach(parts, state) ==
  [i \in DOMAIN parts |->
     IF parts[i].kind = "tool_result" /\ parts[i].sub = <<>>
       THEN [parts[i] EXCEPT !.sub = state[parts[i].call]]
       ELSE parts[i]]

\* Open reasoning becomes a part.
Flush(a) == IF a.open = 0 THEN a.parts ELSE Append(a.parts, Part("reasoning", 0, a.open))

\* A tool's event closes the open reasoning.
ToolPart(a, e) == [a EXCEPT !.open = 0, !.parts = Append(Flush(a), Part(e.kind, e.call, 0))]

Accumulate(a, e) ==
  CASE e.kind \in TextKinds -> [a EXCEPT !.text = @ + 1]
    [] e.kind = "reasoning" -> [a EXCEPT !.open = @ + 1]
    [] e.kind \in ToolKinds -> ToolPart(a, e)
    [] OTHER -> a

\* A plausible bug: whichever comes first.
AnyOrder == TRUE

\* An event of the bus goes before one of the generator: FIRST_COMPLETED, and
\* when both are there, the bus's.
BusFirst == queue = <<>>

\* The event that the multiplexer's own task has taken off the bus, while it
\* waits for the generator or hands on an event of it, is not in the queue.
Drained == IF queue = <<>> THEN <<>> ELSE Tail(queue)

PassChild ==
  /\ hand = "waiting"
  /\ queue # <<>>
  /\ folded' = FoldAll(<<Head(queue)>>, folded)
  /\ queue' = Tail(queue)
  /\ hand' = "child"
  /\ UNCHANGED <<framework, ourBus, ending, acc, shown, message>>

ParentReady == hand = "waiting" /\ outbox # <<>> /\ BusFirst

EndAs(how) == hand' = "ending" /\ ending' = how

\* A plausible bug: the loop folds an event after it has yielded it.
EventBefore(e) == IF shown = <<>> THEN Sse("step_complete", 0) ELSE shown[Len(shown)]

EventFolded(e) == e

\* At a tool's result the bus is drained before the payload is attached.
PassParent ==
  /\ ParentReady
  /\ LET e == Head(outbox)
         result == e.kind = "tool_result"
         now == Accumulate(acc, EventFolded(e))
         heard == IF result THEN FoldAll(Drained, folded) ELSE folded
     IN /\ folded' = heard
        /\ acc' = IF result THEN [now EXCEPT !.parts = Attach(@, heard)] ELSE now
        /\ queue' = IF result /\ queue # <<>> THEN <<Head(queue)>> ELSE queue
        /\ shown' = Append(shown, e)
  /\ outbox' = Tail(outbox)
  /\ hand' = "parent"
  /\ UNCHANGED <<work, deltas, calls, run, ourBus, ending, message>>

\* The user has stopped the session, and the loop finds the cancel key: the
\* event is kept and not shown.
PassCancelled ==
  /\ ParentReady
  /\ acc' = Accumulate(acc, Head(outbox))
  /\ outbox' = Tail(outbox)
  /\ EndAs("cancelled")
  /\ UNCHANGED <<work, deltas, calls, run, ourBus, queue, folded, shown, message>>

\* Redis fails when the loop looks for the key: the event is lost.
CheckFails ==
  /\ ParentReady
  /\ outbox' = Tail(outbox)
  /\ shown' = Append(shown, Sse("failed", 0))
  /\ EndAs("failed")
  /\ UNCHANGED <<work, deltas, calls, run, ourBus, queue, acc, folded, message>>

\* The generator is exhausted; what is left on the bus is handed on.
StreamEnds ==
  /\ hand = "waiting"
  /\ work = "over" /\ outbox = <<>>
  /\ BusFirst
  /\ folded' = FoldAll(Drained, folded)
  /\ queue' = <<>>
  /\ EndAs("finished")
  /\ UNCHANGED <<framework, ourBus, acc, shown, message>>

\* The background task has put the event into its bridge, and asks for the next.
AskNext ==
  /\ hand \in {"child", "parent"}
  /\ hand' = "waiting"
  /\ UNCHANGED <<framework, ourBus, queue, ending, acc, folded, shown, message>>

\* The background task finds the cancel key and leaves the loop to be closed, it
\* is cancelled, or it fails.  An event that the multiplexer's own task has
\* taken off the bus is lost.
LoopClosed ==
  /\ hand \in {"waiting", "child", "parent"}
  /\ EndAs("closed")
  /\ \/ UNCHANGED queue
     \/ hand # "child" /\ queue' = Drained
  /\ UNCHANGED <<framework, ourBus, acc, folded, shown, message>>

\* A turn that ended by itself, or by the cancel key, says that it is complete,
\* whether or not it was stored.
Completes == ending \in {"finished", "cancelled"}

\* The finally clause: the bus is drained and removed and the message stored,
\* which may fail unnoticed.
Persist ==
  /\ hand = "ending"
  /\ LET heard == FoldAll(queue, folded)
         parts == Flush([acc EXCEPT !.parts = Attach(@, heard)])
         some == acc.text > 0 \/ parts # <<>>
     IN /\ folded' = heard
        /\ \/ some /\ message' = [state |-> "stored", text |-> acc.text, parts |-> parts]
           \/ some /\ message' = [message EXCEPT !.state = "failed"]
           \/ ~some /\ UNCHANGED message
        /\ shown' = shown \o When(some /\ Completes, "message_complete")
  /\ queue' = <<>>
  /\ ourBus' = "none"
  /\ hand' = "over"
  /\ UNCHANGED <<framework, ending, acc>>

AgentNext ==
  \/ Answer("token", 0) \/ Answer("reasoning", 0) \/ Answer("usage", Usage)
  \/ \E tools \in {<<x>> : x \in Tools} \union Tools \X Tools : CallTools(tools)
  \/ Results \/ FrameworkEnds
  \/ \E c \in Call : ChildStarts(c) \/ ChildWorks(c) \/ ChildEnds(c) \/ ChildTimesOut(c)
  \/ BusTaken
  \/ PassChild \/ PassParent \/ PassCancelled \/ CheckFails \/ StreamEnds \/ AskNext
  \/ LoopClosed \/ Persist

AgentSpec == AgentInit /\ [][AgentNext]_agentVars

------------------------------------------------------------------------------
AgentTypeOK ==
  /\ work \in {"answering", "calling", "over"}
  /\ deltas \in 0 .. MaxDeltas
  /\ Len(calls) <= MaxCalls
  /\ \A c \in DOMAIN calls : calls[c] \in ToolCall
  /\ run.steps \in Nat /\ run.spent \in Nat /\ run.warned \subseteq Budgets
  /\ run.stop \in Stops \union {"none"}
  /\ \A i \in DOMAIN outbox : outbox[i] \in [kind: EventKinds, call: Call \union {0}]
  /\ \A i \in DOMAIN queue : queue[i] \in [call: Call, kind: ChildKinds]
  /\ ourBus \in {"ours", "other", "none"}
  /\ hand \in {"waiting", "child", "parent", "ending", "over"}
  /\ ending \in {"none", "finished", "cancelled", "failed", "closed"}
  /\ message.state \in {"none", "stored", "failed"}

Settled == hand = "over" /\ message.state = "stored"

ShownOf(kinds) ==
  FlattenSeq([i \in DOMAIN shown |-> IF shown[i].kind \in kinds THEN <<shown[i]>> ELSE <<>>])

\* The events that a part of a message stands for.
EventsOf(part) ==
  IF part.kind = "reasoning" THEN [i \in 1 .. part.size |-> Sse("reasoning", 0)]
                             ELSE <<Sse(part.kind, part.call)>>

\* What the reader was shown is what is stored, in its order: the text, the
\* reasoning and the tools, whichever way the turn ended; at most the one event
\* at which it was cancelled is stored and was not shown.  Only a failure to
\* store the message loses any of it.
ShownIsKept ==
  Settled =>
    LET parts == ShownOf({"reasoning"} \union ToolKinds)
        stored == FlattenSeq([i \in DOMAIN message.parts |-> EventsOf(message.parts[i])])
        texts == Len(ShownOf(TextKinds))
    IN /\ IsPrefix(parts, stored)
       /\ texts <= message.text
       /\ Len(stored) + message.text <= Len(parts) + texts + 1

\* The result of a delegate is stored with all that its sub-agent has said, to
\* the end: none of its events is still on its way when the result is passed.
\* The exceptions: its bus was that of another run, and it was abandoned.
SubagentsWhole ==
  Settled =>
    \A i \in DOMAIN message.parts :
      LET part == message.parts[i] IN
        part.kind = "tool_result" /\ calls[part.call].tool = "delegate" =>
          LET child == calls[part.call] IN
            /\ part.sub = IF child.bus = "ours" THEN child.sent ELSE <<>>
            /\ part.sub = <<>> \/ child.timedOut \/ part.sub[Len(part.sub)] \in Final

At(kind) == {i \in DOMAIN shown : shown[i].kind = kind}
Said(kind) == At(kind) # {}

\* The batches whose results the reader was shown.
Batches == {calls[shown[i].call].batch : i \in At("tool_result")}

\* A turn that nobody ended early takes no more batches of tools than its budget
\* has steps, and stops when one of its budgets is used up, not before: after
\* one warning for that budget, and with a conclusion as its last words.
LimitsAreSaid ==
  hand = "over" /\ ending = "finished" =>
    /\ Cardinality(Batches) <= MaxSteps
    /\ Said("exceeded_steps") <=> Cardinality(Batches) = MaxSteps
    /\ Said("exceeded_input_tokens") <=> MaxInput > 0 /\ run.spent >= MaxInput
    /\ \A b \in {<<"warned_steps", "exceeded_steps">>,
                <<"warned_input_tokens", "exceeded_input_tokens">>} :
         \A i \in At(b[2]) : Cardinality(At(b[1])) = 1 /\ \A j \in At(b[1]) : j < i
    /\ Said("exceeded_steps") \/ Said("exceeded_input_tokens") \/ Said("loop_detected") =>
         /\ shown[Len(shown)].kind = "message_complete"
         /\ shown[Len(shown) - 1].kind = "wrapup"

\* The framework is asked for no more when a budget is used up: the checks come
\* after every update, and whatever one of them skips another one stops.
WithinBudget ==
  /\ run.steps <= MaxSteps
  /\ work # "over" =>
       /\ run.steps < MaxSteps
       /\ MaxInput > 0 => run.spent < MaxInput
==============================================================================
