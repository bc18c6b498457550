--------------------------- MODULE AgentTurn_proofs --------------------------
(***************************************************************************)
(* One turn of an agent (AgentTurn), for any budgets and any numbers of    *)
(* updates and tools: its budgets and what it says of them, what it keeps  *)
(* of its sub-agents, and that it stores what it shows.                    *)
(***************************************************************************)
EXTENDS AgentTurn, WellFoundedInduction, FiniteSetTheorems, SequenceTheorems, TLAPS

------------------------------------------------------------------------------
(* The budgets of a turn.                                                   *)

Counters ==
  /\ run = [steps |-> run.steps, spent |-> run.spent, warned |-> run.warned,
            recent |-> run.recent, stop |-> run.stop]
  /\ run.steps \in Nat /\ run.spent \in Nat

BudgetInv == Counters /\ WithinBudget

\* The update that uses a budget up is the last one: what the checks that were
\* not made would have found, the one that was made makes up for.
LEMMA HandleWithinBudget ==
  ASSUME BudgetInv, work # "over", NEW tools, NEW usage \in Nat, NEW events,
         Handle(tools, usage, events)
  PROVE  BudgetInv'
<1> DEFINE steps == run.steps + StepsOf(Len(tools))
           spent == run.spent + usage
           r == Tally(tools, usage)
           why == StopReason(tools, r)
<1>1. /\ run.steps \in Nat /\ run.spent \in Nat
      /\ run.steps < MaxSteps /\ (MaxInput > 0 => run.spent < MaxInput)
  BY DEF BudgetInv, Counters, WithinBudget
<1>2. r = [steps |-> steps, spent |-> spent, warned |-> run.warned,
           recent |-> run.recent \o tools, stop |-> run.stop]
  <2>1. PICK s, p, w, l, e :
          run = [steps |-> s, spent |-> p, warned |-> w, recent |-> l, stop |-> e]
    BY Zenon DEF BudgetInv, Counters
  <2>2. run.steps = s /\ run.spent = p /\ run.warned = w /\ run.recent = l /\ run.stop = e
    BY <2>1
  <2> HIDE DEF steps, spent
  <2>3. r = [steps |-> steps, spent |-> spent, warned |-> w, recent |-> l \o tools, stop |-> e]
    <3>1. r = [run EXCEPT !.steps = steps, !.spent = spent, !.recent = l \o tools]
      BY <2>1, <2>2 DEF Tally, steps, spent
    <3> QED  BY <2>1, <3>1
  <2> QED  BY <2>2, <2>3
<1>3. steps \in Nat /\ spent \in Nat /\ steps <= MaxSteps
  BY <1>1, AgentTurnAssumption DEF StepsOf
<1>4. tools = <<>> => steps < MaxSteps
  BY <1>1 DEF StepsOf
<1>5. PICK w : run' = [r EXCEPT !.warned = @ \union w, !.stop = why]
  BY DEF Handle
<1> HIDE DEF why
<1>6. run' = [steps |-> steps, spent |-> spent, warned |-> run.warned \union w,
              recent |-> run.recent \o tools, stop |-> why]
  <2> HIDE DEF steps, spent, r
  <2> QED  BY <1>2, <1>5
<1>9. work' = IF why = "none" THEN "answering" ELSE "over"
  BY DEF Handle, why
<1>7. why = "none" => steps < MaxSteps /\ (MaxInput > 0 => spent < MaxInput)
  <2>1. why = "none" => ~StepStops(tools, r) /\ ~InputStops(tools, r)
    BY DEF StopReason, why
  <2>2. r.steps = steps /\ r.spent = spent
    BY <1>2
  <2> QED  BY <1>3, <1>4, <2>1, <2>2, AgentTurnAssumption DEF StepStops, InputStops
<1> HIDE DEF steps, spent, why
<1>8. Counters'
  BY <1>3, <1>6 DEF Counters
<1> QED
  BY <1>3, <1>6, <1>7, <1>8, <1>9 DEF BudgetInv, WithinBudget

LEMMA BudgetInitially == AgentInit => BudgetInv
  BY AgentTurnAssumption DEF AgentInit, BudgetInv, Counters, WithinBudget

LEMMA BudgetStep == BudgetInv /\ [AgentNext]_agentVars => BudgetInv'
<1> SUFFICES ASSUME BudgetInv, [AgentNext]_agentVars PROVE BudgetInv'
  OBVIOUS
<1> USE DEF framework, loop
<1>0. ASSUME UNCHANGED run, work' = work \/ work' = "over" \/ work # "over"
      PROVE BudgetInv'
  BY <1>0 DEF BudgetInv, Counters, WithinBudget
<1>1. ASSUME NEW kind, NEW usage \in Nat, Answer(kind, usage) PROVE BudgetInv'
  BY <1>1, HandleWithinBudget DEF Answer
<1>2. ASSUME Results PROVE BudgetInv'
  BY <1>2, HandleWithinBudget DEF Results
<1>3. ASSUME NEW tools, CallTools(tools) PROVE BudgetInv'
  BY <1>3, <1>0 DEF CallTools
<1>4. CASE FrameworkEnds
  BY <1>4, <1>0 DEF FrameworkEnds
<1>5. ASSUME NEW c \in Call, ChildStarts(c) \/ ChildWorks(c) \/ ChildEnds(c) \/ ChildTimesOut(c)
      PROVE BudgetInv'
  BY <1>5, <1>0 DEF ChildStarts, ChildWorks, ChildEnds, ChildTimesOut, Emit
<1>6. CASE BusTaken \/ PassChild \/ StreamEnds \/ AskNext \/ LoopClosed \/ Persist
  BY <1>6, <1>0 DEF BusTaken, PassChild, StreamEnds, AskNext, LoopClosed, Persist
<1>7. CASE PassParent \/ PassCancelled \/ CheckFails
  BY <1>7, <1>0 DEF PassParent, PassCancelled, CheckFails
<1>8. CASE UNCHANGED agentVars
  BY <1>8, <1>0 DEF agentVars
<1> QED
  BY <1>1, <1>2, <1>3, <1>4, <1>5, <1>6, <1>7, <1>8, AgentTurnAssumption DEF AgentNext

\* The generator asks the framework for nothing more once a budget is used up,
\* whatever the budgets, the usage that is reported and the batches of tools.
THEOREM BudgetsBind == AgentSpec => []WithinBudget
<1>1. BudgetInv => WithinBudget
  BY DEF BudgetInv
<1> QED
  BY BudgetInitially, BudgetStep, <1>1, PTL DEF AgentSpec

------------------------------------------------------------------------------
(* What a sequence of sequences is when it is put together.                 *)

\* A set of numbers has a least one.
LEMMA LeastOf == ASSUME NEW T \in SUBSET Nat, T # {} PROVE \E n \in T : \A k \in T : n <= k
<1>1. IsWellFoundedOn(OpToRel(<, Nat), Nat)
  BY NatLessThanWellFounded, Zenon
<1> DEFINE R == OpToRel(<, Nat)
<1>2. \A k, n \in Nat : k < n => <<k, n>> \in R
  BY DEF OpToRel
<1> HIDE DEF R
<1>3. PICK n \in T : \A k \in T : ~ (<<k, n>> \in R)
  BY <1>1, WFMin DEF R
<1>4. ASSUME NEW k \in T PROVE n <= k
  <2>1. k \in Nat /\ n \in Nat /\ ~ (<<k, n>> \in R)
    BY <1>3
  <2>2. ~ (k < n)
    BY <1>2, <2>1, Zenon
  <2> QED
    BY <2>1, <2>2
<1> QED
  BY <1>4

\* The first elements of s, put together.
Beginnings(T, s, n, x) ==
  /\ x \in [0 .. n -> Seq(T)] /\ x[0] = <<>>
  /\ \A i \in 1 .. n : x[i] = x[i - 1] \o s[i]

LEMMA BeginningsExist ==
  ASSUME NEW T, NEW s \in Seq(Seq(T))
  PROVE  \E x : Beginnings(T, s, Len(s), x)
<1> DEFINE Bad == {k \in 0 .. Len(s) : ~ \E x : Beginnings(T, s, k, x)}
<1>1. Len(s) \in Nat /\ \A i \in 1 .. Len(s) : s[i] \in Seq(T)
  OBVIOUS
<1>2. Bad = {}
  <2> SUFFICES ASSUME Bad # {} PROVE FALSE
    OBVIOUS
  <2>1. PICK k \in Bad : \A j \in Bad : k <= j
    <3>1. Bad \in SUBSET Nat
      BY <1>1
    <3> QED
      BY <3>1, LeastOf
  <2>2. CASE k = 0
    <3>1. Beginnings(T, s, 0, [i \in 0 .. 0 |-> <<>>])
      BY DEF Beginnings
    <3> QED
      BY <2>2, <3>1
  <2>3. CASE k # 0
    <3>1. k \in 1 .. Len(s) /\ k - 1 \in 0 .. Len(s) /\ ~(k <= k - 1)
      BY <1>1, <2>3
    <3>2. PICK x : Beginnings(T, s, k - 1, x)
      BY <2>1, <3>1
    <3> DEFINE longer == [i \in 0 .. k |-> IF i = k THEN x[k - 1] \o s[k] ELSE x[i]]
    <3>3. x[k - 1] \in Seq(T) /\ s[k] \in Seq(T)
      BY <1>1, <3>1, <3>2 DEF Beginnings
    <3>4. longer \in [0 .. k -> Seq(T)] /\ longer[0] = <<>>
      BY <1>1, <3>1, <3>2, <3>3 DEF Beginnings
    <3>5. ASSUME NEW i \in 1 .. k PROVE longer[i] = longer[i - 1] \o s[i]
      <4>1. i = k \/ i \in 1 .. k - 1
        BY <3>1
      <4>2. i \in 0 .. k /\ i - 1 \in 0 .. k /\ i - 1 # k
        BY <3>1
      <4>3. i # k => x[i] = x[i - 1] \o s[i]
        BY <3>2, <4>1 DEF Beginnings
      <4> QED
        BY <4>2, <4>3, Zenon
    <3> HIDE DEF longer
    <3>6. Beginnings(T, s, k, longer)
      BY <3>4, <3>5 DEF Beginnings
    <3> QED
      BY <3>6
  <2> QED
    BY <2>2, <2>3
<1> QED
  BY <1>1, <1>2

LEMMA FlattenIs ==
  ASSUME NEW T, NEW s \in Seq(Seq(T))
  PROVE  \E x : Beginnings(T, s, Len(s), x) /\ FlattenSeq(s) = x[Len(s)]
<1>1. Len(s) \in Nat /\ \A i \in 1 .. Len(s) : s[i] \in Seq(T)
  OBVIOUS
<1>2. PICK x : Beginnings(T, s, Len(s), x)
  BY BeginningsExist
<1>3. CASE Len(s) = 0
  <2>1. FlattenSeq(s) = <<>>
    BY <1>3 DEF FlattenSeq
  <2> QED
    BY <1>2, <1>3, <2>1 DEF Beginnings
<1>4. CASE Len(s) # 0
  <2> DEFINE Body(f) == [i \in 1 .. Len(s) |-> IF i = 1 THEN s[i] ELSE f[i - 1] \o s[i]]
             flatten == CHOOSE f : f = Body(f)
             some == [i \in 1 .. Len(s) |-> x[i]]
  <2>1. FlattenSeq(s) = flatten[Len(s)]
    BY <1>4 DEF FlattenSeq
  <2>2. some = Body(some)
    <3>1. ASSUME NEW i \in 1 .. Len(s)
          PROVE  some[i] = IF i = 1 THEN s[i] ELSE some[i - 1] \o s[i]
      <4>1. x[i] = x[i - 1] \o s[i] /\ x[0] = <<>> /\ s[i] \in Seq(T)
        BY <1>1, <1>2 DEF Beginnings
      <4>2. <<>> \o s[i] = s[i]
        BY <4>1, ConcatEmptySeq
      <4>3. i # 1 => i - 1 \in 1 .. Len(s)
        BY <1>1
      <4>4. i \in 1 .. Len(s) /\ (i = 1 => i - 1 = 0)
        OBVIOUS
      <4>5. CASE i = 1
        BY <4>1, <4>2, <4>4, <4>5, Zenon
      <4>6. CASE i # 1
        BY <4>1, <4>3, <4>6, Zenon
      <4> QED
        BY <4>5, <4>6
    <3> QED
      BY <3>1
  <2>3. flatten = Body(flatten)
    BY <2>2, Zenon
  <2> HIDE DEF flatten
  <2>4. \A i \in 1 .. Len(s) : flatten[i] = IF i = 1 THEN s[i] ELSE flatten[i - 1] \o s[i]
    <3> DEFINE next == Body(flatten)
    <3>1. \A i \in 1 .. Len(s) : next[i] = IF i = 1 THEN s[i] ELSE flatten[i - 1] \o s[i]
      OBVIOUS
    <3>2. flatten = next
      BY <2>3
    <3> HIDE DEF next
    <3> QED
      BY <3>1, <3>2, Zenon
  <2> DEFINE Bad == {k \in 1 .. Len(s) : flatten[k] # x[k]}
  <2>5. Bad = {}
    <3> SUFFICES ASSUME Bad # {} PROVE FALSE
      OBVIOUS
    <3>1. Bad \in SUBSET Nat
      BY <1>1
    <3>2. PICK k \in Bad : \A j \in Bad : k <= j
      BY <3>1, LeastOf
    <3>3. x[k] = x[k - 1] \o s[k] /\ x[0] = <<>> /\ s[k] \in Seq(T) /\ k \in 1 .. Len(s)
      BY <1>1, <1>2 DEF Beginnings
    <3>4. CASE k = 1
      <4>1. <<>> \o s[k] = s[k]
        BY <3>3, ConcatEmptySeq
      <4>2. k - 1 = 0 /\ flatten[k] = s[k]
        BY <2>4, <3>3, <3>4
      <4>3. x[k] = s[k]
        BY <3>3, <4>1, <4>2, Zenon
      <4>4. flatten[k] # x[k]
        BY <3>2, Zenon
      <4> QED
        BY <4>2, <4>3, <4>4, Zenon
    <3>5. CASE k # 1
      <4>1. k - 1 \in 1 .. Len(s) /\ ~(k <= k - 1)
        BY <1>1, <3>5
      <4>2. flatten[k - 1] = x[k - 1]
        BY <3>2, <4>1
      <4> QED
        BY <2>4, <3>3, <3>5, <4>2
    <3> QED
      BY <3>4, <3>5
  <2>6. Len(s) \in 1 .. Len(s)
    BY <1>1, <1>4
  <2> QED
    BY <1>2, <2>1, <2>5, <2>6
<1> QED
  BY <1>3, <1>4

LEMMA FlattenTyped ==
  ASSUME NEW T, NEW s \in Seq(Seq(T))
  PROVE  FlattenSeq(s) \in Seq(T)
<1>1. PICK x : Beginnings(T, s, Len(s), x) /\ FlattenSeq(s) = x[Len(s)]
  BY FlattenIs
<1>2. Len(s) \in 0 .. Len(s)
  OBVIOUS
<1> QED
  BY <1>1, <1>2 DEF Beginnings

LEMMA FlattenEmpty == FlattenSeq(<<>>) = <<>>
  BY DEF FlattenSeq

LEMMA FlattenConcat ==
  ASSUME NEW T, NEW s \in Seq(Seq(T)), NEW t \in Seq(Seq(T))
  PROVE  FlattenSeq(s \o t) = FlattenSeq(s) \o FlattenSeq(t)
<1>1. s \o t \in Seq(Seq(T))
  OBVIOUS
<1>2. PICK x : Beginnings(T, s, Len(s), x) /\ FlattenSeq(s) = x[Len(s)]
  BY FlattenIs
<1>3. PICK y : Beginnings(T, t, Len(t), y) /\ FlattenSeq(t) = y[Len(t)]
  BY FlattenIs
<1>4. PICK z : Beginnings(T, s \o t, Len(s \o t), z) /\ FlattenSeq(s \o t) = z[Len(s \o t)]
  BY <1>1, FlattenIs
<1>5. /\ Len(s) \in Nat /\ Len(t) \in Nat /\ Len(s \o t) = Len(s) + Len(t)
      /\ \A i \in 1 .. Len(t) : t[i] \in Seq(T)
  OBVIOUS
<1> DEFINE Bad == {k \in 0 .. Len(s) : z[k] # x[k]}
<1>6. Bad = {}
  <2> SUFFICES ASSUME Bad # {} PROVE FALSE
    OBVIOUS
  <2>1. Bad \in SUBSET Nat
    BY <1>5
  <2>2. PICK k \in Bad : \A j \in Bad : k <= j
    BY <2>1, LeastOf
  <2>3. k # 0
    BY <1>2, <1>4 DEF Beginnings
  <2>4. k \in 1 .. Len(s) /\ k \in 1 .. Len(s \o t) /\ k - 1 \in 0 .. Len(s) /\ ~(k <= k - 1)
    BY <1>5, <2>3
  <2>5. z[k - 1] = x[k - 1]
    BY <2>2, <2>4
  <2>6. (s \o t)[k] = s[k]
    BY <2>4
  <2> QED
    BY <1>2, <1>4, <2>4, <2>5, <2>6 DEF Beginnings
<1> DEFINE Wrong == {k \in 0 .. Len(t) : z[Len(s) + k] # x[Len(s)] \o y[k]}
<1>7. Wrong = {}
  <2> SUFFICES ASSUME Wrong # {} PROVE FALSE
    OBVIOUS
  <2>1. Wrong \in SUBSET Nat
    <3>1. Wrong \subseteq 0 .. Len(t)
      BY Zenon
    <3>2. 0 .. Len(t) \subseteq Nat
      BY <1>5
    <3> QED
      BY <3>1, <3>2, Zenon
  <2>2. PICK k \in Wrong : \A j \in Wrong : k <= j
    BY <2>1, LeastOf
  <2>3. z[Len(s)] = x[Len(s)] /\ x[Len(s)] \in Seq(T) /\ y[0] = <<>>
    <3>1. Len(s) \in 0 .. Len(s)
      BY <1>5
    <3>2. z[Len(s)] = x[Len(s)]
      BY <1>6, <3>1, Zenon
    <3> QED
      BY <1>2, <1>3, <3>1, <3>2 DEF Beginnings
  <2>4. k # 0
    <3>1. x[Len(s)] \o <<>> = x[Len(s)] /\ Len(s) + 0 = Len(s)
      BY <1>5, <2>3, ConcatEmptySeq
    <3> QED
      BY <2>3, <3>1
  <2>5. k \in 1 .. Len(t) /\ k - 1 \in 0 .. Len(t) /\ ~(k <= k - 1)
    <3>1. k \in 0 .. Len(t)
      BY Zenon
    <3> QED
      BY <1>5, <2>4, <3>1
  <2>6. z[Len(s) + (k - 1)] = x[Len(s)] \o y[k - 1]
    BY <2>2, <2>5
  <2>7. Len(s) + k \in 1 .. Len(s \o t) /\ (Len(s) + k) - 1 = Len(s) + (k - 1) /\ (s \o t)[Len(s) + k] = t[k]
    BY <1>5, <2>5
  <2>8. z[Len(s) + k] = (x[Len(s)] \o y[k - 1]) \o t[k]
    <3>1. z[Len(s) + k] = z[(Len(s) + k) - 1] \o (s \o t)[Len(s) + k]
      <4>1. \A i \in 1 .. Len(s \o t) : z[i] = z[i - 1] \o (s \o t)[i]
        BY <1>4, Zenon DEF Beginnings
      <4> DEFINE j == Len(s) + k
      <4>2. j \in 1 .. Len(s \o t)
        BY <2>7
      <4> HIDE DEF j
      <4>3. z[j] = z[j - 1] \o (s \o t)[j]
        BY <4>1, <4>2, Zenon
      <4> QED
        BY <4>3, Zenon DEF j
    <3> QED
      BY <2>6, <2>7, <3>1, Zenon
  <2>9. y[k - 1] \in Seq(T) /\ t[k] \in Seq(T) /\ y[k] = y[k - 1] \o t[k]
    BY <1>3, <1>5, <2>5 DEF Beginnings
  <2>10. (x[Len(s)] \o y[k - 1]) \o t[k] = x[Len(s)] \o (y[k - 1] \o t[k])
    <3> DEFINE a == x[Len(s)]
               b == y[k - 1]
               c == t[k]
    <3>1. a \in Seq(T) /\ b \in Seq(T) /\ c \in Seq(T)
      BY <2>3, <2>9
    <3> HIDE DEF a, b, c
    <3>2. (a \o b) \o c = a \o (b \o c)
      BY <3>1, ConcatAssociative
    <3> QED
      BY <3>2 DEF a, b, c
  <2> QED
    BY <2>8, <2>9, <2>10
<1>8. Len(t) \in 0 .. Len(t)
  BY <1>5
<1> QED
  BY <1>2, <1>3, <1>4, <1>5, <1>7, <1>8

LEMMA FlattenOne ==
  ASSUME NEW T, NEW s \in Seq(T)
  PROVE  FlattenSeq(<<s>>) = s
<1>1. <<s>> \in Seq(Seq(T)) /\ Len(<<s>>) = 1 /\ <<s>>[1] = s
  OBVIOUS
<1>2. PICK x : Beginnings(T, <<s>>, 1, x) /\ FlattenSeq(<<s>>) = x[1]
  BY <1>1, FlattenIs
<1>3. x[1] = <<>> \o s
  BY <1>1, <1>2 DEF Beginnings
<1> QED
  BY <1>2, <1>3

------------------------------------------------------------------------------
(* A turn of an agent: types.                                               *)

Event ==
  {e \in [kind: EventKinds, call: Call \union {0}] :
     IF e.kind \in ToolKinds THEN e.call \in Call ELSE e.call = 0}
Plain == {e \in Event : e.kind \notin ToolKinds}
BusEvent == [call: Call, kind: ChildKinds]
PartState ==
  {p \in [kind: {"reasoning"} \union ToolKinds, call: Call \union {0}, size: Nat,
          sub: Seq(ChildKinds)] :
     p.kind \in ToolKinds => p.call \in Call}
RunState ==
  [steps: Nat, spent: Nat, warned: SUBSET Budgets, recent: Seq(Tools), stop: Stops \union {"none"}]
AccState == [text: Nat, open: Nat, parts: Seq(PartState)]
MessageState == [state: {"none", "stored", "failed"}, text: Nat, parts: Seq(PartState)]

\* The counters of a sequence make it one.
AgentTyped ==
  /\ work \in {"answering", "calling", "over"} /\ deltas \in 0 .. MaxDeltas
  /\ calls \in Seq(ToolCall) /\ Len(calls) <= MaxCalls
  /\ run \in RunState /\ outbox \in Seq(Event) /\ queue \in Seq(BusEvent)
  /\ ourBus \in {"ours", "other", "none"}
  /\ hand \in {"waiting", "child", "parent", "ending", "over"}
  /\ ending \in {"none", "finished", "cancelled", "failed", "closed"}
  /\ acc \in AccState /\ folded \in [Call -> Seq(ChildKinds)]
  /\ shown \in Seq(Event) /\ message \in MessageState

\* The batches come in the order of the calls, each with a call at least.
Batched ==
  /\ \A c \in DOMAIN calls : calls[c].batch <= c
  /\ \A c, d \in DOMAIN calls : c <= d => calls[c].batch <= calls[d].batch

AgentIInv == AgentTyped /\ Batched

LEMMA AgentInitially == AgentInit => AgentIInv
<1> SUFFICES ASSUME AgentInit PROVE AgentIInv
  OBVIOUS
<1>1. /\ calls = <<>> /\ outbox = <<>> /\ queue = <<>> /\ shown = <<>>
      /\ work = "answering" /\ deltas = 0 /\ ourBus = "ours" /\ hand = "waiting" /\ ending = "none"
  BY DEF AgentInit
<1>2. run \in RunState
  BY DEF AgentInit, RunState
<1>3. acc \in AccState
  BY DEF AgentInit, AccState
<1>4. message \in MessageState
  BY DEF AgentInit, MessageState
<1>5. folded \in [Call -> Seq(ChildKinds)]
  BY DEF AgentInit
<1> QED
  BY <1>1, <1>2, <1>3, <1>4, <1>5, AgentTurnAssumption DEF AgentIInv, AgentTyped, Batched

\* A call, for a number of one, is one that was made.
LEMMA CallIs ==
  ASSUME AgentTyped, NEW c \in DOMAIN calls
  PROVE  /\ c \in Call /\ c \in 1 .. Len(calls) /\ Len(calls) \in Nat /\ calls[c] \in ToolCall
         /\ MaxCalls \in Nat
<1>1. DOMAIN calls = 1 .. Len(calls) /\ Len(calls) \in Nat /\ Len(calls) <= MaxCalls /\ MaxCalls \in Nat
  BY AgentTurnAssumption DEF AgentTyped
<1>2. calls[c] \in ToolCall
  BY <1>1 DEF AgentTyped
<1> QED
  BY <1>1, <1>2 DEF Call

LEMMA PlainTyped == ASSUME NEW s \in Seq(Plain) PROVE s \in Seq(Event)
  BY DEF Plain

LEMMA WhenTyped ==
  ASSUME NEW condition \in BOOLEAN, NEW kind \in EventKinds \ ToolKinds
  PROVE  When(condition, kind) \in Seq(Plain) /\ When(condition, kind) \in Seq(Event)
<1>1. Sse(kind, 0) \in Plain
  BY DEF Sse, Event, Plain
<1>2. <<Sse(kind, 0)>> \in Seq(Plain) /\ <<>> \in Seq(Plain)
  BY <1>1
<1>3. When(condition, kind) \in Seq(Plain)
  BY <1>2 DEF When
<1> QED
  BY <1>3, PlainTyped

\* The calls of the last batch are the last ones.
LEMMA RunningIs ==
  ASSUME AgentIInv, work = "calling"
  PROVE  \E k \in Nat \ {0} :
           /\ k <= Len(calls) + 1 /\ Running = k .. Len(calls)
           /\ Cardinality(Running) = Len(calls) + 1 - k
<1>1. DOMAIN calls = 1 .. Len(calls) /\ Len(calls) \in Nat /\ Len(calls) <= MaxCalls
  BY DEF AgentIInv, AgentTyped
<1>2. Running = {c \in 1 .. Len(calls) : calls[c].batch = LastBatch}
  BY <1>1 DEF Running
<1>3. CASE Running = {}
  <2>1. Running = Len(calls) + 1 .. Len(calls) /\ Len(calls) + 1 \in Nat \ {0}
    BY <1>1, <1>3
  <2>2. Cardinality(Running) = 0
    BY <1>3, FS_EmptySet
  <2> QED
    BY <1>1, <2>1, <2>2
<1>4. CASE Running # {}
  <2>1. Running \in SUBSET Nat
    BY <1>1, <1>2
  <2>2. PICK k \in Running : \A c \in Running : k <= c
    BY <1>4, <2>1, LeastOf
  <2>3. k \in 1 .. Len(calls) /\ calls[k].batch = LastBatch /\ calls # <<>>
    BY <1>1, <1>2
  <2>4. LastBatch = calls[Len(calls)].batch
    BY <2>3 DEF LastBatch
  <2>5. \A c \in 1 .. Len(calls) : calls[c].batch \in Nat
    <3> SUFFICES ASSUME NEW c \in 1 .. Len(calls) PROVE calls[c].batch \in Nat
      OBVIOUS
    <3>1. calls[c] \in ToolCall
      BY <1>1, CallIs DEF AgentIInv
    <3> QED
      BY <3>1, AgentTurnAssumption DEF ToolCall
  <2>6. ASSUME NEW c \in k .. Len(calls) PROVE c \in Running
    <3>1. c \in 1 .. Len(calls) /\ k <= c /\ c <= Len(calls) /\ Len(calls) \in 1 .. Len(calls)
      BY <1>1, <2>3
    <3>2. calls[k].batch <= calls[c].batch /\ calls[c].batch <= calls[Len(calls)].batch
      BY <1>1, <2>3, <3>1 DEF AgentIInv, Batched
    <3>3. calls[c].batch = LastBatch
      BY <2>3, <2>4, <2>5, <3>1, <3>2
    <3> QED
      BY <1>2, <3>1, <3>3
  <2>7. ASSUME NEW c \in Running PROVE c \in k .. Len(calls)
    <3>1. k <= c /\ c \in 1 .. Len(calls) /\ k \in 1 .. Len(calls)
      BY <1>2, <2>2, <2>3, <2>7
    <3> QED
      BY <1>1, <3>1
  <2>8. Running = k .. Len(calls)
    BY <2>6, <2>7
  <2>9. Cardinality(k .. Len(calls)) = Len(calls) + 1 - k
    <3>1. k \in Int /\ Len(calls) \in Int /\ ~(k > Len(calls))
      BY <1>1, <2>3
    <3>2. Cardinality(k .. Len(calls)) = Len(calls) - k + 1
      BY <3>1, FS_Interval
    <3> QED
      BY <3>1, <3>2
  <2> QED
    BY <1>1, <2>3, <2>8, <2>9
<1> QED
  BY <1>3, <1>4

LEMMA TallyTyped ==
  ASSUME AgentTyped, NEW tools \in Seq(Tools), NEW usage \in Nat
  PROVE  /\ Tally(tools, usage) \in RunState
         /\ Tally(tools, usage).steps = run.steps + StepsOf(Len(tools))
         /\ Tally(tools, usage).spent = run.spent + usage
         /\ Tally(tools, usage).warned = run.warned
<1>1. run \in RunState
  BY DEF AgentTyped
<1>2. run.steps + StepsOf(Len(tools)) \in Nat /\ run.spent + usage \in Nat
  BY <1>1 DEF RunState, StepsOf
<1>3. run.recent \o tools \in Seq(Tools)
  BY <1>1 DEF RunState
<1> QED
  BY <1>1, <1>2, <1>3 DEF Tally, RunState

LEMMA StopTyped == ASSUME NEW tools, NEW r PROVE StopReason(tools, r) \in Stops \union {"none"}
  BY DEF StopReason, Stops

LEMMA SaysTyped ==
  ASSUME NEW tools \in Seq(Tools), NEW r \in RunState
  PROVE  ChecksSay(tools, r) \o Wrapup(StopReason(tools, r)) \in Seq(Plain)
<1> DEFINE why == StopReason(tools, r)
<1>1. \A kind \in EventKinds \ ToolKinds : \A condition \in BOOLEAN : When(condition, kind) \in Seq(Plain)
  BY WhenTyped
<1>2. {"warned_steps", "exceeded_steps", "warned_input_tokens", "exceeded_input_tokens",
       "loop_detected", "wrapup"} \subseteq EventKinds \ ToolKinds
  BY DEF EventKinds, TextKinds, ToolKinds
<1>3. StepWarns(tools, r) \in BOOLEAN /\ (why # "step_limit" /\ InputWarns(r)) \in BOOLEAN
  BY DEF StepWarns
<1> HIDE DEF why
<1>4. /\ When(StepWarns(tools, r), "warned_steps") \in Seq(Plain)
      /\ When(why = "step_limit", "exceeded_steps") \in Seq(Plain)
      /\ When(why # "step_limit" /\ InputWarns(r), "warned_input_tokens") \in Seq(Plain)
      /\ When(why = "input_budget", "exceeded_input_tokens") \in Seq(Plain)
      /\ When(why = "loop", "loop_detected") \in Seq(Plain)
      /\ When(why # "none", "wrapup") \in Seq(Plain)
  BY <1>1, <1>2, <1>3, Zenon
<1> QED
  BY <1>4, Zenon, ConcatProperties DEF ChecksSay, Wrapup, why

\* The counters, and what is added to the events of an update.
LEMMA HandleTyped ==
  ASSUME AgentTyped, NEW tools \in Seq(Tools), NEW usage \in Nat, NEW events \in Seq(Event),
         Handle(tools, usage, events)
  PROVE  /\ run' \in RunState /\ work' \in {"answering", "over"} /\ outbox' \in Seq(Event)
         /\ \E says \in Seq(Plain) : outbox' = events \o says
<1> DEFINE r == Tally(tools, usage)
           why == StopReason(tools, r)
           warned == {b \in Budgets : \/ b = "steps" /\ StepWarns(tools, r)
                                      \/ b = "input_tokens" /\ why # "step_limit" /\ InputWarns(r)}
           says == ChecksSay(tools, r) \o Wrapup(why)
<1>1. r \in RunState /\ why \in Stops \union {"none"}
  BY TallyTyped, StopTyped
<1>2. run' = [r EXCEPT !.warned = @ \union warned, !.stop = why]
  BY DEF Handle
<1>3. outbox' = events \o says
  BY DEF Handle
<1>4. says \in Seq(Plain) /\ says \in Seq(Event)
  BY <1>1, SaysTyped, PlainTyped
<1>5. work' \in {"answering", "over"}
  BY DEF Handle
<1>6. warned \subseteq Budgets
  OBVIOUS
<1> HIDE DEF r, why, warned, says
<1>7. run' \in RunState
  BY <1>1, <1>2, <1>6 DEF RunState
<1>8. outbox' \in Seq(Event)
  BY <1>3, <1>4
<1> QED
  BY <1>3, <1>4, <1>5, <1>7, <1>8

\* The results of the last calls, in their order.
LEMMA ResultsAre ==
  ASSUME AgentIInv, Results
  PROVE  \E k \in Nat \ {0} :
           LET n == Len(calls) + 1 - k
               tools == [i \in 1 .. n |-> calls[k + i - 1].tool]
               events == ResultEvents(k, n) \o <<Sse("step_complete", 0)>>
           IN /\ k <= Len(calls) + 1 /\ Running = k .. Len(calls) /\ n \in Nat
              /\ tools \in Seq(Tools) /\ Len(tools) = n
              /\ ResultEvents(k, n) \in Seq(Event) /\ events \in Seq(Event)
              /\ \A i \in 1 .. 2 * n : ResultEvents(k, n)[i].call \in Running
              /\ \A c \in Running : ResultEvents(k, n)[2 * (c - k) + 2] = Sse("tool_result", c)
              /\ Len(ResultEvents(k, n)) = 2 * n
              /\ Handle(tools, 0, events)
<1>1. work = "calling"
  BY DEF Results
<1>2. PICK k \in Nat \ {0} :
        /\ k <= Len(calls) + 1 /\ Running = k .. Len(calls)
        /\ Cardinality(Running) = Len(calls) + 1 - k
  BY <1>1, RunningIs
<1> DEFINE n == Len(calls) + 1 - k
           tools == [i \in 1 .. n |-> calls[k + i - 1].tool]
           results == ResultEvents(k, n)
           events == results \o <<Sse("step_complete", 0)>>
<1>3. Len(calls) \in Nat /\ Len(calls) <= MaxCalls /\ n \in Nat /\ Len(calls) - n + 1 = k
  BY <1>2 DEF AgentIInv, AgentTyped
<1>4. Handle(tools, 0, events)
  <2> DEFINE m == Cardinality(Running)
             first == Len(calls) - m + 1
  <2>1. Handle([i \in 1 .. m |-> calls[first + i - 1].tool], 0,
               ResultEvents(first, m) \o <<Sse("step_complete", 0)>>)
    BY Zenon DEF Results
  <2>2. m = n /\ first = k
    BY <1>2, <1>3
  <2> HIDE DEF m, first, n
  <2> QED
    BY <2>1, <2>2
<1>5. ASSUME NEW i \in 1 .. n PROVE calls[k + i - 1].tool \in Tools
  <2>1. k + i - 1 \in 1 .. Len(calls)
    BY <1>2, <1>3
  <2>2. calls[k + i - 1] \in ToolCall
    BY <2>1 DEF AgentIInv, AgentTyped
  <2> QED
    BY <2>2 DEF ToolCall
<1>6. tools \in Seq(Tools) /\ Len(tools) = n
  <2>1. tools \in [1 .. n -> Tools] /\ n \in Nat
    BY <1>3, <1>5
  <2> HIDE DEF tools, n
  <2> QED
    BY <2>1
<1>7. ASSUME NEW i \in 1 .. 2 * n
      PROVE  k + (i - 1) \div 2 \in k .. Len(calls)
  BY <1>2, <1>3
<1>8. /\ results = [i \in 1 .. 2 * n |->
           Sse(IF i % 2 = 1 THEN "tool_start" ELSE "tool_result", k + (i - 1) \div 2)]
      /\ \A i \in 1 .. 2 * n : results[i].call = k + (i - 1) \div 2
  BY DEF ResultEvents, Sse
<1>9. ASSUME NEW i \in 1 .. 2 * n
      PROVE Sse(IF i % 2 = 1 THEN "tool_start" ELSE "tool_result", k + (i - 1) \div 2) \in Event
  <2>1. k + (i - 1) \div 2 \in Call
    BY <1>2, <1>3, <1>7, AgentTurnAssumption DEF Call
  <2> DEFINE kind == IF i % 2 = 1 THEN "tool_start" ELSE "tool_result"
             c == k + (i - 1) \div 2
  <2>2. kind \in EventKinds /\ kind \in ToolKinds
    BY DEF EventKinds, ToolKinds
  <2> HIDE DEF kind, c
  <2>3. c \in Call
    BY <2>1 DEF c
  <2>4. Sse(kind, c) \in Event
    BY <2>2, <2>3 DEF Sse, Event
  <2> QED
    BY <2>4 DEF kind, c
<1>10. results \in Seq(Event) /\ Len(results) = 2 * n
  <2>1. results \in [1 .. 2 * n -> Event]
    BY <1>8, <1>9, Zenon
  <2>2. 2 * n \in Nat
    BY <1>3
  <2> HIDE DEF results, n
  <2> QED
    BY <2>1, <2>2
<1>11. ASSUME NEW c \in Running PROVE results[2 * (c - k) + 2] = Sse("tool_result", c)
  <2> DEFINE i == 2 * (c - k) + 2
  <2>1. i \in 1 .. 2 * n /\ i % 2 # 1 /\ k + (i - 1) \div 2 = c
    BY <1>2, <1>3
  <2> HIDE DEF i
  <2>2. results[i] = Sse(IF i % 2 = 1 THEN "tool_start" ELSE "tool_result", k + (i - 1) \div 2)
    BY <1>8, <2>1, Zenon
  <2>3. results[i] = Sse("tool_result", c)
    BY <2>1, <2>2
  <2> QED
    BY <2>3 DEF i
<1>12. events \in Seq(Event)
  <2>1. Sse("step_complete", 0) \in Event
    BY DEF Sse, Event, EventKinds, ToolKinds
  <2> HIDE DEF results
  <2> QED
    BY <1>10, <2>1
<1>13. \A i \in 1 .. 2 * n : results[i].call \in Running
  BY <1>2, <1>7, <1>8
<1> HIDE DEF results
<1> QED
  BY <1>2, <1>3, <1>4, <1>6, <1>10, <1>11, <1>12, <1>13 DEF results

LEMMA SaidSeq ==
  ASSUME NEW c, NEW events \in Seq(BusEvent)
  PROVE  [i \in DOMAIN events |-> IF events[i].call = c THEN <<events[i].kind>> ELSE <<>>]
           \in Seq(Seq(ChildKinds))
<1>1. Len(events) \in Nat /\ DOMAIN events = 1 .. Len(events)
  OBVIOUS
<1>2. ASSUME NEW i \in 1 .. Len(events)
      PROVE  (IF events[i].call = c THEN <<events[i].kind>> ELSE <<>>) \in Seq(ChildKinds)
  <2>1. events[i] \in BusEvent
    OBVIOUS
  <2>2. events[i].kind \in ChildKinds
    BY <2>1 DEF BusEvent
  <2> QED
    BY <2>2
<1> DEFINE g == [i \in 1 .. Len(events) |-> IF events[i].call = c THEN <<events[i].kind>> ELSE <<>>]
<1>3. g \in [1 .. Len(events) -> Seq(ChildKinds)]
  BY <1>2
<1>4. g \in Seq(Seq(ChildKinds))
  <2> HIDE DEF g
  <2> DEFINE n == Len(events)
  <2>1. n \in Nat /\ g \in [1 .. n -> Seq(ChildKinds)]
    BY <1>1, <1>3
  <2> HIDE DEF n
  <2> QED
    BY <2>1, IsASeq
<1> QED
  BY <1>1, <1>4

LEMMA SaidTyped ==
  ASSUME NEW c, NEW events \in Seq(BusEvent)
  PROVE  SaidOf(c, events) \in Seq(ChildKinds)
  BY SaidSeq, FlattenTyped DEF SaidOf

LEMMA SaidNothing == ASSUME NEW c PROVE SaidOf(c, <<>>) = <<>>
<1>1. [i \in DOMAIN <<>> |-> IF <<>>[i].call = c THEN <<<<>>[i].kind>> ELSE <<>>] = <<>>
  OBVIOUS
<1> QED
  BY <1>1, FlattenEmpty DEF SaidOf

LEMMA SaidConcat ==
  ASSUME NEW c, NEW s \in Seq(BusEvent), NEW t \in Seq(BusEvent)
  PROVE  SaidOf(c, s \o t) = SaidOf(c, s) \o SaidOf(c, t)
<1> DEFINE G(e) == IF e.call = c THEN <<e.kind>> ELSE <<>>
           Map(u) == [i \in DOMAIN u |-> G(u[i])]
<1>1. s \o t \in Seq(BusEvent)
  OBVIOUS
<1>2. Map(s) \in Seq(Seq(ChildKinds)) /\ Map(t) \in Seq(Seq(ChildKinds))
      /\ Map(s \o t) \in Seq(Seq(ChildKinds))
  BY <1>1, SaidSeq
<1>3. \A u : /\ DOMAIN Map(u) = DOMAIN u /\ \A i \in DOMAIN u : Map(u)[i] = G(u[i])
             /\ SaidOf(c, u) = FlattenSeq(Map(u))
  BY DEF SaidOf
<1> HIDE DEF Map, G
<1>4. Map(s \o t) = Map(s) \o Map(t)
  <2>1. Len(Map(s)) = Len(s) /\ Len(Map(t)) = Len(t) /\ Len(Map(s \o t)) = Len(s \o t)
    <3>1. Len(s) \in Nat /\ DOMAIN s = 1 .. Len(s) /\ Len(t) \in Nat /\ DOMAIN t = 1 .. Len(t)
          /\ Len(s \o t) \in Nat /\ DOMAIN (s \o t) = 1 .. Len(s \o t)
      BY <1>1
    <3>2. DOMAIN Map(s) = DOMAIN s /\ DOMAIN Map(t) = DOMAIN t /\ DOMAIN Map(s \o t) = DOMAIN (s \o t)
      BY <1>3, Zenon
    <3> QED
      BY <1>2, <3>1, <3>2, LenProperties
  <2>2. Map(s) \o Map(t) \in Seq(Seq(ChildKinds)) /\ Len(Map(s) \o Map(t)) = Len(s) + Len(t)
    BY <1>2, <2>1, ConcatProperties
  <2>3. Len(s \o t) = Len(s) + Len(t) /\ Len(s) \in Nat /\ Len(t) \in Nat
    OBVIOUS
  <2>4. ASSUME NEW i \in 1 .. Len(s) + Len(t) PROVE Map(s \o t)[i] = (Map(s) \o Map(t))[i]
    <3>1. (s \o t)[i] = IF i <= Len(s) THEN s[i] ELSE t[i - Len(s)]
      BY ConcatProperties
    <3>2. (Map(s) \o Map(t))[i] = IF i <= Len(s) THEN Map(s)[i] ELSE Map(t)[i - Len(s)]
      BY <1>2, <2>1, ConcatProperties
    <3>3. Map(s \o t)[i] = G((s \o t)[i])
      <4>1. i \in DOMAIN (s \o t)
        BY <1>1, <2>3, LenProperties
      <4> QED
        BY <1>3, <4>1, Zenon
    <3>4. CASE i <= Len(s)
      <4>1. i \in DOMAIN s
        BY <2>3, <3>4
      <4> QED
        BY <1>3, <3>1, <3>2, <3>3, <3>4, <4>1, Zenon
    <3>5. CASE ~(i <= Len(s))
      <4>1. i - Len(s) \in DOMAIN t
        BY <2>3, <3>5
      <4> QED
        BY <1>3, <3>1, <3>2, <3>3, <3>5, <4>1, Zenon
    <3> QED
      BY <3>4, <3>5
  <2> QED
    BY <1>2, <2>1, <2>2, <2>3, <2>4, SeqEqual
<1>5. FlattenSeq(Map(s) \o Map(t)) = FlattenSeq(Map(s)) \o FlattenSeq(Map(t))
  BY <1>2, FlattenConcat
<1>6. SaidOf(c, s \o t) = FlattenSeq(Map(s \o t))
      /\ SaidOf(c, s) = FlattenSeq(Map(s)) /\ SaidOf(c, t) = FlattenSeq(Map(t))
  BY <1>3, Zenon
<1> QED
  BY <1>4, <1>5, <1>6, Zenon

\* What one event says: of its call what it is, of another one nothing.
LEMMA SaidOnce ==
  ASSUME NEW c, NEW e \in BusEvent
  PROVE  SaidOf(c, <<e>>) = IF e.call = c THEN <<e.kind>> ELSE <<>>
<1> DEFINE g == IF e.call = c THEN <<e.kind>> ELSE <<>>
<1>1. [i \in DOMAIN <<e>> |-> IF <<e>>[i].call = c THEN <<<<e>>[i].kind>> ELSE <<>>] = <<g>>
  OBVIOUS
<1>2. g \in Seq(ChildKinds)
  BY DEF BusEvent
<1> HIDE DEF g
<1>3. FlattenSeq(<<g>>) = g
  BY <1>2, FlattenOne
<1> QED
  BY <1>1, <1>3, Zenon DEF SaidOf, g

LEMMA FoldTyped ==
  ASSUME NEW events \in Seq(BusEvent), NEW state \in [Call -> Seq(ChildKinds)]
  PROVE  FoldAll(events, state) \in [Call -> Seq(ChildKinds)]
<1> SUFFICES ASSUME NEW c \in Call PROVE state[c] \o SaidOf(c, events) \in Seq(ChildKinds)
  BY DEF FoldAll
<1> QED
  BY SaidTyped

LEMMA FoldNothing ==
  ASSUME NEW state \in [Call -> Seq(ChildKinds)]
  PROVE  FoldAll(<<>>, state) = state
<1>1. ASSUME NEW c \in Call PROVE state[c] \o SaidOf(c, <<>>) = state[c]
  BY SaidNothing, ConcatEmptySeq
<1> QED
  BY <1>1 DEF FoldAll

LEMMA AttachTyped ==
  ASSUME NEW parts \in Seq(PartState), NEW state \in [Call -> Seq(ChildKinds)]
  PROVE  /\ Attach(parts, state) \in Seq(PartState)
         /\ Len(Attach(parts, state)) = Len(parts)
         /\ \A i \in DOMAIN parts :
              /\ Attach(parts, state)[i].kind = parts[i].kind
              /\ Attach(parts, state)[i].call = parts[i].call
              /\ Attach(parts, state)[i].size = parts[i].size
              /\ Attach(parts, state)[i].sub =
                   IF parts[i].kind = "tool_result" /\ parts[i].sub = <<>>
                     THEN state[parts[i].call] ELSE parts[i].sub
<1>1. DOMAIN parts = 1 .. Len(parts) /\ Len(parts) \in Nat
  OBVIOUS
<1> DEFINE B(i) == IF parts[i].kind = "tool_result" /\ parts[i].sub = <<>>
                     THEN [parts[i] EXCEPT !.sub = state[parts[i].call]]
                     ELSE parts[i]
           a == [i \in 1 .. Len(parts) |-> B(i)]
<1>2. Attach(parts, state) = a
  BY <1>1 DEF Attach
<1>3. ASSUME NEW i \in 1 .. Len(parts)
      PROVE  /\ B(i) \in PartState /\ B(i).kind = parts[i].kind
             /\ B(i).call = parts[i].call /\ B(i).size = parts[i].size
             /\ B(i).sub = IF parts[i].kind = "tool_result" /\ parts[i].sub = <<>>
                             THEN state[parts[i].call] ELSE parts[i].sub
  <2>1. parts[i] \in PartState
    OBVIOUS
  <2>2. CASE parts[i].kind = "tool_result" /\ parts[i].sub = <<>>
    <3>1. state[parts[i].call] \in Seq(ChildKinds)
      BY <2>1, <2>2 DEF PartState, ToolKinds
    <3> QED
      BY <2>1, <2>2, <3>1 DEF PartState
  <2>3. CASE ~(parts[i].kind = "tool_result" /\ parts[i].sub = <<>>)
    BY <2>1, <2>3
  <2> QED
    BY <2>2, <2>3
<1>4. a \in [1 .. Len(parts) -> PartState] /\ \A i \in 1 .. Len(parts) : a[i] = B(i)
  BY <1>3
<1>5. a \in Seq(PartState) /\ Len(a) = Len(parts)
  <2> HIDE DEF a
  <2> QED
    BY <1>1, <1>4, IsASeq, LenProperties
<1> HIDE DEF a, B
<1> QED
  BY <1>1, <1>2, <1>3, <1>4, <1>5

LEMMA FlushTyped ==
  ASSUME NEW a \in AccState
  PROVE  /\ Flush(a) \in Seq(PartState)
         /\ a.open = 0 => Flush(a) = a.parts
         /\ a.open # 0 => Flush(a) = Append(a.parts, Part("reasoning", 0, a.open))
<1>1. Part("reasoning", 0, a.open) \in PartState
  BY DEF Part, PartState, AccState, ToolKinds
<1>2. a.parts \in Seq(PartState)
  BY DEF AccState
<1> QED
  BY <1>1, <1>2 DEF Flush

LEMMA AccumulateTyped ==
  ASSUME NEW a \in AccState, NEW e \in Event
  PROVE  Accumulate(a, e) \in AccState
<1>1. CASE e.kind \in TextKinds
  <2>1. Accumulate(a, e) = [a EXCEPT !.text = @ + 1]
    BY <1>1 DEF Accumulate, TextKinds, ToolKinds
  <2> QED
    BY <2>1 DEF AccState
<1>2. CASE e.kind = "reasoning"
  <2>1. Accumulate(a, e) = [a EXCEPT !.open = @ + 1]
    BY <1>2 DEF Accumulate, TextKinds, ToolKinds
  <2> QED
    BY <2>1 DEF AccState
<1>3. CASE e.kind \in ToolKinds
  <2>1. Accumulate(a, e) = [a EXCEPT !.open = 0, !.parts = Append(Flush(a), Part(e.kind, e.call, 0))]
    BY <1>3 DEF Accumulate, TextKinds, ToolKinds, ToolPart
  <2>2. Part(e.kind, e.call, 0) \in PartState
    BY <1>3 DEF Part, PartState, Event, ToolKinds
  <2>3. Append(Flush(a), Part(e.kind, e.call, 0)) \in Seq(PartState)
    BY <2>2, FlushTyped
  <2> DEFINE all == Append(Flush(a), Part(e.kind, e.call, 0))
             b == Accumulate(a, e)
  <2>4. b = [a EXCEPT !.open = 0, !.parts = all] /\ all \in Seq(PartState)
    BY <2>1, <2>3
  <2> HIDE DEF all, b
  <2>5. b \in AccState
    BY <2>4 DEF AccState
  <2> QED
    BY <2>5 DEF b
<1>4. CASE e.kind \notin TextKinds /\ e.kind # "reasoning" /\ e.kind \notin ToolKinds
  BY <1>4 DEF Accumulate
<1> QED
  BY <1>1, <1>2, <1>3, <1>4

\* An update of the framework disturbs nothing but its own counters.
LEMMA HandleStep ==
  ASSUME AgentIInv, NEW tools \in Seq(Tools), NEW usage \in Nat, NEW events \in Seq(Event),
         Handle(tools, usage, events), deltas' \in 0 .. MaxDeltas,
         UNCHANGED <<calls, ourBus, queue, loop>>
  PROVE  AgentIInv'
<1>1. run' \in RunState /\ outbox' \in Seq(Event) /\ work' \in {"answering", "over"}
  BY HandleTyped DEF AgentIInv
<1> QED
  BY <1>1 DEF AgentIInv, AgentTyped, Batched, loop

LEMMA CallToolsStep ==
  ASSUME AgentIInv, NEW tools \in Seq(Tools) \ {<<>>}, CallTools(tools)
  PROVE  /\ AgentIInv' /\ Len(calls') = Len(calls) + Len(tools)
         /\ \A c \in DOMAIN calls : c \in DOMAIN calls' /\ calls'[c] = calls[c]
         /\ \A c \in DOMAIN calls' \ DOMAIN calls :
              calls'[c].sent = <<>> /\ calls'[c].bus = "none"
                /\ (calls'[c].tool = "delegate" => calls'[c].pc = "called")
                /\ calls'[c].batch = LastBatch + 1
                /\ calls'[c].timedOut = FALSE
<1> DEFINE R(i) == [tool |-> tools[i], batch |-> LastBatch + 1, bus |-> "none", sent |-> <<>>,
                    pc |-> IF tools[i] = "delegate" THEN "called" ELSE "done",
                    timedOut |-> FALSE]
           more == [i \in DOMAIN tools |-> R(i)]
<1>1. calls' = calls \o more /\ work' = "calling"
      /\ UNCHANGED <<deltas, run, outbox, ourBus, queue, loop>>
      /\ Len(calls) + Len(tools) <= MaxCalls
  BY DEF CallTools
<1>2. /\ Len(tools) \in Nat \ {0} /\ DOMAIN tools = 1 .. Len(tools)
      /\ Len(calls) \in Nat /\ DOMAIN calls = 1 .. Len(calls) /\ calls \in Seq(ToolCall)
      /\ MaxCalls \in Nat
  BY AgentTurnAssumption DEF AgentIInv, AgentTyped
<1>3. LastBatch \in 0 .. Len(calls) /\ \A c \in DOMAIN calls : calls[c].batch <= LastBatch
      /\ calls[c].batch \in Nat
  <2>1. ASSUME NEW c \in DOMAIN calls PROVE calls[c].batch \in Nat \ {0} /\ calls[c].batch <= c
    <3>1. calls[c] \in ToolCall /\ c \in 1 .. Len(calls)
      BY <1>2
    <3> QED
      BY <3>1, <1>2 DEF ToolCall, AgentIInv, Batched
  <2>2. CASE calls = <<>>
    BY <2>2 DEF LastBatch
  <2>3. CASE calls # <<>>
    <3>1. Len(calls) \in DOMAIN calls /\ LastBatch = calls[Len(calls)].batch
      BY <1>2, <2>3 DEF LastBatch
    <3>2. \A c \in DOMAIN calls : calls[c].batch <= calls[Len(calls)].batch
      BY <1>2, <3>1 DEF AgentIInv, Batched
    <3> QED
      BY <1>2, <2>1, <3>1, <3>2
  <2> QED
    BY <2>2, <2>3
<1>4. LastBatch + 1 \in 1 .. MaxCalls
  BY <1>1, <1>2, <1>3
<1>5. ASSUME NEW i \in 1 .. Len(tools) PROVE R(i) \in ToolCall
  <2>1. tools[i] \in Tools
    BY <1>2
  <2> QED
    BY <1>4, <2>1 DEF ToolCall
<1>6. more \in Seq(ToolCall) /\ Len(more) = Len(tools) /\ \A i \in 1 .. Len(tools) : more[i] = R(i)
  <2>1. more \in [1 .. Len(tools) -> ToolCall] /\ \A i \in 1 .. Len(tools) : more[i] = R(i)
    BY <1>2, <1>5
  <2> HIDE DEF more
  <2>2. more \in Seq(ToolCall)
    BY <1>2, <2>1, IsASeq
  <2> QED
    BY <1>2, <2>1, <2>2
<1>7. /\ calls' \in Seq(ToolCall) /\ Len(calls') = Len(calls) + Len(tools)
      /\ \A c \in 1 .. Len(calls) : calls'[c] = calls[c]
      /\ \A c \in Len(calls) + 1 .. Len(calls) + Len(tools) :
           c - Len(calls) \in 1 .. Len(tools) /\ calls'[c] = more[c - Len(calls)]
  <2> HIDE DEF more
  <2>1. /\ calls \o more \in Seq(ToolCall) /\ Len(calls \o more) = Len(calls) + Len(more)
        /\ \A i \in 1 .. Len(calls) + Len(more) :
             (calls \o more)[i] = IF i <= Len(calls) THEN calls[i] ELSE more[i - Len(calls)]
    BY <1>2, <1>6, ConcatProperties
  <2>2. /\ calls' \in Seq(ToolCall) /\ Len(calls') = Len(calls) + Len(tools)
        /\ \A i \in 1 .. Len(calls) + Len(tools) :
             calls'[i] = IF i <= Len(calls) THEN calls[i] ELSE more[i - Len(calls)]
    BY <1>1, <1>6, <2>1, Zenon
  <2>3. ASSUME NEW c \in 1 .. Len(calls) PROVE calls'[c] = calls[c]
    BY <1>2, <2>2
  <2>4. ASSUME NEW c \in Len(calls) + 1 .. Len(calls) + Len(tools)
        PROVE  c - Len(calls) \in 1 .. Len(tools) /\ calls'[c] = more[c - Len(calls)]
    BY <1>2, <2>2
  <2> QED
    BY <2>2, <2>3, <2>4
<1> HIDE DEF more
<1>8. \A c \in Len(calls) + 1 .. Len(calls) + Len(tools) :
        \E i \in 1 .. Len(tools) : calls'[c] = R(i)
  BY <1>6, <1>7, Zenon
<1>9. DOMAIN calls' = 1 .. Len(calls) + Len(tools)
  BY <1>7
<1>10. \A c \in DOMAIN calls' \ DOMAIN calls : c \in Len(calls) + 1 .. Len(calls) + Len(tools)
  BY <1>2, <1>9
<1>11. \A c \in DOMAIN calls' \ DOMAIN calls :
         /\ calls'[c].batch = LastBatch + 1 /\ calls'[c].sent = <<>> /\ calls'[c].bus = "none"
         /\ calls'[c].tool = "delegate" => calls'[c].pc = "called"
         /\ calls'[c].timedOut = FALSE
  <2> SUFFICES ASSUME NEW c \in DOMAIN calls' \ DOMAIN calls
               PROVE  /\ calls'[c].batch = LastBatch + 1 /\ calls'[c].sent = <<>>
                      /\ calls'[c].bus = "none"
                      /\ calls'[c].tool = "delegate" => calls'[c].pc = "called"
                      /\ calls'[c].timedOut = FALSE
    OBVIOUS
  <2>1. PICK i \in 1 .. Len(tools) : calls'[c] = R(i)
    BY <1>8, <1>10
  <2> QED
    BY <2>1
<1>12. Batched'
  <2>1. ASSUME NEW c \in DOMAIN calls' PROVE calls'[c].batch <= c
    <3>1. CASE c \in DOMAIN calls
      BY <1>2, <1>7, <3>1 DEF AgentIInv, Batched
    <3>2. CASE c \notin DOMAIN calls
      BY <1>2, <1>3, <1>10, <1>11, <3>2
    <3> QED
      BY <3>1, <3>2
  <2>2. ASSUME NEW c \in DOMAIN calls', NEW d \in DOMAIN calls', c <= d
        PROVE  calls'[c].batch <= calls'[d].batch
    <3>1. CASE c \in DOMAIN calls /\ d \in DOMAIN calls
      BY <1>2, <1>7, <2>2, <3>1 DEF AgentIInv, Batched
    <3>2. CASE c \in DOMAIN calls /\ d \notin DOMAIN calls
      <4>1. calls'[c] = calls[c] /\ calls'[d].batch = LastBatch + 1
        BY <1>2, <1>7, <1>11, <3>2
      <4> QED
        BY <1>3, <3>2, <4>1
    <3>3. CASE c \notin DOMAIN calls
      <4>1. d \notin DOMAIN calls
        BY <1>2, <1>10, <1>9, <2>2, <3>3
      <4>2. calls'[c].batch = LastBatch + 1 /\ calls'[d].batch = LastBatch + 1
        BY <1>11, <3>3, <4>1
      <4> QED
        BY <1>3, <4>2
    <3> QED
      BY <3>1, <3>2, <3>3
  <2> QED
    BY <2>1, <2>2 DEF Batched
<1>13. AgentTyped'
  BY <1>1, <1>2, <1>7 DEF AgentIInv, AgentTyped, loop
<1> QED
  BY <1>2, <1>7, <1>9, <1>11, <1>12, <1>13 DEF AgentIInv

\* What a call of a tool may come to be without leaving its batch.
LEMMA CallUpdated ==
  ASSUME AgentIInv, NEW c \in DOMAIN calls, NEW new \in ToolCall, new.batch = calls[c].batch,
         calls' = [calls EXCEPT ![c] = new]
  PROVE  /\ calls' \in Seq(ToolCall) /\ Len(calls') = Len(calls) /\ DOMAIN calls' = DOMAIN calls
         /\ calls'[c] = new /\ \A d \in DOMAIN calls \ {c} : calls'[d] = calls[d]
         /\ Batched'
<1>1. calls \in Seq(ToolCall) /\ DOMAIN calls = 1 .. Len(calls) /\ Len(calls) \in Nat
  BY DEF AgentIInv, AgentTyped
<1>2. /\ calls' \in Seq(ToolCall) /\ Len(calls') = Len(calls) /\ DOMAIN calls' = DOMAIN calls
      /\ calls'[c] = new /\ \A d \in DOMAIN calls \ {c} : calls'[d] = calls[d]
  BY <1>1
<1>3. \A d \in DOMAIN calls : calls'[d].batch = calls[d].batch
  BY <1>2
<1> QED
  BY <1>2, <1>3 DEF AgentIInv, Batched

LEMMA ChildIs ==
  ASSUME AgentIInv, NEW c \in Call, NEW state, Child(c, state)
  PROVE  /\ c \in DOMAIN calls /\ c \in Running /\ work = "calling"
         /\ calls[c] \in ToolCall /\ calls[c].pc = state /\ calls[c].tool = "delegate"
         /\ calls[c].sent \in Seq(ChildKinds)
         /\ hand \in {"waiting", "child"}
<1>1. c \in DOMAIN calls /\ work = "calling"
  BY DEF Child, Running
<1>2. calls[c] \in ToolCall
  BY <1>1, CallIs DEF AgentIInv
<1> QED
  BY <1>1, <1>2 DEF Child, ToolCall

\* A sub-agent says something.
LEMMA EmitIs ==
  ASSUME AgentIInv, NEW c \in DOMAIN calls, NEW to \in {"none", "ours", "other"},
         NEW kind \in ChildKinds, NEW then \in {"called", "running", "done"},
         Emit(c, to, kind, then)
  PROVE  /\ DOMAIN calls' = DOMAIN calls /\ Len(calls') = Len(calls)
         /\ calls'[c].bus = to /\ calls'[c].pc = then
         /\ calls'[c].sent = Append(calls[c].sent, kind)
         /\ calls'[c].tool = calls[c].tool /\ calls'[c].batch = calls[c].batch
         /\ calls'[c].timedOut = calls[c].timedOut
         /\ \A d \in DOMAIN calls \ {c} : calls'[d] = calls[d]
         /\ AgentIInv'
<1>1. calls[c] \in ToolCall /\ c \in Call
  BY CallIs DEF AgentIInv
<1> DEFINE new == [calls[c] EXCEPT !.bus = to, !.sent = Append(@, kind), !.pc = then]
<1>2. calls' = [calls EXCEPT ![c] = new]
  <2>1. calls' = [calls EXCEPT ![c].bus = to, ![c].sent = Append(@, kind), ![c].pc = then]
    BY DEF Emit
  <2>2. calls \in Seq(ToolCall) /\ DOMAIN calls = 1 .. Len(calls)
    BY DEF AgentIInv, AgentTyped
  <2> QED
    BY <1>1, <2>1, <2>2
<1>3. Append(calls[c].sent, kind) \in Seq(ChildKinds)
  BY <1>1 DEF ToolCall
<1>4. /\ new \in ToolCall /\ new.bus = to /\ new.sent = Append(calls[c].sent, kind) /\ new.pc = then
      /\ new.batch = calls[c].batch /\ new.tool = calls[c].tool
      /\ new.timedOut = calls[c].timedOut
  BY <1>1, <1>3 DEF ToolCall
<1> HIDE DEF new
<1>5. /\ calls' \in Seq(ToolCall) /\ Len(calls') = Len(calls) /\ DOMAIN calls' = DOMAIN calls
      /\ calls'[c] = new /\ \A d \in DOMAIN calls \ {c} : calls'[d] = calls[d]
      /\ Batched'
  BY <1>2, <1>4, CallUpdated
<1>6. queue' \in Seq(BusEvent)
  <2>1. [call |-> c, kind |-> kind] \in BusEvent
    BY <1>1 DEF BusEvent
  <2> QED
    BY <2>1 DEF Emit, AgentIInv, AgentTyped
<1>7. AgentTyped'
  BY <1>5, <1>6 DEF Emit, AgentIInv, AgentTyped, loop
<1>8. calls'[c].timedOut = calls[c].timedOut
  BY <1>4, <1>5, Zenon
<1>9. AgentIInv'
  BY <1>5, <1>7 DEF AgentIInv
<1> QED
  BY <1>4, <1>5, <1>8, <1>9, Zenon

LEMMA TimeOutIs ==
  ASSUME AgentIInv, NEW c \in Call, ChildTimesOut(c)
  PROVE  /\ c \in DOMAIN calls /\ c \in Running /\ calls[c].pc # "done"
         /\ DOMAIN calls' = DOMAIN calls /\ Len(calls') = Len(calls)
         /\ calls'[c].pc = "done" /\ calls'[c].timedOut = TRUE
         /\ calls'[c].bus = calls[c].bus /\ calls'[c].sent = calls[c].sent
         /\ calls'[c].tool = calls[c].tool /\ calls'[c].batch = calls[c].batch
         /\ \A d \in DOMAIN calls \ {c} : calls'[d] = calls[d]
         /\ UNCHANGED <<work, deltas, run, outbox, ourBus, queue, loop>>
         /\ AgentIInv'
<1>1. c \in DOMAIN calls /\ c \in Running /\ calls[c] \in ToolCall /\ calls[c].pc # "done"
  BY ChildIs DEF ChildTimesOut
<1> DEFINE new == [calls[c] EXCEPT !.pc = "done", !.timedOut = TRUE]
<1>2. calls' = [calls EXCEPT ![c] = new]
  <2>1. calls' = [calls EXCEPT ![c].pc = "done", ![c].timedOut = TRUE]
    BY DEF ChildTimesOut
  <2>2. calls \in Seq(ToolCall) /\ DOMAIN calls = 1 .. Len(calls)
    BY DEF AgentIInv, AgentTyped
  <2> QED
    BY <1>1, <2>1, <2>2
<1>4. /\ new \in ToolCall /\ new.pc = "done" /\ new.timedOut = TRUE
      /\ new.batch = calls[c].batch /\ new.tool = calls[c].tool
      /\ new.bus = calls[c].bus /\ new.sent = calls[c].sent
  BY <1>1 DEF ToolCall
<1> HIDE DEF new
<1>5. /\ calls' \in Seq(ToolCall) /\ Len(calls') = Len(calls) /\ DOMAIN calls' = DOMAIN calls
      /\ calls'[c] = new /\ \A d \in DOMAIN calls \ {c} : calls'[d] = calls[d]
      /\ Batched'
  BY <1>1, <1>2, <1>4, CallUpdated
<1>6. UNCHANGED <<work, deltas, run, outbox, ourBus, queue, loop>>
  BY DEF ChildTimesOut
<1>7. AgentTyped'
  BY <1>5, <1>6 DEF AgentIInv, AgentTyped, loop
<1> QED
  BY <1>1, <1>4, <1>5, <1>6, <1>7 DEF AgentIInv

\* The outbox has the next event, and the bus none, when the loop passes one on.
LEMMA ReadyIs ==
  ASSUME AgentIInv, ParentReady
  PROVE  /\ outbox # <<>> /\ Head(outbox) \in Event /\ Tail(outbox) \in Seq(Event)
         /\ Len(outbox) \in Nat \ {0} /\ Head(outbox) = outbox[1]
         /\ queue = <<>> /\ Drained = <<>> /\ hand = "waiting"
  BY DEF ParentReady, BusFirst, Drained, AgentIInv, AgentTyped

LEMMA DrainedTyped ==
  ASSUME AgentIInv
  PROVE  Drained \in Seq(BusEvent)
  BY DEF Drained, AgentIInv, AgentTyped

\* An event is added to the message; with a result goes what its sub-agent has said.
LEMMA PassParentIs ==
  ASSUME AgentIInv, PassParent
  PROVE  LET e == Head(outbox)
             now == Accumulate(acc, e)
         IN /\ now \in AccState /\ acc' \in AccState
            /\ acc'.text = now.text /\ acc'.open = now.open
            /\ e.kind # "tool_result" => acc' = now
            /\ e.kind = "tool_result" => acc'.parts = Attach(now.parts, folded)
            /\ folded' = folded /\ queue' = <<>> /\ queue = <<>>
            /\ shown' = Append(shown, e) /\ outbox' = Tail(outbox) /\ hand' = "parent"
            /\ UNCHANGED <<work, deltas, calls, run, ourBus, ending, message>>
            /\ ParentReady
<1> DEFINE e == Head(outbox)
           now == Accumulate(acc, e)
           result == e.kind = "tool_result"
           heard == IF result THEN FoldAll(Drained, folded) ELSE folded
<1>1. ParentReady
  BY DEF PassParent
<1>2. e \in Event /\ Drained = <<>> /\ queue = <<>>
  BY <1>1, ReadyIs
<1>3. acc \in AccState /\ folded \in [Call -> Seq(ChildKinds)]
  BY DEF AgentIInv, AgentTyped
<1>4. now \in AccState
  BY <1>2, <1>3, AccumulateTyped
<1>5. heard = folded
  BY <1>2, <1>3, FoldNothing
<1>6. /\ folded' = heard
      /\ acc' = IF result THEN [now EXCEPT !.parts = Attach(@, heard)] ELSE now
      /\ queue' = IF result /\ queue # <<>> THEN <<Head(queue)>> ELSE queue
      /\ shown' = Append(shown, e)
      /\ outbox' = Tail(outbox) /\ hand' = "parent"
      /\ UNCHANGED <<work, deltas, calls, run, ourBus, ending, message>>
  BY Zenon DEF PassParent, EventFolded
<1>7. now.parts \in Seq(PartState)
  BY <1>4 DEF AccState
<1>8. Attach(now.parts, folded) \in Seq(PartState)
  BY <1>3, <1>7, AttachTyped
<1> DEFINE all == Attach(now.parts, folded)
<1> HIDE DEF now, heard, e
<1>9. ASSUME result
      PROVE  acc' \in AccState /\ acc'.text = now.text /\ acc'.open = now.open /\ acc'.parts = all
  <2>1. acc' = [now EXCEPT !.parts = all] /\ all \in Seq(PartState)
    BY <1>5, <1>6, <1>8, <1>9
  <2> HIDE DEF all, result
  <2> QED
    BY <1>4, <2>1 DEF AccState
<1>10. ~result => acc' = now
  BY <1>6
<1>11. queue' = <<>>
  BY <1>2, <1>6
<1>12. folded' = folded
  BY <1>5, <1>6
<1>13. /\ now \in AccState /\ acc' \in AccState
       /\ acc'.text = now.text /\ acc'.open = now.open
       /\ e.kind # "tool_result" => acc' = now
       /\ e.kind = "tool_result" => acc'.parts = Attach(now.parts, folded)
  BY <1>4, <1>9, <1>10
<1> QED
  BY <1>1, <1>2, <1>6, <1>11, <1>12, <1>13, Zenon DEF now, e

\* The message that is stored, or not.
LEMMA PersistIs ==
  ASSUME AgentIInv, Persist
  PROVE  LET heard == FoldAll(queue, folded)
             all == Attach(acc.parts, heard)
             parts == IF acc.open = 0 THEN all ELSE Append(all, Part("reasoning", 0, acc.open))
             some == acc.text > 0 \/ parts # <<>>
         IN /\ heard \in [Call -> Seq(ChildKinds)] /\ all \in Seq(PartState)
            /\ parts \in Seq(PartState)
            /\ folded' = heard
            /\ \/ some /\ message' = [state |-> "stored", text |-> acc.text, parts |-> parts]
               \/ message' \in MessageState /\ message'.state = "failed"
               \/ ~some /\ message' = message
            /\ shown' = shown \o When(some /\ Completes, "message_complete")
            /\ queue' = <<>> /\ ourBus' = "none" /\ hand = "ending" /\ hand' = "over"
            /\ UNCHANGED <<framework, ending, acc>>
            /\ message' \in MessageState
<1> DEFINE heard == FoldAll(queue, folded)
           all == Attach(acc.parts, heard)
           b == [acc EXCEPT !.parts = Attach(@, heard)]
           parts == IF acc.open = 0 THEN all ELSE Append(all, Part("reasoning", 0, acc.open))
           some == acc.text > 0 \/ parts # <<>>
<1>1. /\ queue \in Seq(BusEvent) /\ folded \in [Call -> Seq(ChildKinds)] /\ acc \in AccState
      /\ message \in MessageState
  BY DEF AgentIInv, AgentTyped
<1>2. heard \in [Call -> Seq(ChildKinds)]
  BY <1>1, FoldTyped
<1>3. acc.parts \in Seq(PartState) /\ acc.text \in Nat /\ acc.open \in Nat
  BY <1>1 DEF AccState
<1>4. all \in Seq(PartState)
  BY <1>2, <1>3, AttachTyped
<1>5. b \in AccState /\ b.text = acc.text /\ b.open = acc.open /\ b.parts = all
  <2> DEFINE c == b
             a == all
  <2>1. c = [acc EXCEPT !.parts = a] /\ a \in Seq(PartState)
    BY <1>4, Zenon
  <2> HIDE DEF a, c, b, all
  <2>2. c \in AccState /\ c.text = acc.text /\ c.open = acc.open /\ c.parts = a
    BY <1>1, <2>1 DEF AccState
  <2> QED
    BY <2>2 DEF c, a
<1>6. Flush(b) = parts /\ parts \in Seq(PartState)
  <2> HIDE DEF b, all
  <2> QED
    BY <1>5, FlushTyped, Zenon
<1>7. /\ folded' = heard
      /\ LET s == acc.text > 0 \/ Flush(b) # <<>> IN
           /\ \/ s /\ message' = [state |-> "stored", text |-> acc.text, parts |-> Flush(b)]
              \/ s /\ message' = [message EXCEPT !.state = "failed"]
              \/ ~s /\ UNCHANGED message
           /\ shown' = shown \o When(s /\ Completes, "message_complete")
      /\ queue' = <<>> /\ ourBus' = "none" /\ hand = "ending" /\ hand' = "over"
      /\ UNCHANGED <<framework, ending, acc>>
  BY Zenon DEF Persist
<1> HIDE DEF heard, all, b, parts
<1>8. /\ \/ some /\ message' = [state |-> "stored", text |-> acc.text, parts |-> parts]
         \/ some /\ message' = [message EXCEPT !.state = "failed"]
         \/ ~some /\ message' = message
      /\ shown' = shown \o When(some /\ Completes, "message_complete")
  BY <1>6, <1>7
<1>9. message' = [message EXCEPT !.state = "failed"]
        => message' \in MessageState /\ message'.state = "failed"
  <2> DEFINE m == message'
  <2> SUFFICES ASSUME m = [message EXCEPT !.state = "failed"]
               PROVE  m \in MessageState /\ m.state = "failed"
    OBVIOUS
  <2> HIDE DEF m
  <2> QED
    BY <1>1 DEF MessageState
<1>10. message' \in MessageState
  <2>1. ASSUME message' = [state |-> "stored", text |-> acc.text, parts |-> parts]
        PROVE  message' \in MessageState
    BY <1>3, <1>6, <2>1 DEF MessageState
  <2> QED
    BY <1>1, <1>8, <1>9, <2>1
<1>11. /\ \/ some /\ message' = [state |-> "stored", text |-> acc.text, parts |-> parts]
          \/ message' \in MessageState /\ message'.state = "failed"
          \/ ~some /\ message' = message
  BY <1>8, <1>9
<1> QED
  BY <1>2, <1>4, <1>6, <1>7, <1>8, <1>10, <1>11, Zenon DEF heard, all, parts

\* The framework is asked, or a sub-agent at work: nothing of the loop changes.
LEMMA AgentIStep == AgentIInv /\ [AgentNext]_agentVars => AgentIInv'
<1> SUFFICES ASSUME AgentIInv, [AgentNext]_agentVars PROVE AgentIInv'
  OBVIOUS
<1>1. ASSUME NEW kind \in {"token", "reasoning", "usage"}, NEW usage \in Nat, Answer(kind, usage)
      PROVE  AgentIInv'
  <2>1. <<>> \in Seq(Tools)
    OBVIOUS
  <2>2. When(kind # "usage", kind) \in Seq(Event)
    <3>1. CASE kind = "usage"
      BY <3>1 DEF When
    <3>2. CASE kind # "usage"
      <4>1. kind \in EventKinds \ ToolKinds
        BY <3>2 DEF EventKinds, TextKinds, ToolKinds
      <4> QED
        BY <4>1, WhenTyped
    <3> QED
      BY <3>1, <3>2
  <2>3. deltas' \in 0 .. MaxDeltas
    BY <1>1, AgentTurnAssumption DEF Answer, AgentIInv, AgentTyped
  <2>4. Handle(<<>>, usage, When(kind # "usage", kind)) /\ UNCHANGED <<calls, ourBus, queue, loop>>
    BY <1>1 DEF Answer
  <2> QED
    BY <2>1, <2>2, <2>3, <2>4, HandleStep
<1>2. ASSUME Results PROVE AgentIInv'
  <2>1. deltas' \in 0 .. MaxDeltas /\ UNCHANGED <<calls, ourBus, queue, loop>>
    BY <1>2 DEF Results, AgentIInv, AgentTyped
  <2>2. \E tools \in Seq(Tools), events \in Seq(Event) : Handle(tools, 0, events)
    BY <1>2, ResultsAre
  <2> QED
    BY <2>1, <2>2, HandleStep
<1>3. ASSUME NEW tools \in {<<x>> : x \in Tools} \union Tools \X Tools, CallTools(tools)
      PROVE  AgentIInv'
  <2>1. tools \in Seq(Tools) \ {<<>>}
    <3>1. ASSUME NEW x \in Tools, tools = <<x>> PROVE tools \in Seq(Tools) \ {<<>>}
      BY <3>1
    <3>2. ASSUME NEW x \in Tools, NEW y \in Tools, tools = <<x, y>>
          PROVE  tools \in Seq(Tools) \ {<<>>}
      BY <3>2
    <3> QED
      BY <3>1, <3>2
  <2> QED
    BY <1>3, <2>1, CallToolsStep
<1>4. CASE FrameworkEnds
  BY <1>4 DEF FrameworkEnds, AgentIInv, AgentTyped, Batched, loop
<1>5. ASSUME NEW c \in Call, ChildStarts(c) \/ ChildWorks(c) \/ ChildEnds(c) PROVE AgentIInv'
  <2>1. c \in DOMAIN calls /\ calls[c] \in ToolCall
    BY <1>5, ChildIs DEF ChildStarts, ChildWorks, ChildEnds
  <2>2. \E to \in {"none", "ours", "other"}, kind \in ChildKinds,
           then \in {"called", "running", "done"} : Emit(c, to, kind, then)
    <3>1. ourBus \in {"none", "ours", "other"} /\ calls[c].bus \in {"none", "ours", "other"}
      BY <2>1 DEF AgentIInv, AgentTyped, ToolCall
    <3> QED
      BY <1>5, <3>1 DEF ChildStarts, ChildWorks, ChildEnds, ChildKinds
  <2> QED
    BY <2>1, <2>2, EmitIs
<1>6. ASSUME NEW c \in Call, ChildTimesOut(c) PROVE AgentIInv'
  BY <1>6, TimeOutIs
<1>7. CASE BusTaken
  BY <1>7 DEF BusTaken, AgentIInv, AgentTyped, Batched, framework, loop
<1>8. CASE PassChild
  <2>1. Head(queue) \in BusEvent /\ Tail(queue) \in Seq(BusEvent)
    BY <1>8 DEF PassChild, AgentIInv, AgentTyped
  <2>2. FoldAll(<<Head(queue)>>, folded) \in [Call -> Seq(ChildKinds)]
    <3>1. <<Head(queue)>> \in Seq(BusEvent)
      BY <2>1
    <3> QED
      BY <3>1, FoldTyped DEF AgentIInv, AgentTyped
  <2> QED
    BY <1>8, <2>1, <2>2 DEF PassChild, AgentIInv, AgentTyped, Batched, framework
<1>9. CASE PassParent
  <2>1. acc' \in AccState /\ queue' = <<>> /\ folded' = folded /\ outbox' = Tail(outbox)
        /\ shown' = Append(shown, Head(outbox)) /\ hand' = "parent"
        /\ Head(outbox) \in Event /\ Tail(outbox) \in Seq(Event)
        /\ UNCHANGED <<work, deltas, calls, run, ourBus, ending, message>>
    BY <1>9, PassParentIs, ReadyIs
  <2> QED
    BY <2>1 DEF AgentIInv, AgentTyped, Batched
<1>10. CASE PassCancelled
  <2>1. ParentReady /\ acc' = Accumulate(acc, Head(outbox)) /\ outbox' = Tail(outbox)
        /\ hand' = "ending" /\ ending' = "cancelled"
        /\ UNCHANGED <<work, deltas, calls, run, ourBus, queue, folded, shown, message>>
    BY <1>10 DEF PassCancelled, EndAs
  <2>2. Head(outbox) \in Event /\ Tail(outbox) \in Seq(Event)
    BY <2>1, ReadyIs
  <2>3. acc' \in AccState
    BY <2>1, <2>2, AccumulateTyped DEF AgentIInv, AgentTyped
  <2> QED
    BY <2>1, <2>2, <2>3 DEF AgentIInv, AgentTyped, Batched
<1>11. CASE CheckFails
  <2>1. ParentReady /\ outbox' = Tail(outbox) /\ shown' = Append(shown, Sse("failed", 0))
        /\ hand' = "ending" /\ ending' = "failed"
        /\ UNCHANGED <<work, deltas, calls, run, ourBus, queue, acc, folded, message>>
    BY <1>11 DEF CheckFails, EndAs
  <2>2. Tail(outbox) \in Seq(Event)
    BY <2>1, ReadyIs
  <2>3. Sse("failed", 0) \in Event
    BY DEF Sse, Event, EventKinds, ToolKinds
  <2>4. shown' \in Seq(Event)
    BY <2>1, <2>3 DEF AgentIInv, AgentTyped
  <2> QED
    BY <2>1, <2>2, <2>4 DEF AgentIInv, AgentTyped, Batched
<1>12. CASE StreamEnds
  <2>1. FoldAll(Drained, folded) \in [Call -> Seq(ChildKinds)]
    BY DrainedTyped, FoldTyped DEF AgentIInv, AgentTyped
  <2> QED
    BY <1>12, <2>1 DEF StreamEnds, EndAs, AgentIInv, AgentTyped, Batched, framework
<1>13. CASE AskNext
  BY <1>13 DEF AskNext, AgentIInv, AgentTyped, Batched, framework
<1>14. CASE LoopClosed
  <2>1. queue' \in Seq(BusEvent)
    BY <1>14, DrainedTyped DEF LoopClosed, AgentIInv, AgentTyped
  <2> QED
    BY <1>14, <2>1 DEF LoopClosed, EndAs, AgentIInv, AgentTyped, Batched, framework
<1>15. CASE Persist
  <2>1. /\ folded' \in [Call -> Seq(ChildKinds)] /\ message' \in MessageState
        /\ queue' = <<>> /\ ourBus' = "none" /\ hand' = "over"
        /\ UNCHANGED <<framework, ending, acc>>
        /\ \E b \in BOOLEAN : shown' = shown \o When(b, "message_complete")
    BY <1>15, PersistIs, Zenon DEF Completes
  <2>2. \A b \in BOOLEAN : When(b, "message_complete") \in Seq(Event)
    <3>1. "message_complete" \in EventKinds \ ToolKinds
      BY DEF EventKinds, ToolKinds
    <3> QED
      BY <3>1, WhenTyped
  <2>3. shown' \in Seq(Event)
    BY <2>1, <2>2 DEF AgentIInv, AgentTyped
  <2> QED
    BY <2>1, <2>3 DEF AgentIInv, AgentTyped, Batched, framework
<1>16. CASE UNCHANGED agentVars
  BY <1>16 DEF agentVars, AgentIInv, AgentTyped, Batched
<1> QED
  BY <1>1, <1>2, <1>3, <1>4, <1>5, <1>6, <1>7, <1>8, <1>9, <1>10, <1>11, <1>12, <1>13, <1>14,
     <1>15, <1>16, AgentTurnAssumption DEF AgentNext

LEMMA AgentTypeIs == AgentIInv => AgentTypeOK
<1> SUFFICES ASSUME AgentIInv PROVE AgentTypeOK
  OBVIOUS
<1>1. /\ \A c \in DOMAIN calls : calls[c] \in ToolCall
      /\ \A i \in DOMAIN outbox : outbox[i] \in Event
      /\ \A i \in DOMAIN queue : queue[i] \in BusEvent
      /\ Len(calls) <= MaxCalls
  BY DEF AgentIInv, AgentTyped
<1>2. run.steps \in Nat /\ run.spent \in Nat /\ run.warned \subseteq Budgets
      /\ run.stop \in Stops \union {"none"}
  BY DEF AgentIInv, AgentTyped, RunState
<1>3. message.state \in {"none", "stored", "failed"}
  BY DEF AgentIInv, AgentTyped, MessageState
<1> QED
  BY <1>1, <1>2, <1>3, Zenon DEF AgentIInv, AgentTyped, AgentTypeOK, Event, BusEvent

\* The state of a turn has its type: no batch, no event and no record of a call is
\* ever of a call that was not made.
THEOREM AgentTypeCorrect == AgentSpec => []AgentTypeOK
<1> QED
  BY AgentInitially, AgentIStep, AgentTypeIs, PTL DEF AgentSpec

------------------------------------------------------------------------------
(* What a sub-agent has said is with its result.                            *)

\* How a turn ended is known when its loop is left, and only then a message is stored.
Unended ==
  /\ ending = "none" <=> hand \in {"waiting", "child", "parent"}
  /\ hand # "over" => message.state = "none"

\* What of a call has been put on the bus of the turn.
Heard(c) == IF c \in DOMAIN calls /\ calls[c].bus = "ours" THEN calls[c].sent ELSE <<>>

\* A call that is over says nothing any more.
CallOver(c) == c \in DOMAIN calls /\ calls[c].pc = "done" /\ c \notin Running

\* A call that has found no bus yet has said nothing; one that is over said so last, if it
\* was not abandoned.
Told ==
  \A c \in DOMAIN calls :
    /\ calls[c].pc = "called" => calls[c].sent = <<>> /\ calls[c].bus = "none"
    /\ calls[c].pc = "done" /\ calls[c].tool = "delegate" =>
         \/ calls[c].sent = <<>> \/ calls[c].timedOut
         \/ calls[c].sent[Len(calls[c].sent)] \in Final

\* A result is passed on when its call is over.
Pending == \A i \in DOMAIN outbox : outbox[i].kind = "tool_result" => CallOver(outbox[i].call)

\* All that was put on the bus is on it or with the record of its call, as long as the loop
\* was not left.
AllHeard == ending # "closed" => \A c \in Call : folded[c] \o SaidOf(c, queue) = Heard(c)

\* Of a call whose result is in the message nothing is on the bus.
Settles(c) == CallOver(c) /\ SaidOf(c, queue) = <<>> /\ folded[c] = Heard(c)

PartWhole(part) ==
  part.kind = "tool_result" => Settles(part.call) /\ part.sub \in {<<>>, Heard(part.call)}

PartsWhole == \A i \in DOMAIN acc.parts : PartWhole(acc.parts[i])

WholeInv == Told /\ Pending /\ AllHeard /\ PartsWhole /\ SubagentsWhole

LEMMA SaidTail ==
  ASSUME NEW c, NEW s \in Seq(BusEvent), s # <<>>
  PROVE  /\ SaidOf(c, s) = SaidOf(c, <<Head(s)>>) \o SaidOf(c, Tail(s))
         /\ SaidOf(c, <<Head(s)>>) \in Seq(ChildKinds) /\ SaidOf(c, Tail(s)) \in Seq(ChildKinds)
         /\ <<Head(s)>> \in Seq(BusEvent)
         /\ SaidOf(c, s) = <<>> => SaidOf(c, <<Head(s)>>) = <<>> /\ SaidOf(c, Tail(s)) = <<>>
<1>1. /\ <<Head(s)>> \in Seq(BusEvent) /\ Tail(s) \in Seq(BusEvent)
      /\ s = <<Head(s)>> \o Tail(s)
  <2>1. Head(s) \in BusEvent /\ Tail(s) \in Seq(BusEvent)
    OBVIOUS
  <2>2. <<Head(s)>> \in Seq(BusEvent)
    BY <2>1
  <2>3. s = <<Head(s)>> \o Tail(s)
    OBVIOUS
  <2> QED
    BY <2>1, <2>2, <2>3
<1>2. SaidOf(c, s) = SaidOf(c, <<Head(s)>>) \o SaidOf(c, Tail(s))
  <2> DEFINE h == <<Head(s)>>
             t == Tail(s)
  <2>1. h \in Seq(BusEvent) /\ t \in Seq(BusEvent) /\ s = h \o t
    BY <1>1
  <2> HIDE DEF h, t
  <2>2. SaidOf(c, h \o t) = SaidOf(c, h) \o SaidOf(c, t)
    BY <2>1, SaidConcat
  <2>3. SaidOf(c, s) = SaidOf(c, h) \o SaidOf(c, t)
    BY <2>1, <2>2, Zenon
  <2> QED
    BY <2>3 DEF h, t
<1>3. SaidOf(c, <<Head(s)>>) \in Seq(ChildKinds) /\ SaidOf(c, Tail(s)) \in Seq(ChildKinds)
  BY <1>1, SaidTyped
<1>4. SaidOf(c, s) = <<>> => SaidOf(c, <<Head(s)>>) = <<>> /\ SaidOf(c, Tail(s)) = <<>>
  <2> DEFINE a == SaidOf(c, <<Head(s)>>)
             b == SaidOf(c, Tail(s))
  <2>1. a \in Seq(ChildKinds) /\ b \in Seq(ChildKinds) /\ SaidOf(c, s) = a \o b
    BY <1>2, <1>3
  <2> HIDE DEF a, b
  <2>2. a \o b = <<>> => a = <<>> /\ b = <<>>
    BY <2>1, ConcatEqualIffEmpty
  <2> QED
    BY <2>1, <2>2 DEF a, b
<1> QED
  BY <1>1, <1>2, <1>3, <1>4

LEMMA HeardTyped ==
  ASSUME AgentIInv, NEW c
  PROVE  Heard(c) \in Seq(ChildKinds)
<1>1. CASE c \in DOMAIN calls
  <2>1. calls[c] \in ToolCall
    BY <1>1, CallIs DEF AgentIInv
  <2> QED
    BY <2>1 DEF Heard, ToolCall
<1>2. CASE c \notin DOMAIN calls
  BY <1>2 DEF Heard
<1> QED
  BY <1>1, <1>2

\* A turn that is over does nothing more.
LEMMA OverIs == hand = "over" /\ [AgentNext]_agentVars => UNCHANGED agentVars
<1> SUFFICES ASSUME hand = "over", AgentNext PROVE FALSE
  OBVIOUS
<1>1. ~Asked /\ ~ParentReady /\ \A c, state : ~Child(c, state)
  BY DEF Asked, ParentReady, Child
<1>2. \A kind, usage : ~Answer(kind, usage)
  BY <1>1 DEF Answer
<1>3. \A tools : ~CallTools(tools)
  BY <1>1 DEF CallTools
<1>4. ~Results /\ ~FrameworkEnds /\ ~BusTaken
  BY <1>1 DEF Results, FrameworkEnds, BusTaken
<1>5. \A c : ~ChildStarts(c) /\ ~ChildWorks(c) /\ ~ChildEnds(c) /\ ~ChildTimesOut(c)
  BY <1>1 DEF ChildStarts, ChildWorks, ChildEnds, ChildTimesOut
<1>6. ~PassChild /\ ~PassParent /\ ~PassCancelled /\ ~CheckFails /\ ~StreamEnds /\ ~AskNext
      /\ ~LoopClosed /\ ~Persist
  BY <1>1 DEF PassChild, PassParent, PassCancelled, CheckFails, StreamEnds, AskNext, LoopClosed,
     Persist
<1> QED
  BY <1>2, <1>3, <1>4, <1>5, <1>6 DEF AgentNext

LEMMA NotOver ==
  ASSUME hand # "over", hand' # "over"
  PROVE  SubagentsWhole'
  BY DEF SubagentsWhole, Settled

\* What leaves the calls, the bus and the loop alone.
LEMMA WholeSame ==
  ASSUME WholeInv, UNCHANGED <<calls, queue, loop>>, hand # "over",
         \A c : CallOver(c) => CallOver(c)', Pending'
  PROVE  WholeInv'
<1>1. /\ calls' = calls /\ queue' = queue /\ folded' = folded /\ acc' = acc /\ hand' = hand
      /\ ending' = ending
  BY DEF loop
<1>2. Told' /\ SubagentsWhole'
  BY <1>1, NotOver DEF WholeInv, Told
<1>3. \A c : Heard(c)' = Heard(c)
  BY <1>1 DEF Heard
<1>4. AllHeard'
  BY <1>1, <1>3 DEF WholeInv, AllHeard
<1>5. \A c : Settles(c) => Settles(c)'
  BY <1>1, <1>3 DEF Settles
<1>6. PartsWhole'
  BY <1>1, <1>3, <1>5 DEF WholeInv, PartsWhole, PartWhole
<1> QED
  BY <1>2, <1>4, <1>6 DEF WholeInv

LEMMA WholeAnswer ==
  ASSUME AgentIInv, WholeInv, NEW kind \in {"token", "reasoning", "usage"}, NEW usage \in Nat,
         Answer(kind, usage)
  PROVE  WholeInv'
<1> DEFINE events == When(kind # "usage", kind)
<1>1. /\ Handle(<<>>, usage, events) /\ UNCHANGED <<calls, ourBus, queue, loop>>
      /\ hand # "over"
  BY DEF Answer, Asked
<1>2. events \in Seq(Plain)
  <2>1. CASE kind = "usage"
    BY <2>1 DEF When
  <2>2. CASE kind # "usage"
    <3>1. kind \in EventKinds \ ToolKinds
      BY <2>2 DEF EventKinds, TextKinds, ToolKinds
    <3> QED
      BY <3>1, WhenTyped
  <2> QED
    BY <2>1, <2>2
<1> HIDE DEF events
<1>3. work' # "calling" /\ outbox' \in Seq(Plain)
  <2>1. events \in Seq(Event) /\ <<>> \in Seq(Tools)
    BY <1>2, PlainTyped
  <2>2. work' # "calling" /\ \E says \in Seq(Plain) : outbox' = events \o says
    BY <1>1, <2>1, HandleTyped DEF AgentIInv
  <2> QED
    BY <1>2, <2>2
<1>4. \A c : CallOver(c) => CallOver(c)'
  BY <1>1, <1>3 DEF CallOver, Running
<1>5. Pending'
  BY <1>3 DEF Pending, Plain, ToolKinds
<1> QED
  BY <1>1, <1>4, <1>5, WholeSame

LEMMA WholeResults ==
  ASSUME AgentIInv, WholeInv, Results
  PROVE  WholeInv'
<1>1. UNCHANGED <<calls, queue, loop>> /\ hand # "over" /\ \A c \in Running : calls[c].pc = "done"
  BY DEF Results, Asked
<1>2. PICK events \in Seq(Event), tools \in Seq(Tools) :
        /\ Handle(tools, 0, events)
        /\ \A i \in DOMAIN events : events[i].kind = "tool_result" => events[i].call \in Running
  <2>1. PICK k \in Nat \ {0} :
           LET n == Len(calls) + 1 - k
               tools == [i \in 1 .. n |-> calls[k + i - 1].tool]
               events == ResultEvents(k, n) \o <<Sse("step_complete", 0)>>
           IN /\ n \in Nat
              /\ tools \in Seq(Tools)
              /\ ResultEvents(k, n) \in Seq(Event) /\ events \in Seq(Event)
              /\ \A i \in 1 .. 2 * n : ResultEvents(k, n)[i].call \in Running
              /\ Len(ResultEvents(k, n)) = 2 * n
              /\ Handle(tools, 0, events)
    BY ResultsAre
  <2> DEFINE n == Len(calls) + 1 - k
             tools == [i \in 1 .. n |-> calls[k + i - 1].tool]
             results == ResultEvents(k, n)
             events == results \o <<Sse("step_complete", 0)>>
  <2> HIDE DEF n, tools, results
  <2>2. /\ n \in Nat /\ tools \in Seq(Tools) /\ results \in Seq(Event) /\ events \in Seq(Event)
        /\ \A i \in 1 .. 2 * n : results[i].call \in Running
        /\ Len(results) = 2 * n /\ Handle(tools, 0, events)
    BY <2>1, Zenon DEF n, tools, results
  <2>3. ASSUME NEW i \in DOMAIN events, events[i].kind = "tool_result"
        PROVE  events[i].call \in Running
    <3>1. i \in 1 .. 2 * n \/ events[i] = Sse("step_complete", 0)
      BY <2>2
    <3>2. i \in 1 .. 2 * n => events[i] = results[i]
      BY <2>2
    <3>3. events[i] # Sse("step_complete", 0)
      BY <2>3 DEF Sse
    <3> QED
      BY <2>2, <3>1, <3>2, <3>3
  <2> HIDE DEF events
  <2> QED
    BY <2>2, <2>3
<1>3. work' # "calling" /\ \E says \in Seq(Plain) : outbox' = events \o says
  BY <1>2, HandleTyped DEF AgentIInv
<1>4. \A c : CallOver(c) => CallOver(c)'
  BY <1>1, <1>3 DEF CallOver, Running
<1>5. ASSUME NEW i \in DOMAIN outbox', outbox'[i].kind = "tool_result",
             NEW c, c = outbox'[i].call
      PROVE  CallOver(c)'
  <2>1. PICK says \in Seq(Plain) : outbox' = events \o says
    BY <1>3
  <2>2. i \in DOMAIN events /\ outbox'[i] = events[i]
    <3>1. /\ i \in 1 .. Len(events) + Len(says) /\ Len(events) \in Nat /\ Len(says) \in Nat
          /\ outbox'[i] = IF i <= Len(events) THEN events[i] ELSE says[i - Len(events)]
      <4>1. says \in Seq(Event)
        BY PlainTyped
      <4>2. DOMAIN (events \o says) = 1 .. Len(events) + Len(says)
            /\ \A j \in 1 .. Len(events) + Len(says) :
                 (events \o says)[j] = IF j <= Len(events) THEN events[j] ELSE says[j - Len(events)]
        BY <4>1, ConcatProperties, LenProperties
      <4> QED
        BY <2>1, <4>2
    <3>2. ~(i <= Len(events)) => says[i - Len(events)] \in Plain
      BY <3>1
    <3> QED
      BY <1>5, <3>1, <3>2 DEF Plain, ToolKinds
  <2>3. c \in Running
    BY <1>2, <1>5, <2>2
  <2> QED
    BY <1>1, <1>3, <2>3 DEF CallOver, Running
<1>6. Pending'
  BY <1>5, Zenon DEF Pending
<1> QED
  BY <1>1, <1>4, <1>6, WholeSame

LEMMA WholeCallTools ==
  ASSUME AgentIInv, WholeInv, NEW tools \in Seq(Tools) \ {<<>>}, CallTools(tools)
  PROVE  WholeInv'
<1>1. /\ AgentIInv' /\ \A c \in DOMAIN calls : c \in DOMAIN calls' /\ calls'[c] = calls[c]
      /\ \A c \in DOMAIN calls' \ DOMAIN calls :
           calls'[c].sent = <<>> /\ calls'[c].bus = "none" /\ calls'[c].batch = LastBatch + 1
             /\ (calls'[c].tool = "delegate" => calls'[c].pc = "called")
      /\ Len(calls') = Len(calls) + Len(tools)
  BY CallToolsStep
<1>2. /\ UNCHANGED <<queue, outbox, loop>> /\ hand # "over"
      /\ folded' = folded /\ acc' = acc /\ hand' = hand /\ ending' = ending
      /\ queue' = queue /\ outbox' = outbox
  BY DEF CallTools, Asked, loop
<1>3. Told'
  BY <1>1, Zenon DEF WholeInv, Told
<1>4. \A c : Heard(c)' = Heard(c)
  BY <1>1 DEF Heard
<1>5. \A c \in DOMAIN calls : calls[c].batch <= LastBatch /\ LastBatch \in Nat /\ LastBatch' = LastBatch + 1
  <2>1. Len(tools) \in Nat \ {0} /\ Len(calls) \in Nat
        /\ DOMAIN calls = 1 .. Len(calls) /\ DOMAIN calls' = 1 .. Len(calls')
    BY <1>1 DEF AgentIInv, AgentTyped
  <2>2. Len(calls') \in DOMAIN calls' \ DOMAIN calls
    BY <1>1, <2>1
  <2>3. calls' # <<>> /\ LastBatch' = calls'[Len(calls')].batch
    <3>1. calls' # <<>>
      BY <2>1, <2>2
    <3> QED
      BY <3>1 DEF LastBatch
  <2>4. LastBatch' = LastBatch + 1
    BY <1>1, <2>2, <2>3
  <2>5. ASSUME NEW c \in DOMAIN calls PROVE calls[c].batch <= LastBatch /\ LastBatch \in Nat
    <3>1. calls # <<>> /\ Len(calls) \in DOMAIN calls /\ c <= Len(calls)
      BY <2>1
    <3>2. LastBatch = calls[Len(calls)].batch
      BY <3>1 DEF LastBatch
    <3>3. calls[Len(calls)] \in ToolCall
      BY <3>1, CallIs DEF AgentIInv
    <3>4. calls[c].batch <= calls[Len(calls)].batch
      BY <3>1 DEF AgentIInv, Batched
    <3> QED
      BY <3>2, <3>3, <3>4, AgentTurnAssumption DEF ToolCall
  <2> QED
    BY <2>4, <2>5
<1>6. ASSUME NEW c, CallOver(c) PROVE CallOver(c)'
  <2>1. c \in DOMAIN calls /\ calls[c].pc = "done" /\ c \in DOMAIN calls' /\ calls'[c] = calls[c]
    BY <1>1, <1>6 DEF CallOver
  <2>2. calls'[c].batch # LastBatch'
    <3>1. calls[c] \in ToolCall
      BY <2>1, CallIs DEF AgentIInv
    <3>2. calls[c].batch \in Nat
      BY <3>1, AgentTurnAssumption DEF ToolCall
    <3> QED
      BY <1>5, <2>1, <3>2
  <2> QED
    BY <2>1, <2>2 DEF CallOver, Running
<1>7. AllHeard'
  BY <1>2, <1>4 DEF WholeInv, AllHeard
<1>8. \A c : Settles(c) => Settles(c)'
  BY <1>2, <1>4, <1>6 DEF Settles
<1>9. PartsWhole'
  BY <1>2, <1>4, <1>8 DEF WholeInv, PartsWhole, PartWhole
<1>10. Pending'
  BY <1>2, <1>6 DEF WholeInv, Pending
<1>11. SubagentsWhole'
  BY <1>2, NotOver
<1> QED
  BY <1>3, <1>7, <1>9, <1>10, <1>11 DEF WholeInv

\* A sub-agent at work: of the other calls nothing changes.
LEMMA AnsweredOthers ==
  ASSUME AgentIInv, NEW c \in Running, DOMAIN calls' = DOMAIN calls, Len(calls') = Len(calls),
         calls'[c].batch = calls[c].batch, \A d \in DOMAIN calls \ {c} : calls'[d] = calls[d],
         work' = work
  PROVE  \A d : CallOver(d) => CallOver(d)' /\ d # c
<1>1. c \in DOMAIN calls
  BY DEF Running
<1>2. \A d \in DOMAIN calls : calls'[d].batch = calls[d].batch
  BY <1>1
<1>3. LastBatch' = LastBatch
  <2>1. DOMAIN calls = 1 .. Len(calls) /\ DOMAIN calls' = 1 .. Len(calls') /\ Len(calls) \in Nat
        /\ calls \in Seq(ToolCall)
    BY DEF AgentIInv, AgentTyped
  <2>2. calls # <<>> /\ Len(calls) \in DOMAIN calls
    BY <1>1, <2>1
  <2>3. calls' # <<>>
    BY <2>1, <2>2
  <2> QED
    BY <1>2, <2>2, <2>3 DEF LastBatch
<1>4. Running' = Running
  BY <1>2, <1>3 DEF Running
<1> QED
  BY <1>4 DEF CallOver

LEMMA WholeEmit ==
  ASSUME AgentIInv, WholeInv, NEW c \in Running, NEW to \in {"none", "ours", "other"},
         NEW kind \in ChildKinds, NEW then \in {"running", "done"},
         Emit(c, to, kind, then), hand # "over",
         calls[c].sent = <<>> \/ to = calls[c].bus,
         then = "done" => kind \in Final
  PROVE  WholeInv'
<1>1. c \in DOMAIN calls /\ c \in Call /\ calls[c] \in ToolCall
  BY CallIs DEF Running, AgentIInv
<1>2. /\ DOMAIN calls' = DOMAIN calls /\ Len(calls') = Len(calls)
      /\ calls'[c].bus = to /\ calls'[c].pc = then
      /\ calls'[c].sent = Append(calls[c].sent, kind)
      /\ calls'[c].batch = calls[c].batch
      /\ \A d \in DOMAIN calls \ {c} : calls'[d] = calls[d]
  BY <1>1, EmitIs
<1>3. /\ outbox' = outbox /\ folded' = folded /\ acc' = acc /\ hand' = hand /\ ending' = ending
      /\ work' = work
      /\ queue' = IF to = "ours" THEN Append(queue, [call |-> c, kind |-> kind]) ELSE queue
  BY DEF Emit, loop
<1>4. \A d : CallOver(d) => CallOver(d)' /\ d # c
  BY <1>2, <1>3, AnsweredOthers
<1>5. calls[c].sent \in Seq(ChildKinds) /\ queue \in Seq(BusEvent)
      /\ [call |-> c, kind |-> kind] \in BusEvent /\ Heard(c) \in Seq(ChildKinds)
  BY <1>1, HeardTyped DEF AgentIInv, AgentTyped, ToolCall, BusEvent
<1>6. Told'
  <2> SUFFICES ASSUME NEW d \in DOMAIN calls'
               PROVE  /\ calls'[d].pc = "called" => calls'[d].sent = <<>> /\ calls'[d].bus = "none"
                      /\ calls'[d].pc = "done" /\ calls'[d].tool = "delegate" =>
                           \/ calls'[d].sent = <<>> \/ calls'[d].timedOut
                           \/ calls'[d].sent[Len(calls'[d].sent)] \in Final
    BY DEF Told
  <2>1. CASE d # c
    <3>1. calls'[d] = calls[d] /\ d \in DOMAIN calls
      BY <1>2, <2>1
    <3> QED
      BY <3>1, Zenon DEF WholeInv, Told
  <2>2. CASE d = c
    <3>1. calls'[c].sent[Len(calls'[c].sent)] = kind
      BY <1>2, <1>5
    <3> QED
      BY <1>2, <2>2, <3>1
  <2> QED
    BY <2>1, <2>2
<1>7. \A d : d # c => Heard(d)' = Heard(d)
  BY <1>2 DEF Heard
<1>8. Heard(c)' = IF to = "ours" THEN Append(Heard(c), kind) ELSE Heard(c)
  <2>1. Heard(c)' = IF to = "ours" THEN Append(calls[c].sent, kind) ELSE <<>>
    BY <1>1, <1>2 DEF Heard
  <2>2. CASE calls[c].sent = <<>>
    <3>1. Heard(c) = <<>>
      BY <2>2 DEF Heard
    <3> QED
      BY <2>1, <2>2, <3>1
  <2>3. CASE to = calls[c].bus
    BY <1>1, <2>1, <2>3 DEF Heard
  <2> QED
    BY <2>2, <2>3
<1>9. \A d : SaidOf(d, queue)' =
        IF to = "ours" /\ d = c THEN Append(SaidOf(d, queue), kind) ELSE SaidOf(d, queue)
  <2> SUFFICES ASSUME NEW d
               PROVE  SaidOf(d, queue)' =
                        IF to = "ours" /\ d = c THEN Append(SaidOf(d, queue), kind)
                                                ELSE SaidOf(d, queue)
    OBVIOUS
  <2>1. CASE to # "ours"
    BY <1>3, <2>1 DEF SaidOf
  <2>2. CASE to = "ours"
    <3> DEFINE e == [call |-> c, kind |-> kind]
    <3>1. e \in BusEvent /\ e.call = c /\ e.kind = kind /\ <<e>> \in Seq(BusEvent)
      BY <1>5
    <3>2. queue' = queue \o <<e>>
      BY <1>3, <1>5, <2>2, <3>1, AppendIsConcat
    <3> HIDE DEF e
    <3>3. SaidOf(d, queue') = SaidOf(d, queue) \o SaidOf(d, <<e>>)
      BY <1>5, <3>1, <3>2, SaidConcat
    <3>4. SaidOf(d, <<e>>) = IF d = c THEN <<kind>> ELSE <<>>
      BY <3>1, SaidOnce
    <3>5. SaidOf(d, queue) \in Seq(ChildKinds)
      BY <1>5, SaidTyped
    <3>6. SaidOf(d, queue)' = SaidOf(d, queue')
      BY DEF SaidOf
    <3> DEFINE s == SaidOf(d, queue)
    <3>7. s \in Seq(ChildKinds) /\ SaidOf(d, queue)' = s \o (IF d = c THEN <<kind>> ELSE <<>>)
      BY <3>3, <3>4, <3>5, <3>6, Zenon
    <3> HIDE DEF s
    <3>8. s \o <<kind>> = Append(s, kind) /\ s \o <<>> = s
      BY <3>7
    <3>9. SaidOf(d, queue)' = IF d = c THEN Append(s, kind) ELSE s
      BY <3>7, <3>8
    <3> QED
      BY <2>2, <3>9 DEF s
  <2> QED
    BY <2>1, <2>2
<1>10. AllHeard'
  <2> SUFFICES ASSUME ending # "closed", NEW d \in Call
               PROVE  folded[d] \o SaidOf(d, queue)' = Heard(d)'
    BY <1>3 DEF AllHeard
  <2>1. folded[d] \o SaidOf(d, queue) = Heard(d)
    BY DEF WholeInv, AllHeard
  <2>2. CASE to = "ours" /\ d = c
    <3> DEFINE f == folded[d]
               s == SaidOf(d, queue)
    <3>1. f \in Seq(ChildKinds) /\ s \in Seq(ChildKinds)
      BY <1>5, SaidTyped DEF AgentIInv, AgentTyped
    <3> HIDE DEF f, s
    <3>2. f \o Append(s, kind) = Append(f \o s, kind)
      BY <3>1
    <3> QED
      BY <1>8, <1>9, <2>1, <2>2, <3>2 DEF f, s
  <2>3. CASE ~(to = "ours" /\ d = c)
    BY <1>7, <1>8, <1>9, <2>1, <2>3
  <2> QED
    BY <2>2, <2>3
<1>11. \A d : Settles(d) => Settles(d)' /\ Heard(d)' = Heard(d)
  <2> SUFFICES ASSUME NEW d, Settles(d) PROVE Settles(d)' /\ Heard(d)' = Heard(d)
    OBVIOUS
  <2>1. CallOver(d) /\ SaidOf(d, queue) = <<>> /\ folded[d] = Heard(d)
    BY DEF Settles
  <2>2. CallOver(d)' /\ d # c
    BY <1>4, <2>1
  <2>3. SaidOf(d, queue)' = <<>> /\ Heard(d)' = Heard(d)
    BY <1>7, <1>9, <2>1, <2>2
  <2> QED
    BY <1>3, <2>1, <2>2, <2>3 DEF Settles
<1>12. PartsWhole'
  BY <1>3, <1>11 DEF WholeInv, PartsWhole, PartWhole
<1>13. Pending'
  BY <1>3, <1>4 DEF WholeInv, Pending
<1>14. SubagentsWhole'
  BY <1>3, NotOver
<1> QED
  BY <1>6, <1>10, <1>12, <1>13, <1>14 DEF WholeInv

LEMMA WholeChild ==
  ASSUME AgentIInv, WholeInv, NEW c \in Call, ChildStarts(c) \/ ChildWorks(c) \/ ChildEnds(c)
  PROVE  WholeInv'
<1>1. /\ c \in DOMAIN calls /\ c \in Running /\ calls[c] \in ToolCall /\ hand # "over"
  BY ChildIs DEF ChildStarts, ChildWorks, ChildEnds
<1>2. ourBus \in {"none", "ours", "other"} /\ calls[c].bus \in {"none", "ours", "other"}
  BY <1>1 DEF AgentIInv, AgentTyped, ToolCall
<1>3. ChildStarts(c) => calls[c].sent = <<>>
  BY <1>1, ChildIs DEF ChildStarts, WholeInv, Told
<1>4. \E to \in {"none", "ours", "other"}, kind \in ChildKinds, then \in {"running", "done"} :
        /\ Emit(c, to, kind, then)
        /\ calls[c].sent = <<>> \/ to = calls[c].bus
        /\ then = "done" => kind \in Final
  <2>1. CASE ChildStarts(c)
    BY <1>2, <1>3, <2>1 DEF ChildStarts, ChildKinds, Final
  <2>2. CASE ChildWorks(c)
    BY <1>2, <2>2 DEF ChildWorks, ChildKinds, Final
  <2>3. CASE ChildEnds(c)
    BY <1>2, <2>3 DEF ChildEnds, ChildKinds, Final
  <2> QED
    BY <2>1, <2>2, <2>3
<1> QED
  BY <1>1, <1>4, WholeEmit

LEMMA WholeTimesOut ==
  ASSUME AgentIInv, WholeInv, NEW c \in Call, ChildTimesOut(c)
  PROVE  WholeInv'
<1>1. /\ c \in DOMAIN calls /\ c \in Running
      /\ DOMAIN calls' = DOMAIN calls /\ Len(calls') = Len(calls)
      /\ calls'[c].pc = "done" /\ calls'[c].timedOut = TRUE
      /\ calls'[c].bus = calls[c].bus /\ calls'[c].sent = calls[c].sent
      /\ calls'[c].batch = calls[c].batch
      /\ \A d \in DOMAIN calls \ {c} : calls'[d] = calls[d]
      /\ UNCHANGED <<work, deltas, run, outbox, ourBus, queue, loop>>
  BY TimeOutIs
<1>2. hand # "over"
  BY DEF ChildTimesOut, Child
<1>3. /\ outbox' = outbox /\ folded' = folded /\ acc' = acc /\ hand' = hand /\ ending' = ending
      /\ work' = work /\ queue' = queue
  BY <1>1 DEF loop
<1>4. \A d : CallOver(d) => CallOver(d)'
  BY <1>1, <1>3, AnsweredOthers
<1>5. \A d : Heard(d)' = Heard(d)
  BY <1>1 DEF Heard
<1>6. Told'
  <2> SUFFICES ASSUME NEW d \in DOMAIN calls'
               PROVE  /\ calls'[d].pc = "called" => calls'[d].sent = <<>> /\ calls'[d].bus = "none"
                      /\ calls'[d].pc = "done" /\ calls'[d].tool = "delegate" =>
                           \/ calls'[d].sent = <<>> \/ calls'[d].timedOut
                           \/ calls'[d].sent[Len(calls'[d].sent)] \in Final
    BY DEF Told
  <2>1. CASE d # c
    <3>1. calls'[d] = calls[d] /\ d \in DOMAIN calls
      BY <1>1, <2>1
    <3> QED
      BY <3>1, Zenon DEF WholeInv, Told
  <2>2. CASE d = c
    <3>1. calls'[d].timedOut /\ calls'[d].pc # "called"
      BY <1>1, <2>2
    <3> QED
      BY <3>1, Zenon
  <2> QED
    BY <2>1, <2>2
<1>7. AllHeard'
  BY <1>3, <1>5 DEF WholeInv, AllHeard
<1>8. \A d : Settles(d) => Settles(d)'
  BY <1>3, <1>4, <1>5 DEF Settles
<1>9. PartsWhole'
  BY <1>3, <1>5, <1>8 DEF WholeInv, PartsWhole, PartWhole
<1>10. Pending'
  BY <1>3, <1>4 DEF WholeInv, Pending
<1>11. SubagentsWhole'
  BY <1>2, <1>3, NotOver
<1> QED
  BY <1>6, <1>7, <1>9, <1>10, <1>11 DEF WholeInv

\* What the loop does leaves the calls alone.
LEMMA CallsSame ==
  ASSUME UNCHANGED <<work, calls>>
  PROVE  \A c : CallOver(c)' = CallOver(c) /\ Heard(c)' = Heard(c)
<1>1. Running' = Running
  BY DEF Running, LastBatch
<1> QED
  BY <1>1 DEF CallOver, Heard

LEMMA WholePassChild ==
  ASSUME AgentIInv, WholeInv, PassChild
  PROVE  WholeInv'
<1>1. /\ queue # <<>> /\ folded' = FoldAll(<<Head(queue)>>, folded) /\ queue' = Tail(queue)
      /\ hand' # "over" /\ hand # "over"
      /\ UNCHANGED <<work, calls>>
      /\ calls' = calls /\ outbox' = outbox /\ acc' = acc /\ ending' = ending
  BY DEF PassChild, framework
<1>2. queue \in Seq(BusEvent) /\ folded \in [Call -> Seq(ChildKinds)]
  BY DEF AgentIInv, AgentTyped
<1>3. \A c : CallOver(c)' = CallOver(c) /\ Heard(c)' = Heard(c)
  BY <1>1, CallsSame
<1>4. \A c : SaidOf(c, queue)' = SaidOf(c, Tail(queue))
  BY <1>1 DEF SaidOf
<1>5. \A c \in Call : folded'[c] = folded[c] \o SaidOf(c, <<Head(queue)>>)
  BY <1>1 DEF FoldAll
<1>6. \A c : /\ SaidOf(c, queue) = SaidOf(c, <<Head(queue)>>) \o SaidOf(c, Tail(queue))
             /\ SaidOf(c, <<Head(queue)>>) \in Seq(ChildKinds)
             /\ SaidOf(c, Tail(queue)) \in Seq(ChildKinds)
             /\ SaidOf(c, queue) = <<>> => SaidOf(c, <<Head(queue)>>) = <<>> /\ SaidOf(c, Tail(queue)) = <<>>
  BY <1>1, <1>2, SaidTail
<1>7. Told' /\ SubagentsWhole'
  BY <1>1, NotOver DEF WholeInv, Told
<1>8. AllHeard'
  <2> SUFFICES ASSUME ending # "closed", NEW c \in Call
               PROVE  folded'[c] \o SaidOf(c, queue)' = Heard(c)'
    BY <1>1 DEF AllHeard
  <2> DEFINE f == folded[c]
             s == SaidOf(c, <<Head(queue)>>)
             t == SaidOf(c, Tail(queue))
  <2>1. f \in Seq(ChildKinds) /\ s \in Seq(ChildKinds) /\ t \in Seq(ChildKinds)
    BY <1>2, <1>6
  <2>2. f \o (s \o t) = Heard(c)
    BY <1>6 DEF WholeInv, AllHeard
  <2>3. folded'[c] = f \o s /\ SaidOf(c, queue)' = t
    BY <1>4, <1>5
  <2> HIDE DEF f, s, t
  <2>4. (f \o s) \o t = f \o (s \o t)
    BY <2>1, ConcatAssociative
  <2> QED
    BY <1>3, <2>2, <2>3, <2>4
<1>9. \A c : Settles(c) => Settles(c)'
  <2> SUFFICES ASSUME NEW c, Settles(c) PROVE Settles(c)'
    OBVIOUS
  <2>1. CallOver(c) /\ SaidOf(c, queue) = <<>> /\ folded[c] = Heard(c) /\ c \in Call
    BY CallIs DEF Settles, CallOver, AgentIInv
  <2>2. folded'[c] = folded[c] \o <<>> /\ folded[c] \in Seq(ChildKinds)
    BY <1>2, <1>5, <1>6, <2>1
  <2>3. folded'[c] = folded[c]
    BY <2>2, ConcatEmptySeq
  <2> QED
    BY <1>3, <1>4, <1>6, <2>1, <2>3 DEF Settles
<1>10. PartsWhole' /\ Pending'
  BY <1>1, <1>3, <1>9 DEF WholeInv, PartsWhole, PartWhole, Pending
<1> QED
  BY <1>7, <1>8, <1>10 DEF WholeInv

\* The parts of a message after another event: the old ones, and the event's.
LEMMA AccumulateParts ==
  ASSUME NEW a \in AccState, NEW e \in Event, NEW i \in DOMAIN Accumulate(a, e).parts
  PROVE  LET part == Accumulate(a, e).parts[i] IN
         \/ \E j \in DOMAIN a.parts : part = a.parts[j]
         \/ part.kind # "tool_result"
         \/ e.kind = "tool_result" /\ part.call = e.call /\ part.sub = <<>>
<1> DEFINE b == Accumulate(a, e)
<1>1. CASE e.kind \in TextKinds
  <2>1. b = [a EXCEPT !.text = @ + 1]
    BY <1>1 DEF Accumulate, TextKinds, ToolKinds
  <2> HIDE DEF b
  <2>2. b.parts = a.parts
    BY <2>1 DEF AccState
  <2> QED
    BY <2>2 DEF b
<1>2. CASE e.kind = "reasoning"
  <2>1. b = [a EXCEPT !.open = @ + 1]
    BY <1>2 DEF Accumulate, TextKinds, ToolKinds
  <2> HIDE DEF b
  <2>2. b.parts = a.parts
    BY <2>1 DEF AccState
  <2> QED
    BY <2>2 DEF b
<1>3. CASE e.kind \in ToolKinds
  <2> DEFINE flushed == Flush(a)
             p == Part(e.kind, e.call, 0)
             all == Append(flushed, p)
             o == Part("reasoning", 0, a.open)
             n == Len(a.parts)
  <2>1. b = [a EXCEPT !.open = 0, !.parts = all]
    BY <1>3 DEF Accumulate, TextKinds, ToolKinds, ToolPart
  <2>2. b.parts = all
    <3> HIDE DEF b, all
    <3> QED
      BY <2>1 DEF AccState
  <2>3. p.kind = e.kind /\ p.call = e.call /\ p.sub = <<>> /\ o.kind # "tool_result"
    BY DEF Part
  <2>4. a.parts \in Seq(PartState) /\ flushed \in Seq(PartState)
        /\ (flushed = a.parts \/ flushed = Append(a.parts, o))
    BY FlushTyped DEF AccState
  <2> HIDE DEF b, flushed, p, o
  <2>5. i \in 1 .. Len(flushed) + 1 /\ Len(flushed) \in Nat /\ n \in Nat
    BY <2>2, <2>4 DEF b
  <2>6. CASE i = Len(flushed) + 1
    <3>1. all[i] = p
      BY <2>4, <2>5, <2>6
    <3> QED
      BY <1>3, <2>2, <2>3, <3>1 DEF ToolKinds, b
  <2>7. CASE i \in 1 .. Len(flushed)
    <3>1. all[i] = flushed[i]
      BY <2>4, <2>5, <2>7
    <3>2. (i \in DOMAIN a.parts /\ flushed[i] = a.parts[i]) \/ flushed[i] = o
      BY <2>4, <2>7
    <3> QED
      BY <2>2, <2>3, <3>1, <3>2 DEF b
  <2> QED
    BY <2>5, <2>6, <2>7
<1>4. CASE e.kind \notin TextKinds /\ e.kind # "reasoning" /\ e.kind \notin ToolKinds
  <2>1. b = a
    BY <1>4 DEF Accumulate
  <2> QED
    BY <2>1
<1> QED
  BY <1>1, <1>2, <1>3, <1>4

\* An event of the outbox is added to the message when the bus is empty: what its
\* sub-agent has said has been heard.
LEMMA WholeAdded ==
  ASSUME AgentIInv, WholeInv, ParentReady, ending # "closed",
         NEW i \in DOMAIN Accumulate(acc, Head(outbox)).parts
  PROVE  PartWhole(Accumulate(acc, Head(outbox)).parts[i])
<1> DEFINE e == Head(outbox)
           part == Accumulate(acc, e).parts[i]
<1>1. e \in Event /\ e = outbox[1] /\ 1 \in DOMAIN outbox /\ queue = <<>> /\ acc \in AccState
  BY ReadyIs DEF AgentIInv, AgentTyped
<1>2. \/ \E j \in DOMAIN acc.parts : part = acc.parts[j]
      \/ part.kind # "tool_result"
      \/ e.kind = "tool_result" /\ part.call = e.call /\ part.sub = <<>>
  BY <1>1, AccumulateParts
<1>3. ASSUME e.kind = "tool_result" PROVE Settles(e.call)
  <2>1. CallOver(e.call)
    BY <1>1, <1>3 DEF WholeInv, Pending
  <2>2. e.call \in Call
    BY <2>1, CallIs DEF CallOver, AgentIInv
  <2>3. folded[e.call] \o SaidOf(e.call, queue) = Heard(e.call)
    BY <2>2 DEF WholeInv, AllHeard
  <2>4. SaidOf(e.call, queue) = <<>>
    BY <1>1, SaidNothing
  <2>5. folded[e.call] \in Seq(ChildKinds)
    BY <2>2 DEF AgentIInv, AgentTyped
  <2>6. folded[e.call] = Heard(e.call)
    BY <2>3, <2>4, <2>5, ConcatEmptySeq
  <2> QED
    BY <2>1, <2>4, <2>6 DEF Settles
<1> HIDE DEF part, e
<1>4. PartWhole(part)
  BY <1>2, <1>3 DEF WholeInv, PartsWhole, PartWhole
<1> QED
  BY <1>4 DEF part, e

\* The results that have no payload get what was heard of their calls.
LEMMA WholeAttached ==
  ASSUME AgentIInv, NEW parts \in Seq(PartState), NEW state \in [Call -> Seq(ChildKinds)],
         \A i \in DOMAIN parts : PartWhole(parts[i]),
         \A c \in Call : Settles(c) => state[c] = Heard(c)
  PROVE  \A i \in DOMAIN Attach(parts, state) :
           LET part == Attach(parts, state)[i] IN
           PartWhole(part) /\ (part.kind = "tool_result" => part.sub = Heard(part.call))
<1> DEFINE all == Attach(parts, state)
<1>1. /\ all \in Seq(PartState) /\ Len(all) = Len(parts)
      /\ \A i \in DOMAIN parts :
           /\ all[i].kind = parts[i].kind /\ all[i].call = parts[i].call
           /\ all[i].sub = IF parts[i].kind = "tool_result" /\ parts[i].sub = <<>>
                             THEN state[parts[i].call] ELSE parts[i].sub
  BY AttachTyped
<1> HIDE DEF all
<1> SUFFICES ASSUME NEW i \in DOMAIN all
             PROVE  /\ PartWhole(all[i])
                    /\ all[i].kind = "tool_result" => all[i].sub = Heard(all[i].call)
  BY DEF all
<1>2. i \in DOMAIN parts
  BY <1>1
<1>3. /\ all[i].kind = parts[i].kind /\ all[i].call = parts[i].call
      /\ all[i].sub = IF parts[i].kind = "tool_result" /\ parts[i].sub = <<>>
                        THEN state[parts[i].call] ELSE parts[i].sub
  BY <1>1, <1>2
<1>4. PartWhole(parts[i])
  BY <1>2
<1>5. ASSUME parts[i].kind = "tool_result"
      PROVE  Settles(parts[i].call) /\ all[i].sub = Heard(parts[i].call)
  <2>1. Settles(parts[i].call) /\ parts[i].sub \in {<<>>, Heard(parts[i].call)}
    BY <1>4, <1>5 DEF PartWhole
  <2>2. parts[i].call \in Call
    BY <2>1, CallIs DEF Settles, CallOver, AgentIInv
  <2> QED
    BY <1>3, <1>5, <2>1, <2>2
<1> QED
  BY <1>3, <1>5 DEF PartWhole

LEMMA UnendedStep == Unended /\ [AgentNext]_agentVars => Unended'
<1> SUFFICES ASSUME Unended, [AgentNext]_agentVars PROVE Unended'
  OBVIOUS
<1>1. ASSUME NEW kind, NEW usage, Answer(kind, usage) PROVE Unended'
  BY <1>1 DEF Answer, loop, Unended
<1>2. ASSUME NEW tools, CallTools(tools) PROVE Unended'
  BY <1>2 DEF CallTools, loop, Unended
<1>3. CASE Results \/ FrameworkEnds \/ BusTaken
  BY <1>3 DEF Results, FrameworkEnds, BusTaken, loop, Unended
<1>4. ASSUME NEW c, ChildStarts(c) \/ ChildWorks(c) \/ ChildEnds(c) \/ ChildTimesOut(c)
      PROVE  Unended'
  BY <1>4 DEF ChildStarts, ChildWorks, ChildEnds, ChildTimesOut, Emit, loop, Unended
<1>5. CASE PassChild \/ PassParent \/ AskNext
  BY <1>5 DEF PassChild, PassParent, ParentReady, AskNext, Unended
<1>6. CASE PassCancelled \/ CheckFails \/ StreamEnds \/ LoopClosed
  BY <1>6 DEF PassCancelled, CheckFails, StreamEnds, LoopClosed, EndAs, ParentReady, Unended
<1>7. CASE Persist
  BY <1>7 DEF Persist, Unended
<1>8. CASE UNCHANGED agentVars
  BY <1>8 DEF agentVars, Unended
<1> QED
  BY <1>1, <1>2, <1>3, <1>4, <1>5, <1>6, <1>7, <1>8 DEF AgentNext

\* The rest of the outbox.
LEMMA PendingTail ==
  ASSUME AgentIInv, Pending, outbox # <<>>, outbox' = Tail(outbox), UNCHANGED <<work, calls>>
  PROVE  Pending'
<1>1. outbox \in Seq(Event) /\ Len(outbox) \in Nat
  BY DEF AgentIInv, AgentTyped
<1>2. \A i \in DOMAIN outbox' : i + 1 \in DOMAIN outbox /\ outbox'[i] = outbox[i + 1]
  BY <1>1
<1>3. \A c : CallOver(c)' = CallOver(c)
  BY CallsSame
<1> QED
  BY <1>2, <1>3 DEF Pending

LEMMA WholePassParent ==
  ASSUME AgentIInv, WholeInv, Unended, PassParent
  PROVE  WholeInv'
<1> DEFINE e == Head(outbox)
           now == Accumulate(acc, e)
<1>1. /\ now \in AccState /\ acc' \in AccState
      /\ e.kind # "tool_result" => acc' = now
      /\ e.kind = "tool_result" => acc'.parts = Attach(now.parts, folded)
      /\ folded' = folded /\ queue' = <<>> /\ queue = <<>>
      /\ outbox' = Tail(outbox) /\ hand' = "parent"
      /\ UNCHANGED <<work, calls, ending>>
      /\ ParentReady
  BY PassParentIs
<1>2. outbox # <<>> /\ hand = "waiting"
  BY <1>1, ReadyIs
<1>3. ending = "none" /\ ending' = "none"
  BY <1>1, <1>2 DEF Unended
<1>4. \A c : /\ CallOver(c)' = CallOver(c) /\ Heard(c)' = Heard(c)
             /\ SaidOf(c, queue)' = SaidOf(c, queue)
  BY <1>1, CallsSame DEF SaidOf
<1>5. \A c : Settles(c)' = Settles(c)
  BY <1>1, <1>4 DEF Settles
<1>6. \A part : PartWhole(part) => PartWhole(part)'
  BY <1>4, <1>5 DEF PartWhole
<1>7. \A i \in DOMAIN now.parts : PartWhole(now.parts[i])
  BY <1>1, <1>3, WholeAdded
<1>8. ASSUME NEW i \in DOMAIN acc'.parts PROVE PartWhole(acc'.parts[i])
  <2>1. CASE e.kind # "tool_result"
    BY <1>1, <1>7, <1>8, <2>1, Zenon
  <2>2. CASE e.kind = "tool_result"
    <3>1. now.parts \in Seq(PartState) /\ folded \in [Call -> Seq(ChildKinds)]
      BY <1>1 DEF AccState, AgentIInv, AgentTyped
    <3>2. \A c \in Call : Settles(c) => folded[c] = Heard(c)
      BY DEF Settles
    <3> HIDE DEF now
    <3>3. \A j \in DOMAIN Attach(now.parts, folded) : PartWhole(Attach(now.parts, folded)[j])
      BY <1>7, <3>1, <3>2, WholeAttached
    <3> QED
      BY <1>1, <1>8, <2>2, <3>3, Zenon
  <2> QED
    BY <2>1, <2>2
<1>9. PartsWhole'
  BY <1>6, <1>8 DEF PartsWhole
<1>10. Pending'
  BY <1>1, <1>2, PendingTail DEF WholeInv
<1>11. AllHeard'
  BY <1>1, <1>4 DEF WholeInv, AllHeard
<1>12. Told' /\ SubagentsWhole'
  BY <1>1, <1>2, NotOver DEF WholeInv, Told
<1> QED
  BY <1>9, <1>10, <1>11, <1>12 DEF WholeInv

\* What leaves the record, the calls and the bus alone.
LEMMA WholeLeft ==
  ASSUME WholeInv, UNCHANGED <<work, calls, queue, folded>>, hand # "over", hand' # "over",
         ending # "closed", Pending', \A i \in DOMAIN acc'.parts : PartWhole(acc'.parts[i])
  PROVE  WholeInv'
<1>1. \A c : /\ CallOver(c)' = CallOver(c) /\ Heard(c)' = Heard(c)
             /\ SaidOf(c, queue)' = SaidOf(c, queue)
  BY CallsSame DEF SaidOf
<1>2. \A c : Settles(c)' = Settles(c)
  BY <1>1 DEF Settles
<1>3. \A part : PartWhole(part) => PartWhole(part)'
  BY <1>1, <1>2 DEF PartWhole
<1>4. AllHeard'
  BY <1>1 DEF WholeInv, AllHeard
<1>5. Told' /\ SubagentsWhole'
  BY NotOver DEF WholeInv, Told
<1>6. PartsWhole'
  BY <1>3 DEF PartsWhole
<1> QED
  BY <1>4, <1>5, <1>6 DEF WholeInv

LEMMA WholeLoopClosed ==
  ASSUME AgentIInv, WholeInv, LoopClosed
  PROVE  WholeInv'
<1>1. /\ UNCHANGED <<work, calls>> /\ folded' = folded /\ acc' = acc /\ outbox' = outbox
      /\ calls' = calls
      /\ hand # "over" /\ hand' # "over" /\ ending' = "closed"
      /\ queue' = queue \/ queue' = Drained
  BY DEF LoopClosed, EndAs, framework
<1>2. \A c : CallOver(c)' = CallOver(c) /\ Heard(c)' = Heard(c)
  BY <1>1, CallsSame
<1>3. \A c : SaidOf(c, queue) = <<>> => SaidOf(c, queue)' = <<>>
  <2> SUFFICES ASSUME NEW c, SaidOf(c, queue) = <<>> PROVE SaidOf(c, queue') = <<>>
    BY DEF SaidOf
  <2>1. CASE queue' = queue
    BY <2>1, Zenon
  <2>2. CASE queue' = Drained /\ queue = <<>>
    BY <2>2, SaidNothing DEF Drained
  <2>3. CASE queue' = Drained /\ queue # <<>>
    <3>1. queue' = Tail(queue) /\ queue \in Seq(BusEvent)
      BY <2>3 DEF Drained, AgentIInv, AgentTyped
    <3> DEFINE t == Tail(queue)
    <3>2. SaidOf(c, t) = <<>>
      BY <2>3, <3>1, SaidTail
    <3>3. queue' = t
      BY <3>1
    <3> HIDE DEF t
    <3> QED
      BY <3>2, <3>3
  <2> QED
    BY <1>1, <2>1, <2>2, <2>3
<1>4. \A c : Settles(c) => Settles(c)'
  BY <1>1, <1>2, <1>3 DEF Settles
<1>5. PartsWhole' /\ Pending'
  BY <1>1, <1>2, <1>4 DEF WholeInv, PartsWhole, PartWhole, Pending
<1>6. AllHeard'
  BY <1>1 DEF AllHeard
<1>7. Told' /\ SubagentsWhole'
  BY <1>1, NotOver DEF WholeInv, Told
<1> QED
  BY <1>5, <1>6, <1>7 DEF WholeInv

LEMMA WholePersist ==
  ASSUME AgentIInv, WholeInv, Unended, Persist
  PROVE  WholeInv'
<1> DEFINE heard == FoldAll(queue, folded)
           all == Attach(acc.parts, heard)
           parts == IF acc.open = 0 THEN all ELSE Append(all, Part("reasoning", 0, acc.open))
<1>1. /\ heard \in [Call -> Seq(ChildKinds)] /\ all \in Seq(PartState)
      /\ parts \in Seq(PartState)
      /\ folded' = heard
      /\ \/ message' = [state |-> "stored", text |-> acc.text, parts |-> parts]
         \/ message'.state = "failed"
         \/ message' = message
      /\ queue' = <<>> /\ hand = "ending" /\ hand' = "over"
      /\ UNCHANGED <<framework, ending, acc>>
  BY PersistIs, Zenon
<1>2. /\ UNCHANGED <<work, calls>> /\ acc' = acc /\ outbox' = outbox /\ calls' = calls
      /\ ending' = ending
  BY <1>1 DEF framework
<1>3. \A c : CallOver(c)' = CallOver(c) /\ Heard(c)' = Heard(c)
  BY <1>2, CallsSame
<1>4. \A c : SaidOf(c, queue)' = <<>>
  <2>1. \A c : SaidOf(c, queue)' = SaidOf(c, queue')
    BY DEF SaidOf
  <2> QED
    BY <1>1, <2>1, SaidNothing, Zenon
<1>5. \A c \in Call : heard[c] = folded[c] \o SaidOf(c, queue)
  BY DEF FoldAll
<1> HIDE DEF heard, all
<1>6. AllHeard'
  <2> SUFFICES ASSUME ending # "closed", NEW c \in Call
               PROVE  folded'[c] \o SaidOf(c, queue)' = Heard(c)'
    BY <1>2 DEF AllHeard
  <2>1. folded'[c] = Heard(c)
    BY <1>1, <1>5 DEF WholeInv, AllHeard
  <2>2. Heard(c) \in Seq(ChildKinds)
    BY HeardTyped
  <2> QED
    BY <1>3, <1>4, <2>1, <2>2, ConcatEmptySeq
<1>7. \A c \in Call : Settles(c) => heard[c] = Heard(c)
  <2> SUFFICES ASSUME NEW c \in Call, Settles(c) PROVE heard[c] = Heard(c)
    OBVIOUS
  <2>1. heard[c] = folded[c] \o <<>> /\ folded[c] = Heard(c) /\ Heard(c) \in Seq(ChildKinds)
    BY <1>5, HeardTyped DEF Settles
  <2> QED
    BY <2>1, ConcatEmptySeq
<1>8. \A c : Settles(c) => Settles(c)'
  <2> SUFFICES ASSUME NEW c, Settles(c) PROVE Settles(c)'
    OBVIOUS
  <2>1. c \in Call
    BY CallIs DEF Settles, CallOver, AgentIInv
  <2>2. folded'[c] = Heard(c)
    BY <1>1, <1>7, <2>1
  <2> QED
    BY <1>3, <1>4, <2>2 DEF Settles
<1>9. PartsWhole' /\ Pending'
  BY <1>2, <1>3, <1>8 DEF WholeInv, PartsWhole, PartWhole, Pending
<1>10. Told'
  BY <1>2 DEF WholeInv, Told
<1>11. ASSUME NEW i \in DOMAIN parts, parts[i].kind = "tool_result"
       PROVE  Settles(parts[i].call) /\ parts[i].sub = Heard(parts[i].call)
  <2>1. acc.parts \in Seq(PartState) /\ \A j \in DOMAIN acc.parts : PartWhole(acc.parts[j])
    BY DEF AgentIInv, AgentTyped, AccState, WholeInv, PartsWhole
  <2>2. \A j \in DOMAIN all : /\ PartWhole(all[j])
                              /\ all[j].kind = "tool_result" => all[j].sub = Heard(all[j].call)
    BY <1>1, <1>7, <2>1, WholeAttached DEF all
  <2>3. i \in DOMAIN all /\ parts[i] = all[i]
    <3> DEFINE o == Part("reasoning", 0, acc.open)
    <3>1. o.kind = "reasoning"
      BY DEF Part
    <3> HIDE DEF o
    <3>2. parts = all \/ parts = Append(all, o)
      BY DEF o
    <3>3. Len(all) \in Nat /\ i \in 1 .. Len(parts)
      BY <1>1, <1>11
    <3>4. CASE parts = Append(all, o)
      <4>1. i \in 1 .. Len(all) + 1
        BY <1>1, <3>3, <3>4
      <4>2. i # Len(all) + 1
        BY <1>1, <1>11, <3>1, <3>3, <3>4
      <4> QED
        BY <1>1, <3>3, <3>4, <4>1, <4>2
    <3>5. CASE parts = all
      BY <1>11, <3>5, Zenon
    <3> QED
      BY <3>2, <3>4, <3>5
  <2> HIDE DEF parts
  <2> QED
    BY <1>11, <2>2, <2>3 DEF PartWhole
<1>12. SubagentsWhole'
  <2> SUFFICES ASSUME message'.state = "stored", NEW i \in DOMAIN message'.parts,
                      NEW part, part = message'.parts[i], NEW child, child = calls[part.call],
                      part.kind = "tool_result", child.tool = "delegate"
               PROVE  /\ part.sub = IF child.bus = "ours" THEN child.sent ELSE <<>>
                      /\ part.sub = <<>> \/ child.timedOut \/ part.sub[Len(part.sub)] \in Final
    BY <1>2, Zenon DEF SubagentsWhole, Settled
  <2>1. CASE message' = [state |-> "stored", text |-> acc.text, parts |-> parts]
    <3>1. message'.parts = parts
      BY <2>1
    <3>2. i \in DOMAIN parts /\ parts[i] = part
      BY <3>1
    <3>3. Settles(part.call) /\ part.sub = Heard(part.call)
      BY <1>11, <3>2
    <3>4. part.call \in DOMAIN calls /\ child.pc = "done"
      BY <3>3 DEF Settles, CallOver
    <3>5. part.sub = IF child.bus = "ours" THEN child.sent ELSE <<>>
      BY <3>3, <3>4 DEF Heard
    <3>6. child.sent = <<>> \/ child.timedOut \/ child.sent[Len(child.sent)] \in Final
      BY <3>4, Zenon DEF WholeInv, Told
    <3>7. part.sub = <<>> \/ part.sub = child.sent
      BY <3>5
    <3> QED
      BY <3>5, <3>6, <3>7, Zenon
  <2>2. CASE message' = message
    BY <1>1, <2>2 DEF Unended
  <2> QED
    BY <1>1, <2>1, <2>2
<1> QED
  BY <1>6, <1>9, <1>10, <1>12 DEF WholeInv

LEMMA WholeStep ==
  AgentIInv /\ Unended /\ WholeInv /\ [AgentNext]_agentVars => WholeInv'
<1> SUFFICES ASSUME AgentIInv, Unended, WholeInv, [AgentNext]_agentVars PROVE WholeInv'
  OBVIOUS
<1>1. CASE UNCHANGED agentVars
  BY <1>1 DEF agentVars, WholeInv, Told, Pending, CallOver, Running, LastBatch, AllHeard, SaidOf,
     Heard, PartsWhole, PartWhole, Settles, SubagentsWhole, Settled
<1>2. ASSUME NEW kind \in {"token", "reasoning", "usage"}, NEW usage \in Nat, Answer(kind, usage)
      PROVE  WholeInv'
  BY <1>2, WholeAnswer
<1>3. CASE Results
  BY <1>3, WholeResults
<1>4. ASSUME NEW tools \in {<<x>> : x \in Tools} \union Tools \X Tools, CallTools(tools)
      PROVE  WholeInv'
  <2>1. ASSUME NEW x \in Tools, tools = <<x>> PROVE tools \in Seq(Tools) \ {<<>>}
    BY <2>1
  <2>2. ASSUME NEW x \in Tools, NEW y \in Tools, tools = <<x, y>>
        PROVE  tools \in Seq(Tools) \ {<<>>}
    BY <2>2
  <2> QED
    BY <1>4, <2>1, <2>2, WholeCallTools
<1>5. CASE FrameworkEnds \/ BusTaken
  <2>1. /\ UNCHANGED <<calls, queue, loop, outbox>> /\ work' \in {work, "over"}
        /\ hand # "over"
    BY <1>5, OverIs DEF FrameworkEnds, Asked, BusTaken, framework, Child
  <2>2. \A c : CallOver(c) => CallOver(c)'
    BY <2>1 DEF CallOver, Running, LastBatch
  <2>3. Pending'
    BY <2>1, <2>2 DEF WholeInv, Pending
  <2> QED
    BY <2>1, <2>2, <2>3, WholeSame
<1>6. ASSUME NEW c \in Call, ChildStarts(c) \/ ChildWorks(c) \/ ChildEnds(c) PROVE WholeInv'
  BY <1>6, WholeChild
<1>7. ASSUME NEW c \in Call, ChildTimesOut(c) PROVE WholeInv'
  BY <1>7, WholeTimesOut
<1>8. CASE PassChild
  BY <1>8, WholePassChild
<1>9. CASE PassParent
  BY <1>9, WholePassParent
<1>10. CASE PassCancelled
  <2>1. /\ ParentReady /\ acc' = Accumulate(acc, Head(outbox)) /\ outbox' = Tail(outbox)
        /\ hand' = "ending"
        /\ UNCHANGED <<work, calls, queue, folded>>
    BY <1>10 DEF PassCancelled, EndAs
  <2>2. hand = "waiting" /\ outbox # <<>> /\ ending = "none"
    BY <2>1, ReadyIs DEF Unended
  <2>3. Pending'
    BY <2>1, <2>2, PendingTail DEF WholeInv
  <2>4. \A i \in DOMAIN acc'.parts : PartWhole(acc'.parts[i])
    BY <2>1, <2>2, WholeAdded
  <2> QED
    BY <2>1, <2>2, <2>3, <2>4, WholeLeft
<1>11. CASE CheckFails
  <2>1. /\ ParentReady /\ outbox' = Tail(outbox) /\ hand' = "ending"
        /\ UNCHANGED <<work, calls, queue, folded, acc>>
    BY <1>11 DEF CheckFails, EndAs
  <2>2. hand = "waiting" /\ outbox # <<>> /\ ending = "none"
    BY <2>1, ReadyIs DEF Unended
  <2>3. Pending'
    BY <2>1, <2>2, PendingTail DEF WholeInv
  <2>4. \A i \in DOMAIN acc'.parts : PartWhole(acc'.parts[i])
    BY <2>1 DEF WholeInv, PartsWhole
  <2> QED
    BY <2>1, <2>2, <2>3, <2>4, WholeLeft
<1>12. CASE StreamEnds
  <2>1. /\ queue = <<>> /\ Drained = <<>> /\ hand = "waiting" /\ hand' = "ending"
        /\ folded' = FoldAll(Drained, folded) /\ queue' = <<>>
        /\ UNCHANGED <<work, calls, outbox, acc>>
    BY <1>12 DEF StreamEnds, EndAs, BusFirst, Drained, framework
  <2>2. folded' = folded
    BY <2>1, FoldNothing DEF AgentIInv, AgentTyped
  <2>3. UNCHANGED <<work, calls, queue, folded>> /\ acc' = acc /\ ending = "none"
    BY <2>1, <2>2 DEF Unended
  <2>4. Pending' /\ \A i \in DOMAIN acc'.parts : PartWhole(acc'.parts[i])
    BY <2>1, <2>3, CallsSame DEF WholeInv, PartsWhole, Pending
  <2> QED
    BY <2>1, <2>3, <2>4, WholeLeft
<1>13. CASE AskNext
  <2>1. UNCHANGED <<work, calls, queue, folded>> /\ acc' = acc /\ ending = "none"
        /\ hand # "over" /\ hand' # "over" /\ outbox' = outbox
    BY <1>13 DEF AskNext, framework, Unended
  <2>2. Pending' /\ \A i \in DOMAIN acc'.parts : PartWhole(acc'.parts[i])
    BY <2>1, CallsSame DEF WholeInv, PartsWhole, Pending
  <2> QED
    BY <2>1, <2>2, WholeLeft
<1>14. CASE LoopClosed
  BY <1>14, WholeLoopClosed
<1>15. CASE Persist
  BY <1>15, WholePersist
<1> QED
  BY <1>1, <1>2, <1>3, <1>4, <1>5, <1>6, <1>7, <1>8, <1>9, <1>10, <1>11, <1>12, <1>13, <1>14,
     <1>15, AgentTurnAssumption DEF AgentNext

LEMMA WholeInitially == AgentInit => Unended /\ WholeInv
<1> SUFFICES ASSUME AgentInit PROVE Unended /\ WholeInv
  OBVIOUS
<1>1. /\ calls = <<>> /\ outbox = <<>> /\ queue = <<>> /\ hand = "waiting" /\ ending = "none"
      /\ acc.parts = <<>> /\ folded = [c \in Call |-> <<>>] /\ message.state = "none"
  BY DEF AgentInit
<1>2. Told /\ Pending /\ PartsWhole /\ SubagentsWhole
  BY <1>1 DEF Told, Pending, PartsWhole, SubagentsWhole, Settled
<1>3. AllHeard
  <2> SUFFICES ASSUME NEW c \in Call PROVE folded[c] \o SaidOf(c, queue) = Heard(c)
    BY DEF AllHeard
  <2>1. SaidOf(c, queue) = <<>> /\ folded[c] = <<>> /\ Heard(c) = <<>>
    BY <1>1, SaidNothing DEF Heard
  <2> QED
    BY <2>1
<1> QED
  BY <1>1, <1>2, <1>3 DEF Unended, WholeInv

\* The result of a delegate is stored with all that its sub-agent has said, however the
\* events of the two are interleaved, and whichever way the turn ends.
THEOREM SubagentsAreWhole == AgentSpec => []SubagentsWhole
<1>1. AgentInit => AgentIInv /\ Unended /\ WholeInv
  BY AgentInitially, WholeInitially
<1>2. AgentIInv /\ Unended /\ WholeInv /\ [AgentNext]_agentVars
        => AgentIInv' /\ Unended' /\ WholeInv'
  BY AgentIStep, UnendedStep, WholeStep
<1>3. WholeInv => SubagentsWhole
  BY DEF WholeInv
<1> QED
  BY <1>1, <1>2, <1>3, PTL DEF AgentSpec

------------------------------------------------------------------------------
(* What a turn says of its limits.                                          *)

Places(kind, s) == {i \in DOMAIN s : s[i].kind = kind}

Warning(b) == IF b = "steps" THEN "warned_steps" ELSE "warned_input_tokens"
Excess(b) == IF b = "steps" THEN "exceeded_steps" ELSE "exceeded_input_tokens"

\* A warning was given once, for each budget that has the mark of it, and before the
\* budget was used up.
Marked(s, r) ==
  \A b \in Budgets :
    /\ b \in r.warned <=> Places(Warning(b), s) # {}
    /\ \A i, j \in Places(Warning(b), s) : i = j
    /\ \A i \in Places(Excess(b), s) :
         b \in r.warned /\ \A j \in Places(Warning(b), s) : j < i

\* Why the turn was stopped, what it says of it, and its last words.
Stopped(s, r) ==
  /\ Places("exceeded_steps", s) # {} <=> r.stop = "step_limit"
  /\ Places("exceeded_input_tokens", s) # {} <=> r.stop = "input_budget"
  /\ Places("loop_detected", s) # {} <=> r.stop = "loop"
  /\ r.stop = "step_limit" <=> r.steps = MaxSteps
  /\ r.stop = "input_budget" <=> MaxInput > 0 /\ r.spent >= MaxInput
  /\ r.stop # "none" => Len(s) > 0 /\ s[Len(s)].kind = "wrapup"

\* The steps are the batches whose results have been passed.
Stepped(s, r) ==
  /\ \A i \in Places("tool_result", s) : s[i].call \in DOMAIN calls
  /\ {calls[s[i].call].batch : i \in Places("tool_result", s)} = 1 .. r.steps

\* What was shown and what is about to be, as long as nothing of it is lost.
Passed == shown \o outbox
Smooth == ending \in {"none", "finished"} /\ hand # "over"

\* What is under way.
Underway ==
  /\ work # "over" => run.stop = "none"
  /\ work = "answering" => LastBatch = run.steps
  /\ work = "calling" => calls # <<>> /\ LastBatch = run.steps + 1
  /\ ending = "finished" => outbox = <<>>
  /\ \A i \in DOMAIN shown : shown[i].kind \in TextKinds => acc.text > 0

Tracked == Marked(Passed, run) /\ Stopped(Passed, run) /\ Stepped(Passed, run) /\ Underway

LimitsInv == (Smooth => Tracked) /\ LimitsAreSaid

\* The kinds of the checks, in the order of the checks.
Rank == [warned_steps |-> 1, exceeded_steps |-> 2, warned_input_tokens |-> 3,
         exceeded_input_tokens |-> 4, loop_detected |-> 5, wrapup |-> 6]
CheckKinds == DOMAIN Rank

\* These are the first checks, in their order, that have something to say.
Climbs(s, n, D) ==
  /\ s \in Seq(Plain)
  /\ \A i \in DOMAIN s : s[i].kind \in CheckKinds /\ Rank[s[i].kind] <= n
  /\ \A i, j \in DOMAIN s : i < j => Rank[s[i].kind] < Rank[s[j].kind]
  /\ \A k \in CheckKinds : Places(k, s) # {} <=> Rank[k] <= n /\ k \in D

LEMMA RankIs ==
  /\ CheckKinds = {"warned_steps", "exceeded_steps", "warned_input_tokens",
                   "exceeded_input_tokens", "loop_detected", "wrapup"}
  /\ Rank["warned_steps"] = 1 /\ Rank["exceeded_steps"] = 2 /\ Rank["warned_input_tokens"] = 3
  /\ Rank["exceeded_input_tokens"] = 4 /\ Rank["loop_detected"] = 5 /\ Rank["wrapup"] = 6
  /\ \A k \in CheckKinds : Rank[k] \in 1 .. 6
  /\ \A k, l \in CheckKinds : Rank[k] = Rank[l] => k = l
<1>1. CheckKinds = {"warned_steps", "exceeded_steps", "warned_input_tokens",
                    "exceeded_input_tokens", "loop_detected", "wrapup"}
  BY DEF CheckKinds, Rank
<1>2. Rank["warned_steps"] = 1 /\ Rank["exceeded_steps"] = 2 /\ Rank["warned_input_tokens"] = 3
      /\ Rank["exceeded_input_tokens"] = 4 /\ Rank["loop_detected"] = 5 /\ Rank["wrapup"] = 6
  BY DEF Rank
<1> QED
  BY <1>1, <1>2

LEMMA ClimbsOn ==
  ASSUME NEW n \in 0 .. 5, NEW D, NEW s, Climbs(s, n, D), NEW kind \in CheckKinds,
         Rank[kind] = n + 1, NEW condition \in BOOLEAN, condition <=> kind \in D
  PROVE  Climbs(s \o When(condition, kind), n + 1, D)
<1>1. /\ s \in Seq(Plain) /\ DOMAIN s = 1 .. Len(s) /\ Len(s) \in Nat
      /\ \A k \in CheckKinds : Rank[k] \in 1 .. 6
      /\ \A k, l \in CheckKinds : Rank[k] = Rank[l] => k = l
  BY RankIs DEF Climbs
<1>2. CASE ~condition
  <2>1. s \o When(condition, kind) = s
    BY <1>1, <1>2, ConcatEmptySeq DEF When
  <2>2. \A k \in CheckKinds : (Rank[k] <= n + 1 /\ k \in D) <=> (Rank[k] <= n /\ k \in D)
    BY <1>1, <1>2
  <2>3. \A i \in DOMAIN s : s[i].kind \in CheckKinds /\ Rank[s[i].kind] <= n + 1
    BY <1>1 DEF Climbs
  <2>4. Climbs(s, n + 1, D)
    BY <2>2, <2>3 DEF Climbs
  <2> QED
    BY <2>1, <2>4
<1>3. CASE condition
  <2> DEFINE e == Sse(kind, 0)
             t == s \o When(condition, kind)
  <2>1. e \in Plain /\ e.kind = kind
    BY RankIs DEF Sse, Event, Plain, EventKinds, TextKinds, ToolKinds
  <2>2. t = Append(s, e)
    BY <1>1, <1>3, <2>1, AppendIsConcat DEF When
  <2> HIDE DEF t, e
  <2>3. /\ t \in Seq(Plain) /\ DOMAIN t = 1 .. Len(s) + 1 /\ t[Len(s) + 1] = e
        /\ \A i \in 1 .. Len(s) : t[i] = s[i]
    BY <1>1, <2>1, <2>2
  <2>4. \A i \in DOMAIN t : t[i].kind \in CheckKinds /\ Rank[t[i].kind] <= n + 1
    BY <1>1, <2>1, <2>3 DEF Climbs
  <2>5. ASSUME NEW i \in DOMAIN t, NEW j \in DOMAIN t, i < j
        PROVE  Rank[t[i].kind] < Rank[t[j].kind]
    <3>1. i \in 1 .. Len(s) /\ t[i] = s[i] /\ Rank[s[i].kind] <= n /\ Rank[s[i].kind] \in 1 .. 6
      BY <1>1, <2>3, <2>5 DEF Climbs
    <3>2. CASE j = Len(s) + 1
      BY <2>1, <2>3, <3>1, <3>2
    <3>3. CASE j # Len(s) + 1
      <4>1. j \in 1 .. Len(s) /\ t[j] = s[j]
        BY <1>1, <2>3, <3>3
      <4> QED
        BY <1>1, <2>5, <3>1, <4>1 DEF Climbs
    <3> QED
      BY <3>2, <3>3
  <2>6. ASSUME NEW k \in CheckKinds
        PROVE  Places(k, t) # {} <=> Rank[k] <= n + 1 /\ k \in D
    <3>1. CASE k = kind
      <4>1. Len(s) + 1 \in Places(k, t)
        BY <1>1, <2>1, <2>3, <3>1 DEF Places
      <4> QED
        BY <1>3, <3>1, <4>1
    <3>2. CASE k # kind
      <4>1. Places(k, t) = Places(k, s)
        BY <1>1, <2>1, <2>3, <3>2 DEF Places
      <4>2. Rank[k] # n + 1
        BY <1>1, <3>2
      <4>3. Rank[k] <= n + 1 <=> Rank[k] <= n
        BY <1>1, <4>2
      <4> QED
        BY <4>1, <4>3 DEF Climbs
    <3> QED
      BY <3>1, <3>2
  <2> QED
    BY <2>3, <2>4, <2>5, <2>6 DEF Climbs, t
<1> QED
  BY <1>2, <1>3

\* What has to be said after an update.
Sayings(tools, r) ==
  LET why == StopReason(tools, r) IN
    {k \in CheckKinds :
       \/ k = "warned_steps" /\ StepWarns(tools, r)
       \/ k = "exceeded_steps" /\ why = "step_limit"
       \/ k = "warned_input_tokens" /\ why # "step_limit" /\ InputWarns(r)
       \/ k = "exceeded_input_tokens" /\ why = "input_budget"
       \/ k = "loop_detected" /\ why = "loop"
       \/ k = "wrapup" /\ why # "none"}

LEMMA SaysClimb ==
  ASSUME NEW tools, NEW r
  PROVE  Climbs(ChecksSay(tools, r) \o Wrapup(StopReason(tools, r)), 6, Sayings(tools, r))
<1> DEFINE why == StopReason(tools, r)
           D == Sayings(tools, r)
           c1 == StepWarns(tools, r)
           c3 == why # "step_limit" /\ InputWarns(r)
           s1 == <<>> \o When(c1, "warned_steps")
           s2 == s1 \o When(why = "step_limit", "exceeded_steps")
           s3 == s2 \o When(c3, "warned_input_tokens")
           s4 == s3 \o When(why = "input_budget", "exceeded_input_tokens")
           s5 == s4 \o When(why = "loop", "loop_detected")
           s6 == s5 \o When(why # "none", "wrapup")
<1>1. c1 \in BOOLEAN /\ c3 \in BOOLEAN
  BY DEF StepWarns
<1>2. /\ c1 <=> "warned_steps" \in D
      /\ why = "step_limit" <=> "exceeded_steps" \in D
      /\ c3 <=> "warned_input_tokens" \in D
      /\ why = "input_budget" <=> "exceeded_input_tokens" \in D
      /\ why = "loop" <=> "loop_detected" \in D
      /\ why # "none" <=> "wrapup" \in D
  BY RankIs, Zenon DEF Sayings
<1>3. s6 = ChecksSay(tools, r) \o Wrapup(why)
  <2>1. s1 = When(c1, "warned_steps")
    <3>1. When(c1, "warned_steps") \in Seq(Plain)
      BY <1>1, WhenTyped DEF EventKinds, TextKinds, ToolKinds
    <3> QED
      BY <3>1, ConcatEmptySeq
  <2> QED
    BY <2>1, Zenon DEF ChecksSay, Wrapup
<1> HIDE DEF D, why, c1, c3, s1, s2, s3, s4, s5, s6
<1>4. Climbs(<<>>, 0, D)
  <2>1. \A k \in CheckKinds : ~(Rank[k] <= 0)
    BY RankIs
  <2> QED
    BY <2>1 DEF Climbs, Places
<1>5. Climbs(s1, 1, D)
  <2>1. "warned_steps" \in CheckKinds /\ Rank["warned_steps"] = 0 + 1 /\ 0 \in 0 .. 5
        /\ 0 + 1 = 1
    BY RankIs
  <2> QED
    BY <1>1, <1>2, <1>4, <2>1, ClimbsOn DEF s1
<1>6. Climbs(s2, 2, D)
  <2>1. "exceeded_steps" \in CheckKinds /\ Rank["exceeded_steps"] = 1 + 1 /\ 1 \in 0 .. 5
        /\ 1 + 1 = 2
    BY RankIs
  <2> QED
    BY <1>2, <1>5, <2>1, ClimbsOn DEF s2
<1>7. Climbs(s3, 3, D)
  <2>1. "warned_input_tokens" \in CheckKinds /\ Rank["warned_input_tokens"] = 2 + 1 /\ 2 \in 0 .. 5
        /\ 2 + 1 = 3
    BY RankIs
  <2> QED
    BY <1>1, <1>2, <1>6, <2>1, ClimbsOn DEF s3
<1>8. Climbs(s4, 4, D)
  <2>1. "exceeded_input_tokens" \in CheckKinds /\ Rank["exceeded_input_tokens"] = 3 + 1
        /\ 3 \in 0 .. 5 /\ 3 + 1 = 4
    BY RankIs
  <2> QED
    BY <1>2, <1>7, <2>1, ClimbsOn DEF s4
<1>9. Climbs(s5, 5, D)
  <2>1. "loop_detected" \in CheckKinds /\ Rank["loop_detected"] = 4 + 1 /\ 4 \in 0 .. 5 /\ 4 + 1 = 5
    BY RankIs
  <2> QED
    BY <1>2, <1>8, <2>1, ClimbsOn DEF s5
<1>10. Climbs(s6, 6, D)
  <2>1. "wrapup" \in CheckKinds /\ Rank["wrapup"] = 5 + 1 /\ 5 \in 0 .. 5 /\ 5 + 1 = 6
    BY RankIs
  <2> QED
    BY <1>2, <1>9, <2>1, ClimbsOn DEF s6
<1> QED
  BY <1>3, <1>10 DEF D, why

\* The last words are the last.
LEMMA WrapupIsLast ==
  ASSUME NEW s, NEW D, Climbs(s, 6, D), "wrapup" \in D
  PROVE  Len(s) > 0 /\ s[Len(s)].kind = "wrapup"
<1>1. s \in Seq(Plain) /\ DOMAIN s = 1 .. Len(s) /\ Len(s) \in Nat
  BY DEF Climbs
<1>2. Places("wrapup", s) # {}
  BY RankIs DEF Climbs
<1>3. PICK i \in 1 .. Len(s) : s[i].kind = "wrapup"
  BY <1>1, <1>2 DEF Places
<1>4. i = Len(s)
  <2> SUFFICES ASSUME i # Len(s) PROVE FALSE
    OBVIOUS
  <2>1. i < Len(s) /\ Len(s) \in DOMAIN s /\ i \in DOMAIN s
    BY <1>1, <1>3
  <2>2. s[Len(s)].kind \in CheckKinds /\ Rank[s[i].kind] < Rank[s[Len(s)].kind]
    BY <2>1 DEF Climbs
  <2>3. Rank[s[i].kind] = 6 /\ Rank[s[Len(s)].kind] \in 1 .. 6
    BY <1>3, <2>2, RankIs
  <2> QED
    BY <2>2, <2>3
<1> QED
  BY <1>1, <1>3, <1>4

LEMMA PlacesConcat ==
  ASSUME NEW s \in Seq(Event), NEW t \in Seq(Event), NEW kind
  PROVE  /\ Places(kind, s \o t) = Places(kind, s) \union {Len(s) + i : i \in Places(kind, t)}
         /\ s \o t \in Seq(Event) /\ Len(s \o t) = Len(s) + Len(t)
         /\ \A i \in DOMAIN s : (s \o t)[i] = s[i]
         /\ \A i \in DOMAIN t : (s \o t)[Len(s) + i] = t[i]
<1> DEFINE u == s \o t
<1>1. Len(s) \in Nat /\ Len(t) \in Nat /\ DOMAIN s = 1 .. Len(s) /\ DOMAIN t = 1 .. Len(t)
  OBVIOUS
<1>2. /\ u \in Seq(Event) /\ Len(u) = Len(s) + Len(t)
      /\ \A i \in 1 .. Len(s) + Len(t) : u[i] = IF i <= Len(s) THEN s[i] ELSE t[i - Len(s)]
  BY ConcatProperties
<1> HIDE DEF u
<1>3. DOMAIN u = 1 .. Len(s) + Len(t)
  BY <1>2
<1>4. \A i \in DOMAIN s : i \in DOMAIN u /\ u[i] = s[i]
  BY <1>1, <1>2, <1>3
<1>5. ASSUME NEW i \in DOMAIN t PROVE Len(s) + i \in DOMAIN u /\ u[Len(s) + i] = t[i]
  <2>1. Len(s) + i \in 1 .. Len(s) + Len(t) /\ ~(Len(s) + i <= Len(s)) /\ Len(s) + i - Len(s) = i
    BY <1>1
  <2> QED
    BY <1>2, <1>3, <2>1
<1>6. ASSUME NEW i \in DOMAIN u
      PROVE  i \in DOMAIN s \/ \E j \in DOMAIN t : i = Len(s) + j
  <2>1. CASE i <= Len(s)
    BY <1>1, <1>3, <2>1
  <2>2. CASE ~(i <= Len(s))
    <3>1. i - Len(s) \in DOMAIN t /\ i = Len(s) + (i - Len(s))
      BY <1>1, <1>3, <2>2
    <3> QED
      BY <3>1
  <2> QED
    BY <2>1, <2>2
<1>7. Places(kind, u) = Places(kind, s) \union {Len(s) + i : i \in Places(kind, t)}
  BY <1>4, <1>5, <1>6 DEF Places
<1> QED
  BY <1>2, <1>4, <1>5, <1>7 DEF u

\* The checks after an update, told of by what comes after q.
LEMMA ChecksTold ==
  ASSUME AgentTyped, run.stop = "none", run.steps < MaxSteps, MaxInput > 0 => run.spent < MaxInput,
         NEW q \in Seq(Event), Marked(q, run), Stopped(q, run),
         NEW tools \in Seq(Tools), NEW usage \in Nat, tools = <<>> \/ usage = 0,
         NEW events, Handle(tools, usage, events)
  PROVE  \E says \in Seq(Plain) :
           /\ outbox' = events \o says
           /\ Marked(q \o says, run') /\ Stopped(q \o says, run')
           /\ run'.steps = run.steps + StepsOf(Len(tools))
           /\ work' = IF run'.stop = "none" THEN "answering" ELSE "over"
<1> DEFINE r == Tally(tools, usage)
           why == StopReason(tools, r)
           warned == {b \in Budgets : \/ b = "steps" /\ StepWarns(tools, r)
                                      \/ b = "input_tokens" /\ why # "step_limit" /\ InputWarns(r)}
           says == ChecksSay(tools, r) \o Wrapup(why)
           D == Sayings(tools, r)
           new == run'
           t == q \o says
<1>1. /\ r \in RunState /\ r.steps = run.steps + StepsOf(Len(tools)) /\ r.spent = run.spent + usage
      /\ r.warned = run.warned
  BY TallyTyped
<1>2. Climbs(says, 6, D)
  BY SaysClimb
<1>3. outbox' = events \o says /\ work' = IF why = "none" THEN "answering" ELSE "over"
  BY DEF Handle
<1>4. /\ why \in Stops \union {"none"}
      /\ why = "step_limit" <=> StepStops(tools, r)
      /\ why = "input_budget" <=> ~StepStops(tools, r) /\ InputStops(tools, r)
  BY DEF StopReason, Stops
<1>5. /\ "warned_steps" \in D <=> StepWarns(tools, r)
      /\ "exceeded_steps" \in D <=> why = "step_limit"
      /\ "warned_input_tokens" \in D <=> why # "step_limit" /\ InputWarns(r)
      /\ "exceeded_input_tokens" \in D <=> why = "input_budget"
      /\ "loop_detected" \in D <=> why = "loop"
      /\ "wrapup" \in D <=> why # "none"
  BY RankIs, Zenon DEF Sayings
<1>6. new.steps = r.steps /\ new.spent = r.spent /\ new.warned = run.warned \union warned
      /\ new.stop = why
  <2>1. new = [r EXCEPT !.warned = @ \union warned, !.stop = why]
    BY DEF Handle
  <2> HIDE DEF r, warned, new, why
  <2> QED
    BY <1>1, <2>1 DEF RunState
<1>7. /\ "steps" \in warned <=> "warned_steps" \in D
      /\ "input_tokens" \in warned <=> "warned_input_tokens" \in D
  BY <1>5 DEF Budgets
<1>8. says \in Seq(Plain) /\ says \in Seq(Event) /\ DOMAIN says = 1 .. Len(says) /\ Len(says) \in Nat
  BY <1>2, PlainTyped DEF Climbs
<1>9. run.steps \in Nat /\ run.spent \in Nat /\ MaxSteps \in Nat \ {0} /\ MaxInput \in Nat
      /\ Len(tools) \in Nat /\ (tools = <<>> <=> Len(tools) = 0)
  BY AgentTurnAssumption DEF AgentTyped, RunState
<1>10. r.steps \in Nat /\ r.steps <= MaxSteps /\ r.spent \in Nat
       /\ (tools = <<>> => r.steps = run.steps) /\ (usage = 0 => r.spent = run.spent)
  BY <1>1, <1>9 DEF StepsOf
<1>11. /\ StepStops(tools, r) <=> r.steps = MaxSteps
       /\ InputStops(tools, r) <=> MaxInput > 0 /\ r.spent >= MaxInput
       /\ ~(StepStops(tools, r) /\ InputStops(tools, r))
  BY <1>9, <1>10 DEF StepStops, InputStops
<1>12. /\ StepWarns(tools, r) => "steps" \notin run.warned
       /\ StepStops(tools, r) => "steps" \in run.warned \/ StepWarns(tools, r)
       /\ InputWarns(r) => "input_tokens" \notin run.warned
       /\ InputStops(tools, r) => "input_tokens" \in run.warned \/ InputWarns(r)
  BY <1>1, <1>9, <1>10 DEF StepWarns, StepStops, InputWarns, InputStops, Warns, WarnAt
<1> HIDE DEF r, why, warned, says, D, new
<1>13. \A k : Places(k, t) = Places(k, q) \union {Len(q) + i : i \in Places(k, says)}
  BY <1>8, PlacesConcat
<1>14. t \in Seq(Event) /\ Len(t) = Len(q) + Len(says)
       /\ \A i \in DOMAIN says : t[Len(q) + i] = says[i]
  BY <1>8, PlacesConcat
<1>15. Len(q) \in Nat /\ \A k : Places(k, q) \subseteq 1 .. Len(q)
  BY DEF Places
<1>16. \A k : \A i \in Places(k, says) : i \in DOMAIN says /\ says[i].kind = k /\ i \in Nat \ {0}
  BY <1>8 DEF Places
<1> HIDE DEF t
<1>17. \A k \in CheckKinds : Places(k, says) # {} <=> k \in D
  BY <1>2, RankIs DEF Climbs
<1>18. \A k \in CheckKinds : \A i, j \in Places(k, says) : i = j
  <2> SUFFICES ASSUME NEW k \in CheckKinds, NEW i \in Places(k, says), NEW j \in Places(k, says), i < j
               PROVE  FALSE
    BY <1>16
  <2>1. i \in DOMAIN says /\ j \in DOMAIN says /\ says[i].kind = k /\ says[j].kind = k
    BY <1>16
  <2>2. Rank[k] < Rank[k]
    BY <1>2, <2>1 DEF Climbs
  <2>3. Rank[k] \in 1 .. 6
    BY RankIs
  <2> QED
    BY <2>2, <2>3
<1>19. \A k, l \in CheckKinds :
         Rank[k] < Rank[l] => \A i \in Places(k, says), j \in Places(l, says) : i < j
  <2> SUFFICES ASSUME NEW k \in CheckKinds, NEW l \in CheckKinds, Rank[k] < Rank[l],
                      NEW i \in Places(k, says), NEW j \in Places(l, says), ~(i < j)
               PROVE  FALSE
    OBVIOUS
  <2>1. i \in DOMAIN says /\ j \in DOMAIN says /\ i \in Nat /\ j \in Nat
        /\ says[i].kind = k /\ says[j].kind = l
    BY <1>16
  <2>2. Rank[k] \in 1 .. 6 /\ Rank[l] \in 1 .. 6
    BY RankIs
  <2>3. i = j \/ j < i
    BY <2>1
  <2>4. CASE i = j
    BY <2>1, <2>2, <2>4
  <2>5. CASE j < i
    BY <1>2, <2>1, <2>2, <2>5 DEF Climbs
  <2> QED
    BY <2>3, <2>4, <2>5
<1>20. \A k : Places(k, t) # {} <=> Places(k, q) # {} \/ Places(k, says) # {}
  <2> SUFFICES ASSUME NEW k
               PROVE  Places(k, t) # {} <=> Places(k, q) # {} \/ Places(k, says) # {}
    OBVIOUS
  <2> DEFINE T == Places(k, t)
             Q == Places(k, q)
             S == Places(k, says)
  <2>1. T = Q \union {Len(q) + i : i \in S}
    BY <1>13
  <2> HIDE DEF T, Q, S
  <2>2. T # {} <=> Q # {} \/ S # {}
    BY <2>1, Zenon
  <2> QED
    BY <2>2 DEF T, Q, S
<1>21. /\ Places("exceeded_steps", q) = {} /\ Places("exceeded_input_tokens", q) = {}
       /\ Places("loop_detected", q) = {}
  BY DEF Stopped
<1>22. Stopped(t, new)
  <2>1. /\ Places("exceeded_steps", t) # {} <=> why = "step_limit"
        /\ Places("exceeded_input_tokens", t) # {} <=> why = "input_budget"
        /\ Places("loop_detected", t) # {} <=> why = "loop"
    BY <1>5, <1>17, <1>20, <1>21, RankIs
  <2>2. /\ why = "step_limit" <=> r.steps = MaxSteps
        /\ why = "input_budget" <=> MaxInput > 0 /\ r.spent >= MaxInput
    BY <1>4, <1>11
  <2>3. ASSUME why # "none" PROVE Len(t) > 0 /\ t[Len(t)].kind = "wrapup"
    <3>1. Len(says) > 0 /\ says[Len(says)].kind = "wrapup"
      BY <1>2, <1>5, <2>3, WrapupIsLast
    <3> QED
      BY <1>8, <1>14, <1>15, <3>1
  <2> QED
    BY <1>6, <2>1, <2>2, <2>3 DEF Stopped
<1>23. ASSUME NEW b \in Budgets
       PROVE  /\ b \in new.warned <=> Places(Warning(b), t) # {}
              /\ \A i, j \in Places(Warning(b), t) : i = j
              /\ \A i \in Places(Excess(b), t) :
                   b \in new.warned /\ \A j \in Places(Warning(b), t) : j < i
  <2> DEFINE w == Warning(b)
             x == Excess(b)
  <2>1. /\ w \in CheckKinds /\ x \in CheckKinds /\ Rank[w] < Rank[x] /\ Places(x, q) = {}
        /\ b \in warned <=> w \in D
        /\ w \in D => b \notin run.warned
        /\ x \in D => b \in run.warned \/ w \in D
    BY <1>4, <1>5, <1>7, <1>11, <1>12, <1>21, RankIs DEF Budgets, Warning, Excess
  <2>2. /\ b \in run.warned <=> Places(w, q) # {}
        /\ \A i, j \in Places(w, q) : i = j
    BY DEF Marked
  <2> HIDE DEF w, x
  <2>3. b \in new.warned <=> b \in run.warned \/ w \in D
    BY <1>6, <2>1
  <2>4. Places(w, t) # {} <=> Places(w, q) # {} \/ Places(w, says) # {}
    BY <1>20
  <2>5. b \in new.warned <=> Places(w, t) # {}
    BY <1>17, <2>1, <2>2, <2>3, <2>4
  <2>6. \A i, j \in Places(w, t) : i = j
    <3>1. CASE w \in D
      <4>1. Places(w, q) = {}
        BY <2>1, <2>2, <3>1
      <4> QED
        BY <1>13, <1>18, <2>1, <4>1
    <3>2. CASE w \notin D
      <4>1. Places(w, says) = {}
        BY <1>17, <2>1, <3>2
      <4>2. Places(w, t) = Places(w, q)
        BY <1>13, <4>1
      <4> QED
        BY <2>2, <4>2
    <3> QED
      BY <3>1, <3>2
  <2>7. ASSUME NEW i \in Places(x, t)
        PROVE  b \in new.warned /\ \A j \in Places(w, t) : j < i
    <3>1. PICK m \in Places(x, says) : i = Len(q) + m
      BY <1>13, <2>1
    <3>2. x \in D
      BY <1>17, <2>1, <3>1
    <3>3. ASSUME NEW j \in Places(w, t) PROVE j < i
      <4>1. CASE j \in Places(w, q)
        BY <1>15, <1>16, <3>1, <4>1
      <4>2. ASSUME NEW l \in Places(w, says), j = Len(q) + l PROVE j < i
        <5>1. l < m /\ l \in Nat /\ m \in Nat
          BY <1>16, <1>19, <2>1, <3>1
        <5> QED
          BY <1>15, <3>1, <4>2, <5>1
      <4> QED
        BY <1>13, <4>1, <4>2
    <3> QED
      BY <2>1, <2>3, <3>2, <3>3
  <2> QED
    BY <2>5, <2>6, <2>7 DEF w, x
<1>24. Marked(t, new)
  BY <1>23, Zenon DEF Marked
<1> QED
  BY <1>1, <1>3, <1>6, <1>8, <1>22, <1>24 DEF t, new

\* Events that no check has said.
Quiet(s) == \A i \in DOMAIN s : s[i].kind \notin CheckKinds

LEMMA QuietKeeps ==
  ASSUME NEW q \in Seq(Event), NEW s \in Seq(Event), Quiet(s), NEW r, r.stop = "none",
         Marked(q, r), Stopped(q, r)
  PROVE  Marked(q \o s, r) /\ Stopped(q \o s, r)
<1> DEFINE t == q \o s
<1>1. ASSUME NEW k \in CheckKinds PROVE Places(k, t) = Places(k, q)
  <2>1. Places(k, s) = {}
    BY DEF Quiet, Places
  <2>2. Places(k, t) = Places(k, q) \union {Len(q) + i : i \in Places(k, s)}
    BY PlacesConcat
  <2> QED
    BY <2>1, <2>2
<1> HIDE DEF t
<1>2. \A b \in Budgets : Places(Warning(b), t) = Places(Warning(b), q)
                         /\ Places(Excess(b), t) = Places(Excess(b), q)
  BY <1>1, RankIs DEF Warning, Excess
<1>3. Marked(t, r)
  BY <1>2 DEF Marked
<1>4. Stopped(t, r)
  BY <1>1, RankIs DEF Stopped
<1> QED
  BY <1>3, <1>4 DEF t

LEMMA SteppedKeeps ==
  ASSUME NEW q \in Seq(Event), NEW s \in Seq(Event), Places("tool_result", s) = {}, NEW r,
         Stepped(q, r)
  PROVE  Stepped(q \o s, r)
<1> DEFINE t == q \o s
<1>1. Places("tool_result", t) = Places("tool_result", q) /\ \A i \in DOMAIN q : t[i] = q[i]
  <2>1. /\ Places("tool_result", t)
             = Places("tool_result", q) \union {Len(q) + i : i \in Places("tool_result", s)}
        /\ \A i \in DOMAIN q : t[i] = q[i]
    BY PlacesConcat
  <2> HIDE DEF t
  <2> QED
    BY <2>1
<1>2. \A i \in Places("tool_result", q) : t[i] = q[i]
  BY <1>1 DEF Places
<1> HIDE DEF t
<1>3. {calls[t[i].call].batch : i \in Places("tool_result", t)}
        = {calls[q[i].call].batch : i \in Places("tool_result", q)}
  BY <1>1, <1>2
<1>4. Stepped(t, r)
  BY <1>1, <1>2, <1>3 DEF Stepped
<1> QED
  BY <1>4 DEF t

\* The results of a batch are one step more.
LEMMA SteppedOn ==
  ASSUME NEW q \in Seq(Event), NEW s \in Seq(Event), NEW r, r.steps \in Nat, Stepped(q, r),
         NEW new, new.steps = r.steps + 1,
         \A i \in Places("tool_result", s) :
           s[i].call \in DOMAIN calls /\ calls[s[i].call].batch = r.steps + 1,
         Places("tool_result", s) # {}
  PROVE  Stepped(q \o s, new)
<1> DEFINE t == q \o s
           Q == Places("tool_result", q)
           S == Places("tool_result", s)
           T == Places("tool_result", t)
           B == {calls[t[i].call].batch : i \in T}
<1>1. /\ T = Q \union {Len(q) + i : i \in S}
      /\ \A i \in DOMAIN q : t[i] = q[i]
      /\ \A i \in DOMAIN s : t[Len(q) + i] = s[i]
  BY PlacesConcat
<1>2. /\ \A i \in Q : t[i] = q[i]
      /\ \A i \in S : t[Len(q) + i] = s[i]
  BY <1>1 DEF Places
<1>3. /\ \A i \in Q : q[i].call \in DOMAIN calls
      /\ {calls[q[i].call].batch : i \in Q} = 1 .. r.steps
  BY DEF Stepped
<1> HIDE DEF t, Q, S, T
<1>4. ASSUME NEW i \in T
      PROVE  t[i].call \in DOMAIN calls /\ calls[t[i].call].batch \in 1 .. new.steps
  <2>1. CASE i \in Q
    <3>1. calls[t[i].call].batch \in 1 .. r.steps
      BY <1>2, <1>3, <2>1
    <3> QED
      BY <1>2, <1>3, <2>1, <3>1
  <2>2. ASSUME NEW j \in S, i = Len(q) + j
        PROVE  t[i].call \in DOMAIN calls /\ calls[t[i].call].batch \in 1 .. new.steps
    BY <1>2, <2>2 DEF S
  <2> QED
    BY <1>1, <2>1, <2>2
<1>5. ASSUME NEW n \in 1 .. new.steps PROVE \E i \in T : n = calls[t[i].call].batch
  <2>1. CASE n = r.steps + 1
    <3>1. PICK j \in S : TRUE
      BY DEF S
    <3>2. calls[t[Len(q) + j].call].batch = n /\ Len(q) + j \in T
      BY <1>1, <1>2, <2>1 DEF S
    <3> QED
      BY <3>2
  <2>2. CASE n # r.steps + 1
    <3>1. n \in 1 .. r.steps
      BY <2>2
    <3>2. PICK i \in Q : n = calls[q[i].call].batch
      BY <1>3, <3>1
    <3> QED
      BY <1>1, <1>2, <3>2
  <2> QED
    BY <2>1, <2>2
<1>6. B = 1 .. new.steps
  BY <1>4, <1>5
<1> QED
  BY <1>4, <1>6 DEF Stepped, t, T

LEMMA PassedIs ==
  ASSUME AgentIInv
  PROVE  /\ shown \in Seq(Event) /\ outbox \in Seq(Event) /\ Passed \in Seq(Event)
         /\ outbox = <<>> => Passed = shown
<1>1. shown \in Seq(Event) /\ outbox \in Seq(Event)
  BY DEF AgentIInv, AgentTyped
<1> QED
  BY <1>1, PlacesConcat, ConcatEmptySeq DEF Passed

\* An update of the framework.
LEMMA TrackedHandle ==
  ASSUME AgentIInv, Unended, WithinBudget, Tracked, Asked, work # "over",
         NEW tools \in Seq(Tools), NEW usage \in Nat, tools = <<>> \/ usage = 0,
         NEW events \in Seq(Event), Quiet(events),
         \A r : r.steps = run.steps + StepsOf(Len(tools)) => Stepped(shown \o events, r),
         run.steps + StepsOf(Len(tools)) = LastBatch,
         Handle(tools, usage, events), UNCHANGED <<calls, loop>>
  PROVE  Tracked'
<1> DEFINE q == shown \o events
           new == run'
           out == outbox'
<1>1. /\ run.stop = "none" /\ outbox = <<>> /\ run.steps < MaxSteps
      /\ MaxInput > 0 => run.spent < MaxInput
      /\ hand # "ending" /\ hand # "over"
  BY DEF Tracked, Underway, Asked, WithinBudget
<1>2. shown \in Seq(Event) /\ Passed = shown
  BY <1>1, PassedIs
<1>3. q \in Seq(Event)
  BY <1>2
<1>4. Marked(q, run) /\ Stopped(q, run)
  BY <1>1, <1>2, QuietKeeps DEF Tracked
<1> HIDE DEF q
<1>5. PICK says \in Seq(Plain) :
        /\ outbox' = events \o says
        /\ Marked(q \o says, run') /\ Stopped(q \o says, run')
        /\ run'.steps = run.steps + StepsOf(Len(tools))
        /\ work' = IF run'.stop = "none" THEN "answering" ELSE "over"
  BY <1>1, <1>3, <1>4, ChecksTold DEF AgentIInv
<1>6. says \in Seq(Event) /\ Places("tool_result", says) = {}
  <2>1. \A i \in DOMAIN says : says[i].kind # "tool_result"
    BY DEF Plain, ToolKinds
  <2> QED
    BY <2>1, PlainTyped DEF Places
<1>7. shown \o out = q \o says
  <2>1. shown \o (events \o says) = (shown \o events) \o says
    BY <1>2, <1>6, ConcatAssociative
  <2> QED
    BY <1>5, <2>1 DEF q
<1>8. shown' = shown /\ ending' = ending /\ acc' = acc /\ calls' = calls
  BY DEF loop
<1>9. Passed' = q \o says
  BY <1>7, <1>8 DEF Passed
<1>10. Stepped(q \o says, new)
  <2>1. Stepped(q, new)
    BY <1>5 DEF q
  <2> HIDE DEF new
  <2> QED
    BY <1>3, <1>6, <2>1, SteppedKeeps
<1>11. Stepped(Passed, run)'
  BY <1>8, <1>9, <1>10 DEF Stepped
<1>12. LastBatch' = LastBatch
  BY <1>8 DEF LastBatch
<1>13. ending = "none"
  BY <1>1 DEF Unended, Asked
<1>14. Underway'
  BY <1>5, <1>8, <1>12, <1>13 DEF Underway, Tracked
<1>15. Marked(Passed, run)' /\ Stopped(Passed, run)'
  BY <1>5, <1>9 DEF Marked, Stopped
<1> QED
  BY <1>11, <1>14, <1>15 DEF Tracked

LEMMA TrackedAnswer ==
  ASSUME AgentIInv, Unended, WithinBudget, Tracked,
         NEW kind \in {"token", "reasoning", "usage"}, NEW usage \in Nat, Answer(kind, usage)
  PROVE  Tracked'
<1> DEFINE events == When(kind # "usage", kind)
<1>1. events \in Seq(Event) /\ Quiet(events) /\ Places("tool_result", events) = {}
  <2>1. CASE kind = "usage"
    BY <2>1 DEF When, Quiet, Places
  <2>2. CASE kind # "usage"
    <3>1. kind \in EventKinds \ ToolKinds /\ kind \notin CheckKinds
      BY <2>2, RankIs DEF EventKinds, TextKinds, ToolKinds
    <3>2. events = <<Sse(kind, 0)>>
      BY <2>2 DEF When
    <3>3. events \in Seq(Event)
      BY <3>1, WhenTyped
    <3> QED
      BY <3>1, <3>2, <3>3 DEF Quiet, Places, Sse, ToolKinds
  <2> QED
    BY <2>1, <2>2
<1>2. /\ Asked /\ work = "answering" /\ Handle(<<>>, usage, events)
      /\ UNCHANGED <<calls, loop>>
  BY DEF Answer
<1>3. run.steps \in Nat /\ LastBatch = run.steps /\ run.steps + StepsOf(Len(<<>>)) = run.steps
  BY <1>2 DEF AgentIInv, AgentTyped, RunState, Tracked, Underway, StepsOf
<1>4. shown \in Seq(Event) /\ Stepped(shown, run)
  BY <1>2, PassedIs DEF Tracked, Asked
<1> HIDE DEF events
<1>5. ASSUME NEW r, r.steps = run.steps PROVE Stepped(shown \o events, r)
  <2>1. Stepped(shown, r)
    BY <1>4, <1>5 DEF Stepped
  <2> QED
    BY <1>1, <1>4, <2>1, SteppedKeeps
<1>6. <<>> \in Seq(Tools)
  OBVIOUS
<1> QED
  BY <1>1, <1>2, <1>3, <1>5, <1>6, TrackedHandle

LEMMA TrackedResults ==
  ASSUME AgentIInv, Unended, WithinBudget, Tracked, Results
  PROVE  Tracked'
<1> DEFINE Tool(k, n) == [i \in 1 .. n |-> calls[k + i - 1].tool]
           Reported(k, n) == ResultEvents(k, n) \o <<Sse("step_complete", 0)>>
<1>1. PICK k \in Nat \ {0} :
        LET n == Len(calls) + 1 - k IN
          /\ k <= Len(calls) + 1 /\ Running = k .. Len(calls) /\ n \in Nat
          /\ Tool(k, n) \in Seq(Tools) /\ Len(Tool(k, n)) = n
          /\ ResultEvents(k, n) \in Seq(Event) /\ Reported(k, n) \in Seq(Event)
          /\ \A i \in 1 .. 2 * n : ResultEvents(k, n)[i].call \in Running
          /\ \A c \in Running : ResultEvents(k, n)[2 * (c - k) + 2] = Sse("tool_result", c)
          /\ Len(ResultEvents(k, n)) = 2 * n
          /\ Handle(Tool(k, n), 0, Reported(k, n))
  BY ResultsAre, Zenon
<1> DEFINE n == Len(calls) + 1 - k
           tools == Tool(k, n)
           results == ResultEvents(k, n)
           events == Reported(k, n)
           last == Sse("step_complete", 0)
<1>2. Asked /\ work = "calling" /\ UNCHANGED <<calls, loop>>
  BY DEF Results
<1>3. /\ calls # <<>> /\ LastBatch = run.steps + 1 /\ Len(calls) \in Nat \ {0} /\ run.steps \in Nat
      /\ DOMAIN calls = 1 .. Len(calls)
  BY <1>2 DEF Tracked, Underway, AgentIInv, AgentTyped, RunState
<1>4. Len(calls) \in Running
  BY <1>2, <1>3 DEF Running, LastBatch
<1>5. n \in Nat /\ Len(tools) = n /\ n # 0 /\ tools \in Seq(Tools)
      /\ n = Len(calls) + 1 - k
  BY <1>1, <1>3, <1>4
<1>6. StepsOf(Len(tools)) = 1
  BY <1>5, Zenon DEF StepsOf
<1>7. /\ results \in Seq(Event) /\ Len(results) = 2 * n /\ DOMAIN results = 1 .. 2 * n
      /\ events = results \o <<last>> /\ events \in Seq(Event)
      /\ last.kind = "step_complete" /\ last \in Event
      /\ \A i \in 1 .. 2 * n : results[i].call \in Running
      /\ results[2 * (Len(calls) - k) + 2] = Sse("tool_result", Len(calls))
  BY <1>1, <1>4 DEF Sse, Event, EventKinds, ToolKinds
<1>8. \A i \in DOMAIN results : results[i].kind \in ToolKinds
  <2>1. results = [i \in 1 .. 2 * n |->
                     Sse(IF i % 2 = 1 THEN "tool_start" ELSE "tool_result", k + (i - 1) \div 2)]
    BY DEF ResultEvents
  <2>2. \A i \in 1 .. 2 * n : results[i].kind = IF i % 2 = 1 THEN "tool_start" ELSE "tool_result"
    BY <2>1 DEF Sse
  <2> HIDE DEF results, n
  <2> QED
    BY <1>7, <2>2 DEF ToolKinds
<1> HIDE DEF results, events, last, tools
<1>9. events = Append(results, last)
  BY <1>7, AppendIsConcat
<1>10. Places("tool_result", events) = Places("tool_result", results)
       /\ \A i \in DOMAIN results : events[i] = results[i]
  <2> HIDE DEF n
  <2> QED
    BY <1>5, <1>7, <1>9 DEF Places
<1>11. Quiet(events)
  <2> HIDE DEF n
  <2>1. \A i \in DOMAIN events : i \in DOMAIN results \/ events[i] = last
    BY <1>5, <1>7, <1>9
  <2>2. ToolKinds \intersect CheckKinds = {} /\ "step_complete" \notin CheckKinds
    BY RankIs DEF ToolKinds
  <2> QED
    BY <1>7, <1>8, <1>10, <2>1, <2>2 DEF Quiet
<1>12. ASSUME NEW i \in Places("tool_result", events)
       PROVE  events[i].call \in DOMAIN calls /\ calls[events[i].call].batch = run.steps + 1
  <2>1. i \in DOMAIN results /\ events[i] = results[i]
    BY <1>10 DEF Places
  <2>2. events[i].call \in Running
    BY <1>7, <2>1
  <2> QED
    BY <1>3, <2>2 DEF Running
<1>13. Places("tool_result", events) # {}
  <2> DEFINE i == 2 * (Len(calls) - k) + 2
  <2>1. i \in 1 .. 2 * n
    BY <1>1, <1>3, <1>4
  <2>2. results[i].kind = "tool_result"
    BY <1>7 DEF Sse
  <2> HIDE DEF i, n
  <2>3. i \in Places("tool_result", results)
    BY <1>7, <2>1, <2>2 DEF Places
  <2> QED
    BY <1>10, <2>3
<1>14. shown \in Seq(Event) /\ Stepped(shown, run)
  BY <1>2, PassedIs DEF Tracked, Asked
<1>15. ASSUME NEW r, r.steps = run.steps + 1 PROVE Stepped(shown \o events, r)
  BY <1>3, <1>7, <1>12, <1>13, <1>14, <1>15, SteppedOn
<1>16. Handle(tools, 0, events)
  BY <1>1 DEF tools, events
<1>17. work # "over" /\ 0 \in Nat
  BY <1>2
<1> QED
  BY <1>2, <1>3, <1>5, <1>6, <1>7, <1>11, <1>15, <1>16, <1>17, TrackedHandle

\* The calls that were made stay in their batches.
LEMMA TrackedCalls ==
  ASSUME AgentIInv, Tracked, UNCHANGED <<run, outbox, shown, acc, ending>>,
         \A c \in DOMAIN calls : c \in DOMAIN calls' /\ calls'[c].batch = calls[c].batch,
         Underway'
  PROVE  Tracked'
<1>1. Passed' = Passed /\ run' = run
  BY DEF Passed
<1>2. \A i \in Places("tool_result", Passed) : Passed[i].call \in DOMAIN calls
  BY DEF Tracked, Stepped
<1> DEFINE B == {calls[Passed[i].call].batch : i \in Places("tool_result", Passed)}
           C == {calls'[Passed[i].call].batch : i \in Places("tool_result", Passed)}
<1>3. B = C
  BY <1>2
<1>4. B = 1 .. run.steps
  BY DEF Tracked, Stepped
<1>5. Stepped(Passed, run)'
  BY <1>1, <1>2, <1>3, <1>4 DEF Stepped
<1>6. Marked(Passed, run)' /\ Stopped(Passed, run)'
  BY <1>1 DEF Tracked, Marked, Stopped
<1> QED
  BY <1>5, <1>6 DEF Tracked

LEMMA TrackedCallTools ==
  ASSUME AgentIInv, Tracked, NEW tools \in Seq(Tools) \ {<<>>}, CallTools(tools)
  PROVE  Tracked'
<1>1. /\ UNCHANGED <<run, outbox, shown, acc, ending>> /\ work = "answering" /\ work' = "calling"
      /\ Len(tools) \in Nat \ {0}
  BY DEF CallTools, loop
<1>2. /\ Len(calls') = Len(calls) + Len(tools)
      /\ \A c \in DOMAIN calls : c \in DOMAIN calls' /\ calls'[c] = calls[c]
      /\ \A c \in DOMAIN calls' \ DOMAIN calls : calls'[c].batch = LastBatch + 1
      /\ AgentIInv'
  BY CallToolsStep
<1>3. /\ calls' \in Seq(ToolCall) /\ Len(calls') \in Nat \ {0} /\ DOMAIN calls = 1 .. Len(calls)
      /\ Len(calls') \in DOMAIN calls' \ DOMAIN calls /\ Len(calls) \in Nat
  BY <1>1, <1>2 DEF AgentIInv, AgentTyped
<1>4. calls' # <<>> /\ LastBatch' = LastBatch + 1
  BY <1>2, <1>3 DEF LastBatch
<1>5. run.stop = "none" /\ LastBatch = run.steps
  BY <1>1 DEF Tracked, Underway
<1>6. Underway'
  BY <1>1, <1>4, <1>5 DEF Tracked, Underway
<1> QED
  BY <1>1, <1>2, <1>6, TrackedCalls

\* A sub-agent at work changes its own call.
LEMMA TrackedChild ==
  ASSUME AgentIInv, Tracked, UNCHANGED <<work, run, outbox, shown, acc, ending>>,
         DOMAIN calls' = DOMAIN calls, calls' \in Seq(ToolCall), Len(calls') = Len(calls),
         \A c \in DOMAIN calls : calls'[c].batch = calls[c].batch
  PROVE  Tracked'
<1>1. LastBatch' = LastBatch /\ (calls # <<>> => calls' # <<>>)
  <2>1. calls \in Seq(ToolCall) /\ Len(calls) \in Nat
    BY DEF AgentIInv, AgentTyped
  <2>2. CASE calls = <<>>
    BY <2>1, <2>2 DEF LastBatch
  <2>3. CASE calls # <<>>
    <3>1. Len(calls) \in DOMAIN calls /\ calls' # <<>>
      BY <2>1, <2>3
    <3> QED
      BY <2>3, <3>1 DEF LastBatch
  <2> QED
    BY <2>2, <2>3
<1>2. Underway'
  BY <1>1 DEF Tracked, Underway
<1> QED
  BY <1>2, TrackedCalls

LEMMA TrackedEmit ==
  ASSUME AgentIInv, Tracked, NEW c \in Call, ChildStarts(c) \/ ChildWorks(c) \/ ChildEnds(c)
  PROVE  Tracked'
<1>1. c \in DOMAIN calls /\ calls[c] \in ToolCall
  BY ChildIs DEF ChildStarts, ChildWorks, ChildEnds
<1>2. PICK to \in {"none", "ours", "other"}, kind \in ChildKinds,
           then \in {"called", "running", "done"} : Emit(c, to, kind, then)
  <2>1. ourBus \in {"none", "ours", "other"} /\ calls[c].bus \in {"none", "ours", "other"}
    BY <1>1 DEF AgentIInv, AgentTyped, ToolCall
  <2> QED
    BY <2>1 DEF ChildStarts, ChildWorks, ChildEnds, ChildKinds
<1>3. /\ DOMAIN calls' = DOMAIN calls /\ Len(calls') = Len(calls) /\ AgentIInv'
      /\ \A d \in DOMAIN calls : calls'[d].batch = calls[d].batch
  BY <1>1, <1>2, EmitIs
<1>4. calls' \in Seq(ToolCall)
  BY <1>3 DEF AgentIInv, AgentTyped
<1>5. UNCHANGED <<work, run, outbox, shown, acc, ending>>
  BY <1>2 DEF Emit, loop
<1> QED
  BY <1>3, <1>4, <1>5, TrackedChild

LEMMA TrackedTimesOut ==
  ASSUME AgentIInv, Tracked, NEW c \in Call, ChildTimesOut(c)
  PROVE  Tracked'
<1>1. /\ DOMAIN calls' = DOMAIN calls /\ Len(calls') = Len(calls) /\ AgentIInv'
      /\ \A d \in DOMAIN calls : calls'[d].batch = calls[d].batch
  BY TimeOutIs
<1>2. calls' \in Seq(ToolCall)
  BY <1>1 DEF AgentIInv, AgentTyped
<1>3. UNCHANGED <<work, run, outbox, shown, acc, ending>>
  BY DEF ChildTimesOut, loop
<1> QED
  BY <1>1, <1>2, <1>3, TrackedChild

LEMMA TrackedPassParent ==
  ASSUME AgentIInv, Unended, Tracked, PassParent
  PROVE  Tracked'
<1> DEFINE e == Head(outbox)
           now == Accumulate(acc, e)
<1>1. /\ now \in AccState /\ acc'.text = now.text
      /\ shown' = Append(shown, e) /\ outbox' = Tail(outbox) /\ ParentReady
      /\ UNCHANGED <<work, calls, run, ending>>
  BY PassParentIs
<1>2. outbox # <<>> /\ e \in Event /\ hand = "waiting" /\ Tail(outbox) \in Seq(Event)
      /\ outbox \in Seq(Event) /\ shown \in Seq(Event)
  BY <1>1, ReadyIs DEF AgentIInv, AgentTyped
<1>3. Append(shown, e) \o Tail(outbox) = shown \o outbox
  <2> DEFINE t == Tail(outbox)
  <2>1. outbox = <<e>> \o t
    <3>1. Len(outbox) \in Nat \ {0} /\ Len(t) = Len(outbox) - 1 /\ e = outbox[1]
          /\ \A i \in 1 .. Len(t) : t[i] = outbox[i + 1]
      BY <1>2
    <3> HIDE DEF t, e
    <3>2. <<e>> \o t \in Seq(Event) /\ Len(<<e>> \o t) = Len(outbox)
          /\ (<<e>> \o t)[1] = e
          /\ \A i \in 2 .. Len(outbox) : (<<e>> \o t)[i] = t[i - 1]
      BY <1>2, <3>1 DEF t, e
    <3>3. \A i \in 1 .. Len(outbox) : (<<e>> \o t)[i] = outbox[i]
      <4> SUFFICES ASSUME NEW i \in 1 .. Len(outbox) PROVE (<<e>> \o t)[i] = outbox[i]
        OBVIOUS
      <4>1. CASE i = 1
        BY <3>1, <3>2, <4>1
      <4>2. CASE i # 1
        <5>1. i \in 2 .. Len(outbox) /\ i - 1 \in 1 .. Len(t) /\ (i - 1) + 1 = i
          BY <3>1, <4>2
        <5> QED
          BY <3>1, <3>2, <5>1
      <4> QED
        BY <4>1, <4>2
    <3> DEFINE u == <<e>> \o t
    <3> HIDE DEF u
    <3>4. u \in Seq(Event) /\ Len(u) = Len(outbox) /\ \A i \in 1 .. Len(outbox) : u[i] = outbox[i]
      BY <3>2, <3>3 DEF u
    <3>5. u = outbox
      BY <1>2, <3>4, SeqEqual
    <3> QED
      BY <3>5 DEF u
  <2> HIDE DEF t, e
  <2>2. Append(shown, e) = shown \o <<e>>
    BY <1>2, AppendIsConcat DEF e
  <2>3. <<e>> \in Seq(Event) /\ t \in Seq(Event)
    BY <1>2 DEF e, t
  <2>4. (shown \o <<e>>) \o t = shown \o (<<e>> \o t)
    BY <1>2, <2>3, ConcatAssociative
  <2> QED
    BY <2>1, <2>2, <2>4 DEF t, e
<1>4. Passed' = Passed
  <2> HIDE DEF e
  <2>1. Passed' = shown' \o outbox'
    BY DEF Passed
  <2> QED
    BY <1>1, <1>3, <2>1, Zenon DEF Passed
<1>5. Marked(Passed, run)' /\ Stopped(Passed, run)'
  BY <1>1, <1>4 DEF Tracked, Marked, Stopped
<1>6. Stepped(Passed, run)'
  BY <1>1, <1>4 DEF Tracked, Stepped
<1>7. ASSUME NEW i \in DOMAIN shown', shown'[i].kind \in TextKinds PROVE acc'.text > 0
  <2>1. acc \in AccState /\ acc.text \in Nat
    BY DEF AgentIInv, AgentTyped, AccState
  <2>2. now.text = IF e.kind \in TextKinds THEN acc.text + 1 ELSE acc.text
    BY <2>1 DEF Accumulate, AccState, ToolPart, TextKinds, ToolKinds
  <2>3. CASE e.kind \in TextKinds
    BY <1>1, <2>1, <2>2, <2>3
  <2>4. CASE e.kind \notin TextKinds
    <3>1. i \in DOMAIN shown /\ shown'[i] = shown[i]
      <4> HIDE DEF e
      <4> QED
        BY <1>1, <1>2, <1>7, <2>4
    <3>2. acc.text > 0
      BY <1>7, <3>1 DEF Tracked, Underway
    <3> QED
      BY <1>1, <2>2, <2>4, <3>2
  <2> QED
    BY <2>3, <2>4
<1>8. LastBatch' = LastBatch
  BY <1>1 DEF LastBatch
<1>9. ending' = "none"
  BY <1>1, <1>2 DEF Unended
<1>10. Underway'
  BY <1>1, <1>7, <1>8, <1>9 DEF Tracked, Underway
<1> QED
  BY <1>5, <1>6, <1>10 DEF Tracked

\* At the end what was passed was shown, and the last words are followed by nothing but
\* that the message is complete.
LEMMA LimitsPersist ==
  ASSUME AgentIInv, BudgetInv, Unended, Smooth => Tracked, Persist
  PROVE  LimitsAreSaid'
<1> SUFFICES ASSUME ending' = "finished" PROVE LimitsAreSaid'
  BY DEF LimitsAreSaid
<1>1. \E b \in BOOLEAN : /\ shown' = shown \o When(b, "message_complete")
                         /\ acc.text > 0 /\ Completes => b
  <2> DEFINE heard == FoldAll(queue, folded)
             all == Attach(acc.parts, heard)
             parts == IF acc.open = 0 THEN all ELSE Append(all, Part("reasoning", 0, acc.open))
             some == acc.text > 0 \/ parts # <<>>
  <2>1. shown' = shown \o When(some /\ Completes, "message_complete")
    BY PersistIs, Zenon
  <2>2. (some /\ Completes) \in BOOLEAN /\ (acc.text > 0 /\ Completes => some /\ Completes)
    OBVIOUS
  <2> HIDE DEF some
  <2> QED
    BY <2>1, <2>2
<1>2. PICK b \in BOOLEAN : /\ shown' = shown \o When(b, "message_complete")
                           /\ acc.text > 0 /\ Completes => b
  BY <1>1
<1>3. ending = "finished" /\ hand = "ending" /\ calls' = calls /\ run' = run
  BY DEF Persist, framework
<1>4. Tracked /\ Completes
  BY <1>3 DEF Smooth, Completes
<1>5. outbox = <<>> /\ Passed = shown /\ shown \in Seq(Event)
  BY <1>3, <1>4, PassedIs DEF Tracked, Underway
<1> DEFINE m == Sse("message_complete", 0)
           t == When(b, "message_complete")
           new == shown'
<1>6. t \in Seq(Event) /\ \A k : k # "message_complete" => Places(k, t) = {}
  <2>1. "message_complete" \in EventKinds \ ToolKinds
    BY DEF EventKinds, ToolKinds
  <2>2. t \in Seq(Event)
    BY <2>1, WhenTyped
  <2>3. \A i \in DOMAIN t : t[i].kind = "message_complete"
    BY DEF When, Sse
  <2> HIDE DEF t
  <2> QED
    BY <2>2, <2>3 DEF Places
<1> HIDE DEF t
<1>7. new = shown \o t
  BY <1>2 DEF t
<1> HIDE DEF new
<1>8. ASSUME NEW k, k # "message_complete"
      PROVE  Places(k, new) = Places(k, shown) /\ \A i \in Places(k, shown) : new[i] = shown[i]
  <2>1. /\ Places(k, shown \o t) = Places(k, shown) \union {Len(shown) + i : i \in Places(k, t)}
        /\ \A i \in DOMAIN shown : (shown \o t)[i] = shown[i]
    BY <1>5, <1>6, PlacesConcat
  <2>2. Places(k, t) = {}
    BY <1>6, <1>8
  <2>3. /\ Places(k, new) = Places(k, shown) \union {Len(shown) + i : i \in Places(k, t)}
        /\ \A i \in DOMAIN shown : new[i] = shown[i]
    BY <1>7, <2>1
  <2>4. Places(k, new) = Places(k, shown)
    BY <2>2, <2>3
  <2> QED
    BY <2>3, <2>4 DEF Places
<1>9. \A k : At(k)' = Places(k, new)
  BY DEF At, Places, new
<1>10. \A k : k # "message_complete" => At(k)' = Places(k, Passed)
  BY <1>5, <1>8, <1>9
<1>11. \A k : Said(k)' <=> At(k)' # {}
  BY DEF Said
<1>12. run.steps \in Nat /\ run.steps <= MaxSteps
  BY DEF BudgetInv, Counters, WithinBudget
<1>13. Cardinality(Batches)' = run.steps
  <2> DEFINE T == Places("tool_result", shown)
             B == {calls[shown[i].call].batch : i \in T}
             C == {calls[new[i].call].batch : i \in T}
  <2>1. \A i \in T : new[i] = shown[i]
    BY <1>8
  <2>2. B = C
    BY <2>1
  <2>3. B = 1 .. run.steps
    BY <1>4, <1>5 DEF Tracked, Stepped
  <2>4. At("tool_result")' = T
    BY <1>8, <1>9
  <2> HIDE DEF T
  <2>5. Batches' = C
    BY <1>3, <2>4 DEF Batches, new
  <2>6. Batches' = 1 .. run.steps
    BY <2>2, <2>3, <2>5
  <2>7. Cardinality(1 .. run.steps) = run.steps
    <3>1. 1 \in Int /\ run.steps \in Int /\ (run.steps - 1) + 1 = run.steps
      BY <1>12
    <3>2. Cardinality(1 .. run.steps) = IF 1 > run.steps THEN 0 ELSE run.steps - 1 + 1
      BY <3>1, FS_Interval
    <3> QED
      BY <1>12, <3>1, <3>2
  <2> QED
    BY <2>6, <2>7
<1>14. /\ Said("exceeded_steps")' <=> run.stop = "step_limit"
       /\ Said("exceeded_input_tokens")' <=> run.stop = "input_budget"
       /\ Said("loop_detected")' <=> run.stop = "loop"
  BY <1>4, <1>10, <1>11 DEF Tracked, Stopped
<1>15. /\ Said("exceeded_steps")' <=> run.steps = MaxSteps
       /\ Said("exceeded_input_tokens")' <=> MaxInput > 0 /\ run.spent >= MaxInput
  BY <1>4, <1>14 DEF Tracked, Stopped
<1>16. ASSUME NEW c \in Budgets, NEW i \in At(Excess(c))'
       PROVE  Cardinality(At(Warning(c)))' = 1 /\ \A j \in At(Warning(c))' : j < i
  <2> DEFINE W == Places(Warning(c), Passed)
  <2>1. At(Warning(c))' = W /\ i \in Places(Excess(c), Passed)
    BY <1>10, <1>16 DEF Warning, Excess
  <2>2. W # {} /\ (\A k, j \in W : k = j) /\ \A j \in W : j < i
    BY <1>4, <2>1 DEF Tracked, Marked
  <2> HIDE DEF W
  <2>3. PICK w \in W : TRUE
    BY <2>2
  <2>5. W = {w}
    BY <2>2, <2>3
  <2>4. Cardinality(W) = 1
    BY <2>5, FS_Singleton
  <2> QED
    BY <2>1, <2>2, <2>4
<1>17. ASSUME run.stop # "none"
       PROVE  new[Len(new)].kind = "message_complete" /\ new[Len(new) - 1].kind = "wrapup"
  <2>1. Len(shown) \in Nat /\ Len(shown) > 0 /\ shown[Len(shown)].kind = "wrapup"
    BY <1>4, <1>5, <1>17 DEF Tracked, Stopped
  <2>2. Len(shown) \in DOMAIN shown
    BY <1>5, <2>1
  <2>3. acc.text > 0
    BY <1>4, <2>1, <2>2 DEF Tracked, Underway, TextKinds
  <2>4. b
    BY <1>2, <1>4, <2>3
  <2>5. t = <<m>>
    BY <2>4 DEF t, When
  <2>6. m \in Event /\ m.kind = "message_complete"
    BY DEF Sse, Event, EventKinds, ToolKinds
  <2> HIDE DEF m
  <2>7. new = Append(shown, m)
    BY <1>5, <1>7, <2>5, <2>6, AppendIsConcat
  <2>8. Len(new) = Len(shown) + 1 /\ new[Len(shown) + 1] = m /\ new[Len(shown)] = shown[Len(shown)]
    BY <1>5, <2>1, <2>2, <2>6, <2>7
  <2>9. Len(new) - 1 = Len(shown)
    BY <2>1, <2>8
  <2> QED
    BY <2>1, <2>6, <2>8, <2>9
<1>18. Said("exceeded_steps")' \/ Said("exceeded_input_tokens")' \/ Said("loop_detected")'
         => run.stop # "none"
  BY <1>14
<1>19. /\ Cardinality(Batches)' <= MaxSteps
       /\ Said("exceeded_steps")' <=> Cardinality(Batches)' = MaxSteps
       /\ Said("exceeded_input_tokens")' <=> MaxInput > 0 /\ run'.spent >= MaxInput
  BY <1>3, <1>12, <1>13, <1>15
<1>20. \A c \in {<<"warned_steps", "exceeded_steps">>,
                 <<"warned_input_tokens", "exceeded_input_tokens">>} :
         \A i \in At(c[2])' : Cardinality(At(c[1]))' = 1 /\ \A j \in At(c[1])' : j < i
  <2>1. /\ "steps" \in Budgets /\ Warning("steps") = "warned_steps"
        /\ Excess("steps") = "exceeded_steps"
        /\ "input_tokens" \in Budgets /\ Warning("input_tokens") = "warned_input_tokens"
        /\ Excess("input_tokens") = "exceeded_input_tokens"
    BY DEF Budgets, Warning, Excess
  <2>2. \A i \in At("exceeded_steps")' :
          Cardinality(At("warned_steps"))' = 1 /\ \A j \in At("warned_steps")' : j < i
    BY <1>16, <2>1, Zenon
  <2>3. \A i \in At("exceeded_input_tokens")' :
          Cardinality(At("warned_input_tokens"))' = 1 /\ \A j \in At("warned_input_tokens")' : j < i
    BY <1>16, <2>1, Zenon
  <2> QED
    BY <2>2, <2>3
<1> QED
  BY <1>17, <1>18, <1>19, <1>20, Zenon DEF LimitsAreSaid, new

\* Only what is lost, when a turn is ended early, breaks what is told of it.
LEMMA LimitsStep ==
  AgentIInv /\ Unended /\ BudgetInv /\ LimitsInv /\ [AgentNext]_agentVars => LimitsInv'
<1> SUFFICES ASSUME AgentIInv, Unended, BudgetInv, LimitsInv, [AgentNext]_agentVars
             PROVE  LimitsInv'
  OBVIOUS
<1>1. WithinBudget /\ (Smooth => Tracked) /\ LimitsAreSaid
  BY DEF BudgetInv, LimitsInv
<1>2. ASSUME UNCHANGED agentVars PROVE LimitsInv'
  <2>1. /\ UNCHANGED <<work, calls, outbox, hand, ending, acc, shown>> /\ run' = run
    BY <1>2 DEF agentVars
  <2>2. Passed' = Passed /\ LastBatch' = LastBatch /\ Smooth' = Smooth
    BY <2>1 DEF Passed, LastBatch, Smooth
  <2>3. Tracked => Marked(Passed, run)' /\ Stopped(Passed, run)'
    BY <2>1, <2>2 DEF Tracked, Marked, Stopped
  <2>4. Tracked => Stepped(Passed, run)'
    BY <2>1, <2>2 DEF Tracked, Stepped
  <2>5. Tracked => Underway'
    BY <2>1, <2>2 DEF Tracked, Underway
  <2>6. \A k : At(k)' = At(k) /\ Said(k)' = Said(k)
    BY <2>1 DEF At, Said
  <2>7. Batches' = Batches
    BY <2>1, <2>6 DEF Batches
  <2>8. LimitsAreSaid'
    BY <2>1, <2>6, <2>7, Zenon DEF LimitsInv, LimitsAreSaid
  <2> QED
    BY <2>2, <2>3, <2>4, <2>5, <2>8 DEF LimitsInv, Tracked
<1>3. CASE hand = "over"
  BY <1>2, <1>3, OverIs
<1>4. ASSUME hand # "over", hand' # "over", Smooth' => Smooth, Tracked => Tracked' PROVE LimitsInv'
  BY <1>1, <1>4 DEF LimitsInv, LimitsAreSaid
<1>5. ASSUME NEW kind \in {"token", "reasoning", "usage"}, NEW usage \in Nat, Answer(kind, usage)
      PROVE  LimitsInv'
  <2>1. hand # "over" /\ hand' = hand /\ ending' = ending
    BY <1>5 DEF Answer, Asked, loop
  <2> QED
    BY <1>1, <1>4, <1>5, <2>1, TrackedAnswer DEF Smooth
<1>6. CASE Results
  <2>1. hand # "over" /\ hand' = hand /\ ending' = ending
    BY <1>6 DEF Results, Asked, loop
  <2> QED
    BY <1>1, <1>4, <1>6, <2>1, TrackedResults DEF Smooth
<1>7. ASSUME NEW tools \in {<<x>> : x \in Tools} \union Tools \X Tools, CallTools(tools)
      PROVE  LimitsInv'
  <2>1. ASSUME NEW x \in Tools, tools = <<x>> PROVE tools \in Seq(Tools) \ {<<>>}
    BY <2>1
  <2>2. ASSUME NEW x \in Tools, NEW y \in Tools, tools = <<x, y>>
        PROVE  tools \in Seq(Tools) \ {<<>>}
    BY <2>2
  <2>3. hand # "over" /\ hand' = hand /\ ending' = ending
    BY <1>7 DEF CallTools, Asked, loop
  <2> QED
    BY <1>4, <1>7, <2>1, <2>2, <2>3, TrackedCallTools DEF Smooth
<1>8. ASSUME NEW c \in Call, ChildStarts(c) \/ ChildWorks(c) \/ ChildEnds(c) PROVE LimitsInv'
  <2>1. hand # "over" /\ hand' = hand /\ ending' = ending
    BY <1>8 DEF ChildStarts, ChildWorks, ChildEnds, Child, Emit, loop
  <2> QED
    BY <1>4, <1>8, <2>1, TrackedEmit DEF Smooth
<1>9. ASSUME NEW c \in Call, ChildTimesOut(c) PROVE LimitsInv'
  <2>1. hand # "over" /\ hand' = hand /\ ending' = ending
    BY <1>9 DEF ChildTimesOut, Child, loop
  <2> QED
    BY <1>4, <1>9, <2>1, TrackedTimesOut DEF Smooth
<1>10. ASSUME UNCHANGED <<calls, run, outbox, shown, acc>>, work' \in {work, "over"},
              ending' = "finished" => outbox = <<>> \/ ending = "finished", Tracked
       PROVE  Tracked'
  <2>1. Passed' = Passed /\ LastBatch' = LastBatch
    BY <1>10 DEF Passed, LastBatch
  <2>2. Underway'
    BY <1>10, <2>1 DEF Tracked, Underway
  <2> QED
    BY <1>10, <2>1, <2>2 DEF Tracked, Marked, Stopped, Stepped
<1>11. CASE FrameworkEnds \/ BusTaken \/ PassChild \/ AskNext
  <2>1. /\ hand # "over" /\ hand' # "over" /\ ending' = ending
        /\ UNCHANGED <<calls, run, outbox, shown, acc>> /\ work' \in {work, "over"}
    BY <1>11 DEF FrameworkEnds, Asked, BusTaken, Child, PassChild, AskNext, framework, loop
  <2> QED
    BY <1>4, <1>10, <2>1 DEF Smooth
<1>12. CASE PassParent
  <2>1. hand # "over" /\ hand' = "parent" /\ ending' = ending
    BY <1>12 DEF PassParent, ParentReady
  <2> QED
    BY <1>4, <1>12, <2>1, TrackedPassParent DEF Smooth
<1>13. CASE PassCancelled \/ CheckFails \/ LoopClosed
  <2>1. hand' = "ending" /\ ending' \notin {"none", "finished"}
    BY <1>13 DEF PassCancelled, CheckFails, LoopClosed, EndAs
  <2> QED
    BY <2>1 DEF LimitsInv, Smooth, LimitsAreSaid
<1>14. CASE StreamEnds
  <2>1. /\ hand = "waiting" /\ hand' = "ending" /\ ending' = "finished" /\ outbox = <<>>
        /\ UNCHANGED <<calls, run, outbox, shown, acc>> /\ work' = work
    BY <1>14 DEF StreamEnds, EndAs, framework
  <2>2. ending = "none"
    BY <2>1 DEF Unended
  <2> QED
    BY <1>4, <1>10, <2>1, <2>2 DEF Smooth
<1>15. CASE Persist
  <2>1. LimitsAreSaid'
    BY <1>1, <1>15, LimitsPersist
  <2>2. hand' = "over"
    BY <1>15 DEF Persist
  <2> QED
    BY <2>1, <2>2 DEF LimitsInv, Smooth
<1> QED
  BY <1>2, <1>3, <1>5, <1>6, <1>7, <1>8, <1>9, <1>11, <1>12, <1>13, <1>14, <1>15,
     AgentTurnAssumption DEF AgentNext

LEMMA LimitsInitially == AgentInit => LimitsInv
<1> SUFFICES ASSUME AgentInit PROVE LimitsInv
  OBVIOUS
<1>1. /\ shown = <<>> /\ outbox = <<>> /\ calls = <<>> /\ hand = "waiting" /\ ending = "none"
      /\ work = "answering"
      /\ run.steps = 0 /\ run.spent = 0 /\ run.warned = {} /\ run.stop = "none"
  BY DEF AgentInit
<1>2. Passed = <<>> /\ \A k : Places(k, Passed) = {}
  BY <1>1 DEF Passed, Places
<1>3. Marked(Passed, run) /\ Stopped(Passed, run) /\ Stepped(Passed, run)
  BY <1>1, <1>2, AgentTurnAssumption DEF Marked, Stopped, Stepped
<1>4. Underway
  BY <1>1 DEF Underway, LastBatch
<1> QED
  BY <1>1, <1>3, <1>4 DEF LimitsInv, Tracked, LimitsAreSaid

\* A turn that nobody ended early takes no more batches of tools than its budget has
\* steps, and says of each budget that is used up, and of no other, one warning before and
\* the end, with a conclusion as its last words: for all budgets, usage and repeats.
THEOREM LimitsSaid == AgentSpec => []LimitsAreSaid
<1>1. AgentInit => AgentIInv /\ Unended /\ BudgetInv /\ LimitsInv
  BY AgentInitially, WholeInitially, BudgetInitially, LimitsInitially
<1>2. AgentIInv /\ Unended /\ BudgetInv /\ LimitsInv /\ [AgentNext]_agentVars
        => AgentIInv' /\ Unended' /\ BudgetInv' /\ LimitsInv'
  BY AgentIStep, UnendedStep, BudgetStep, LimitsStep
<1>3. LimitsInv => LimitsAreSaid
  BY DEF LimitsInv
<1> QED
  BY <1>1, <1>2, <1>3, PTL DEF AgentSpec

------------------------------------------------------------------------------
(* What was shown is what is stored.                                        *)

LEMMA FlattenAppend ==
  ASSUME NEW T, NEW s \in Seq(Seq(T)), NEW x \in Seq(T)
  PROVE  FlattenSeq(Append(s, x)) = FlattenSeq(s) \o x
<1> DEFINE one == <<x>>
<1>1. one \in Seq(Seq(T)) /\ FlattenSeq(one) = x
  BY FlattenOne
<1>2. Append(s, x) = s \o one
  BY AppendIsConcat
<1> HIDE DEF one
<1>3. FlattenSeq(s \o one) = FlattenSeq(s) \o FlattenSeq(one)
  BY <1>1, FlattenConcat
<1> QED
  BY <1>1, <1>2, <1>3

\* The elements of s by way of a table.
Mapped(g, s) == [i \in DOMAIN s |-> g[s[i]]]

LEMMA MappedTyped ==
  ASSUME NEW T, NEW g, NEW s, Len(s) \in Nat, DOMAIN s = 1 .. Len(s),
         \A i \in 1 .. Len(s) : g[s[i]] \in T
  PROVE  Mapped(g, s) \in Seq(T) /\ Len(Mapped(g, s)) = Len(s)
<1> DEFINE m == Mapped(g, s)
           n == Len(s)
<1>1. n \in Nat /\ m \in [1 .. n -> T]
  BY DEF Mapped
<1> HIDE DEF m, n
<1>2. m \in Seq(T) /\ Len(m) = n
  BY <1>1
<1> QED
  BY <1>2 DEF m, n

LEMMA MappedAppend ==
  ASSUME NEW S, NEW T, NEW g \in [S -> T], NEW s \in Seq(S), NEW e \in S
  PROVE  Mapped(g, Append(s, e)) = Append(Mapped(g, s), g[e])
<1> DEFINE t == Append(s, e)
           m == Mapped(g, s)
           l == Append(m, g[e])
           k == Mapped(g, t)
<1>1. t \in Seq(S) /\ Len(t) = Len(s) + 1 /\ Len(s) \in Nat /\ t[Len(s) + 1] = e
      /\ \A i \in 1 .. Len(s) : t[i] = s[i]
  OBVIOUS
<1>2. m \in Seq(T) /\ Len(m) = Len(s) /\ k \in Seq(T) /\ Len(k) = Len(t)
  <2>1. ASSUME NEW u \in Seq(S)
        PROVE  Mapped(g, u) \in Seq(T) /\ Len(Mapped(g, u)) = Len(u)
    <3> DEFINE w == Mapped(g, u)
               n == Len(u)
    <3>1. n \in Nat /\ w \in [1 .. n -> T]
      BY DEF Mapped
    <3> HIDE DEF w, n
    <3>2. w \in Seq(T) /\ Len(w) = n
      BY <3>1
    <3> QED
      BY <3>2 DEF w, n
  <2> HIDE DEF t
  <2> QED
    BY <1>1, <2>1
<1>3. /\ \A i \in 1 .. Len(s) : m[i] = g[s[i]]
      /\ \A i \in 1 .. Len(s) + 1 : k[i] = g[t[i]]
  BY <1>1 DEF Mapped
<1>4. g[e] \in T
  OBVIOUS
<1> HIDE DEF m, k, t
<1>5. l \in Seq(T) /\ Len(l) = Len(s) + 1 /\ l[Len(s) + 1] = g[e]
      /\ \A i \in 1 .. Len(s) : l[i] = m[i]
  BY <1>1, <1>2, <1>4
<1> HIDE DEF l
<1>6. ASSUME NEW i \in 1 .. Len(s) + 1 PROVE k[i] = l[i]
  <2>1. CASE i = Len(s) + 1
    BY <1>1, <1>3, <1>5, <2>1
  <2>2. CASE i # Len(s) + 1
    <3>1. i \in 1 .. Len(s)
      BY <1>1, <2>2
    <3> QED
      BY <1>1, <1>3, <1>5, <3>1
  <2> QED
    BY <2>1, <2>2
<1>7. k = l
  BY <1>1, <1>2, <1>5, <1>6, SeqEqual
<1> QED
  BY <1>7 DEF k, l, m, t

PartKinds == {"reasoning"} \union ToolKinds

\* The events of these kinds.
Picked(kinds, s) ==
  FlattenSeq([i \in DOMAIN s |-> IF s[i].kind \in kinds THEN <<s[i]>> ELSE <<>>])
Picks(kinds, e) == IF e.kind \in kinds THEN <<e>> ELSE <<>>

LEMMA PicksTyped == ASSUME NEW kinds, NEW e \in Event PROVE Picks(kinds, e) \in Seq(Event)
  BY DEF Picks

LEMMA PickedIs ==
  ASSUME NEW kinds, NEW s \in Seq(Event)
  PROVE  Picked(kinds, s) = FlattenSeq(Mapped([e \in Event |-> Picks(kinds, e)], s))
<1> DEFINE g == [e \in Event |-> Picks(kinds, e)]
<1>1. \A i \in DOMAIN s : g[s[i]] = IF s[i].kind \in kinds THEN <<s[i]>> ELSE <<>>
  BY DEF Picks
<1> HIDE DEF g
<1>2. Mapped(g, s) = [i \in DOMAIN s |-> IF s[i].kind \in kinds THEN <<s[i]>> ELSE <<>>]
  BY <1>1 DEF Mapped
<1> QED
  BY <1>2 DEF Picked, g

LEMMA PickedAppend ==
  ASSUME NEW kinds, NEW s \in Seq(Event), NEW e \in Event
  PROVE  /\ Picked(kinds, Append(s, e)) = Picked(kinds, s) \o Picks(kinds, e)
         /\ Picked(kinds, s) \in Seq(Event)
<1> DEFINE g == [d \in Event |-> Picks(kinds, d)]
           t == Append(s, e)
<1>1. g \in [Event -> Seq(Event)] /\ g[e] = Picks(kinds, e)
  BY PicksTyped
<1>2. t \in Seq(Event)
  OBVIOUS
<1>3. Picked(kinds, s) = FlattenSeq(Mapped(g, s)) /\ Picked(kinds, t) = FlattenSeq(Mapped(g, t))
  BY <1>2, PickedIs
<1> HIDE DEF g
<1>4. Mapped(g, t) = Append(Mapped(g, s), g[e])
  BY <1>1, MappedAppend
<1>5. Mapped(g, s) \in Seq(Seq(Event)) /\ g[e] \in Seq(Event)
  <2>1. Len(s) \in Nat /\ DOMAIN s = 1 .. Len(s) /\ \A i \in 1 .. Len(s) : g[s[i]] \in Seq(Event)
    BY <1>1
  <2> QED
    BY <1>1, <2>1, MappedTyped
<1> DEFINE m == Mapped(g, s)
           x == g[e]
<1>6. m \in Seq(Seq(Event)) /\ x \in Seq(Event)
  BY <1>5
<1> HIDE DEF m, x
<1>7. FlattenSeq(Append(m, x)) = FlattenSeq(m) \o x /\ FlattenSeq(m) \in Seq(Event)
  BY <1>6, FlattenAppend, FlattenTyped
<1> QED
  BY <1>1, <1>3, <1>4, <1>7 DEF m, x, t

LEMMA PickedNothing == ASSUME NEW kinds PROVE Picked(kinds, <<>>) = <<>>
<1>1. [i \in DOMAIN <<>> |-> IF <<>>[i].kind \in kinds THEN <<<<>>[i]>> ELSE <<>>] = <<>>
  OBVIOUS
<1> QED
  BY <1>1, FlattenEmpty DEF Picked

\* The events that the parts of a message stand for, and those that its open reasoning does.
StandsFor(parts) == FlattenSeq([i \in DOMAIN parts |-> EventsOf(parts[i])])
Reasoned(n) == [i \in 1 .. n |-> Sse("reasoning", 0)]
HeldBy(a) == StandsFor(a.parts) \o Reasoned(a.open)

LEMMA ReasonedTyped == ASSUME NEW n \in Nat PROVE Reasoned(n) \in Seq(Event) /\ Len(Reasoned(n)) = n
<1> DEFINE r == Sse("reasoning", 0)
           o == Reasoned(n)
<1>1. r \in Event
  BY DEF Sse, Event, EventKinds, ToolKinds
<1>2. o = [i \in 1 .. n |-> r]
  BY DEF Reasoned
<1> HIDE DEF r, o
<1>3. o \in [1 .. n -> Event]
  BY <1>1, <1>2
<1>4. o \in Seq(Event) /\ Len(o) = n
  BY <1>3
<1> QED
  BY <1>4 DEF o

LEMMA EventsTyped == ASSUME NEW p \in PartState PROVE EventsOf(p) \in Seq(Event)
<1>1. CASE p.kind = "reasoning"
  <2>1. p.size \in Nat /\ EventsOf(p) = Reasoned(p.size)
    BY <1>1 DEF PartState, EventsOf, Reasoned
  <2> QED
    BY <2>1, ReasonedTyped
<1>2. CASE p.kind # "reasoning"
  <2>1. p.kind \in ToolKinds /\ p.call \in Call
    BY <1>2 DEF PartState
  <2>2. Sse(p.kind, p.call) \in Event
    BY <2>1 DEF Sse, Event, EventKinds
  <2> QED
    BY <1>2, <2>2 DEF EventsOf
<1> QED
  BY <1>1, <1>2

LEMMA StandsForIs ==
  ASSUME NEW s \in Seq(PartState)
  PROVE  StandsFor(s) = FlattenSeq(Mapped([p \in PartState |-> EventsOf(p)], s))
<1> DEFINE g == [p \in PartState |-> EventsOf(p)]
<1>1. \A i \in DOMAIN s : g[s[i]] = EventsOf(s[i])
  OBVIOUS
<1> HIDE DEF g
<1>2. Mapped(g, s) = [i \in DOMAIN s |-> EventsOf(s[i])]
  BY <1>1 DEF Mapped
<1> QED
  BY <1>2 DEF StandsFor, g

LEMMA StandsForAppend ==
  ASSUME NEW s \in Seq(PartState), NEW p \in PartState
  PROVE  StandsFor(Append(s, p)) = StandsFor(s) \o EventsOf(p) /\ StandsFor(s) \in Seq(Event)
<1> DEFINE g == [q \in PartState |-> EventsOf(q)]
           t == Append(s, p)
<1>1. g \in [PartState -> Seq(Event)] /\ g[p] = EventsOf(p)
  BY EventsTyped
<1>2. t \in Seq(PartState)
  OBVIOUS
<1>3. StandsFor(s) = FlattenSeq(Mapped(g, s)) /\ StandsFor(t) = FlattenSeq(Mapped(g, t))
  BY <1>2, StandsForIs
<1> HIDE DEF g
<1>4. Mapped(g, t) = Append(Mapped(g, s), g[p])
  BY <1>1, MappedAppend
<1> DEFINE m == Mapped(g, s)
           x == g[p]
<1>5. m \in Seq(Seq(Event)) /\ x \in Seq(Event)
  <2>1. Len(s) \in Nat /\ DOMAIN s = 1 .. Len(s) /\ \A i \in 1 .. Len(s) : g[s[i]] \in Seq(Event)
    BY <1>1
  <2> QED
    BY <1>1, <2>1, MappedTyped
<1> HIDE DEF m, x
<1>6. FlattenSeq(Append(m, x)) = FlattenSeq(m) \o x /\ FlattenSeq(m) \in Seq(Event)
  BY <1>5, FlattenAppend, FlattenTyped
<1> QED
  BY <1>1, <1>3, <1>4, <1>6 DEF m, x, t

LEMMA AccumulateIs ==
  ASSUME NEW a \in AccState, NEW e \in Event
  PROVE  LET b == Accumulate(a, e) IN
         /\ b.text = IF e.kind \in TextKinds THEN a.text + 1 ELSE a.text
         /\ b.open = IF e.kind = "reasoning" THEN a.open + 1
                     ELSE IF e.kind \in ToolKinds THEN 0 ELSE a.open
         /\ b.parts = IF e.kind \in ToolKinds THEN Append(Flush(a), Part(e.kind, e.call, 0))
                      ELSE a.parts
<1> DEFINE b == Accumulate(a, e)
           all == Append(Flush(a), Part(e.kind, e.call, 0))
<1>1. \/ e.kind \in TextKinds /\ b = [a EXCEPT !.text = @ + 1]
      \/ e.kind = "reasoning" /\ b = [a EXCEPT !.open = @ + 1]
      \/ e.kind \in ToolKinds /\ b = [a EXCEPT !.open = 0, !.parts = all]
      \/ e.kind \notin TextKinds \union {"reasoning"} \union ToolKinds /\ b = a
  BY DEF Accumulate, ToolPart, TextKinds, ToolKinds
<1> HIDE DEF b, all
<1>2. /\ b.text = IF e.kind \in TextKinds THEN a.text + 1 ELSE a.text
      /\ b.open = IF e.kind = "reasoning" THEN a.open + 1
                  ELSE IF e.kind \in ToolKinds THEN 0 ELSE a.open
      /\ b.parts = IF e.kind \in ToolKinds THEN all ELSE a.parts
  BY <1>1 DEF AccState, TextKinds, ToolKinds
<1> QED
  BY <1>2 DEF b, all

\* Open reasoning stands for the same, once it is a part.
LEMMA FlushHeld ==
  ASSUME NEW a \in AccState
  PROVE  /\ StandsFor(Flush(a)) = HeldBy(a) /\ HeldBy(a) \in Seq(Event)
         /\ StandsFor(a.parts) \in Seq(Event) /\ a.parts \in Seq(PartState) /\ a.open \in Nat
<1> DEFINE s == a.parts
           p == Part("reasoning", 0, a.open)
<1>1. s \in Seq(PartState) /\ a.open \in Nat
  BY DEF AccState
<1>2. p \in PartState /\ EventsOf(p) = Reasoned(a.open)
  BY <1>1 DEF Part, PartState, EventsOf, Reasoned, ToolKinds
<1>3. Reasoned(a.open) \in Seq(Event)
  BY <1>1, ReasonedTyped
<1> HIDE DEF p, s
<1>4. StandsFor(Append(s, p)) = StandsFor(s) \o EventsOf(p) /\ StandsFor(s) \in Seq(Event)
  BY <1>1, <1>2, StandsForAppend
<1>5. HeldBy(a) = StandsFor(s) \o Reasoned(a.open)
  BY DEF HeldBy, s
<1>6. CASE a.open = 0
  <2>1. Reasoned(0) = <<>>
    BY DEF Reasoned
  <2>2. HeldBy(a) = StandsFor(s)
    BY <1>4, <1>5, <1>6, <2>1, ConcatEmptySeq
  <2> QED
    BY <1>1, <1>4, <1>6, <2>2 DEF Flush, s
<1>7. CASE a.open # 0
  <2>1. Flush(a) = Append(s, p)
    BY <1>7 DEF Flush, s, p
  <2>2. StandsFor(Flush(a)) = HeldBy(a)
    BY <1>2, <1>4, <1>5, <2>1, Zenon
  <2>3. HeldBy(a) \in Seq(Event)
    BY <1>3, <1>4, <1>5
  <2> QED
    BY <1>1, <1>4, <2>2, <2>3 DEF s
<1> QED
  BY <1>6, <1>7

\* An event adds itself to what is held, and nothing else.
LEMMA AccumulateHeld ==
  ASSUME NEW a \in AccState, NEW e \in Event
  PROVE  /\ HeldBy(Accumulate(a, e)) = HeldBy(a) \o Picks(PartKinds, e)
         /\ Accumulate(a, e).text = a.text + Len(Picks(TextKinds, e))
<1> DEFINE b == Accumulate(a, e)
           p == Part(e.kind, e.call, 0)
           f == Flush(a)
<1>1. /\ b.text = IF e.kind \in TextKinds THEN a.text + 1 ELSE a.text
      /\ b.open = IF e.kind = "reasoning" THEN a.open + 1
                  ELSE IF e.kind \in ToolKinds THEN 0 ELSE a.open
      /\ b.parts = IF e.kind \in ToolKinds THEN Append(f, p) ELSE a.parts
  BY AccumulateIs
<1>2. /\ StandsFor(f) = HeldBy(a) /\ HeldBy(a) \in Seq(Event)
      /\ StandsFor(a.parts) \in Seq(Event) /\ a.parts \in Seq(PartState) /\ a.open \in Nat
      /\ a.text \in Nat
  BY FlushHeld DEF AccState
<1> HIDE DEF b
<1>3. b.text = a.text + Len(Picks(TextKinds, e))
  BY <1>1, <1>2 DEF Picks
<1>4. HeldBy(b) = StandsFor(b.parts) \o Reasoned(b.open)
  BY DEF HeldBy
<1>5. CASE e.kind = "reasoning"
  <2> DEFINE o == Reasoned(a.open)
             x == StandsFor(a.parts)
  <2>1. e = Sse("reasoning", 0)
    BY <1>5 DEF Event, Sse, ToolKinds
  <2>2. Reasoned(a.open + 1) = Append(o, e)
    <3>1. o \in Seq(Event) /\ Len(o) = a.open /\ \A i \in 1 .. a.open : o[i] = e
      BY <1>2, <2>1, ReasonedTyped DEF Reasoned
    <3> DEFINE l == Reasoned(a.open + 1)
               k == Append(o, e)
    <3>2. l \in Seq(Event) /\ Len(l) = a.open + 1 /\ \A i \in 1 .. a.open + 1 : l[i] = e
      <4> DEFINE n == a.open + 1
      <4>1. n \in Nat
        BY <1>2
      <4> HIDE DEF n
      <4>2. \A i \in 1 .. n : Reasoned(n)[i] = e
        BY <2>1 DEF Reasoned
      <4>3. Reasoned(n) \in Seq(Event) /\ Len(Reasoned(n)) = n
        BY <4>1, ReasonedTyped
      <4> QED
        BY <4>2, <4>3 DEF n
    <3> HIDE DEF o, l
    <3>3. k \in Seq(Event) /\ Len(k) = a.open + 1 /\ \A i \in 1 .. a.open + 1 : k[i] = e
      BY <1>2, <3>1
    <3> HIDE DEF k
    <3>4. l = k
      BY <3>2, <3>3, SeqEqual
    <3> QED
      BY <3>4 DEF l, k
  <2>3. Picks(PartKinds, e) = <<e>> /\ b.parts = a.parts /\ b.open = a.open + 1
    BY <1>1, <1>5 DEF Picks, PartKinds, ToolKinds
  <2>4. o \in Seq(Event) /\ x \in Seq(Event) /\ <<e>> \in Seq(Event)
    BY <1>2, ReasonedTyped
  <2>5. HeldBy(b) = x \o Append(o, e) /\ HeldBy(a) = x \o o
    BY <1>4, <2>2, <2>3 DEF HeldBy
  <2> HIDE DEF o, x
  <2>6. Append(o, e) = o \o <<e>> /\ (x \o o) \o <<e>> = x \o (o \o <<e>>)
    BY <2>4, AppendIsConcat, ConcatAssociative
  <2> QED
    BY <1>3, <2>3, <2>5, <2>6 DEF b
<1>6. CASE e.kind \in ToolKinds
  <2>1. p \in PartState /\ EventsOf(p) = <<e>>
    <3>1. e.call \in Call /\ e = Sse(e.kind, e.call) /\ e.kind # "reasoning"
      BY <1>6 DEF Event, Sse, ToolKinds
    <3>2. p.kind = e.kind /\ p.call = e.call
      BY DEF Part
    <3>3. p \in PartState
      BY <1>6, <3>1 DEF Part, PartState
    <3> HIDE DEF p
    <3> QED
      BY <3>1, <3>2, <3>3 DEF EventsOf
  <2>2. f \in Seq(PartState)
    BY FlushTyped
  <2> HIDE DEF p, f
  <2>3. StandsFor(Append(f, p)) = StandsFor(f) \o <<e>>
    BY <2>1, <2>2, StandsForAppend
  <2>4. Reasoned(0) = <<>>
    BY DEF Reasoned
  <2>5. b.parts = Append(f, p) /\ b.open = 0
    BY <1>1, <1>6 DEF ToolKinds
  <2> DEFINE h == HeldBy(a) \o <<e>>
  <2>6. HeldBy(b) = h \o <<>>
    BY <1>2, <1>4, <2>3, <2>4, <2>5
  <2>7. h \in Seq(Event)
    BY <1>2
  <2> HIDE DEF h
  <2>8. HeldBy(b) = h
    BY <2>6, <2>7, ConcatEmptySeq
  <2>9. Picks(PartKinds, e) = <<e>>
    BY <1>6 DEF Picks, PartKinds
  <2> QED
    BY <1>3, <2>8, <2>9 DEF b, h
<1>7. CASE e.kind \notin PartKinds
  <2>1. b.parts = a.parts /\ b.open = a.open /\ Picks(PartKinds, e) = <<>>
    BY <1>1, <1>7 DEF PartKinds, Picks
  <2>2. HeldBy(b) = HeldBy(a)
    BY <1>4, <2>1 DEF HeldBy
  <2>3. HeldBy(a) \o <<>> = HeldBy(a)
    BY <1>2, ConcatEmptySeq
  <2> QED
    BY <1>3, <2>1, <2>2, <2>3 DEF b
<1> QED
  BY <1>5, <1>6, <1>7 DEF PartKinds

\* Payloads stand for nothing of their own.
LEMMA AttachHeld ==
  ASSUME NEW parts \in Seq(PartState), NEW state \in [Call -> Seq(ChildKinds)]
  PROVE  StandsFor(Attach(parts, state)) = StandsFor(parts)
<1> DEFINE a == Attach(parts, state)
<1>1. /\ a \in Seq(PartState) /\ Len(a) = Len(parts)
      /\ \A i \in DOMAIN parts : /\ a[i].kind = parts[i].kind /\ a[i].call = parts[i].call
                                 /\ a[i].size = parts[i].size
  BY AttachTyped
<1> HIDE DEF a
<1>2. DOMAIN a = DOMAIN parts
  BY <1>1
<1>3. \A i \in DOMAIN parts : EventsOf(a[i]) = EventsOf(parts[i])
  BY <1>1 DEF EventsOf
<1>4. [i \in DOMAIN a |-> EventsOf(a[i])] = [i \in DOMAIN parts |-> EventsOf(parts[i])]
  BY <1>2, <1>3
<1> QED
  BY <1>4 DEF StandsFor, a

\* What was shown, of each kind, is held, in its order; at most one event is held that was
\* not shown, the one at which the turn was cancelled.
KeptInv ==
  \E x \in Seq(Event) :
    /\ HeldBy(acc) = Picked(PartKinds, shown) \o x
    /\ Len(Picked(TextKinds, shown)) <= acc.text
    /\ Len(x) + acc.text
         <= Len(Picked(TextKinds, shown)) + (IF ending = "cancelled" THEN 1 ELSE 0)

LEMMA ShownOfIs == ASSUME NEW kinds PROVE ShownOf(kinds) = Picked(kinds, shown)
  BY DEF ShownOf, Picked

\* What is shown of other kinds changes nothing.
LEMMA KeptSame ==
  ASSUME AgentIInv, KeptInv, acc' = acc,
         ending' = ending \/ ending # "cancelled",
         NEW e \in Event, e.kind \notin PartKinds \union TextKinds,
         shown' \in {shown, Append(shown, e)}
  PROVE  KeptInv'
<1> DEFINE new == shown'
<1>1. shown \in Seq(Event) /\ acc \in AccState
  BY DEF AgentIInv, AgentTyped
<1>2. ASSUME NEW kinds, e.kind \notin kinds
      PROVE  Picked(kinds, new) = Picked(kinds, shown) /\ Picked(kinds, new) \in Seq(Event)
  <2>1. Picked(kinds, Append(shown, e)) = Picked(kinds, shown) \o <<>>
        /\ Picked(kinds, shown) \in Seq(Event)
    BY <1>1, <1>2, PickedAppend DEF Picks
  <2>2. Picked(kinds, Append(shown, e)) = Picked(kinds, shown)
    BY <2>1, ConcatEmptySeq
  <2>3. new = shown \/ new = Append(shown, e)
    OBVIOUS
  <2> HIDE DEF new
  <2> QED
    BY <2>1, <2>2, <2>3
<1>3. /\ Picked(PartKinds, new) = Picked(PartKinds, shown)
      /\ Picked(TextKinds, new) = Picked(TextKinds, shown)
      /\ Picked(TextKinds, shown) \in Seq(Event)
  BY <1>2
<1>4. PICK x \in Seq(Event) :
        /\ HeldBy(acc) = Picked(PartKinds, shown) \o x
        /\ Len(Picked(TextKinds, shown)) <= acc.text
        /\ Len(x) + acc.text
             <= Len(Picked(TextKinds, shown)) + (IF ending = "cancelled" THEN 1 ELSE 0)
  BY DEF KeptInv
<1>5. Len(Picked(TextKinds, shown)) \in Nat /\ Len(x) \in Nat /\ acc.text \in Nat
  BY <1>1, <1>3 DEF AccState
<1>6. Len(x) + acc.text
        <= Len(Picked(TextKinds, shown)) + (IF ending' = "cancelled" THEN 1 ELSE 0)
  BY <1>4, <1>5
<1>7. /\ HeldBy(acc') = Picked(PartKinds, new) \o x
      /\ Len(Picked(TextKinds, new)) <= acc'.text
      /\ Len(x) + acc'.text
           <= Len(Picked(TextKinds, new)) + (IF ending' = "cancelled" THEN 1 ELSE 0)
  BY <1>3, <1>4, <1>6
<1> HIDE DEF new
<1> QED
  BY <1>7 DEF KeptInv, new, HeldBy, Picked

\* Before it is cancelled a turn holds exactly what was shown.
LEMMA KeptAll ==
  ASSUME AgentIInv, KeptInv, ending # "cancelled"
  PROVE  /\ HeldBy(acc) = Picked(PartKinds, shown) /\ Len(Picked(TextKinds, shown)) = acc.text
         /\ \A kinds : Picked(kinds, shown) \in Seq(Event)
<1>1. shown \in Seq(Event) /\ acc.text \in Nat
  BY DEF AgentIInv, AgentTyped, AccState
<1>2. \A kinds : Picked(kinds, shown) \in Seq(Event)
  <2>1. PICK e \in Event : TRUE
    <3>1. Sse("failed", 0) \in Event
      BY DEF Sse, Event, EventKinds, ToolKinds
    <3> QED
      BY <3>1
  <2> QED
    BY <1>1, <2>1, PickedAppend
<1> DEFINE P == Picked(PartKinds, shown)
           T == Picked(TextKinds, shown)
<1>3. PICK x \in Seq(Event) :
        HeldBy(acc) = P \o x /\ Len(T) <= acc.text /\ Len(x) + acc.text <= Len(T)
  BY <1>1, <1>2 DEF KeptInv
<1>4. P \in Seq(Event) /\ T \in Seq(Event)
  BY <1>2
<1> HIDE DEF P, T
<1>5. Len(x) = 0 /\ Len(T) = acc.text
  BY <1>1, <1>3, <1>4
<1>6. x = <<>> /\ P \o <<>> = P
  BY <1>4, <1>5, ConcatEmptySeq
<1> QED
  BY <1>2, <1>3, <1>5, <1>6 DEF P, T

LEMMA KeptPassParent ==
  ASSUME AgentIInv, Unended, KeptInv, PassParent
  PROVE  KeptInv'
<1> DEFINE e == Head(outbox)
           now == Accumulate(acc, e)
           held == acc'
           new == shown'
<1>1. /\ now \in AccState /\ held \in AccState
      /\ held.text = now.text /\ held.open = now.open
      /\ e.kind # "tool_result" => held = now
      /\ e.kind = "tool_result" => held.parts = Attach(now.parts, folded)
      /\ new = Append(shown, e) /\ ending' = ending /\ ParentReady
  BY PassParentIs
<1>2. e \in Event /\ hand = "waiting" /\ shown \in Seq(Event) /\ acc \in AccState
      /\ folded \in [Call -> Seq(ChildKinds)]
  BY <1>1, ReadyIs DEF AgentIInv, AgentTyped
<1>3. ending = "none"
  BY <1>2 DEF Unended
<1>4. /\ HeldBy(acc) = Picked(PartKinds, shown) /\ Len(Picked(TextKinds, shown)) = acc.text
      /\ Picked(PartKinds, shown) \in Seq(Event) /\ Picked(TextKinds, shown) \in Seq(Event)
  BY <1>3, KeptAll
<1>5. HeldBy(now) = HeldBy(acc) \o Picks(PartKinds, e)
      /\ now.text = acc.text + Len(Picks(TextKinds, e))
  BY <1>2, AccumulateHeld
<1> HIDE DEF e, now, held, new
<1>6. HeldBy(held) = HeldBy(now)
  <2>1. CASE e.kind # "tool_result"
    BY <1>1, <2>1
  <2>2. CASE e.kind = "tool_result"
    <3>1. now.parts \in Seq(PartState)
      BY <1>1 DEF AccState
    <3>2. StandsFor(held.parts) = StandsFor(now.parts)
      BY <1>1, <1>2, <2>2, <3>1, AttachHeld
    <3> QED
      BY <1>1, <3>2 DEF HeldBy
  <2> QED
    BY <2>1, <2>2
<1>7. /\ Picked(PartKinds, new) = Picked(PartKinds, shown) \o Picks(PartKinds, e)
      /\ Picked(TextKinds, new) = Picked(TextKinds, shown) \o Picks(TextKinds, e)
  BY <1>1, <1>2, PickedAppend
<1> DEFINE P == Picked(PartKinds, new)
           T == Picked(TextKinds, new)
           t == Picks(TextKinds, e)
<1>8. HeldBy(held) = P
  BY <1>4, <1>5, <1>6, <1>7
<1>9. P \in Seq(Event) /\ T \in Seq(Event)
  <2>1. Picks(PartKinds, e) \in Seq(Event) /\ Picks(TextKinds, e) \in Seq(Event)
    BY <1>2, PicksTyped
  <2> QED
    BY <1>4, <1>7, <2>1
<1>10. Len(T) = held.text
  <2> DEFINE T0 == Picked(TextKinds, shown)
  <2>1. T = T0 \o t /\ t \in Seq(Event) /\ T0 \in Seq(Event)
    BY <1>2, <1>4, <1>7, PicksTyped
  <2>2. held.text = Len(T0) + Len(t)
    BY <1>1, <1>4, <1>5
  <2> HIDE DEF T, t, T0
  <2> QED
    BY <2>1, <2>2
<1> HIDE DEF P, T
<1>11. P = P \o <<>> /\ <<>> \in Seq(Event) /\ Len(<<>>) = 0 /\ held.text \in Nat
  BY <1>1, <1>9, ConcatEmptySeq DEF AccState
<1> DEFINE y == <<>>
<1> DEFINE zero == Len(y)
<1>12. /\ HeldBy(held) = P \o <<>> /\ Len(T) <= held.text
       /\ Len(<<>>) + held.text <= Len(T) + (IF ending' = "cancelled" THEN 1 ELSE 0)
  BY <1>1, <1>3, <1>8, <1>10, <1>11
<1> QED
  BY <1>11, <1>12 DEF KeptInv, P, T, held, new, HeldBy, Picked

\* The event at which a turn is cancelled is kept and not shown.
LEMMA KeptPassCancelled ==
  ASSUME AgentIInv, Unended, KeptInv, PassCancelled
  PROVE  KeptInv'
<1> DEFINE e == Head(outbox)
           held == acc'
           P == Picked(PartKinds, shown)
           T == Picked(TextKinds, shown)
           x == Picks(PartKinds, e)
           t == Picks(TextKinds, e)
<1>1. /\ ParentReady /\ held = Accumulate(acc, e) /\ shown' = shown /\ ending' = "cancelled"
  BY DEF PassCancelled, EndAs
<1>2. e \in Event /\ hand = "waiting" /\ acc \in AccState
  BY <1>1, ReadyIs DEF AgentIInv, AgentTyped
<1>3. ending = "none"
  BY <1>2 DEF Unended
<1>4. HeldBy(acc) = P /\ Len(T) = acc.text /\ P \in Seq(Event) /\ T \in Seq(Event)
  BY <1>3, KeptAll
<1>5. HeldBy(held) = P \o x /\ held.text = acc.text + Len(t)
  BY <1>1, <1>2, <1>4, AccumulateHeld
<1>6. x \in Seq(Event) /\ Len(x) \in Nat /\ Len(t) \in Nat /\ Len(x) + Len(t) <= 1
  <2>1. x \in Seq(Event) /\ t \in Seq(Event)
    BY <1>2, PicksTyped
  <2>2. PartKinds \intersect TextKinds = {}
    BY DEF PartKinds, TextKinds, ToolKinds
  <2>3. (x = <<>> \/ x = <<e>>) /\ (t = <<>> \/ t = <<e>>) /\ (x = <<>> \/ t = <<>>)
    BY <2>2 DEF Picks
  <2>4. Len(<<e>>) = 1 /\ Len(<<>>) = 0
    OBVIOUS
  <2> HIDE DEF x, t, e
  <2>5. (Len(x) = 0 \/ Len(x) = 1) /\ (Len(t) = 0 \/ Len(t) = 1) /\ (Len(x) = 0 \/ Len(t) = 0)
    BY <2>3, <2>4, Zenon
  <2>6. Len(x) \in Nat /\ Len(t) \in Nat
    BY <2>1, LenProperties
  <2>7. Len(x) + Len(t) <= 1
    <3> DEFINE m == Len(x)
               n == Len(t)
    <3>1. m \in Nat /\ n \in Nat /\ (m = 0 \/ m = 1) /\ (n = 0 \/ n = 1) /\ (m = 0 \/ n = 0)
      BY <2>5, <2>6
    <3> HIDE DEF m, n
    <3>2. m + n <= 1
      BY <3>1
    <3> QED
      BY <3>2 DEF m, n
  <2> QED
    BY <2>1, <2>6, <2>7
<1> HIDE DEF e, held, P, T, x, t
<1>7. /\ HeldBy(held) = P \o x /\ Len(T) <= held.text /\ Len(x) + held.text <= Len(T) + 1
  BY <1>4, <1>5, <1>6
<1>8. P = Picked(PartKinds, shown') /\ T = Picked(TextKinds, shown')
  BY <1>1 DEF P, T
<1> QED
  BY <1>1, <1>6, <1>7, <1>8 DEF KeptInv, held, HeldBy, Picked

LEMMA KeptPersist ==
  ASSUME AgentIInv, Unended, KeptInv, Persist
  PROVE  KeptInv' /\ ShownIsKept'
<1> DEFINE heard == FoldAll(queue, folded)
           all == Attach(acc.parts, heard)
           b == [acc EXCEPT !.parts = all]
           parts == IF acc.open = 0 THEN all ELSE Append(all, Part("reasoning", 0, acc.open))
           m == Sse("message_complete", 0)
           new == shown'
<1>1. /\ heard \in [Call -> Seq(ChildKinds)] /\ all \in Seq(PartState)
      /\ parts \in Seq(PartState)
      /\ \/ message' = [state |-> "stored", text |-> acc.text, parts |-> parts]
         \/ message'.state = "failed"
         \/ message' = message
      /\ hand = "ending" /\ acc' = acc /\ ending' = ending
  BY PersistIs, Zenon
<1>2. new \in {shown, Append(shown, m)}
  <2>1. \E c \in BOOLEAN : new = shown \o When(c, "message_complete")
    BY DEF Persist, Completes
  <2>2. shown \in Seq(Event)
    BY DEF AgentIInv, AgentTyped
  <2>3. shown \o <<>> = shown /\ shown \o <<m>> = Append(shown, m)
    <3>1. m \in Event
      BY DEF Sse, Event, EventKinds, ToolKinds
    <3> HIDE DEF m
    <3> QED
      BY <2>2, <3>1, ConcatEmptySeq, AppendIsConcat
  <2> QED
    BY <2>1, <2>3 DEF When
<1>3. m \in Event /\ m.kind \notin PartKinds \union TextKinds
  BY DEF Sse, Event, EventKinds, ToolKinds, PartKinds, TextKinds
<1> HIDE DEF m
<1>4. KeptInv'
  BY <1>1, <1>2, <1>3, KeptSame
<1>5. acc \in AccState
  BY DEF AgentIInv, AgentTyped
<1>6. StandsFor(parts) = HeldBy(acc)
  <2>1. StandsFor(all) = StandsFor(acc.parts)
    BY <1>1, <1>5, AttachHeld DEF AccState
  <2>2. b \in AccState /\ b.parts = all /\ b.open = acc.open
    <3> HIDE DEF all
    <3>1. all \in Seq(PartState)
      BY <1>1
    <3> QED
      BY <1>5, <3>1 DEF AccState
  <2> HIDE DEF b, all
  <2>3. Flush(b) = parts
    BY <2>2 DEF Flush
  <2>4. StandsFor(parts) = HeldBy(b)
    BY <2>2, <2>3, FlushHeld
  <2> QED
    BY <2>1, <2>2, <2>4 DEF HeldBy
<1> HIDE DEF parts, new
<1>7. ASSUME message'.state = "stored" PROVE message'.parts = parts /\ message'.text = acc.text
  <2>1. message.state = "none"
    BY <1>1 DEF Unended
  <2>2. message' = [state |-> "stored", text |-> acc.text, parts |-> parts]
    BY <1>1, <1>7, <2>1
  <2> QED
    BY <2>2
<1>8. ASSUME message'.state = "stored" PROVE ShownIsKept'
  <2> DEFINE P == Picked(PartKinds, new)
             T == Picked(TextKinds, new)
             stored == StandsFor(parts)
  <2>1. PICK x \in Seq(Event) :
          /\ HeldBy(acc) = P \o x /\ Len(T) <= acc.text
          /\ Len(x) + acc.text <= Len(T) + (IF ending = "cancelled" THEN 1 ELSE 0)
    <3>1. \E x \in Seq(Event) :
            /\ HeldBy(acc)' = Picked(PartKinds, shown)' \o x
            /\ Len(Picked(TextKinds, shown)') <= acc'.text
            /\ Len(x) + acc'.text
                 <= Len(Picked(TextKinds, shown)') + (IF ending' = "cancelled" THEN 1 ELSE 0)
      BY <1>4 DEF KeptInv
    <3>2. HeldBy(acc)' = HeldBy(acc) /\ Picked(PartKinds, shown)' = P
          /\ Picked(TextKinds, shown)' = T
      BY <1>1 DEF HeldBy, Picked, new
    <3> QED
      BY <1>1, <3>1, <3>2
  <2>2. P \in Seq(Event) /\ T \in Seq(Event)
    <3>1. shown \in Seq(Event)
      BY DEF AgentIInv, AgentTyped
    <3>2. new \in Seq(Event)
      BY <1>2, <1>3, <3>1
    <3> QED
      BY <1>3, <3>2, PickedAppend
  <2>3. /\ ShownOf({"reasoning"} \union ToolKinds)' = P /\ ShownOf(TextKinds)' = T
        /\ FlattenSeq([i \in DOMAIN message'.parts |-> EventsOf(message'.parts[i])]) = stored
    BY <1>7, <1>8 DEF ShownOf, Picked, PartKinds, StandsFor, new
  <2>4. acc.text \in Nat
    BY <1>5 DEF AccState
  <2>5. stored = P \o x
    BY <1>6, <2>1
  <2> HIDE DEF P, T, stored
  <2>6. Len(stored) = Len(P) + Len(x) /\ Len(P) \in Nat /\ Len(x) \in Nat /\ Len(T) \in Nat
        /\ stored \in Seq(Event)
    BY <2>1, <2>2, <2>5
  <2>7. IsPrefix(P, stored)
    <3>1. \A i \in 1 .. Len(P) : stored[i] = P[i]
      BY <2>1, <2>2, <2>5, <2>6
    <3>2. SubSeq(P, 1, Len(P)) = SubSeq(stored, 1, Len(P))
      BY <2>2, <2>6, <3>1
    <3> QED
      BY <2>6, <3>2 DEF IsPrefix
  <2>8. Len(stored) + acc.text <= Len(P) + Len(T) + 1
    BY <2>1, <2>4, <2>6
  <2> QED
    BY <1>7, <1>8, <2>1, <2>3, <2>7, <2>8, Zenon DEF ShownIsKept
<1>9. ASSUME message'.state # "stored" PROVE ShownIsKept'
  BY <1>9 DEF ShownIsKept, Settled
<1> QED
  BY <1>4, <1>8, <1>9

LEMMA KeptStep ==
  AgentIInv /\ Unended /\ KeptInv /\ ShownIsKept /\ [AgentNext]_agentVars
    => KeptInv' /\ ShownIsKept'
<1> SUFFICES ASSUME AgentIInv, Unended, KeptInv, ShownIsKept, [AgentNext]_agentVars
             PROVE  KeptInv' /\ ShownIsKept'
  OBVIOUS
<1>1. ASSUME UNCHANGED agentVars PROVE KeptInv' /\ ShownIsKept'
  <2>1. UNCHANGED <<acc, shown, ending, hand, message>>
    BY <1>1 DEF agentVars
  <2>2. KeptInv'
    BY <2>1 DEF KeptInv, HeldBy, StandsFor, Picked
  <2>3. ShownIsKept'
    BY <2>1 DEF ShownIsKept, Settled, ShownOf
  <2> QED
    BY <2>2, <2>3
<1>2. CASE hand = "over"
  BY <1>1, <1>2, OverIs
<1>3. ASSUME hand' # "over", KeptInv' PROVE KeptInv' /\ ShownIsKept'
  BY <1>3 DEF ShownIsKept, Settled
<1> DEFINE e == Sse("failed", 0)
<1>4. e \in Event /\ e.kind \notin PartKinds \union TextKinds
  BY DEF Sse, Event, EventKinds, ToolKinds, PartKinds, TextKinds
<1> HIDE DEF e
<1>5. ASSUME UNCHANGED <<acc, shown>>, ending' = ending \/ ending # "cancelled" PROVE KeptInv'
  BY <1>4, <1>5, KeptSame
<1>6. ASSUME NEW kind, NEW usage, Answer(kind, usage) PROVE KeptInv' /\ ShownIsKept'
  BY <1>3, <1>5, <1>6 DEF Answer, Asked, loop
<1>7. ASSUME NEW tools, CallTools(tools) PROVE KeptInv' /\ ShownIsKept'
  BY <1>3, <1>5, <1>7 DEF CallTools, Asked, loop
<1>8. CASE Results \/ FrameworkEnds
  BY <1>3, <1>5, <1>8 DEF Results, FrameworkEnds, Asked, loop
<1>9. ASSUME NEW c, ChildStarts(c) \/ ChildWorks(c) \/ ChildEnds(c) \/ ChildTimesOut(c)
      PROVE  KeptInv' /\ ShownIsKept'
  BY <1>3, <1>5, <1>9 DEF ChildStarts, ChildWorks, ChildEnds, ChildTimesOut, Child, Emit, loop
<1>10. CASE BusTaken
  BY <1>3, <1>5, <1>10 DEF BusTaken, Child, loop
<1>11. CASE PassChild \/ AskNext
  BY <1>3, <1>5, <1>11 DEF PassChild, AskNext
<1>12. CASE PassParent
  BY <1>3, <1>12, KeptPassParent DEF PassParent
<1>13. CASE PassCancelled
  BY <1>3, <1>13, KeptPassCancelled DEF PassCancelled, EndAs
<1>14. CASE CheckFails
  <2>1. /\ acc' = acc /\ shown' = Append(shown, e) /\ hand' = "ending" /\ hand = "waiting"
    BY <1>14 DEF CheckFails, EndAs, ParentReady, e
  <2>2. ending # "cancelled"
    BY <2>1 DEF Unended
  <2>3. KeptInv'
    BY <1>4, <2>1, <2>2, KeptSame
  <2> QED
    BY <1>3, <2>1, <2>3
<1>15. CASE StreamEnds \/ LoopClosed
  <2>1. /\ UNCHANGED <<acc, shown>> /\ hand' = "ending" /\ hand \in {"waiting", "child", "parent"}
    BY <1>15 DEF StreamEnds, LoopClosed, EndAs
  <2>2. ending # "cancelled"
    BY <2>1 DEF Unended
  <2> QED
    BY <1>3, <1>5, <2>1, <2>2
<1>16. CASE Persist
  BY <1>16, KeptPersist
<1> QED
  BY <1>1, <1>2, <1>6, <1>7, <1>8, <1>9, <1>10, <1>11, <1>12, <1>13, <1>14, <1>15, <1>16
  DEF AgentNext

LEMMA KeptInitially == AgentInit => KeptInv /\ ShownIsKept
<1> SUFFICES ASSUME AgentInit PROVE KeptInv /\ ShownIsKept
  OBVIOUS
<1>1. /\ shown = <<>> /\ hand = "waiting" /\ ending = "none"
      /\ acc.parts = <<>> /\ acc.open = 0 /\ acc.text = 0
  BY DEF AgentInit
<1>2. \A kinds : Picked(kinds, shown) = <<>>
  BY <1>1, PickedNothing
<1>3. HeldBy(acc) = <<>>
  <2>1. [i \in DOMAIN <<>> |-> EventsOf(<<>>[i])] = <<>> /\ Reasoned(0) = <<>>
    BY DEF Reasoned
  <2>2. StandsFor(<<>>) = <<>>
    BY <2>1, FlattenEmpty DEF StandsFor
  <2> QED
    BY <1>1, <2>1, <2>2 DEF HeldBy
<1>4. <<>> \in Seq(Event) /\ Len(<<>>) = 0 /\ <<>> \o <<>> = <<>>
  OBVIOUS
<1>5. /\ HeldBy(acc) = Picked(PartKinds, shown) \o <<>>
      /\ Len(Picked(TextKinds, shown)) <= acc.text
      /\ Len(<<>>) + acc.text
           <= Len(Picked(TextKinds, shown)) + (IF ending = "cancelled" THEN 1 ELSE 0)
  BY <1>1, <1>2, <1>3, <1>4
<1>6. KeptInv
  BY <1>4, <1>5 DEF KeptInv
<1> QED
  BY <1>1, <1>6 DEF ShownIsKept, Settled

\* What the reader was shown is what is stored, in its order, whichever way the turn ends,
\* but for the event at which it was cancelled; only a failure to store loses any of it.
THEOREM ShownStaysKept == AgentSpec => []ShownIsKept
<1>1. AgentInit => AgentIInv /\ Unended /\ KeptInv /\ ShownIsKept
  BY AgentInitially, WholeInitially, KeptInitially
<1>2. AgentIInv /\ Unended /\ KeptInv /\ ShownIsKept /\ [AgentNext]_agentVars
        => AgentIInv' /\ Unended' /\ KeptInv' /\ ShownIsKept'
  BY AgentIStep, UnendedStep, KeptStep
<1> QED
  BY <1>1, <1>2, PTL DEF AgentSpec
==============================================================================
