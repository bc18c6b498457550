-------------------------- MODULE Workflow_proofs ---------------------------
(***************************************************************************)
(* Proofs about Workflow for any number of steps and attempts: type        *)
(* correctness, that a step can read what came before it, that a pause is  *)
(* not completed without an answer, that the sweep takes the oldest and    *)
(* that no step is redone; and about the graph of its definition.          *)
(***************************************************************************)
EXTENDS Chat, WorkflowGraph, AgentTurn_proofs, FiniteSetTheorems, WellFoundedInduction, TLAPS

\* What an attempt at work is: it serves a run, and has a step to do or done.
Placed ==
  /\ \A a \in Attempt :
       /\ att[a].pc \in Working => att[a].run \in Attempt
       /\ att[a].pc = "working" => att[a].step <= Steps
       /\ att[a].pc = "saving" /\ att[a].ask # 0 => att[a].step <= Steps
  /\ \A row \in rows : row.ask # 0 => row.next <= Steps

Typed == TypeOK /\ Placed

\* An identity <<b, c>> that a row or a target may have: the next checkpoint of
\* b has another one.
Used(b, c) ==
  /\ att[b].pc \notin {"idle", "validated"}
  /\ att[b].pc \in Working => c <= att[b].count

\* A checkpoint is known by its identity.
Identified ==
  /\ \A row \in rows : Used(row.by, row.count)
  /\ \A a \in Attempt : Resumes(a) => att[a].target[1] \in Attempt
                                      /\ Used(att[a].target[1], att[a].target[2])
  /\ \A x, y \in rows : Id(x) = Id(y) => x = y

\* Before its end an attempt without an answer waits with its request again, or
\* has resumed a checkpoint that had none.
Answered ==
  /\ AskedIsAnswered
  /\ \A a \in Attempt : att[a].pc = "idle" => att[a].answer = 0
  /\ \A a \in Attempt : att[a].pc \in {"idle", "validated"} => ~Resumes(a)
  /\ \A a \in Attempt : att[a].pc \in Working \union {"finishing"} =>
       \A row \in TargetRows(a) :
         row.ask # 0 /\ att[a].answer = 0 => att[a].pc = "saving" /\ att[a].ask # 0

\* The outputs before the step, in memory and in the snapshots.
Carried ==
  /\ \A a \in Attempt : att[a].pc \in Working =>
       /\ att[a].first # 1 => att[a].depth > 0
       /\ att[a].depth <= 1 \/ att[a].first = 1 => 1 .. (att[a].step - 1) \subseteq att[a].shared
  /\ \A row \in rows : row.depth = 0 => 1 .. (row.next - 1) \subseteq row.snap

\* An open checkpoint has an expiry from a sweep, which left no older one out.
Dated ==
  /\ \A row \in rows :
       /\ row.at <= now
       /\ row.expires # Never => now - row.at > Ttl \/ row.expires >= row.at + Ttl
       /\ ~row.completed /\ row.expires # Never => row.expires < now
  /\ \A x, y \in Open : y.at <= x.at /\ x.expires # Never => y.expires # Never
  /\ \A a \in Attempt : att[a].pc = "marked" => \A row \in TargetRows(a) : row.completed

\* Who serves a run, and who shares it.
Serving ==
  /\ \A a \in Attempt :
       /\ att[a].pc \in {"idle", "validated"} =>
            att[a].run = 0 /\ att[a].kept = {} /\ att[a].saves = 0
       /\ att[a].run # 0 => att[att[a].run].pc # "idle"
       /\ att[a].pc \in Working => att[a].first <= att[a].step
       /\ \A row \in TargetRows(a) :
            /\ row.run = att[a].run
            /\ att[a].pc \in Working => row.next = att[a].first
  /\ \A row \in rows : att[row.run].pc # "idle"
  /\ \A a, b \in Attempt :
       /\ a # b /\ att[a].run = att[b].run
       /\ att[a].pc \in Working /\ att[b].pc \in Working
       => ~att[a].alone

\* An attempt at work begins behind all that its run has kept, and its next
\* checkpoint is newer than the others of the run.
Ahead ==
  \A a \in Attempt : att[a].pc \in Working /\ Sound(att[a].run) =>
    /\ \A b \in RunOf(att[a].run) \ {a} : \A k \in att[b].kept : k < att[a].first
    /\ \A row \in Open : row.run = att[a].run => row.at < now \/ row.count <= att[a].count

\* Whatever an open checkpoint does not know of a run, a newer one does.
Bettered ==
  \A row \in Open, b \in Attempt :
    att[b].run = row.run /\ Sound(row.run) =>
      /\ \A k \in att[b].kept : k >= row.next =>
           \E other \in Open : other.run = row.run /\ Newer(other, row) /\ other.next > k
      /\ att[b].saves > 0 /\ row \in TargetRows(b) =>
           \E other \in Open : other.run = row.run /\ Newer(other, row) /\ other.next >= row.next

------------------------------------------------------------------------------
(* What the ends of an attempt leave of it.                                 *)

LEMMA FreshTyped == topo \in Topologies => Fresh \in AttemptState
BY WorkflowAssumption DEF Fresh, AttemptState, PC, NoTarget, Attempt, Step

\* The answer and the target of an attempt outlive it, as history.
LEMMA OverTyped ==
  ASSUME topo \in Topologies, NEW x \in AttemptState, NEW end \in {"ended", "done"}
  PROVE  /\ Over(x, end) \in AttemptState
         /\ Over(x, end).pc = end
         /\ Over(x, end).answer = x.answer /\ Over(x, end).target = x.target
         /\ Over(x, end).run = x.run /\ Over(x, end).kept = x.kept
         /\ Over(x, end).saves = x.saves /\ Over(x, end).alone = x.alone
BY FreshTyped DEF Over, AttemptState, PC

\* The end of a stream.
LEMMA StreamedTyped ==
  ASSUME topo \in Topologies, NEW a, NEW x \in AttemptState
  PROVE  /\ Streamed(a, x) \in AttemptState
         /\ Streamed(a, x).pc \in {"finishing", "ended"}
         /\ Streamed(a, x).answer = x.answer /\ Streamed(a, x).target = x.target
<1>1. CASE Resumes(a)
  BY <1>1 DEF Streamed, AttemptState, PC
<1>2. CASE ~Resumes(a)
  BY <1>2, OverTyped DEF Streamed
<1> QED
  BY <1>1, <1>2

\* After a superstep: on to the next step, or the end of the stream.
LEMMA AfterTyped ==
  ASSUME topo \in Topologies, NEW a, NEW x \in AttemptState
  PROVE  /\ After(a, x) \in AttemptState
         /\ After(a, x).pc \in {"working", "finishing", "ended"}
         /\ After(a, x).answer = x.answer /\ After(a, x).target = x.target
         /\ After(a, x).pc = "working" =>
              /\ x.ask = 0 /\ x.step <= Steps
              /\ After(a, x) = [x EXCEPT !.pc = "working"]
         /\ After(a, x).pc = "finishing" => x.ask = 0
<1>1. CASE x.ask # 0
  BY <1>1, OverTyped DEF After
<1>2. CASE x.ask = 0 /\ x.step > Steps
  BY <1>2, StreamedTyped DEF After
<1>3. CASE x.ask = 0 /\ ~(x.step > Steps)
  <2>1. After(a, x) = [x EXCEPT !.pc = "working"]
    BY <1>3 DEF After
  <2>2. x.step <= Steps
    BY <1>3, WorkflowAssumption DEF AttemptState
  <2> QED
    BY <1>3, <2>1, <2>2 DEF AttemptState, PC, Working
<1> QED
  BY <1>1, <1>2, <1>3

------------------------------------------------------------------------------
(* Type correctness.                                                        *)

\* One attempt moves, and may save a checkpoint or change some.
LEMMA MoveTyped ==
  ASSUME Typed, NEW a \in Attempt, NEW x \in AttemptState,
         att' = [att EXCEPT ![a] = x],
         x.pc \in Working => x.run \in Attempt,
         x.pc = "working" => x.step <= Steps,
         x.pc = "saving" /\ x.ask # 0 => x.step <= Steps,
         rows' \subseteq Row, \A row \in rows' : row.ask # 0 => row.next <= Steps,
         UNCHANGED <<now, topo, edits>>
  PROVE  Typed'
<1>1. TypeOK'
  BY DEF Typed, TypeOK
<1>2. \A b \in Attempt : att'[b] = IF b = a THEN x ELSE att[b]
  BY DEF Typed, TypeOK
<1>3. Placed'
  BY <1>2 DEF Typed, Placed
<1> QED
  BY <1>1, <1>3 DEF Typed

LEMMA InitTyped == Init => Typed
<1> SUFFICES ASSUME Init PROVE Typed
  OBVIOUS
<1>1. Fresh \in AttemptState /\ Fresh.pc = "idle"
  BY FreshTyped DEF Init, Fresh
<1>2. \A a \in Attempt : att[a] = Fresh
  BY DEF Init
<1>3. TypeOK
  BY <1>1 DEF Init, TypeOK
<1>4. Placed
  BY <1>1, <1>2 DEF Init, Placed, Working
<1> QED
  BY <1>3, <1>4 DEF Typed

LEMMA SendTyped == ASSUME Typed, NEW a \in Attempt, Send(a) PROVE Typed'
<1> DEFINE x == [Fresh EXCEPT !.pc = "working", !.run = a]
<1>0. Fresh \in AttemptState /\ Fresh.step = 1 /\ a \in 0 .. Attempts /\ "working" \in PC
  BY FreshTyped, WorkflowAssumption DEF Typed, TypeOK, PC, Working, Attempt, Fresh
<1>1. x \in AttemptState /\ x.pc = "working" /\ x.run = a /\ x.step = 1
  BY <1>0 DEF AttemptState
<1>2. x.step <= Steps
  BY <1>1, WorkflowAssumption
<1>3. rows' \subseteq Row /\ \A row \in rows' : row.ask # 0 => row.next <= Steps
  BY DEF Send, Typed, TypeOK, Placed
<1>4. att' = [att EXCEPT ![a] = x] /\ UNCHANGED <<now, topo, edits>>
  BY DEF Send
<1> QED
  BY <1>1, <1>2, <1>3, <1>4, MoveTyped

LEMMA ResumeTyped == ASSUME Typed, NEW a \in Attempt, Resume(a) PROVE Typed'
<1>0. PICK row \in Latest : \E answer \in {0, row.ask} :
        att' = [att EXCEPT ![a] = [Fresh EXCEPT !.pc = "validated", !.answer = answer]]
  BY DEF Resume
<1>1. PICK answer \in {0, row.ask} :
        att' = [att EXCEPT ![a] = [Fresh EXCEPT !.pc = "validated", !.answer = answer]]
  BY <1>0
<1>2. row \in Row
  BY <1>0 DEF Latest, Open, Typed, TypeOK
<1> DEFINE x == [Fresh EXCEPT !.pc = "validated", !.answer = answer]
<1>6. Fresh \in AttemptState /\ answer \in 0 .. Attempts /\ "validated" \in PC
  BY <1>1, <1>2, FreshTyped, WorkflowAssumption DEF Typed, TypeOK, PC, Row
<1>3. x \in AttemptState /\ x.pc = "validated"
  BY <1>6 DEF AttemptState
<1>4. rows' \subseteq Row /\ \A y \in rows' : y.ask # 0 => y.next <= Steps
  BY DEF Resume, Typed, TypeOK, Placed
<1>5. att' = [att EXCEPT ![a] = x] /\ UNCHANGED <<now, topo, edits>>
  BY <1>1 DEF Resume
<1> QED
  BY <1>3, <1>4, <1>5, MoveTyped DEF Working

\* Where a resume begins at the checkpoint.
Where(a, row) ==
  IF att[a].answer \notin {0, row.ask} THEN "finishing"
  ELSE IF att[a].answer = 0 /\ (row.ask # 0 \/ row.next > Steps) THEN "saving" ELSE "working"

LEMMA RestoredTyped ==
  ASSUME NEW x \in AttemptState, NEW row \in Row, NEW pc \in PC
  PROVE  LET y == Restored(x, row, pc) IN
         /\ y \in AttemptState
         /\ y.pc = pc /\ y.run = row.run /\ y.target = Id(row) /\ y.answer = x.answer
         /\ y.first = row.next /\ y.step = row.next /\ y.shared = row.snap
         /\ y.count = row.count /\ y.depth = row.depth + 1
         /\ y.ask = IF x.answer = 0 THEN row.ask ELSE 0
<1>1. Id(row) \in Nat \X Nat
  BY WorkflowAssumption DEF Row, Id, Attempt
<1>2. row.depth + 1 \in Nat /\ row.run \in 0 .. Attempts /\ row.next \in 1 .. Steps + 1
      /\ row.snap \in SUBSET Step /\ row.count \in Nat
  BY WorkflowAssumption DEF Row, Attempt
<1>3. (IF x.answer = 0 THEN row.ask ELSE 0) \in 0 .. Attempts
  BY WorkflowAssumption DEF Row
<1> QED
  BY <1>1, <1>2, <1>3 DEF AttemptState, Restored

\* All that a resume changes when it begins.
LEMMA LocateEffect ==
  ASSUME TypeOK, NEW a \in Attempt, Locate(a)
  PROVE  \E row \in Latest :
           /\ row \in rows /\ row \in Row
           /\ att'[a] \in AttemptState
           /\ att'[a].pc = Where(a, row) /\ att'[a].run = row.run
           /\ att'[a].target = Id(row) /\ att'[a].answer = att[a].answer
           /\ att'[a].first = row.next /\ att'[a].step = row.next
           /\ att'[a].shared = row.snap
           /\ att'[a].count = row.count /\ att'[a].depth = row.depth + 1
           /\ att'[a].ask = IF att[a].answer = 0 THEN row.ask ELSE 0
           /\ \A b \in Attempt \ {a} :
                /\ att'[b] \in AttemptState
                /\ att'[b] = att[b] \/ att'[b] = [att[b] EXCEPT !.alone = FALSE]
           /\ att' \in [Attempt -> AttemptState]
<1>1. PICK row \in Latest : att' = Begun(a, row, Where(a, row))
  BY DEF Locate, Where
<1>2. row \in rows /\ row \in Row /\ att[a] \in AttemptState
  BY <1>1 DEF Latest, Open, TypeOK
<1> DEFINE others == AtWork(row.run)
           y == Restored(att[a], row, Where(a, row))
<1>3. /\ att'[a] = [y EXCEPT !.alone = (others = {})]
      /\ \A b \in Attempt \ {a} :
           att'[b] = IF b \in others THEN [att[b] EXCEPT !.alone = FALSE] ELSE att[b]
  BY <1>1 DEF Begun
<1>4. Where(a, row) \in PC
  BY DEF Where, PC, Working
<1>5. /\ y \in AttemptState
      /\ y.pc = Where(a, row) /\ y.run = row.run /\ y.target = Id(row) /\ y.answer = att[a].answer
      /\ y.first = row.next /\ y.step = row.next /\ y.shared = row.snap
      /\ y.count = row.count /\ y.depth = row.depth + 1
      /\ y.ask = IF att[a].answer = 0 THEN row.ask ELSE 0
  BY <1>2, <1>4, RestoredTyped
<1>6. (others = {}) \in BOOLEAN
  OBVIOUS
<1> HIDE DEF y, others
<1>7. /\ att'[a] \in AttemptState
      /\ att'[a].pc = y.pc /\ att'[a].run = y.run /\ att'[a].target = y.target
      /\ att'[a].answer = y.answer /\ att'[a].first = y.first /\ att'[a].step = y.step
      /\ att'[a].shared = y.shared /\ att'[a].count = y.count /\ att'[a].depth = y.depth
      /\ att'[a].ask = y.ask
  BY <1>3, <1>5, <1>6 DEF AttemptState
<1>8. \A b \in Attempt \ {a} :
        /\ att'[b] \in AttemptState
        /\ att'[b] = att[b] \/ att'[b] = [att[b] EXCEPT !.alone = FALSE]
  <2> TAKE b \in Attempt \ {a}
  <2>1. att[b] \in AttemptState
    BY DEF TypeOK
  <2>2. att'[b] = [att[b] EXCEPT !.alone = FALSE] \/ att'[b] = att[b]
    BY <1>3
  <2> QED
    BY <2>1, <2>2 DEF AttemptState
<1>9. att' \in [Attempt -> AttemptState]
  BY <1>1, <1>7, <1>8 DEF Begun
<1> QED
  BY <1>1, <1>2, <1>5, <1>7, <1>8, <1>9

LEMMA LocateTyped == ASSUME Typed, NEW a \in Attempt, Locate(a) PROVE Typed'
<1>1. PICK row \in Latest :
        /\ row \in rows /\ row \in Row
        /\ att'[a].pc = Where(a, row) /\ att'[a].run = row.run /\ att'[a].step = row.next
        /\ att'[a].ask = IF att[a].answer = 0 THEN row.ask ELSE 0
        /\ \A b \in Attempt \ {a} :
             att'[b] = att[b] \/ att'[b] = [att[b] EXCEPT !.alone = FALSE]
        /\ att' \in [Attempt -> AttemptState]
  BY LocateEffect DEF Typed
<1>2. TypeOK'
  BY <1>1 DEF Typed, TypeOK, Locate
<1>3. \A b \in Attempt \ {a} :
        /\ att'[b].pc = att[b].pc /\ att'[b].run = att[b].run
        /\ att'[b].step = att[b].step /\ att'[b].ask = att[b].ask
  BY <1>1 DEF Typed, TypeOK, AttemptState
<1>4. /\ Where(a, row) = "working" => row.next <= Steps
      /\ Where(a, row) = "saving" /\ row.ask # 0 => row.next <= Steps
  BY <1>1, WorkflowAssumption DEF Where, Typed, Placed, Row
<1>5. Placed'
  BY <1>1, <1>3, <1>4 DEF Typed, Placed, Row, Locate
<1> QED
  BY <1>2, <1>5 DEF Typed

\* The actions that end an attempt, or that move it from one step to the next.
LEMMA EndTyped ==
  ASSUME Typed, NEW a \in Attempt, NEW end \in {"ended", "done"},
         att' = [att EXCEPT ![a] = Over(@, end)], rows' \subseteq Row,
         \A row \in rows' : row.ask # 0 => row.next <= Steps,
         UNCHANGED <<now, topo, edits>>
  PROVE  Typed'
<1>1. att[a] \in AttemptState /\ topo \in Topologies
  BY DEF Typed, TypeOK
<1> DEFINE x == Over(att[a], end)
<1>2. x \in AttemptState /\ x.pc = end
  BY <1>1, OverTyped
<1>3. att' = [att EXCEPT ![a] = x]
  OBVIOUS
<1> HIDE DEF x
<1> QED
  BY <1>2, <1>3, MoveTyped DEF Working

LEMMA StepTyped ==
  ASSUME Typed, NEW a \in Attempt, StepCompletes(a) \/ StepAsks(a) \/ StepFails(a)
  PROVE  Typed'
<1>1. att[a] \in AttemptState /\ topo \in Topologies /\ att[a].pc = "working"
      /\ att[a].step <= Steps /\ att[a].run \in Attempt
  BY DEF StepCompletes, StepAsks, StepFails, Typed, TypeOK, Placed, Working
<1>2. rows' \subseteq Row /\ \A row \in rows' : row.ask # 0 => row.next <= Steps
  BY DEF StepCompletes, StepAsks, StepFails, Typed, TypeOK, Placed
<1>3. Stored(a) \in SUBSET Step
  BY <1>1, WorkflowAssumption DEF Stored, AttemptState, Step
<1>4. CASE StepCompletes(a)
  <2> DEFINE x == [att[a] EXCEPT !.shared = Stored(a), !.step = @ + 1, !.ask = 0, !.pc = "saving"]
  <2>1. att' = [att EXCEPT ![a] = x] /\ UNCHANGED <<now, topo, edits>>
    BY <1>4, Zenon DEF StepCompletes
  <2>2. att[a].step + 1 \in 1 .. Steps + 1
    BY <1>1, WorkflowAssumption DEF AttemptState
  <2>4. "saving" \in PC /\ 0 \in 0 .. Attempts
    BY WorkflowAssumption DEF PC, Working
  <2>3. x \in AttemptState /\ x.pc = "saving" /\ x.run = att[a].run /\ x.ask = 0
    BY <1>1, <1>3, <2>2, <2>4 DEF AttemptState
  <2> HIDE DEF x
  <2> QED
    BY <1>1, <1>2, <2>1, <2>3, MoveTyped
<1>5. CASE StepAsks(a)
  <2> DEFINE x == [att[a] EXCEPT !.shared = Stored(a), !.ask = a, !.pc = "saving"]
  <2>1. att' = [att EXCEPT ![a] = x] /\ UNCHANGED <<now, topo, edits>>
    BY <1>5, Zenon DEF StepAsks
  <2>3. "saving" \in PC /\ a \in 0 .. Attempts
    BY WorkflowAssumption DEF PC, Working, Attempt
  <2>2. x \in AttemptState /\ x.pc = "saving" /\ x.run = att[a].run /\ x.step = att[a].step
    BY <1>1, <1>3, <2>3 DEF AttemptState
  <2> HIDE DEF x
  <2> QED
    BY <1>1, <1>2, <2>1, <2>2, MoveTyped
<1>6. CASE StepFails(a)
  <2> DEFINE x == Streamed(a, att[a])
  <2>1. att' = [att EXCEPT ![a] = x] /\ UNCHANGED <<now, topo, edits>>
    BY <1>6 DEF StepFails
  <2>2. x \in AttemptState /\ x.pc \in {"finishing", "ended"}
    BY <1>1, StreamedTyped
  <2> HIDE DEF x
  <2> QED
    BY <1>2, <2>1, <2>2, MoveTyped DEF Working
<1> QED
  BY <1>4, <1>5, <1>6

\* The attempt that a superstep leaves, whether its checkpoint is saved or not.
LEMMA SuperstepTyped ==
  ASSUME Typed, NEW a \in Attempt, att[a].pc = "saving",
         NEW next \in AttemptState, next.pc = "saving",
         next.run = att[a].run, next.step = att[a].step, next.ask = att[a].ask,
         att' = [att EXCEPT ![a] = After(a, next)], rows' \subseteq Row,
         \A row \in rows' : row.ask # 0 => row.next <= Steps,
         UNCHANGED <<now, topo, edits>>
  PROVE  Typed'
<1>1. topo \in Topologies /\ att[a].run \in Attempt
  BY DEF Typed, TypeOK, Placed, Working
<1> DEFINE x == After(a, next)
<1>2. /\ x \in AttemptState
      /\ x.pc \in {"working", "finishing", "ended"}
      /\ x.pc = "working" => next.step <= Steps /\ x = [next EXCEPT !.pc = "working"]
  BY <1>1, AfterTyped
<1>3. x.pc = "working" => x.run = att[a].run /\ x.step <= Steps
  BY <1>2 DEF AttemptState
<1>4. att' = [att EXCEPT ![a] = x]
  OBVIOUS
<1> HIDE DEF x
<1> QED
  BY <1>1, <1>2, <1>3, <1>4, MoveTyped DEF Working

LEMMA CheckpointTyped ==
  ASSUME Typed, NEW a \in Attempt, att[a].pc = "saving"
  PROVE  Checkpoint(a) \in Row /\ (Checkpoint(a).ask # 0 => Checkpoint(a).next <= Steps)
<1>1. att[a] \in AttemptState /\ att[a].run \in Attempt /\ topo \in Topologies /\ now \in Nat
      /\ (att[a].ask # 0 => att[a].step <= Steps)
  BY DEF Typed, TypeOK, Placed, Working
<1>2. Snapshot(a) \in SUBSET Step
  BY <1>1 DEF Snapshot, AttemptState
<1>3. (IF att[a].first = 1 THEN 0 ELSE att[a].depth) \in Nat
  BY <1>1 DEF AttemptState
<1>4. att[a].count + 1 \in Nat
  BY <1>1 DEF AttemptState
<1> QED
  BY <1>1, <1>2, <1>3, <1>4 DEF Checkpoint, Row, AttemptState, Never

LEMMA SaveTyped == ASSUME Typed, NEW a \in Attempt, Save(a) \/ SaveFails(a) PROVE Typed'
<1>1. att[a] \in AttemptState /\ att[a].pc = "saving"
  BY DEF Save, SaveFails, Typed, TypeOK
<1>2. rows' \subseteq Row /\ \A row \in rows' : row.ask # 0 => row.next <= Steps
  BY <1>1, CheckpointTyped DEF Save, SaveFails, Typed, TypeOK, Placed
<1>3. CASE Save(a)
  <2> DEFINE next == Saved(a)
  <2>1. att[a].first .. (att[a].step - 1) \in SUBSET Step
    BY <1>1, WorkflowAssumption DEF AttemptState, Step
  <2>2. /\ next \in AttemptState
        /\ next.pc = "saving"
        /\ next.run = att[a].run /\ next.step = att[a].step /\ next.ask = att[a].ask
    <3>1. Counted(a) \in AttemptState /\ Counted(a).pc = "saving" /\ Counted(a).run = att[a].run
          /\ Counted(a).step = att[a].step /\ Counted(a).ask = att[a].ask
      BY <1>1 DEF AttemptState, Counted
    <3> DEFINE kept == att[a].first .. (att[a].step - 1)
               saves == Counted(a).saves + 1
    <3>2. kept \in SUBSET Step /\ saves \in Nat
      BY <2>1, <3>1 DEF AttemptState
    <3>3. next = [Counted(a) EXCEPT !.saves = saves, !.kept = kept]
      BY <3>1 DEF Saved
    <3> HIDE DEF next, kept, saves
    <3> QED
      BY <3>1, <3>2, <3>3 DEF AttemptState
  <2>3. att' = [att EXCEPT ![a] = After(a, next)] /\ UNCHANGED <<now, topo, edits>>
    BY <1>3 DEF Save
  <2> HIDE DEF next
  <2> QED
    BY <1>1, <1>2, <2>2, <2>3, SuperstepTyped
<1>4. CASE SaveFails(a)
  <2> DEFINE next == Counted(a)
  <2>1. /\ next \in AttemptState
        /\ next.pc = "saving"
        /\ next.run = att[a].run /\ next.step = att[a].step /\ next.ask = att[a].ask
    BY <1>1 DEF AttemptState, Counted
  <2>2. att' = [att EXCEPT ![a] = After(a, next)] /\ UNCHANGED <<now, topo, edits>>
    BY <1>4 DEF SaveFails
  <2> HIDE DEF next
  <2> QED
    BY <1>1, <1>2, <2>1, <2>2, SuperstepTyped
<1> QED
  BY <1>3, <1>4

\* What a row was before its run or the sweep changed it.
Was(x, row) ==
  /\ x \in Row /\ Id(x) = Id(row)
  /\ x.by = row.by /\ x.count = row.count /\ x.at = row.at /\ x.next = row.next
  /\ x.run = row.run
  /\ x.ask = row.ask /\ x.snap = row.snap /\ x.depth = row.depth
  /\ (row.completed => x.completed)

LEMMA RowCompleted ==
  ASSUME NEW row \in Row, NEW x, x = [row EXCEPT !.completed = TRUE]
  PROVE  Was(x, row) /\ x.completed /\ x.expires = row.expires
BY DEF Row, Id, Was

LEMMA RowDated ==
  ASSUME NEW row \in Row, NEW expires \in Int, NEW x, x = [row EXCEPT !.expires = expires]
  PROVE  Was(x, row) /\ x.completed = row.completed /\ x.expires = expires
BY DEF Row, Id, Was

Changes(a) == Mark(a) \/ MarkFails(a) \/ SetExpiry(a) \/ Stop(a) \/ LocateFails(a)
Sweeps == Stamp \/ DeleteExpired

LEMMA ChangesRows ==
  ASSUME TypeOK, NEW a \in Attempt, Changes(a)
  PROVE  \A x \in rows' : \E row \in rows : Was(x, row)
<1>1. \A row \in rows : row \in Row
  BY DEF TypeOK
<1>2. CASE Mark(a)
  <2> SUFFICES ASSUME NEW x \in rows' PROVE \E row \in rows : Was(x, row)
    OBVIOUS
  <2>1. PICK row \in rows : x = IF row \in TargetRows(a) THEN [row EXCEPT !.completed = TRUE] ELSE row
    BY <1>2 DEF Mark
  <2>2. CASE row \in TargetRows(a)
    BY <1>1, <2>1, <2>2, RowCompleted
  <2>3. CASE row \notin TargetRows(a)
    BY <1>1, <2>1, <2>3 DEF Was
  <2> QED
    BY <2>2, <2>3
<1>3. CASE SetExpiry(a)
  <2> SUFFICES ASSUME NEW x \in rows' PROVE \E row \in rows : Was(x, row)
    OBVIOUS
  <2>1. PICK row \in rows :
          x = IF row \in TargetRows(a) THEN [row EXCEPT !.expires = now + Ttl] ELSE row
    BY <1>3 DEF SetExpiry
  <2>2. now + Ttl \in Int
    BY WorkflowAssumption DEF TypeOK
  <2>3. CASE row \in TargetRows(a)
    BY <1>1, <2>1, <2>2, <2>3, RowDated
  <2>4. CASE row \notin TargetRows(a)
    BY <1>1, <2>1, <2>4 DEF Was
  <2> QED
    BY <2>3, <2>4
<1>4. CASE MarkFails(a) \/ Stop(a) \/ LocateFails(a)
  BY <1>1, <1>4 DEF MarkFails, Stop, LocateFails, Was
<1> QED
  BY <1>2, <1>3, <1>4 DEF Changes

LEMMA SweepsRows ==
  ASSUME TypeOK, Sweeps
  PROVE  \A x \in rows' : \E row \in rows : Was(x, row) /\ x.completed = row.completed
<1>1. \A row \in rows : row \in Row
  BY DEF TypeOK
<1>2. CASE Stamp
  <2> SUFFICES ASSUME NEW x \in rows'
               PROVE  \E row \in rows : Was(x, row) /\ x.completed = row.completed
    OBVIOUS
  <2>1. PICK row \in rows : x = IF row \in Old THEN [row EXCEPT !.expires = Cutoff] ELSE row
    BY <1>2 DEF Stamp
  <2>2. Cutoff \in Int
    BY WorkflowAssumption DEF TypeOK, Cutoff
  <2>3. CASE row \in Old
    BY <1>1, <2>1, <2>2, <2>3, RowDated
  <2>4. CASE row \notin Old
    BY <1>1, <2>1, <2>4 DEF Was
  <2> QED
    BY <2>3, <2>4
<1>3. CASE DeleteExpired
  BY <1>1, <1>3 DEF DeleteExpired, Was
<1> QED
  BY <1>2, <1>3 DEF Sweeps

LEMMA ChangesTyped == ASSUME Typed, NEW a \in Attempt, Changes(a) PROVE Typed'
<1>1. rows' \subseteq Row /\ \A row \in rows' : row.ask # 0 => row.next <= Steps
  BY ChangesRows DEF Typed, Placed, Was
<1>2. CASE Mark(a)
  <2> DEFINE x == [att[a] EXCEPT !.pc = "marked"]
  <2>1. att' = [att EXCEPT ![a] = x] /\ UNCHANGED <<now, topo, edits>>
    BY <1>2 DEF Mark
  <2>3. att[a] \in AttemptState /\ "marked" \in PC
    BY DEF Typed, TypeOK, PC
  <2>2. x \in AttemptState /\ x.pc = "marked"
    BY <2>3 DEF AttemptState
  <2> HIDE DEF x
  <2> QED
    BY <1>1, <2>1, <2>2, MoveTyped DEF Working
<1>3. CASE SetExpiry(a)
  BY <1>1, <1>3, EndTyped DEF SetExpiry
<1>4. CASE MarkFails(a) \/ Stop(a) \/ LocateFails(a)
  BY <1>1, <1>4, EndTyped DEF MarkFails, Stop, LocateFails
<1> QED
  BY <1>2, <1>3, <1>4 DEF Changes

LEMMA SurroundingsTyped == ASSUME Typed, Edit \/ Sweeps \/ Tick \/ UNCHANGED vars PROVE Typed'
<1>1. CASE Edit
  BY <1>1 DEF Edit, Typed, TypeOK, Placed
<1>2. CASE Sweeps
  <2>1. rows' \subseteq Row /\ \A row \in rows' : row.ask # 0 => row.next <= Steps
    BY <1>2, SweepsRows DEF Typed, Placed, Was
  <2>2. UNCHANGED <<now, topo, edits, att>>
    BY <1>2 DEF Sweeps, Stamp, DeleteExpired
  <2> QED
    BY <2>1, <2>2 DEF Typed, TypeOK, Placed
<1>3. CASE Tick
  BY <1>3 DEF Tick, Typed, TypeOK, Placed
<1>4. CASE UNCHANGED vars
  BY <1>4 DEF vars, Typed, TypeOK, Placed
<1> QED
  BY <1>1, <1>2, <1>3, <1>4

\* Every step is one of these.
LEMMA StepCases ==
  ASSUME [Next]_vars
  PROVE  \/ \E a \in Attempt :
              \/ Send(a) \/ Resume(a) \/ Locate(a)
              \/ StepCompletes(a) \/ StepAsks(a) \/ StepFails(a)
              \/ Save(a) \/ SaveFails(a) \/ Changes(a)
         \/ Edit \/ Sweeps \/ Tick \/ UNCHANGED vars
BY DEF Next, Changes, Sweeps

LEMMA NextTyped == Typed /\ [Next]_vars => Typed'
BY StepCases, SendTyped, ResumeTyped, LocateTyped, StepTyped, SaveTyped, ChangesTyped,
   SurroundingsTyped

\* Type correctness, for any number of steps and attempts.
THEOREM TypeCorrect == Spec => []TypeOK
<1>1. Typed => TypeOK
  BY DEF Typed
<1> QED
  BY <1>1, InitTyped, NextTyped, PTL DEF Spec

LEMMA AlwaysTyped == Spec => []Typed
BY InitTyped, NextTyped, PTL DEF Spec

------------------------------------------------------------------------------
(* What the actions do to an attempt, in the terms of the invariants.       *)

Runs(a) == StepCompletes(a) \/ StepAsks(a) \/ StepFails(a)
Saves(a) == Save(a) \/ SaveFails(a)

\* Nobody else moves, and the history of the attempt stays.
Alone(a) ==
  /\ att'[a] \in AttemptState
  /\ \A b \in Attempt \ {a} : att'[b] = att[b]
  /\ att'[a].answer = att[a].answer /\ att'[a].target = att[a].target

LEMMA MoveAlone ==
  ASSUME TypeOK, NEW a \in Attempt, NEW x \in AttemptState, att' = [att EXCEPT ![a] = x],
         x.answer = att[a].answer, x.target = att[a].target
  PROVE  Alone(a) /\ att'[a] = x
BY DEF Alone, TypeOK

LEMMA StartEffect ==
  ASSUME TypeOK, NEW a \in Attempt, Send(a) \/ Resume(a)
  PROVE  /\ att[a].pc = "idle" /\ att'[a].target = NoTarget
         /\ att'[a].pc = "working" => /\ att'[a].first = 1 /\ att'[a].step = 1
                                      /\ att'[a].answer = 0
         /\ att'[a].pc \in {"working", "validated"}
         /\ \A b \in Attempt \ {a} : att'[b] = att[b]
         /\ UNCHANGED <<now, rows>>
<1>1. Fresh \in AttemptState /\ Fresh.first = 1 /\ Fresh.step = 1 /\ Fresh.answer = 0
      /\ Fresh.target = NoTarget
  BY FreshTyped DEF TypeOK, Fresh
<1>2. CASE Send(a)
  <2>1. att'[a] = [Fresh EXCEPT !.pc = "working", !.run = a]
    BY <1>2 DEF Send, TypeOK
  <2> QED
    BY <1>1, <1>2, <2>1 DEF Send, NextIdle, TypeOK, AttemptState
<1>3. CASE Resume(a)
  <2>1. PICK answer : att' = [att EXCEPT ![a] = [Fresh EXCEPT !.pc = "validated", !.answer = answer]]
    BY <1>3 DEF Resume
  <2>2. att'[a] = [Fresh EXCEPT !.pc = "validated", !.answer = answer]
    BY <2>1 DEF TypeOK
  <2> QED
    BY <1>1, <1>3, <2>1, <2>2 DEF Resume, NextIdle, TypeOK, AttemptState
<1> QED
  BY <1>2, <1>3

LEMMA StepEffect ==
  ASSUME Typed, NEW a \in Attempt, Runs(a)
  PROVE  /\ Alone(a) /\ att[a].pc = "working" /\ UNCHANGED <<now, rows>>
         /\ att'[a].pc \in {"saving", "finishing", "ended"}
         /\ att'[a].pc = "saving" =>
              /\ att'[a].count = att[a].count /\ att'[a].first = att[a].first
              /\ att'[a].depth = att[a].depth
              /\ att'[a].shared = att[a].shared \union {att[a].step}
              /\ att'[a].step \in {att[a].step, att[a].step + 1}
<1>1. att[a] \in AttemptState /\ topo \in Topologies
  BY DEF Typed, TypeOK
<1>2. att[a].pc = "working" /\ UNCHANGED <<now, rows>>
  BY DEF Runs, StepCompletes, StepAsks, StepFails
<1>3. Typed'
  BY StepTyped DEF Runs
<1>4. CASE StepCompletes(a)
  <2>1. att' = [att EXCEPT ![a] = [att[a] EXCEPT !.shared = Stored(a), !.step = @ + 1,
                                                 !.ask = 0, !.pc = "saving"]]
    BY <1>4, Zenon DEF StepCompletes
  <2>2. att'[a] = [att[a] EXCEPT !.shared = Stored(a), !.step = @ + 1, !.ask = 0, !.pc = "saving"]
        /\ \A b \in Attempt \ {a} : att'[b] = att[b]
    BY <2>1 DEF Typed, TypeOK
  <2>3. att'[a] \in AttemptState
    BY <1>3 DEF Typed, TypeOK
  <2> QED
    BY <1>1, <1>2, <2>2, <2>3 DEF Alone, AttemptState, Stored
<1>5. CASE StepAsks(a)
  <2>1. att' = [att EXCEPT ![a] = [att[a] EXCEPT !.shared = Stored(a), !.ask = a, !.pc = "saving"]]
    BY <1>5, Zenon DEF StepAsks
  <2>2. att'[a] = [att[a] EXCEPT !.shared = Stored(a), !.ask = a, !.pc = "saving"]
        /\ \A b \in Attempt \ {a} : att'[b] = att[b]
    BY <2>1 DEF Typed, TypeOK
  <2>3. att'[a] \in AttemptState
    BY <1>3 DEF Typed, TypeOK
  <2> QED
    BY <1>1, <1>2, <2>2, <2>3 DEF Alone, AttemptState, Stored
<1>6. CASE StepFails(a)
  <2> DEFINE x == Streamed(a, att[a])
  <2>1. att' = [att EXCEPT ![a] = x]
    BY <1>6 DEF StepFails
  <2>2. x \in AttemptState /\ x.pc \in {"finishing", "ended"}
        /\ x.answer = att[a].answer /\ x.target = att[a].target
    BY <1>1, StreamedTyped
  <2> HIDE DEF x
  <2> QED
    BY <1>2, <2>1, <2>2, MoveAlone DEF Typed
<1> QED
  BY <1>4, <1>5, <1>6 DEF Runs

LEMMA SaveEffect ==
  ASSUME Typed, NEW a \in Attempt, Saves(a)
  PROVE  /\ Alone(a) /\ att[a].pc = "saving" /\ now' = now
         /\ rows' \in {rows, rows \union {Checkpoint(a)}}
         /\ att'[a].pc \in {"working", "finishing", "ended"}
         /\ att'[a].pc # "ended" => att[a].ask = 0
         /\ att'[a].pc = "working" =>
              /\ att'[a].count = att[a].count + 1 /\ att'[a].first = att[a].first
              /\ att'[a].depth = att[a].depth /\ att'[a].step = att[a].step
              /\ att'[a].shared = att[a].shared
<1>1. att[a] \in AttemptState /\ topo \in Topologies /\ att[a].pc = "saving"
  BY DEF Typed, TypeOK, Saves, Save, SaveFails
<1>2. now' = now /\ rows' \in {rows, rows \union {Checkpoint(a)}}
  BY DEF Saves, Save, SaveFails
<1>3. Counted(a) \in AttemptState /\ Counted(a).count = att[a].count + 1
  BY <1>1 DEF Counted, AttemptState
<1>4. PICK next : next \in {Counted(a), Saved(a)} /\ att' = [att EXCEPT ![a] = After(a, next)]
  BY DEF Saves, Save, SaveFails
<1>5. /\ next.count = att[a].count + 1 /\ next.first = att[a].first
      /\ next.depth = att[a].depth /\ next.step = att[a].step /\ next.shared = att[a].shared
      /\ next.ask = att[a].ask /\ next.answer = att[a].answer /\ next.target = att[a].target
  BY <1>1, <1>3, <1>4 DEF Counted, Saved, AttemptState
<1>6. next \in AttemptState
  <2> DEFINE kept == att[a].first .. (att[a].step - 1)
             saves == Counted(a).saves + 1
  <2>1. kept \in SUBSET Step /\ saves \in Nat
    BY <1>1, <1>3, WorkflowAssumption DEF AttemptState, Step
  <2>2. Saved(a) = [Counted(a) EXCEPT !.saves = saves, !.kept = kept]
    BY <1>3 DEF Saved
  <2> HIDE DEF kept, saves
  <2>3. Saved(a) \in AttemptState
    BY <1>3, <2>1, <2>2 DEF AttemptState
  <2> QED
    BY <1>3, <1>4, <2>3
<1> DEFINE x == After(a, next)
<1>7. /\ x \in AttemptState /\ x.pc \in {"working", "finishing", "ended"}
      /\ x.answer = next.answer /\ x.target = next.target
      /\ x.pc = "working" => next.ask = 0 /\ x = [next EXCEPT !.pc = "working"]
      /\ x.pc = "finishing" => next.ask = 0
  BY <1>1, <1>6, AfterTyped
<1>8. x.pc = "working" => /\ x.count = next.count /\ x.first = next.first /\ x.depth = next.depth
                          /\ x.step = next.step /\ x.shared = next.shared
  BY <1>6, <1>7 DEF AttemptState
<1>9. att' = [att EXCEPT ![a] = x]
  BY <1>4
<1> HIDE DEF x
<1>10. Alone(a) /\ att'[a] = x
  BY <1>5, <1>7, <1>9, MoveAlone DEF Typed
<1> QED
  BY <1>1, <1>2, <1>5, <1>7, <1>8, <1>10

LEMMA ChangesEffect ==
  ASSUME Typed, NEW a \in Attempt, Changes(a)
  PROVE  /\ Alone(a) /\ now' = now
         /\ att[a].pc \in Working \union {"validated", "finishing", "marked"}
         /\ att'[a].pc \in {"marked", "done", "ended"}
         /\ Mark(a) => att[a].pc = "finishing"
         /\ att'[a].pc = "marked" => Mark(a)
<1>1. att[a] \in AttemptState /\ topo \in Topologies
  BY DEF Typed, TypeOK
<1>2. now' = now /\ att[a].pc \in Working \union {"validated", "finishing", "marked"}
      /\ (Mark(a) => att[a].pc = "finishing")
  BY DEF Changes, Mark, MarkFails, SetExpiry, Stop, LocateFails
<1>3. CASE Mark(a)
  <2>1. att'[a] = [att[a] EXCEPT !.pc = "marked"] /\ \A b \in Attempt \ {a} : att'[b] = att[b]
    BY <1>3 DEF Mark, Typed, TypeOK
  <2>2. att'[a] \in AttemptState
    BY <1>3, ChangesTyped DEF Changes, Typed, TypeOK
  <2> QED
    BY <1>1, <1>2, <1>3, <2>1, <2>2 DEF Alone, AttemptState
<1>4. ASSUME NEW end \in {"ended", "done"}, att' = [att EXCEPT ![a] = Over(@, end)]
      PROVE  Alone(a) /\ att'[a].pc = end
  <2> DEFINE x == Over(att[a], end)
  <2>1. x \in AttemptState /\ x.pc = end /\ x.answer = att[a].answer /\ x.target = att[a].target
    BY <1>1, OverTyped
  <2>2. att' = [att EXCEPT ![a] = x]
    BY <1>4
  <2> HIDE DEF x
  <2> QED
    BY <2>1, <2>2, MoveAlone DEF Typed
<1>5. CASE SetExpiry(a)
  BY <1>2, <1>4, <1>5 DEF SetExpiry
<1>6. CASE MarkFails(a) \/ Stop(a) \/ LocateFails(a)
  BY <1>2, <1>4, <1>6 DEF MarkFails, Stop, LocateFails
<1> QED
  BY <1>2, <1>3, <1>5, <1>6 DEF Changes

------------------------------------------------------------------------------
(* The identity of a checkpoint.                                            *)

LEMMA InitIdentified == Init => Identified
<1> SUFFICES ASSUME Init PROVE Identified
  OBVIOUS
<1>1. rows = {} /\ \A a \in Attempt : att[a] = Fresh
  BY DEF Init
<1>2. Fresh.target = NoTarget
  BY DEF Fresh
<1> QED
  BY <1>1, <1>2 DEF Identified, Resumes

\* An identity in use stays in use by whatever the attempts do.
LEMMA UsedStays ==
  ASSUME Typed, [Next]_vars, NEW b \in Attempt, NEW c \in Nat, Used(b, c)
  PROVE  Used(b, c)'
<1>1. ASSUME NEW a \in Attempt, Send(a) \/ Resume(a) PROVE Used(b, c)'
  BY <1>1, StartEffect DEF Typed, Used
<1>2. ASSUME NEW a \in Attempt, Locate(a) PROVE Used(b, c)'
  <2>1. a # b
    BY <1>2 DEF Locate, Used
  <2>2. att'[b] = att[b] \/ att'[b] = [att[b] EXCEPT !.alone = FALSE]
    BY <1>2, <2>1, LocateEffect DEF Typed
  <2>3. att'[b].pc = att[b].pc /\ att'[b].count = att[b].count
    BY <2>2 DEF Typed, TypeOK, AttemptState
  <2> QED
    BY <2>3 DEF Used
<1>3. ASSUME NEW a \in Attempt, Runs(a) PROVE Used(b, c)'
  BY <1>3, StepEffect DEF Used, Alone, Working
<1>4. ASSUME NEW a \in Attempt, Saves(a) PROVE Used(b, c)'
  <2>1. att[b].count \in Nat
    BY DEF Typed, TypeOK, AttemptState
  <2> QED
    BY <1>4, <2>1, SaveEffect DEF Used, Alone, Working
<1>5. ASSUME NEW a \in Attempt, Changes(a) PROVE Used(b, c)'
  BY <1>5, ChangesEffect DEF Used, Alone, Working
<1>6. CASE Edit \/ Sweeps \/ Tick \/ UNCHANGED vars
  BY <1>6 DEF Used, Edit, Sweeps, Stamp, DeleteExpired, Tick, vars
<1> QED
  BY <1>1, <1>2, <1>3, <1>4, <1>5, <1>6, StepCases DEF Runs, Saves

\* Every row was there before, or is the new checkpoint of an attempt.
LEMMA RowsBefore ==
  ASSUME Typed, [Next]_vars
  PROVE  \/ \A x \in rows' : \E row \in rows : Was(x, row)
         \/ \E a \in Attempt : Saves(a) /\ rows' = rows \union {Checkpoint(a)}
<1>1. \A row \in rows : Was(row, row)
  BY DEF Typed, TypeOK, Was
<1>2. rows' = rows => \A x \in rows' : \E row \in rows : Was(x, row)
  BY <1>1
<1>3. ASSUME NEW a \in Attempt, Send(a) \/ Resume(a) \/ Locate(a) \/ Runs(a)
      PROVE  rows' = rows
  BY <1>3 DEF Send, Resume, Locate, Runs, StepCompletes, StepAsks, StepFails
<1>4. Edit \/ Tick \/ UNCHANGED vars => rows' = rows
  BY DEF Edit, Tick, vars
<1>5. ASSUME NEW a \in Attempt, Saves(a)
      PROVE  rows' = rows \/ rows' = rows \union {Checkpoint(a)}
  BY <1>5, SaveEffect
<1> QED
  BY <1>2, <1>3, <1>4, <1>5, StepCases, ChangesRows, SweepsRows DEF Typed, Runs, Saves

\* Rows that change one by one, under their identity, stay different ones.
LEMMA StayDifferent ==
  ASSUME \A x, y \in rows : Id(x) = Id(y) => x = y,
         NEW G, \A x \in rows' : \E row \in rows : x = G[row] /\ Was(x, row)
  PROVE  \A x, y \in rows' : Id(x) = Id(y) => x = y
<1> SUFFICES ASSUME NEW x \in rows', NEW y \in rows', Id(x) = Id(y) PROVE x = y
  OBVIOUS
<1>1. PICK v \in rows : x = G[v] /\ Was(x, v)
  OBVIOUS
<1>2. PICK w \in rows : y = G[w] /\ Was(y, w)
  OBVIOUS
<1> QED
  BY <1>1, <1>2 DEF Was

LEMMA ChangesDifferent ==
  ASSUME Typed, Identified, NEW a \in Attempt, Changes(a)
  PROVE  \A x, y \in rows' : Id(x) = Id(y) => x = y
<1>1. \A row \in rows : row \in Row /\ Was(row, row)
  BY DEF Typed, TypeOK, Was
<1>2. CASE Mark(a)
  <2> DEFINE G == [row \in rows |-> IF row \in TargetRows(a) THEN [row EXCEPT !.completed = TRUE]
                                                              ELSE row]
  <2>1. \A x \in rows' : \E row \in rows : x = G[row]
    BY <1>2 DEF Mark
  <2>2. \A row \in rows : Was(G[row], row)
    BY <1>1, RowCompleted
  <2>5. \A x \in rows' : \E row \in rows : x = G[row] /\ Was(x, row)
    BY <2>1, <2>2
  <2> HIDE DEF G
  <2> QED
    BY <2>5, StayDifferent DEF Identified
<1>3. CASE SetExpiry(a)
  <2> DEFINE G == [row \in rows |-> IF row \in TargetRows(a) THEN [row EXCEPT !.expires = now + Ttl]
                                                              ELSE row]
  <2>1. \A x \in rows' : \E row \in rows : x = G[row]
    BY <1>3 DEF SetExpiry
  <2>2. now + Ttl \in Int
    BY WorkflowAssumption DEF Typed, TypeOK
  <2>3. \A row \in rows : Was(G[row], row)
    BY <1>1, <2>2, RowDated
  <2>5. \A x \in rows' : \E row \in rows : x = G[row] /\ Was(x, row)
    BY <2>1, <2>3
  <2> HIDE DEF G
  <2> QED
    BY <2>5, StayDifferent DEF Identified
<1>4. CASE MarkFails(a) \/ Stop(a) \/ LocateFails(a)
  BY <1>4 DEF MarkFails, Stop, LocateFails, Identified
<1> QED
  BY <1>2, <1>3, <1>4 DEF Changes

LEMMA SweepsDifferent ==
  ASSUME Typed, Identified, Sweeps
  PROVE  \A x, y \in rows' : Id(x) = Id(y) => x = y
<1>1. \A row \in rows : row \in Row /\ Was(row, row)
  BY DEF Typed, TypeOK, Was
<1>2. CASE Stamp
  <2> DEFINE G == [row \in rows |-> IF row \in Old THEN [row EXCEPT !.expires = Cutoff] ELSE row]
  <2>1. \A x \in rows' : \E row \in rows : x = G[row]
    BY <1>2 DEF Stamp
  <2>2. Cutoff \in Int
    BY WorkflowAssumption DEF Typed, TypeOK, Cutoff
  <2>3. \A row \in rows : Was(G[row], row)
    BY <1>1, <2>2, RowDated
  <2>5. \A x \in rows' : \E row \in rows : x = G[row] /\ Was(x, row)
    BY <2>1, <2>3
  <2> HIDE DEF G
  <2> QED
    BY <2>5, StayDifferent DEF Identified
<1>3. CASE DeleteExpired
  BY <1>3 DEF DeleteExpired, Identified
<1> QED
  BY <1>2, <1>3 DEF Sweeps

\* The new checkpoint differs from all the others, and is nobody's target.
LEMMA CheckpointNew ==
  ASSUME Typed, Identified, NEW a \in Attempt, att[a].pc = "saving"
  PROVE  /\ Checkpoint(a).by = a /\ Checkpoint(a).count = att[a].count + 1
         /\ \A row \in rows : Id(row) # Id(Checkpoint(a))
         /\ \A b \in Attempt : att[b].target # Id(Checkpoint(a))
<1>1. /\ Checkpoint(a).by = a /\ Checkpoint(a).count = att[a].count + 1
      /\ att[a].count \in Nat
  BY DEF Checkpoint, Typed, TypeOK, AttemptState
<1>2. \A c \in Nat : Used(a, c) => c # att[a].count + 1
  BY <1>1 DEF Used, Working
<1>3. \A row \in rows : Id(row) # Id(Checkpoint(a))
  BY <1>1, <1>2 DEF Identified, Id, Typed, TypeOK, Row
<1>4. ASSUME NEW b \in Attempt, att[b].target = Id(Checkpoint(a)) PROVE FALSE
  <2>1. att[b].target = <<a, att[a].count + 1>>
    BY <1>1, <1>4 DEF Id
  <2>2. Resumes(b)
    BY <2>1, WorkflowAssumption DEF Resumes, NoTarget, Attempt
  <2> QED
    BY <1>1, <1>2, <2>1, <2>2 DEF Identified
<1> QED
  BY <1>1, <1>3, <1>4

LEMMA NextIdentified == Typed /\ Identified /\ [Next]_vars => Identified'
<1> SUFFICES ASSUME Typed, Identified, [Next]_vars PROVE Identified'
  OBVIOUS
<1>1. \A row \in rows : row \in Row /\ row.by \in Attempt /\ row.count \in Nat
                        /\ Used(row.by, row.count)'
  BY UsedStays DEF Identified, Typed, TypeOK, Row
<1>2. (\A row \in rows : Used(row.by, row.count))'
  <2>1. CASE \A x \in rows' : \E row \in rows : Was(x, row)
    BY <1>1, <2>1 DEF Was
  <2>2. ASSUME NEW a \in Attempt, Saves(a), rows' = rows \union {Checkpoint(a)}
        PROVE  (\A row \in rows : Used(row.by, row.count))'
    <3>1. Checkpoint(a).by = a /\ Checkpoint(a).count = att[a].count + 1 /\ att[a].count \in Nat
      BY <2>2, SaveEffect, CheckpointNew DEF Typed, TypeOK, AttemptState
    <3>2. PICK c \in Nat : c = att[a].count + 1
      BY <3>1
    <3>3. Used(a, c)'
      BY <2>2, <3>1, <3>2, SaveEffect DEF Used, Working
    <3>4. \A x \in rows' : x \in rows \/ (x.by = a /\ x.count = c)
      BY <2>2, <3>1, <3>2
    <3> QED
      BY <1>1, <3>3, <3>4
  <2> QED
    BY <2>1, <2>2, RowsBefore
<1>3. ASSUME NEW b \in Attempt, NEW c \in Nat, NEW d \in Nat,
             att'[b].target = <<c, d>>, Resumes(b)'
      PROVE  c \in Attempt /\ Used(c, d)'
  <2>1. CASE att'[b].target = att[b].target
    <3>1. att[b].target = <<c, d>> /\ Resumes(b)
      BY <1>3, <2>1 DEF Resumes
    <3>2. c \in Attempt /\ Used(c, d)
      BY <3>1 DEF Identified
    <3> QED
      BY <3>2, UsedStays
  <2>2. CASE \E row \in rows : att'[b].target = Id(row)
    <3>1. PICK row \in rows : row.by = c /\ row.count = d
      BY <1>3, <2>2 DEF Id
    <3> QED
      BY <1>1, <3>1
  <2>3. ASSUME NEW a \in Attempt, Send(a) \/ Resume(a)
        PROVE  att'[b].target = att[b].target
    BY <1>3, <2>3, StartEffect DEF Typed, Resumes
  <2>4. ASSUME NEW a \in Attempt, Locate(a)
        PROVE  att'[b].target = att[b].target \/ \E row \in rows : att'[b].target = Id(row)
    <3>1. CASE b = a
      BY <2>4, <3>1, LocateEffect DEF Typed
    <3>2. CASE b # a
      <4>1. att'[b] = att[b] \/ att'[b] = [att[b] EXCEPT !.alone = FALSE]
        BY <2>4, <3>2, LocateEffect DEF Typed
      <4> QED
        BY <4>1 DEF Typed, TypeOK, AttemptState
    <3> QED
      BY <3>1, <3>2
  <2>5. ASSUME NEW a \in Attempt, Runs(a) \/ Saves(a) \/ Changes(a)
        PROVE  att'[b].target = att[b].target
    BY <2>5, StepEffect, SaveEffect, ChangesEffect DEF Alone
  <2>6. Edit \/ Sweeps \/ Tick \/ UNCHANGED vars => att' = att
    BY DEF Edit, Sweeps, Stamp, DeleteExpired, Tick, vars
  <2> QED
    BY <2>1, <2>2, <2>3, <2>4, <2>5, <2>6, StepCases DEF Runs, Saves
<1>4. (\A x, y \in rows : Id(x) = Id(y) => x = y)'
  <2>1. ASSUME NEW a \in Attempt, Saves(a)
        PROVE  (\A x, y \in rows : Id(x) = Id(y) => x = y)'
    BY <2>1, SaveEffect, CheckpointNew DEF Identified
  <2>2. ASSUME NEW a \in Attempt, Send(a) \/ Resume(a) \/ Locate(a) \/ Runs(a)
        PROVE  rows' = rows
    BY <2>2 DEF Send, Resume, Locate, Runs, StepCompletes, StepAsks, StepFails
  <2>3. Edit \/ Tick \/ UNCHANGED vars => rows' = rows
    BY DEF Edit, Tick, vars
  <2>4. rows' = rows => (\A x, y \in rows : Id(x) = Id(y) => x = y)'
    BY DEF Identified
  <2> QED
    BY <2>1, <2>2, <2>3, <2>4, ChangesDifferent, SweepsDifferent, StepCases DEF Runs, Saves
<1>5. TypeOK'
  BY NextTyped DEF Typed
<1>6. ASSUME NEW b \in Attempt, Resumes(b)'
      PROVE  att'[b].target[1] \in Attempt /\ Used(att[b].target[1], att[b].target[2])'
  <2>1. PICK c \in Nat, d \in Nat : att'[b].target = <<c, d>>
    BY <1>5 DEF TypeOK, AttemptState
  <2>2. c \in Attempt /\ Used(c, d)'
    BY <1>3, <1>6, <2>1
  <2> QED
    BY <2>1, <2>2 DEF Used
<1> QED
  BY <1>2, <1>4, <1>6 DEF Identified

------------------------------------------------------------------------------
(* A pause is not completed without an answer.                              *)

\* The answer of an attempt that has begun stays, and so does its target.
LEMMA HistoryStays ==
  ASSUME Typed, [Next]_vars, NEW b \in Attempt
  PROVE  /\ att[b].pc # "idle" => att'[b].pc # "idle" /\ att'[b].answer = att[b].answer
         /\ att[b].pc \notin {"idle", "validated"} =>
              att'[b].pc # "validated" /\ att'[b].target = att[b].target
<1>1. ASSUME NEW a \in Attempt, Send(a) \/ Resume(a) PROVE att[b].pc # "idle" => att'[b] = att[b]
  BY <1>1, StartEffect DEF Typed
<1>2. ASSUME NEW a \in Attempt, Locate(a), a # b
      PROVE  att'[b].pc = att[b].pc /\ att'[b].answer = att[b].answer
             /\ att'[b].target = att[b].target
  <2>1. att'[b] = att[b] \/ att'[b] = [att[b] EXCEPT !.alone = FALSE]
    BY <1>2, LocateEffect DEF Typed
  <2> QED
    BY <2>1 DEF Typed, TypeOK, AttemptState
<1>3. Locate(b) => att[b].pc = "validated" /\ att'[b].answer = att[b].answer
                   /\ att'[b].pc \in {"working", "saving", "finishing"}
  BY LocateEffect DEF Locate, Where, Typed
<1>4. ASSUME NEW a \in Attempt, Runs(a) \/ Saves(a) \/ Changes(a)
      PROVE  /\ att'[b].answer = att[b].answer /\ att'[b].target = att[b].target
             /\ att'[b].pc = att[b].pc \/ att'[b].pc \notin {"idle", "validated"}
  BY <1>4, StepEffect, SaveEffect, ChangesEffect DEF Alone
<1>5. Edit \/ Sweeps \/ Tick \/ UNCHANGED vars => att' = att
  BY DEF Edit, Sweeps, Stamp, DeleteExpired, Tick, vars
<1> QED
  BY <1>1, <1>2, <1>3, <1>4, <1>5, StepCases DEF Runs, Saves

\* What completes a checkpoint is the end of its resume.
LEMMA CompletedBy ==
  ASSUME Typed, [Next]_vars, NEW x \in rows', x.completed
  PROVE  \E row \in rows :
           /\ Was(x, row)
           /\ row.completed \/ \E a \in Attempt : Mark(a) /\ row \in TargetRows(a)
<1>1. \A row \in rows : row \in Row /\ Was(row, row)
  BY DEF Typed, TypeOK, Was
<1>2. ASSUME NEW a \in Attempt, Saves(a) PROVE x \in rows
  BY <1>2, SaveEffect DEF Checkpoint
<1>3. ASSUME NEW a \in Attempt, Mark(a)
      PROVE  \E row \in rows : Was(x, row) /\ (row.completed \/ row \in TargetRows(a))
  <2>1. PICK row \in rows : x = IF row \in TargetRows(a) THEN [row EXCEPT !.completed = TRUE] ELSE row
    BY <1>3 DEF Mark
  <2> QED
    BY <1>1, <2>1, RowCompleted
<1>4. ASSUME NEW a \in Attempt, SetExpiry(a)
      PROVE  \E row \in rows : Was(x, row) /\ row.completed
  <2>1. PICK row \in rows :
          x = IF row \in TargetRows(a) THEN [row EXCEPT !.expires = now + Ttl] ELSE row
    BY <1>4 DEF SetExpiry
  <2>2. now + Ttl \in Int
    BY WorkflowAssumption DEF Typed, TypeOK
  <2>3. CASE row \in TargetRows(a)
    BY <1>1, <2>1, <2>2, <2>3, RowDated
  <2> QED
    BY <1>1, <2>1, <2>3
<1>5. Sweeps => \E row \in rows : Was(x, row) /\ row.completed
  BY SweepsRows DEF Typed
<1>6. ASSUME NEW a \in Attempt,
             Send(a) \/ Resume(a) \/ Locate(a) \/ Runs(a) \/ MarkFails(a) \/ Stop(a) \/ LocateFails(a)
      PROVE  rows' = rows
  BY <1>6 DEF Send, Resume, Locate, Runs, StepCompletes, StepAsks, StepFails, MarkFails, Stop,
              LocateFails
<1>7. Edit \/ Tick \/ UNCHANGED vars => rows' = rows
  BY DEF Edit, Tick, vars
<1> QED
  BY <1>1, <1>2, <1>3, <1>4, <1>5, <1>6, <1>7, StepCases DEF Runs, Saves, Changes

LEMMA InitAnswered == Init => Answered
<1> SUFFICES ASSUME Init PROVE Answered
  OBVIOUS
<1>1. rows = {} /\ \A a \in Attempt : att[a] = Fresh
  BY DEF Init
<1>2. Fresh.target = NoTarget /\ Fresh.answer = 0 /\ Fresh.pc = "idle"
  BY DEF Fresh
<1> QED
  BY <1>1, <1>2 DEF Answered, AskedIsAnswered, Resumes, TargetRows, Working

LEMMA NextAsked == Typed /\ Answered /\ [Next]_vars => AskedIsAnswered'
<1> SUFFICES ASSUME Typed, Answered, [Next]_vars, NEW x \in rows', x.completed, x.ask # 0
             PROVE  \E b \in Attempt :
                      \/ att'[b].answer = x.ask
                      \/ att'[b].target = Id(x) /\ att'[b].answer \notin {0, x.ask}
  BY DEF AskedIsAnswered
<1>1. PICK row \in rows :
        /\ Was(x, row)
        /\ row.completed \/ \E a \in Attempt : Mark(a) /\ row \in TargetRows(a)
  BY CompletedBy
<1>2. Id(x) = Id(row) /\ x.ask = row.ask /\ row \in Row
  BY <1>1 DEF Was, Typed, TypeOK
<1>3. PICK b \in Attempt :
        \/ att[b].answer = row.ask
        \/ att[b].target = Id(row) /\ att[b].answer \notin {0, row.ask}
  <2>1. CASE row.completed
    BY <1>2, <2>1 DEF Answered, AskedIsAnswered
  <2>2. ASSUME NEW a \in Attempt, Mark(a), row \in TargetRows(a)
        PROVE  att[a].target = Id(row) /\ att[a].answer # 0
    BY <1>2, <2>2 DEF Mark, Answered, TargetRows
  <2> QED
    BY <1>1, <2>1, <2>2
<1>4. att[b].pc # "idle"
  <2>1. Id(row) # NoTarget
    BY <1>2, WorkflowAssumption DEF Id, NoTarget, Row, Attempt
  <2> QED
    BY <1>2, <1>3, <2>1 DEF Answered, Resumes
<1>5. att[b].target = Id(row) => att[b].pc # "validated"
  <2>1. Id(row) # NoTarget
    BY <1>2, WorkflowAssumption DEF Id, NoTarget, Row, Attempt
  <2> QED
    BY <2>1 DEF Answered, Resumes
<1> QED
  BY <1>2, <1>3, <1>4, <1>5, HistoryStays

\* The targets of b among the rows that follow.
LEMMA TargetBefore ==
  ASSUME Typed, Identified, [Next]_vars, NEW b \in Attempt, att'[b].target = att[b].target,
         NEW x \in TargetRows(b)'
  PROVE  \E row \in TargetRows(b) : Was(x, row)
<1>1. x \in rows' /\ Id(x) = att[b].target
  BY DEF TargetRows
<1>2. CASE \A y \in rows' : \E row \in rows : Was(y, row)
  BY <1>1, <1>2 DEF TargetRows, Was
<1>3. ASSUME NEW a \in Attempt, Saves(a), rows' = rows \union {Checkpoint(a)}
      PROVE  \E row \in TargetRows(b) : Was(x, row)
  <2>1. Id(x) # Id(Checkpoint(a))
    BY <1>1, <1>3, SaveEffect, CheckpointNew
  <2>2. x \in TargetRows(b)
    BY <1>1, <1>3, <2>1 DEF TargetRows
  <2> QED
    BY <2>2 DEF TargetRows, Was, Typed, TypeOK
<1> QED
  BY <1>2, <1>3, RowsBefore

LEMMA NextAnswered == Typed /\ Identified /\ Answered /\ [Next]_vars => Answered'
<1> SUFFICES ASSUME Typed, Identified, Answered, [Next]_vars PROVE Answered'
  OBVIOUS
<1>1. AskedIsAnswered'
  BY NextAsked
<1>2. ASSUME NEW b \in Attempt
      PROVE  /\ att'[b].pc = "idle" => att'[b].answer = 0
             /\ att'[b].pc \in {"idle", "validated"} => ~Resumes(b)'
  <2>1. ASSUME NEW a \in Attempt, Send(a) \/ Resume(a)
        PROVE  att'[b] = att[b] \/ (att'[b].pc # "idle" /\ ~Resumes(b)')
    BY <2>1, StartEffect DEF Typed, Resumes
  <2>2. ASSUME NEW a \in Attempt, Locate(a)
        PROVE  \/ att'[b].pc = att[b].pc /\ att'[b].answer = att[b].answer
                  /\ att'[b].target = att[b].target
               \/ att'[b].pc \notin {"idle", "validated"}
    <3>1. CASE b = a
      BY <2>2, <3>1, LocateEffect DEF Where, Typed
    <3>2. CASE b # a
      <4>1. att'[b] = att[b] \/ att'[b] = [att[b] EXCEPT !.alone = FALSE]
        BY <2>2, <3>2, LocateEffect DEF Typed
      <4> QED
        BY <4>1 DEF Typed, TypeOK, AttemptState
    <3> QED
      BY <3>1, <3>2
  <2>3. ASSUME NEW a \in Attempt, Runs(a) \/ Saves(a) \/ Changes(a)
        PROVE  att'[b] = att[b] \/ att'[b].pc \notin {"idle", "validated"}
    BY <2>3, StepEffect, SaveEffect, ChangesEffect DEF Alone
  <2>4. Edit \/ Sweeps \/ Tick \/ UNCHANGED vars => att' = att
    BY DEF Edit, Sweeps, Stamp, DeleteExpired, Tick, vars
  <2> QED
    BY <2>1, <2>2, <2>3, <2>4, StepCases DEF Answered, Resumes, Runs, Saves
<1>3. ASSUME NEW b \in Attempt, att'[b].pc \in Working \union {"finishing"},
             NEW x \in TargetRows(b)', x.ask # 0, att'[b].answer = 0
      PROVE  att'[b].pc = "saving" /\ att'[b].ask # 0
  <2>1. ASSUME att'[b].target = att[b].target, att'[b].answer = att[b].answer,
               att[b].pc \in Working \union {"finishing"}
        PROVE  att[b].pc = "saving" /\ att[b].ask # 0
    <3>1. PICK row \in TargetRows(b) : Was(x, row)
      BY <2>1, TargetBefore
    <3> QED
      BY <1>3, <2>1, <3>1 DEF Answered, Was
  <2>2. ASSUME NEW a \in Attempt, Send(a) \/ Resume(a)
        PROVE  a # b /\ att'[b] = att[b]
    <3>1. a # b
      <4>1. SUFFICES ASSUME a = b PROVE FALSE
        OBVIOUS
      <4>2. att'[b].target = NoTarget
        BY <2>2, <4>1, StartEffect DEF Typed
      <4>3. x \in Row /\ Id(x) = NoTarget
        BY <4>2, NextTyped DEF TargetRows, Typed, TypeOK
      <4> QED
        BY <4>3, WorkflowAssumption DEF Id, NoTarget, Row, Attempt
    <3> QED
      BY <2>2, <3>1, StartEffect DEF Typed
  <2>3. ASSUME NEW a \in Attempt, Locate(a), a # b
        PROVE  att'[b].pc = att[b].pc /\ att'[b].ask = att[b].ask
               /\ att'[b].target = att[b].target /\ att'[b].answer = att[b].answer
    <3>1. att'[b] = att[b] \/ att'[b] = [att[b] EXCEPT !.alone = FALSE]
      BY <2>3, LocateEffect DEF Typed
    <3> QED
      BY <3>1 DEF Typed, TypeOK, AttemptState
  <2>4. ASSUME Locate(b)
        PROVE  att'[b].pc = "saving" /\ att'[b].ask # 0
    <3>1. PICK row \in Latest :
            /\ row \in rows
            /\ att'[b].pc = Where(b, row) /\ att'[b].target = Id(row)
            /\ att'[b].answer = att[b].answer
            /\ att'[b].ask = IF att[b].answer = 0 THEN row.ask ELSE 0
      BY <2>4, LocateEffect DEF Typed
    <3>2. x \in rows /\ Id(x) = Id(row)
      BY <2>4, <3>1 DEF TargetRows, Locate
    <3>3. x = row
      BY <3>1, <3>2 DEF Identified
    <3> QED
      BY <1>3, <3>1, <3>3 DEF Where
  <2>5. ASSUME NEW a \in Attempt, Runs(a) \/ Saves(a) \/ Changes(a)
        PROVE  \/ att'[b] = att[b]
               \/ att'[b].target = att[b].target /\ att'[b].answer = att[b].answer
                  /\ (att[b].pc = "working" \/ (att[b].pc = "saving" /\ att[b].ask = 0))
    BY <1>3, <2>5, StepEffect, SaveEffect, ChangesEffect DEF Alone, Working
  <2>6. Edit \/ Sweeps \/ Tick \/ UNCHANGED vars => att' = att
    BY DEF Edit, Sweeps, Stamp, DeleteExpired, Tick, vars
  <2> QED
    BY <1>3, <2>1, <2>2, <2>3, <2>4, <2>5, <2>6, StepCases DEF Runs, Saves, Working
<1> QED
  BY <1>1, <1>2, <1>3 DEF Answered

------------------------------------------------------------------------------
(* A step can read what came before it.                                     *)

LEMMA InitCarried == Init => Carried
<1> SUFFICES ASSUME Init PROVE Carried
  OBVIOUS
<1>1. rows = {} /\ \A a \in Attempt : att[a] = Fresh
  BY DEF Init
<1>2. Fresh.pc = "idle"
  BY DEF Fresh
<1> QED
  BY <1>1, <1>2 DEF Carried, Working

LEMMA NextCarried == Typed /\ Carried /\ [Next]_vars => Carried'
<1> SUFFICES ASSUME Typed, Carried, [Next]_vars PROVE Carried'
  OBVIOUS
<1> DEFINE Good(x) == /\ x.first # 1 => x.depth > 0
                      /\ x.depth <= 1 \/ x.first = 1 => 1 .. (x.step - 1) \subseteq x.shared
<1>0. \A b \in Attempt : att[b] \in AttemptState /\ (att[b].pc \in Working => Good(att[b]))
  BY DEF Typed, TypeOK, Carried
<1>1. ASSUME NEW b \in Attempt, att'[b].pc \in Working PROVE Good(att'[b])
  <2>1. ASSUME NEW a \in Attempt, Send(a) \/ Resume(a) PROVE Good(att'[b])
    <3>1. b # a => att'[b] = att[b]
      BY <2>1, StartEffect DEF Typed
    <3>2. b = a => att'[b].first = 1 /\ att'[b].step = 1
      BY <1>1, <2>1, StartEffect DEF Typed, Working
    <3> QED
      BY <1>0, <1>1, <3>1, <3>2
  <2>2. ASSUME NEW a \in Attempt, Locate(a) PROVE Good(att'[b])
    <3>1. CASE b = a
      <4>1. PICK row \in Latest :
              /\ row \in rows /\ row \in Row
              /\ att'[a].first = row.next /\ att'[a].step = row.next
              /\ att'[a].shared = row.snap /\ att'[a].depth = row.depth + 1
        BY <2>2, LocateEffect DEF Typed
      <4>2. row.depth \in Nat /\ row.next \in Nat
        BY <4>1, WorkflowAssumption DEF Row
      <4>3. row.depth = 0 => 1 .. (row.next - 1) \subseteq row.snap
        BY <4>1 DEF Carried
      <4> QED
        BY <3>1, <4>1, <4>2, <4>3
    <3>2. CASE b # a
      <4>1. att'[b] = att[b] \/ att'[b] = [att[b] EXCEPT !.alone = FALSE]
        BY <2>2, <3>2, LocateEffect DEF Typed
      <4>2. /\ att'[b].pc = att[b].pc /\ att'[b].first = att[b].first
            /\ att'[b].depth = att[b].depth /\ att'[b].step = att[b].step
            /\ att'[b].shared = att[b].shared
        BY <1>0, <4>1 DEF AttemptState
      <4> QED
        BY <1>0, <1>1, <4>2
    <3> QED
      BY <3>1, <3>2
  <2>3. ASSUME NEW a \in Attempt, Runs(a) PROVE Good(att'[b])
    <3>1. CASE b # a
      BY <1>0, <1>1, <2>3, <3>1, StepEffect DEF Alone
    <3>2. CASE b = a
      <4>1. /\ att[a].pc \in Working
            /\ att'[a].first = att[a].first /\ att'[a].depth = att[a].depth
            /\ att'[a].shared = att[a].shared \union {att[a].step}
            /\ att'[a].step \in {att[a].step, att[a].step + 1}
        BY <1>1, <2>3, <3>2, StepEffect DEF Working
      <4>2. att[a].step \in Nat
        BY <1>0, WorkflowAssumption DEF AttemptState
      <4> QED
        BY <1>0, <3>2, <4>1, <4>2
    <3> QED
      BY <3>1, <3>2
  <2>4. ASSUME NEW a \in Attempt, Saves(a) PROVE Good(att'[b])
    <3>1. CASE b # a
      BY <1>0, <1>1, <2>4, <3>1, SaveEffect DEF Alone
    <3>2. CASE b = a
      <4>1. /\ att[a].pc \in Working
            /\ att'[a].first = att[a].first /\ att'[a].depth = att[a].depth
            /\ att'[a].shared = att[a].shared /\ att'[a].step = att[a].step
        BY <1>1, <2>4, <3>2, SaveEffect DEF Working
      <4> QED
        BY <1>0, <3>2, <4>1
    <3> QED
      BY <3>1, <3>2
  <2>5. ASSUME NEW a \in Attempt, Changes(a) PROVE Good(att'[b])
    BY <1>0, <1>1, <2>5, ChangesEffect DEF Alone, Working
  <2>6. CASE Edit \/ Sweeps \/ Tick \/ UNCHANGED vars
    BY <1>0, <1>1, <2>6 DEF Edit, Sweeps, Stamp, DeleteExpired, Tick, vars
  <2> QED
    BY <2>1, <2>2, <2>3, <2>4, <2>5, <2>6, StepCases DEF Runs, Saves
<1>2. ASSUME NEW x \in rows', x.depth = 0 PROVE 1 .. (x.next - 1) \subseteq x.snap
  <2>1. CASE \A y \in rows' : \E row \in rows : Was(y, row)
    BY <1>2, <2>1 DEF Was, Carried
  <2>2. ASSUME NEW a \in Attempt, Saves(a), rows' = rows \union {Checkpoint(a)}
        PROVE  1 .. (x.next - 1) \subseteq x.snap
    <3>1. CASE x \in rows
      BY <1>2, <3>1 DEF Carried
    <3>2. CASE x = Checkpoint(a)
      <4>1. att[a].pc \in Working
        BY <2>2, SaveEffect DEF Working
      <4>2. att[a].first = 1
        BY <1>0, <1>2, <3>2, <4>1 DEF Checkpoint
      <4>3. x.snap = att[a].shared /\ x.next = att[a].step
        BY <3>2, <4>2 DEF Checkpoint, Snapshot
      <4> QED
        BY <1>0, <4>1, <4>2, <4>3
    <3> QED
      BY <2>2, <3>1, <3>2
  <2> QED
    BY <2>1, <2>2, RowsBefore
<1> QED
  BY <1>1, <1>2 DEF Carried

------------------------------------------------------------------------------
(* The sweep takes the oldest.                                              *)

\* Where the expiry of a row comes from.
LEMMA ExpiryFrom ==
  ASSUME Typed, [Next]_vars, NEW x \in rows'
  PROVE  \/ /\ x.expires = Never /\ x.at = now /\ now' = now
            /\ ~Stamp
         \/ \E row \in rows :
              /\ Was(x, row)
              /\ \/ x.expires = row.expires /\ (Stamp => row \notin Old)
                 \/ /\ x.expires = now + Ttl /\ now' = now
                    /\ \E a \in Attempt : att[a].pc = "marked" /\ row \in TargetRows(a)
                 \/ Stamp /\ row \in Old /\ x.expires = Cutoff
<1>1. \A row \in rows : row \in Row /\ Was(row, row)
  BY DEF Typed, TypeOK, Was
<1>2. ASSUME NEW a \in Attempt, Saves(a)
      PROVE  \/ x \in rows
             \/ x.expires = Never /\ x.at = now
  BY <1>2, SaveEffect DEF Checkpoint
<1>3. ASSUME NEW a \in Attempt, Saves(a) \/ Changes(a)
      PROVE  now' = now /\ ~Stamp
  <2>1. att'[a].pc # att[a].pc
    BY <1>3, SaveEffect, ChangesEffect DEF Working
  <2> QED
    BY <1>3, <2>1, SaveEffect, ChangesEffect DEF Stamp
<1>4. ASSUME NEW a \in Attempt, Mark(a)
      PROVE  \E row \in rows : Was(x, row) /\ x.expires = row.expires
  <2>1. PICK row \in rows : x = IF row \in TargetRows(a) THEN [row EXCEPT !.completed = TRUE] ELSE row
    BY <1>4 DEF Mark
  <2> QED
    BY <1>1, <2>1, RowCompleted
<1>5. ASSUME NEW a \in Attempt, SetExpiry(a)
      PROVE  \E row \in rows :
               /\ Was(x, row)
               /\ \/ x.expires = row.expires
                  \/ x.expires = now + Ttl /\ att[a].pc = "marked" /\ row \in TargetRows(a)
  <2>1. PICK row \in rows :
          x = IF row \in TargetRows(a) THEN [row EXCEPT !.expires = now + Ttl] ELSE row
    BY <1>5 DEF SetExpiry
  <2>2. now + Ttl \in Int
    BY WorkflowAssumption DEF Typed, TypeOK
  <2>3. CASE row \in TargetRows(a)
    BY <1>1, <1>5, <2>1, <2>2, <2>3, RowDated DEF SetExpiry
  <2> QED
    BY <1>1, <2>1, <2>3
<1>6. ASSUME Stamp
      PROVE  \E row \in rows :
               /\ Was(x, row)
               /\ \/ x.expires = row.expires /\ row \notin Old
                  \/ row \in Old /\ x.expires = Cutoff
  <2>1. PICK row \in rows : x = IF row \in Old THEN [row EXCEPT !.expires = Cutoff] ELSE row
    BY <1>6 DEF Stamp
  <2>2. Cutoff \in Int
    BY WorkflowAssumption DEF Typed, TypeOK, Cutoff
  <2>3. CASE row \in Old
    BY <1>1, <2>1, <2>2, <2>3, RowDated
  <2> QED
    BY <1>1, <2>1, <2>3
<1>7. CASE rows' \subseteq rows
  BY <1>1, <1>6, <1>7
<1>8. ASSUME NEW a \in Attempt,
             Send(a) \/ Resume(a) \/ Locate(a) \/ Runs(a) \/ MarkFails(a) \/ Stop(a) \/ LocateFails(a)
      PROVE  rows' \subseteq rows
  BY <1>8 DEF Send, Resume, Locate, Runs, StepCompletes, StepAsks, StepFails, MarkFails, Stop,
              LocateFails
<1>9. Edit \/ Tick \/ DeleteExpired \/ UNCHANGED vars => rows' \subseteq rows
  BY DEF Edit, Tick, DeleteExpired, vars
<1>10. ASSUME NEW a \in Attempt, Saves(a)
       PROVE  \/ x.expires = Never /\ x.at = now /\ now' = now /\ ~Stamp
              \/ x \in rows /\ ~Stamp
  BY <1>2, <1>3, <1>10
<1>11. ASSUME NEW a \in Attempt, Mark(a)
       PROVE  \E row \in rows : Was(x, row) /\ x.expires = row.expires /\ ~Stamp
  BY <1>3, <1>4, <1>11 DEF Changes
<1>12. ASSUME NEW a \in Attempt, SetExpiry(a)
       PROVE  \E row \in rows :
               /\ Was(x, row)
               /\ \/ x.expires = row.expires /\ ~Stamp
                  \/ x.expires = now + Ttl /\ now' = now /\ att[a].pc = "marked" /\ row \in TargetRows(a)
  BY <1>3, <1>5, <1>12 DEF Changes
<1> QED
  BY <1>1, <1>6, <1>7, <1>8, <1>9, <1>10, <1>11, <1>12, StepCases
     DEF Runs, Saves, Changes, Sweeps

LEMMA InitDated == Init => Dated
<1> SUFFICES ASSUME Init PROVE Dated
  OBVIOUS
<1>1. rows = {} /\ \A a \in Attempt : att[a] = Fresh
  BY DEF Init
<1>2. Fresh.pc = "idle"
  BY DEF Fresh
<1> QED
  BY <1>1, <1>2 DEF Dated, Open

LEMMA Clock ==
  ASSUME Typed, [Next]_vars
  PROVE  now \in Nat /\ now' \in Nat /\ now <= now'
<1>1. ASSUME NEW a \in Attempt,
             Send(a) \/ Resume(a) \/ Locate(a) \/ Runs(a) \/ Saves(a) \/ Changes(a)
      PROVE  now' = now
  BY <1>1, StartEffect, StepEffect, SaveEffect, ChangesEffect DEF Typed, Locate
<1>2. Edit \/ Sweeps \/ UNCHANGED vars => now' = now
  BY DEF Edit, Sweeps, Stamp, DeleteExpired, vars
<1>3. now \in Nat
  BY DEF Typed, TypeOK
<1> QED
  BY <1>1, <1>2, <1>3, StepCases DEF Tick, Runs, Saves

LEMMA NextDated == Typed /\ Identified /\ Answered /\ Dated /\ [Next]_vars => Dated'
<1> SUFFICES ASSUME Typed, Identified, Answered, Dated, [Next]_vars PROVE Dated'
  OBVIOUS
<1>1. now \in Nat /\ now' \in Nat /\ now <= now' /\ Ttl \in Nat \ {0}
  BY Clock, WorkflowAssumption
<1>2. \A row \in rows : row \in Row /\ row.at \in Nat /\ row.expires \in Int
  BY DEF Typed, TypeOK, Row
<1>3. \A a \in Attempt : att[a].pc = "marked" => \A row \in TargetRows(a) : row.completed
  BY DEF Dated
<1>4. ASSUME NEW x \in rows'
      PROVE  /\ x.at <= now'
             /\ x.expires # Never => now' - x.at > Ttl \/ x.expires >= x.at + Ttl
             /\ ~x.completed /\ x.expires # Never => x.expires < now'
  <2>1. CASE x.expires = Never /\ x.at = now
    BY <1>1, <2>1
  <2>2. ASSUME NEW row \in rows, Was(x, row), x.expires = row.expires
        PROVE  /\ x.at <= now'
               /\ x.expires # Never => now' - x.at > Ttl \/ x.expires >= x.at + Ttl
               /\ ~x.completed /\ x.expires # Never => x.expires < now'
    BY <1>1, <1>2, <2>2 DEF Dated, Was
  <2>3. ASSUME NEW row \in rows, Was(x, row), x.expires = now + Ttl, row.completed
        PROVE  /\ x.at <= now'
               /\ x.expires # Never => now' - x.at > Ttl \/ x.expires >= x.at + Ttl
               /\ ~x.completed /\ x.expires # Never => x.expires < now'
    BY <1>1, <1>2, <2>3 DEF Dated, Was
  <2>4. ASSUME NEW row \in rows, Was(x, row), row \in Old, x.expires = Cutoff
        PROVE  /\ x.at <= now'
               /\ x.expires # Never => now' - x.at > Ttl \/ x.expires >= x.at + Ttl
               /\ ~x.completed /\ x.expires # Never => x.expires < now'
    BY <1>1, <1>2, <2>4 DEF Dated, Was, Old, Cutoff
  <2> QED
    BY <1>3, <2>1, <2>2, <2>3, <2>4, ExpiryFrom
<1>5. ASSUME NEW x \in Open', NEW y \in Open', y.at <= x.at, x.expires # Never
      PROVE  y.expires # Never
  <2>1. x \in rows' /\ y \in rows' /\ ~x.completed /\ ~y.completed
    BY DEF Open
  <2>2. PICK v \in rows :
          /\ Was(x, v)
          /\ \/ x.expires = v.expires /\ (Stamp => v \notin Old)
             \/ \E a \in Attempt : att[a].pc = "marked" /\ v \in TargetRows(a)
             \/ Stamp /\ v \in Old
    BY <1>5, <2>1, ExpiryFrom
  <2>3. v \in Open
    BY <2>1, <2>2 DEF Was, Open
  <2>4. x.expires = v.expires \/ (Stamp /\ v \in Old)
    BY <1>3, <2>2, <2>3 DEF Open
  <2>5. v.at = x.at /\ v.at <= now
    BY <2>2 DEF Was, Dated
  <2>6. ASSUME y.at = now, ~Stamp PROVE FALSE
    <3>1. v.at = now /\ v.expires # Never
      BY <1>1, <1>2, <1>5, <2>4, <2>5, <2>6
    <3>2. now - v.at > Ttl \/ v.expires >= v.at + Ttl
      BY <3>1 DEF Dated
    <3>3. v.expires < now
      BY <2>3, <3>1 DEF Dated, Open
    <3> QED
      BY <1>1, <1>2, <3>1, <3>2, <3>3
  <2>7. ASSUME NEW w \in rows, Was(y, w),
               \/ y.expires = w.expires /\ (Stamp => w \notin Old)
               \/ y.expires = now + Ttl
               \/ w \in Old /\ y.expires = Cutoff
        PROVE  y.expires # Never
    <3>1. w \in Open /\ w.at = y.at
      BY <2>1, <2>7 DEF Was, Open
    <3>2. now + Ttl # Never
      BY <1>1 DEF Never
    <3>3. w \in Old => Cutoff # Never
      BY <1>1, <1>2 DEF Old, Cutoff, Never
    <3>4. CASE y.expires = w.expires /\ x.expires = v.expires
      BY <1>5, <2>3, <2>5, <3>1, <3>4 DEF Dated
    <3>5. CASE y.expires = w.expires /\ (Stamp => w \notin Old) /\ Stamp /\ v \in Old
      <4>1. w.at < Cutoff
        BY <1>1, <1>2, <1>5, <2>2, <2>5, <3>1, <3>5 DEF Old, Cutoff
      <4> QED
        BY <2>7, <3>5, <4>1 DEF Old
    <3> QED
      BY <2>4, <2>7, <3>2, <3>3, <3>4, <3>5
  <2> QED
    BY <2>1, <2>6, <2>7, ExpiryFrom
<1>6. ASSUME NEW b \in Attempt, att'[b].pc = "marked", NEW x \in TargetRows(b)'
      PROVE  x.completed
  <2>1. ASSUME NEW a \in Attempt, Send(a) \/ Resume(a)
        PROVE  att'[b] = att[b]
    BY <1>6, <2>1, StartEffect DEF Typed
  <2>2. ASSUME NEW a \in Attempt, Locate(a)
        PROVE  att'[b].pc = att[b].pc
    <3>1. CASE b = a
      BY <1>6, <2>2, <3>1, LocateEffect DEF Typed, Where
    <3>2. CASE b # a
      <4>1. att'[b] = att[b] \/ att'[b] = [att[b] EXCEPT !.alone = FALSE]
        BY <2>2, <3>2, LocateEffect DEF Typed
      <4> QED
        BY <4>1 DEF Typed, TypeOK, AttemptState
    <3> QED
      BY <3>1, <3>2
  <2>3. ASSUME NEW a \in Attempt, Runs(a) \/ Saves(a) \/ Changes(a)
        PROVE  att'[b] = att[b] \/ Mark(b)
    BY <1>6, <2>3, StepEffect, SaveEffect, ChangesEffect DEF Alone
  <2>4. Edit \/ Sweeps \/ Tick \/ UNCHANGED vars => att' = att
    BY DEF Edit, Sweeps, Stamp, DeleteExpired, Tick, vars
  <2>5. CASE Mark(b)
    <3>1. att'[b].target = att[b].target
      BY <2>5, ChangesEffect DEF Changes, Alone
    <3>2. x \in rows' /\ Id(x) = att[b].target
      BY <3>1 DEF TargetRows
    <3>3. PICK row \in rows :
            x = IF row \in TargetRows(b) THEN [row EXCEPT !.completed = TRUE] ELSE row
      BY <2>5, <3>2 DEF Mark
    <3>4. row \in Row
      BY <1>2
    <3>5. CASE row \in TargetRows(b)
      BY <3>3, <3>4, <3>5, RowCompleted
    <3>6. CASE row \notin TargetRows(b)
      BY <3>2, <3>3, <3>6 DEF TargetRows
    <3> QED
      BY <3>5, <3>6
  <2>6. CASE att[b].pc = "marked"
    <3>1. att'[b].target = att[b].target
      BY <2>6, HistoryStays
    <3>2. PICK row \in TargetRows(b) : Was(x, row)
      BY <3>1, TargetBefore
    <3> QED
      BY <1>3, <2>6, <3>2 DEF Was
  <2> QED
    BY <1>6, <2>1, <2>2, <2>3, <2>4, <2>5, <2>6, StepCases DEF Runs, Saves
<1> QED
  BY <1>4, <1>5, <1>6 DEF Dated

\* Only the sweep takes a checkpoint away.
LEMMA RowsStay ==
  ASSUME Typed, [Next]_vars, NEW row \in rows,
         \A kept \in rows' : Id(kept) # Id(row)
  PROVE  DeleteExpired
<1>1. \A r \in rows : r \in Row
  BY DEF Typed, TypeOK
<1>2. row \notin rows'
  OBVIOUS
<1>3. ASSUME NEW a \in Attempt, Mark(a) PROVE FALSE
  <2>1. CASE row \in TargetRows(a)
    <3>1. Id([row EXCEPT !.completed = TRUE]) = Id(row)
      BY <1>1, RowCompleted DEF Was
    <3>2. [row EXCEPT !.completed = TRUE] \in rows'
      BY <1>3, <2>1 DEF Mark
    <3> QED
      BY <3>1, <3>2
  <2> QED
    BY <1>2, <1>3, <2>1 DEF Mark
<1>4. ASSUME NEW a \in Attempt, SetExpiry(a) PROVE FALSE
  <2>1. now + Ttl \in Int
    BY WorkflowAssumption DEF Typed, TypeOK
  <2>2. CASE row \in TargetRows(a)
    <3>1. Id([row EXCEPT !.expires = now + Ttl]) = Id(row)
      BY <1>1, <2>1, RowDated DEF Was
    <3>2. [row EXCEPT !.expires = now + Ttl] \in rows'
      BY <1>4, <2>2 DEF SetExpiry
    <3> QED
      BY <3>1, <3>2
  <2> QED
    BY <1>2, <1>4, <2>2 DEF SetExpiry
<1>5. ASSUME Stamp PROVE FALSE
  <2>1. Cutoff \in Int
    BY WorkflowAssumption DEF Typed, TypeOK, Cutoff
  <2>2. CASE row \in Old
    <3>1. Id([row EXCEPT !.expires = Cutoff]) = Id(row)
      BY <1>1, <2>1, RowDated DEF Was
    <3>2. [row EXCEPT !.expires = Cutoff] \in rows'
      BY <1>5, <2>2 DEF Stamp
    <3> QED
      BY <3>1, <3>2
  <2> QED
    BY <1>2, <1>5, <2>2 DEF Stamp
<1>6. ASSUME NEW a \in Attempt,
             \/ Send(a) \/ Resume(a) \/ Locate(a) \/ Runs(a) \/ Saves(a)
             \/ MarkFails(a) \/ Stop(a) \/ LocateFails(a)
      PROVE  FALSE
  BY <1>2, <1>6 DEF Send, Resume, Locate, Runs, StepCompletes, StepAsks, StepFails, Saves, Save,
                    SaveFails, MarkFails, Stop, LocateFails
<1>7. Edit \/ Tick \/ UNCHANGED vars => FALSE
  BY <1>2 DEF Edit, Tick, vars
<1> QED
  BY <1>3, <1>4, <1>5, <1>6, <1>7, StepCases DEF Runs, Saves, Changes, Sweeps

LEMMA DeleteOldest ==
  ASSUME Typed, Dated, DeleteExpired, NEW row \in rows, row \notin rows'
  PROVE  /\ now - row.at > Ttl
         /\ \A kept \in Open' : ~row.completed => kept.at >= row.at
<1>1. now \in Nat /\ Ttl \in Nat \ {0}
  BY WorkflowAssumption DEF Typed, TypeOK
<1>2. \A r \in rows : r.at \in Nat /\ r.expires \in Int
  BY DEF Typed, TypeOK, Row
<1>3. row.expires # Never /\ row.expires < now
  BY DEF DeleteExpired, Expired
<1>4. now - row.at > Ttl
  BY <1>1, <1>2, <1>3 DEF Dated
<1>5. ASSUME NEW kept \in Open', ~row.completed, ~(kept.at >= row.at)
      PROVE  FALSE
  <2>1. kept \in Open /\ kept \notin Expired /\ row \in Open
    BY <1>5 DEF Open, DeleteExpired
  <2>2. kept \in rows /\ ~kept.completed
    BY <2>1 DEF Open
  <2>3. kept.at < row.at
    BY <1>2, <1>5, <2>2
  <2>4. kept.expires # Never
    BY <1>2, <1>3, <2>1, <2>2, <2>3 DEF Dated
  <2>5. kept.expires < now
    BY <2>2, <2>4 DEF Dated
  <2> QED
    BY <2>1, <2>2, <2>4, <2>5 DEF Expired
<1> QED
  BY <1>4, <1>5

------------------------------------------------------------------------------
(* A resume does not redo completed steps.                                  *)

\* What its run knows of an attempt stays, and it works on where it was.
Stays(b) ==
  /\ att'[b].run = att[b].run /\ att'[b].kept = att[b].kept /\ att'[b].saves = att[b].saves
  /\ att'[b].target = att[b].target /\ (att'[b].alone => att[b].alone)
  /\ att'[b].pc \in Working =>
       /\ att[b].pc \in Working /\ att'[b].first = att[b].first
       /\ att'[b].count >= att[b].count /\ att'[b].step >= att[b].step
  /\ att'[b].pc \in {"idle", "validated"} => att[b].pc = att'[b].pc
  /\ att[b].pc \in {"marked", "done"} => att'[b].pc \in {"marked", "done"}

LEMMA SameStays == ASSUME Typed, NEW b \in Attempt, att'[b] = att[b] PROVE Stays(b)
<1>1. att[b].count \in Nat /\ att[b].step \in Nat
  BY WorkflowAssumption DEF Typed, TypeOK, AttemptState
<1> QED
  BY <1>1 DEF Stays

\* The history in what follows a superstep.
LEMMA AfterKeeps ==
  ASSUME topo \in Topologies, NEW a, NEW x \in AttemptState
  PROVE  /\ After(a, x).run = x.run /\ After(a, x).kept = x.kept
         /\ After(a, x).saves = x.saves /\ After(a, x).alone = x.alone
         /\ Streamed(a, x).run = x.run /\ Streamed(a, x).kept = x.kept
         /\ Streamed(a, x).saves = x.saves /\ Streamed(a, x).alone = x.alone
<1>1. /\ Streamed(a, x).run = x.run /\ Streamed(a, x).kept = x.kept
      /\ Streamed(a, x).saves = x.saves /\ Streamed(a, x).alone = x.alone
  <2>1. CASE Resumes(a)
    BY <2>1 DEF Streamed, AttemptState
  <2>2. CASE ~Resumes(a)
    BY <2>2, OverTyped DEF Streamed
  <2> QED
    BY <2>1, <2>2
<1>2. CASE x.ask # 0
  BY <1>1, <1>2, OverTyped DEF After
<1>3. CASE x.ask = 0 /\ x.step > Steps
  BY <1>1, <1>3 DEF After
<1>4. CASE x.ask = 0 /\ ~(x.step > Steps)
  <2>1. After(a, x) = [x EXCEPT !.pc = "working"]
    BY <1>4 DEF After
  <2> QED
    BY <1>1, <2>1 DEF AttemptState
<1> QED
  BY <1>2, <1>3, <1>4

LEMMA SaveKeeps ==
  ASSUME Typed, NEW a \in Attempt, Save(a)
  PROVE  /\ rows' = rows \union {Checkpoint(a)} /\ now' = now /\ att[a].pc = "saving"
         /\ \A b \in Attempt \ {a} : att'[b] = att[b]
         /\ att'[a].run = att[a].run /\ att'[a].target = att[a].target
         /\ att'[a].kept = att[a].first .. (att[a].step - 1)
         /\ (att'[a].alone => att[a].alone)
         /\ att'[a].pc \in {"working", "finishing", "ended"}
         /\ att'[a].pc = "working" =>
              /\ att'[a].first = att[a].first /\ att'[a].step = att[a].step
              /\ att'[a].count = att[a].count + 1
<1>1. att[a] \in AttemptState /\ topo \in Topologies
  BY DEF Typed, TypeOK
<1>2. att' = [att EXCEPT ![a] = After(a, Saved(a))] /\ rows' = rows \union {Checkpoint(a)}
      /\ now' = now /\ att[a].pc = "saving"
  BY DEF Save
<1>3. att'[a] = After(a, Saved(a)) /\ \A b \in Attempt \ {a} : att'[b] = att[b]
  BY <1>2 DEF Typed, TypeOK
<1> DEFINE kept == att[a].first .. (att[a].step - 1)
           saves == Counted(a).saves + 1
<1>4. Counted(a) \in AttemptState /\ Counted(a).run = att[a].run /\ Counted(a).alone = att[a].alone
  BY <1>1 DEF Counted, AttemptState
<1>5. kept \in SUBSET Step /\ saves \in Nat
  BY <1>1, <1>4, WorkflowAssumption DEF AttemptState, Step
<1>6. Saved(a) = [Counted(a) EXCEPT !.saves = saves, !.kept = kept]
  BY <1>4 DEF Saved
<1> HIDE DEF kept, saves
<1>7. Saved(a) \in AttemptState /\ Saved(a).run = att[a].run /\ Saved(a).kept = kept
      /\ Saved(a).alone = att[a].alone
  BY <1>4, <1>5, <1>6 DEF AttemptState
<1>8. After(a, Saved(a)).run = att[a].run /\ After(a, Saved(a)).kept = kept
      /\ After(a, Saved(a)).alone = att[a].alone
  BY <1>1, <1>7, AfterKeeps
<1> QED
  BY <1>2, <1>3, <1>8, SaveEffect DEF kept, Saves, Alone

LEMMA RestStays ==
  ASSUME Typed, NEW a \in Attempt, Runs(a) \/ SaveFails(a) \/ Changes(a)
  PROVE  \A b \in Attempt : Stays(b)
<1>1. att[a] \in AttemptState /\ topo \in Topologies /\ att[a].count \in Nat /\ att[a].step \in Nat
  BY WorkflowAssumption DEF Typed, TypeOK, AttemptState
<1>2. \A b \in Attempt \ {a} : att'[b] = att[b]
  BY StepEffect, SaveEffect, ChangesEffect DEF Saves, Alone
<1> SUFFICES Stays(a)
  BY <1>2, SameStays
<1>3. ASSUME NEW x \in AttemptState, att'[a] = x,
             x.run = att[a].run, x.kept = att[a].kept, x.saves = att[a].saves,
             x.alone = att[a].alone, x.target = att[a].target,
             x.pc \in Working => /\ att[a].pc \in Working /\ x.first = att[a].first
                                 /\ x.count >= att[a].count /\ x.step >= att[a].step,
             x.pc \notin {"idle", "validated"},
             att[a].pc \in {"marked", "done"} => x.pc \in {"marked", "done"}
      PROVE  Stays(a)
  BY <1>3 DEF Stays
<1>4. ASSUME NEW end \in {"ended", "done"}, att' = [att EXCEPT ![a] = Over(@, end)],
             att[a].pc \in {"marked", "done"} => end = "done"
      PROVE  Stays(a)
  <2>1. att'[a] = Over(att[a], end)
    BY <1>4 DEF Typed, TypeOK
  <2>2. end \notin Working
    BY DEF Working
  <2> QED
    BY <1>1, <1>3, <1>4, <2>1, <2>2, OverTyped
<1>5. CASE StepCompletes(a)
  <2>1. att' = [att EXCEPT ![a] = [att[a] EXCEPT !.shared = Stored(a), !.step = @ + 1,
                                                 !.ask = 0, !.pc = "saving"]]
    BY <1>5, Zenon DEF StepCompletes
  <2>2. att'[a] = [att[a] EXCEPT !.shared = Stored(a), !.step = @ + 1, !.ask = 0, !.pc = "saving"]
    BY <2>1 DEF Typed, TypeOK
  <2>3. /\ att'[a].run = att[a].run /\ att'[a].kept = att[a].kept /\ att'[a].saves = att[a].saves
        /\ att'[a].alone = att[a].alone /\ att'[a].target = att[a].target
        /\ att'[a].first = att[a].first /\ att'[a].count = att[a].count
        /\ att'[a].step = att[a].step + 1 /\ att'[a].pc = "saving"
    BY <1>1, <2>2 DEF AttemptState
  <2>4. att[a].pc = "working"
    BY <1>5 DEF StepCompletes
  <2> QED
    BY <1>1, <2>3, <2>4 DEF Stays, Working
<1>6. CASE StepAsks(a)
  <2>1. att' = [att EXCEPT ![a] = [att[a] EXCEPT !.shared = Stored(a), !.ask = a, !.pc = "saving"]]
    BY <1>6, Zenon DEF StepAsks
  <2>2. att'[a] = [att[a] EXCEPT !.shared = Stored(a), !.ask = a, !.pc = "saving"]
    BY <2>1 DEF Typed, TypeOK
  <2>3. /\ att'[a].run = att[a].run /\ att'[a].kept = att[a].kept /\ att'[a].saves = att[a].saves
        /\ att'[a].alone = att[a].alone /\ att'[a].target = att[a].target
        /\ att'[a].first = att[a].first /\ att'[a].count = att[a].count
        /\ att'[a].step = att[a].step /\ att'[a].pc = "saving"
    BY <1>1, <2>2 DEF AttemptState
  <2>4. att[a].pc = "working"
    BY <1>6 DEF StepAsks
  <2> QED
    BY <1>1, <2>3, <2>4 DEF Stays, Working
<1>7. CASE StepFails(a)
  <2>1. att'[a] = Streamed(a, att[a]) /\ att[a].pc = "working"
    BY <1>7 DEF StepFails, Typed, TypeOK
  <2>2. Streamed(a, att[a]).pc \in {"finishing", "ended"}
        /\ Streamed(a, att[a]).target = att[a].target /\ Streamed(a, att[a]) \in AttemptState
    BY <1>1, StreamedTyped
  <2> QED
    BY <1>1, <1>3, <2>1, <2>2, AfterKeeps DEF Working
<1>8. CASE SaveFails(a)
  <2>1. att'[a] = After(a, Counted(a)) /\ att[a].pc = "saving"
    BY <1>8 DEF SaveFails, Typed, TypeOK
  <2>2. /\ Counted(a) \in AttemptState /\ Counted(a).run = att[a].run /\ Counted(a).kept = att[a].kept
        /\ Counted(a).saves = att[a].saves /\ Counted(a).alone = att[a].alone
        /\ Counted(a).target = att[a].target
    BY <1>1 DEF Counted, AttemptState
  <2>3. After(a, Counted(a)) \in AttemptState /\ After(a, Counted(a)).target = att[a].target
        /\ After(a, Counted(a)).pc \in {"working", "finishing", "ended"}
    BY <1>1, <2>2, AfterTyped
  <2>4. att'[a].pc = "working" =>
          att'[a].first = att[a].first /\ att'[a].count = att[a].count + 1 /\ att'[a].step = att[a].step
    BY <1>8, SaveEffect DEF Saves
  <2> DEFINE x == After(a, Counted(a))
  <2>5. x.run = att[a].run /\ x.kept = att[a].kept /\ x.saves = att[a].saves /\ x.alone = att[a].alone
    BY <1>1, <2>2, AfterKeeps
  <2> HIDE DEF x
  <2> QED
    BY <1>1, <2>1, <2>3, <2>4, <2>5 DEF x, Stays, Working
<1>9. CASE Mark(a)
  <2>1. att'[a] = [att[a] EXCEPT !.pc = "marked"]
    BY <1>9 DEF Mark, Typed, TypeOK
  <2> QED
    BY <1>1, <2>1 DEF Stays, AttemptState, Working
<1>10. CASE SetExpiry(a)
  BY <1>4, <1>10 DEF SetExpiry
<1>11. CASE MarkFails(a) \/ Stop(a) \/ LocateFails(a)
  BY <1>4, <1>11 DEF MarkFails, Stop, LocateFails, Working
<1> QED
  BY <1>5, <1>6, <1>7, <1>8, <1>9, <1>10, <1>11 DEF Runs, Changes

LEMMA SendKeeps ==
  ASSUME Typed, NEW a \in Attempt, Send(a)
  PROVE  /\ att[a].pc = "idle" /\ UNCHANGED <<now, rows>>
         /\ \A b \in Attempt \ {a} : att'[b] = att[b]
         /\ att'[a].pc = "working" /\ att'[a].run = a /\ att'[a].target = NoTarget
         /\ att'[a].kept = {} /\ att'[a].saves = 0 /\ att'[a].first = 1 /\ att'[a].step = 1
<1>1. Fresh \in AttemptState /\ Fresh.first = 1 /\ Fresh.step = 1 /\ Fresh.target = NoTarget
      /\ Fresh.kept = {} /\ Fresh.saves = 0
  BY FreshTyped DEF Typed, TypeOK, Fresh
<1>2. UNCHANGED <<now, rows>> /\ att[a].pc = "idle"
  BY DEF Send, NextIdle
<1>3. att'[a] = [Fresh EXCEPT !.pc = "working", !.run = a] /\ \A b \in Attempt \ {a} : att'[b] = att[b]
  BY DEF Typed, TypeOK, Send
<1>4. /\ att'[a].pc = "working" /\ att'[a].run = a /\ att'[a].target = Fresh.target
      /\ att'[a].kept = Fresh.kept /\ att'[a].saves = Fresh.saves
      /\ att'[a].first = Fresh.first /\ att'[a].step = Fresh.step
  BY <1>1, <1>3 DEF AttemptState
<1> QED
  BY <1>1, <1>2, <1>3, <1>4

LEMMA ResumeKeeps ==
  ASSUME Typed, NEW a \in Attempt, Resume(a)
  PROVE  /\ att[a].pc = "idle" /\ UNCHANGED <<now, rows>>
         /\ \A b \in Attempt \ {a} : att'[b] = att[b]
         /\ att'[a].pc = "validated" /\ att'[a].run = 0 /\ att'[a].target = NoTarget
         /\ att'[a].kept = {} /\ att'[a].saves = 0
<1>1. Fresh \in AttemptState /\ Fresh.run = 0 /\ Fresh.target = NoTarget
      /\ Fresh.kept = {} /\ Fresh.saves = 0
  BY FreshTyped DEF Typed, TypeOK, Fresh
<1>2. PICK answer : att' = [att EXCEPT ![a] = [Fresh EXCEPT !.pc = "validated", !.answer = answer]]
  BY DEF Resume
<1>3. att'[a] = [Fresh EXCEPT !.pc = "validated", !.answer = answer]
      /\ \A b \in Attempt \ {a} : att'[b] = att[b]
  BY <1>2 DEF Typed, TypeOK
<1>4. UNCHANGED <<now, rows>> /\ att[a].pc = "idle"
  BY DEF Resume, NextIdle
<1> QED
  BY <1>1, <1>3, <1>4 DEF AttemptState

LEMMA LocateKeeps ==
  ASSUME Typed, NEW a \in Attempt, Locate(a)
  PROVE  \E row \in Latest :
           /\ row \in rows /\ att[a].pc = "validated" /\ UNCHANGED <<now, rows>>
           /\ att'[a].pc \in {"working", "saving", "finishing"} /\ att'[a].run = row.run
           /\ att'[a].target = Id(row) /\ att'[a].first = row.next /\ att'[a].step = row.next
           /\ att'[a].count = row.count
           /\ att'[a].kept = att[a].kept /\ att'[a].saves = att[a].saves
           /\ (att'[a].alone => AtWork(row.run) = {})
           /\ \A b \in Attempt \ {a} : Stays(b) /\ (att'[b].alone => b \notin AtWork(row.run))
                                       /\ att'[b].pc = att[b].pc
<1>1. PICK row \in Latest : att' = Begun(a, row, Where(a, row))
  BY DEF Locate, Where
<1>2. row \in rows /\ row \in Row /\ att[a] \in AttemptState
  BY <1>1 DEF Latest, Open, Typed, TypeOK
<1> DEFINE others == AtWork(row.run)
           y == Restored(att[a], row, Where(a, row))
<1>3. /\ att'[a] = [y EXCEPT !.alone = (others = {})]
      /\ \A b \in Attempt \ {a} :
           att'[b] = IF b \in others THEN [att[b] EXCEPT !.alone = FALSE] ELSE att[b]
  BY <1>1 DEF Begun
<1>4. Where(a, row) \in PC /\ Where(a, row) \in {"working", "saving", "finishing"}
  BY DEF Where, PC, Working
<1>5. /\ y \in AttemptState
      /\ y.pc = Where(a, row) /\ y.run = row.run /\ y.target = Id(row)
      /\ y.first = row.next /\ y.step = row.next /\ y.count = row.count
  BY <1>2, <1>4, RestoredTyped
<1>6. y.kept = att[a].kept /\ y.saves = att[a].saves
  BY <1>2 DEF Restored, AttemptState
<1> HIDE DEF y, others
<1>7. DOMAIN y = DOMAIN att[a] /\ "alone" \in DOMAIN y
  BY <1>2, <1>5 DEF AttemptState
<1>8. /\ att'[a].pc = y.pc /\ att'[a].run = y.run /\ att'[a].target = y.target
      /\ att'[a].first = y.first /\ att'[a].step = y.step /\ att'[a].count = y.count
      /\ att'[a].kept = y.kept /\ att'[a].saves = y.saves
  BY <1>3, <1>5 DEF AttemptState
<1>9. att'[a].alone => others = {}
  BY <1>3, <1>7, Zenon
<1>10. ASSUME NEW b \in Attempt \ {a}
       PROVE  Stays(b) /\ (att'[b].alone => b \notin others) /\ att'[b].pc = att[b].pc
  <2>1. att[b] \in AttemptState /\ att[b].count \in Nat /\ att[b].step \in Nat
    BY WorkflowAssumption DEF Typed, TypeOK, AttemptState
  <2>2. CASE b \in others
    <3>1. att'[b] = [att[b] EXCEPT !.alone = FALSE]
      BY <1>3, <2>2
    <3>2. ~att'[b].alone
      BY <2>1, <3>1 DEF AttemptState
    <3>3. /\ att'[b].run = att[b].run /\ att'[b].kept = att[b].kept /\ att'[b].saves = att[b].saves
          /\ att'[b].target = att[b].target /\ att'[b].pc = att[b].pc
          /\ att'[b].first = att[b].first /\ att'[b].count = att[b].count /\ att'[b].step = att[b].step
      BY <2>1, <3>1 DEF AttemptState
    <3> QED
      BY <2>1, <3>2, <3>3 DEF Stays
  <2>3. CASE b \notin others
    BY <1>3, <2>3, SameStays
  <2> QED
    BY <2>2, <2>3
<1>11. att[a].pc = "validated" /\ UNCHANGED <<now, rows>>
  BY DEF Locate
<1> QED
  BY <1>1, <1>2, <1>4, <1>5, <1>6, <1>8, <1>9, <1>10, <1>11 DEF others

\* Of all the steps, three begin with an attempt and one saves a checkpoint.
LEMMA StayCases ==
  ASSUME Typed, [Next]_vars
  PROVE  \/ \E a \in Attempt : Send(a) \/ Resume(a) \/ Locate(a) \/ Save(a)
         \/ /\ \A b \in Attempt : Stays(b)
            /\ \A x \in rows' : \E row \in rows : Was(x, row)
<1>1. Edit \/ Sweeps \/ Tick \/ UNCHANGED vars => att' = att
  BY DEF Edit, Sweeps, Stamp, DeleteExpired, Tick, vars
<1>2. \A row \in rows : Was(row, row)
  BY DEF Typed, TypeOK, Was
<1>3. rows' = rows => \A x \in rows' : \E row \in rows : Was(x, row)
  BY <1>2
<1>4. ASSUME NEW a \in Attempt, Runs(a) \/ SaveFails(a) PROVE rows' = rows
  BY <1>4 DEF Runs, StepCompletes, StepAsks, StepFails, SaveFails
<1>5. Edit \/ Tick \/ UNCHANGED vars => rows' = rows
  BY DEF Edit, Tick, vars
<1> QED
  BY <1>1, <1>3, <1>4, <1>5, StepCases, RestStays, SameStays, ChangesRows, SweepsRows
     DEF Runs, Typed

\* What a step makes of an attempt that has a run.
LEMMA BegunStays ==
  ASSUME Typed, Serving, [Next]_vars, NEW b \in Attempt, att[b].run # 0
  PROVE  /\ att'[b].run = att[b].run /\ (att'[b].alone => att[b].alone)
         /\ Barren(b) => att'[b].saves = 0 /\ att'[b].pc \in {"marked", "done"}
<1>1. att[b].pc \notin {"idle", "validated"}
  BY DEF Serving
<1>2. Stays(b) => /\ att'[b].run = att[b].run /\ (att'[b].alone => att[b].alone)
                  /\ Barren(b) => att'[b].saves = 0 /\ att'[b].pc \in {"marked", "done"}
  BY DEF Stays, Barren
<1>3. ASSUME NEW a \in Attempt, Send(a) \/ Resume(a) \/ Locate(a) PROVE Stays(b)
  BY <1>1, <1>3, SendKeeps, ResumeKeeps, LocateKeeps, SameStays
<1>4. ASSUME NEW a \in Attempt, Save(a)
      PROVE  \/ Stays(b)
             \/ att'[b].run = att[b].run /\ (att'[b].alone => att[b].alone) /\ ~Barren(b)
  BY <1>4, SaveKeeps, SameStays DEF Barren
<1> QED
  BY <1>2, <1>3, <1>4, StayCases

LEMMA NoIdle ==
  ASSUME Typed, [Next]_vars, NEW b \in Attempt, att[b].pc # "idle"
  PROVE  att'[b].pc # "idle"
BY HistoryStays

\* What is sound after a step was so before.
LEMMA SoundBefore ==
  ASSUME Typed, Serving, [Next]_vars, NEW r, r # 0, Sound(r)'
  PROVE  /\ Sound(r)
         /\ \A b \in RunOf(r) : b \in RunOf(r)'
<1> SUFFICES ASSUME NEW b \in RunOf(r)
             PROVE  att[b].alone /\ ~Barren(b) /\ b \in RunOf(r)'
  BY DEF Sound
<1>1. b \in Attempt /\ att[b].run = r
  BY DEF RunOf
<1>2. b \in RunOf(r)'
  BY <1>1, BegunStays DEF RunOf
<1>3. att'[b].alone /\ ~Barren(b)'
  BY <1>2 DEF Sound
<1> QED
  BY <1>1, <1>2, <1>3, BegunStays DEF Barren

\* An open checkpoint was one, or is the new one.
LEMMA OpenBefore ==
  ASSUME Typed, NEW x \in Open', \E row \in rows : Was(x, row)
  PROVE  \E row \in Open : Was(x, row)
BY DEF Open, Was

\* An open checkpoint stays, unless it is completed or expired.
LEMMA OpenForward ==
  ASSUME Typed, Identified, [Next]_vars, NEW v \in Open
  PROVE  \/ \E x \in Open' : Was(x, v)
         \/ \E a \in Attempt : Mark(a) /\ v \in TargetRows(a)
         \/ DeleteExpired /\ v \in Expired
<1>1. v \in rows /\ ~v.completed /\ v \in Row
  BY DEF Open, Typed, TypeOK
<1>2. CASE \A kept \in rows' : Id(kept) # Id(v)
  <2>1. DeleteExpired
    BY <1>1, <1>2, RowsStay
  <2>2. v \notin rows'
    BY <1>2
  <2> QED
    BY <1>1, <2>1, <2>2 DEF DeleteExpired
<1>3. ASSUME NEW x \in rows', Id(x) = Id(v)
      PROVE  \/ \E y \in Open' : Was(y, v)
             \/ \E a \in Attempt : Mark(a) /\ v \in TargetRows(a)
  <2>1. Was(x, v)
    <3>1. ASSUME NEW row \in rows, Was(x, row) PROVE Was(x, v)
      <4>1. Id(row) = Id(v)
        BY <1>3, <3>1 DEF Was
      <4> QED
        BY <1>1, <3>1, <4>1 DEF Identified
    <3>2. ASSUME NEW a \in Attempt, Saves(a), rows' = rows \union {Checkpoint(a)} PROVE Was(x, v)
      <4>1. x \in rows
        BY <1>1, <1>3, <3>2, SaveEffect, CheckpointNew
      <4>2. x = v
        BY <1>1, <1>3, <4>1 DEF Identified
      <4> QED
        BY <1>1, <4>2 DEF Was
    <3> QED
      BY <3>1, <3>2, RowsBefore
  <2>2. CASE ~x.completed
    BY <2>1, <2>2 DEF Open
  <2>3. CASE x.completed
    <3>1. PICK row \in rows :
            /\ Was(x, row)
            /\ row.completed \/ \E a \in Attempt : Mark(a) /\ row \in TargetRows(a)
      BY <2>3, CompletedBy
    <3>2. row = v
      BY <1>1, <1>3, <3>1 DEF Was, Identified
    <3> QED
      BY <1>1, <3>1, <3>2
  <2> QED
    BY <2>2, <2>3
<1> QED
  BY <1>2, <1>3

LEMMA InitServing == Init => Serving /\ Ahead /\ Bettered
<1> SUFFICES ASSUME Init PROVE Serving /\ Ahead /\ Bettered
  OBVIOUS
<1>1. rows = {} /\ \A a \in Attempt : att[a] = Fresh
  BY DEF Init
<1>2. Fresh.pc = "idle" /\ Fresh.run = 0 /\ Fresh.kept = {} /\ Fresh.saves = 0
  BY DEF Fresh
<1>3. \A a \in Attempt : att[a].pc = "idle" /\ att[a].run = 0 /\ att[a].kept = {} /\ att[a].saves = 0
  BY <1>1, <1>2
<1> QED
  BY <1>1, <1>3 DEF Serving, Ahead, Bettered, Working, TargetRows, Open

LEMMA NextServing == Typed /\ Identified /\ Serving /\ [Next]_vars => Serving'
<1> SUFFICES ASSUME Typed, Identified, Serving, [Next]_vars PROVE Serving'
  OBVIOUS
<1>0. /\ \A b \in Attempt : /\ att[b].run \in 0 .. Attempts /\ att[b].first \in Nat
                            /\ att[b].step \in Nat /\ att'[b].run \in 0 .. Attempts
                            /\ att'[b].first \in Nat /\ att'[b].step \in Nat
      /\ \A row \in rows : row.run \in Attempt /\ row \in Row /\ row.next \in Nat
      /\ \A r \in 0 .. Attempts : r # 0 => r \in Attempt
      /\ \A row \in rows' : row \in Row /\ Id(row) # NoTarget
  <2>1. Typed'
    BY NextTyped
  <2>2. \A row \in Row : Id(row) # NoTarget
    BY WorkflowAssumption DEF Row, Id, NoTarget, Attempt
  <2>3. ASSUME NEW b \in Attempt
        PROVE  /\ att[b].run \in 0 .. Attempts /\ att[b].first \in Nat
               /\ att[b].step \in Nat /\ att'[b].run \in 0 .. Attempts
               /\ att'[b].first \in Nat /\ att'[b].step \in Nat
    <3>1. att[b] \in AttemptState /\ att'[b] \in AttemptState
      BY <2>1 DEF Typed, TypeOK
    <3> QED
      BY <3>1, WorkflowAssumption DEF AttemptState
  <2>4. \A row \in rows : row.run \in Attempt /\ row \in Row /\ row.next \in Nat
    BY WorkflowAssumption DEF Typed, TypeOK, Row
  <2>5. \A r \in 0 .. Attempts : r # 0 => r \in Attempt
    BY WorkflowAssumption DEF Attempt
  <2> QED
    BY <2>1, <2>2, <2>3, <2>4, <2>5 DEF Typed, TypeOK
<1>1. ASSUME NEW b \in Attempt, att'[b].pc \in {"idle", "validated"}
      PROVE  att'[b].run = 0 /\ att'[b].kept = {} /\ att'[b].saves = 0
  <2>1. Stays(b) => att'[b].run = 0 /\ att'[b].kept = {} /\ att'[b].saves = 0
    BY <1>1 DEF Stays, Serving
  <2>2. ASSUME NEW a \in Attempt, Send(a) \/ Resume(a) \/ Locate(a) \/ Save(a)
        PROVE  Stays(b) \/ (att'[b].run = 0 /\ att'[b].kept = {} /\ att'[b].saves = 0)
    BY <1>1, <2>2, SendKeeps, ResumeKeeps, LocateKeeps, SaveKeeps, SameStays
  <2> QED
    BY <2>1, <2>2, StayCases
<1>2. ASSUME NEW b \in Attempt, att'[b].run # 0 PROVE att'[att'[b].run].pc # "idle"
  <2>1. att'[b].run = att[b].run => att'[att'[b].run].pc # "idle"
    BY <1>2, <1>0, NoIdle DEF Serving
  <2>2. ASSUME NEW a \in Attempt, Send(a) \/ Resume(a) \/ Locate(a) \/ Save(a)
        PROVE  att'[b].run = att[b].run \/ att'[att'[b].run].pc # "idle"
    <3>1. CASE Send(a)
      BY <3>1, SendKeeps
    <3>2. CASE Resume(a)
      BY <1>2, <3>2, ResumeKeeps
    <3>3. CASE Locate(a)
      <4>1. PICK row \in rows :
              /\ att'[a].run = row.run
              /\ \A c \in Attempt \ {a} : att'[c].run = att[c].run
        BY <3>3, LocateKeeps DEF Stays
      <4>2. att'[row.run].pc # "idle"
        BY <1>0, NoIdle DEF Serving
      <4> QED
        BY <4>1, <4>2
    <3>4. CASE Save(a)
      BY <3>4, SaveKeeps
    <3> QED
      BY <2>2, <3>1, <3>2, <3>3, <3>4
  <2> QED
    BY <2>1, <2>2, StayCases DEF Stays
<1>3. ASSUME NEW b \in Attempt, att'[b].pc \in Working PROVE att'[b].first <= att'[b].step
  <2>1. Stays(b) => att'[b].first <= att'[b].step
    BY <1>3, <1>0 DEF Stays, Serving
  <2>2. ASSUME NEW a \in Attempt, Send(a) \/ Resume(a) \/ Locate(a) \/ Save(a)
        PROVE  Stays(b) \/ att'[b].first <= att'[b].step
    <3>1. CASE Send(a)
      BY <3>1, SendKeeps, SameStays
    <3>2. CASE Resume(a)
      BY <1>3, <3>2, ResumeKeeps, SameStays DEF Working
    <3>3. CASE Locate(a)
      BY <3>3, <1>0, LocateKeeps
    <3>4. CASE Save(a)
      <4>1. b = a => att[a].pc \in Working /\ att'[a].first = att[a].first /\ att'[a].step = att[a].step
        BY <1>3, <3>4, SaveKeeps DEF Working
      <4> QED
        BY <1>0, <3>4, <4>1, SaveKeeps, SameStays DEF Serving
    <3> QED
      BY <2>2, <3>1, <3>2, <3>3, <3>4
  <2> QED
    BY <2>1, <2>2, StayCases
<1>4. ASSUME NEW b \in Attempt, NEW x \in TargetRows(b)'
      PROVE  x.run = att'[b].run /\ (att'[b].pc \in Working => x.next = att'[b].first)
  <2>1. ASSUME att'[b].target = att[b].target, att'[b].run = att[b].run,
               att'[b].pc \in Working => att[b].pc \in Working /\ att'[b].first = att[b].first
        PROVE  x.run = att'[b].run /\ (att'[b].pc \in Working => x.next = att'[b].first)
    <3>1. PICK row \in TargetRows(b) : Was(x, row)
      BY <2>1, TargetBefore
    <3> QED
      BY <2>1, <3>1 DEF Was, Serving
  <2>2. x \in rows' /\ Id(x) = att'[b].target
    BY DEF TargetRows
  <2>3. ASSUME NEW a \in Attempt, Send(a) \/ Resume(a)
        PROVE  Stays(b)
    BY <1>0, <2>2, <2>3, SendKeeps, ResumeKeeps, SameStays
  <2>4. ASSUME NEW a \in Attempt, Locate(a)
        PROVE  Stays(b) \/ (x.run = att'[b].run /\ x.next = att'[b].first)
    <3>1. CASE b # a
      BY <2>4, <3>1, LocateKeeps
    <3>2. CASE b = a
      <4>1. PICK row \in rows : /\ att'[a].run = row.run /\ att'[a].target = Id(row)
                                /\ att'[a].first = row.next /\ rows' = rows
        BY <2>4, LocateKeeps
      <4>2. x = row
        BY <2>2, <3>2, <4>1 DEF Identified
      <4> QED
        BY <3>2, <4>1, <4>2
    <3> QED
      BY <3>1, <3>2
  <2>5. ASSUME NEW a \in Attempt, Save(a)
        PROVE  /\ att'[b].target = att[b].target /\ att'[b].run = att[b].run
               /\ att'[b].pc \in Working => att[b].pc \in Working /\ att'[b].first = att[b].first
    BY <2>5, SaveKeeps DEF Working
  <2> QED
    BY <2>1, <2>3, <2>4, <2>5, StayCases DEF Stays
<1>5. ASSUME NEW x \in rows' PROVE att'[x.run].pc # "idle"
  <2>1. ASSUME NEW row \in rows, Was(x, row) PROVE att'[x.run].pc # "idle"
    BY <1>0, <2>1, NoIdle DEF Was, Serving
  <2>2. ASSUME NEW a \in Attempt, Saves(a), x = Checkpoint(a) PROVE att'[x.run].pc # "idle"
    <3>1. att[a].pc \in Working
      BY <2>2, SaveEffect DEF Working
    <3>2. x.run = att[a].run /\ att[a].run # 0
      BY <2>2, <3>1, WorkflowAssumption DEF Checkpoint, Typed, Placed, Attempt
    <3> QED
      BY <1>0, <3>2, NoIdle DEF Serving
  <2>3. x \in rows => Was(x, x)
    BY <1>0 DEF Was
  <2> QED
    BY <2>1, <2>2, <2>3, RowsBefore
<1>6. ASSUME NEW a \in Attempt, NEW b \in Attempt, a # b, att'[a].run = att'[b].run,
             att'[a].pc \in Working, att'[b].pc \in Working, att'[a].alone
      PROVE  FALSE
  <2>1. ASSUME att'[a].run = att[a].run, att'[b].run = att[b].run, att[a].alone
        PROVE  ~(att[a].pc \in Working /\ att[b].pc \in Working)
    BY <1>6, <2>1 DEF Serving
  <2>2. ASSUME NEW c \in Attempt, Send(c) PROVE FALSE
    <3>1. \A d \in Attempt \ {c} : att[d].run # c
      BY <2>2, <1>0, SendKeeps, WorkflowAssumption DEF Serving, Attempt
    <3>2. att'[c].run = c /\ \A d \in Attempt \ {c} : att'[d] = att[d]
      BY <2>2, SendKeeps
    <3>3. a # c /\ b # c
      BY <1>6, <3>1, <3>2
    <3> QED
      BY <1>6, <3>2, <3>3, <2>1
  <2>3. ASSUME NEW c \in Attempt, Resume(c) PROVE FALSE
    <3>1. att'[c].pc \notin Working /\ \A d \in Attempt \ {c} : att'[d] = att[d]
      BY <2>3, ResumeKeeps DEF Working
    <3> QED
      BY <1>6, <3>1, <2>1
  <2>4. ASSUME NEW c \in Attempt, Locate(c) PROVE FALSE
    <3>1. PICK row \in rows :
            /\ att'[c].run = row.run
            /\ (att'[c].alone => AtWork(row.run) = {})
            /\ \A d \in Attempt \ {c} : Stays(d) /\ (att'[d].alone => d \notin AtWork(row.run))
                                        /\ att'[d].pc = att[d].pc
      BY <2>4, LocateKeeps
    <3>2. \A d \in Attempt \ {c} : att'[d].run = att[d].run /\ (att'[d].alone => att[d].alone)
      BY <3>1 DEF Stays
    <3>3. CASE a = c
      <4>1. b \in AtWork(row.run)
        BY <1>6, <3>1, <3>2, <3>3 DEF AtWork
      <4> QED
        BY <1>6, <3>1, <3>3, <4>1
    <3>4. CASE b = c
      <4>1. a \in AtWork(row.run)
        BY <1>6, <3>1, <3>2, <3>4 DEF AtWork
      <4> QED
        BY <1>6, <3>1, <3>4, <4>1
    <3>5. CASE a # c /\ b # c
      BY <1>6, <3>1, <3>2, <3>5, <2>1
    <3> QED
      BY <3>3, <3>4, <3>5
  <2>5. ASSUME NEW c \in Attempt, Save(c) PROVE FALSE
    <3>1. \A d \in Attempt : /\ att'[d].run = att[d].run /\ (att'[d].alone => att[d].alone)
                             /\ (att'[d].pc \in Working => att[d].pc \in Working)
      BY <2>5, SaveKeeps DEF Working
    <3> QED
      BY <1>6, <2>1, <3>1
  <2>6. CASE \A d \in Attempt : Stays(d)
    <3>1. \A d \in Attempt : /\ att'[d].run = att[d].run /\ (att'[d].alone => att[d].alone)
                             /\ (att'[d].pc \in Working => att[d].pc \in Working)
      BY <2>6 DEF Stays
    <3> QED
      BY <1>6, <2>1, <3>1
  <2> QED
    BY <2>2, <2>3, <2>4, <2>5, <2>6, StayCases
<1> QED
  BY <1>1, <1>2, <1>3, <1>4, <1>5, <1>6 DEF Serving

\* Numbers, to compare checkpoints with.
LEMMA Numbers ==
  ASSUME Typed
  PROVE  /\ now \in Nat
         /\ \A b \in Attempt : /\ att[b].first \in Nat /\ att[b].step \in Nat
                               /\ att[b].count \in Nat /\ att[b].saves \in Nat
                               /\ att[b].kept \subseteq Nat
         /\ \A row \in rows : /\ row.at \in Nat /\ row.count \in Nat /\ row.next \in Nat
                              /\ row.run \in Attempt /\ row.run # 0 /\ row \in Row
<1>1. ASSUME NEW b \in Attempt
      PROVE  /\ att[b].first \in Nat /\ att[b].step \in Nat
             /\ att[b].count \in Nat /\ att[b].saves \in Nat /\ att[b].kept \subseteq Nat
  <2>1. att[b] \in AttemptState
    BY DEF Typed, TypeOK
  <2> QED
    BY <2>1, WorkflowAssumption DEF AttemptState, Step
<1>2. \A row \in rows : /\ row.at \in Nat /\ row.count \in Nat /\ row.next \in Nat
                        /\ row.run \in Attempt /\ row.run # 0 /\ row \in Row
  BY WorkflowAssumption DEF Typed, TypeOK, Row, Attempt
<1> QED
  BY <1>1, <1>2 DEF Typed, TypeOK

LEMMA NextAhead ==
  Typed /\ Identified /\ Dated /\ Serving /\ Ahead /\ Bettered /\ [Next]_vars => Ahead'
<1> SUFFICES ASSUME Typed, Identified, Dated, Serving, Ahead, Bettered, [Next]_vars,
                    NEW a \in Attempt, NEW r, att'[a].run = r, att'[a].pc \in Working, Sound(r)'
             PROVE  /\ \A b \in Attempt \ {a} : att'[b].run = r =>
                         \A k \in att'[b].kept : k < att'[a].first
                    /\ \A x \in Open' : x.run = r => x.at < now' \/ x.count <= att'[a].count
  BY DEF Ahead, Sound, RunOf
<1> DEFINE Leads == \A b \in Attempt \ {a} : att'[b].run = r =>
                      \A k \in att'[b].kept : k < att'[a].first
           Newest == \A x \in Open' : x.run = r => x.at < now' \/ x.count <= att'[a].count
<1>1. r \in Attempt /\ r # 0
  BY NextTyped, WorkflowAssumption DEF Typed, Placed, Attempt
<1>2. Sound(r)
  BY <1>1, SoundBefore
<1>3. /\ now \in Nat /\ now' \in Nat /\ now <= now'
      /\ \A row \in rows : row.at \in Nat /\ row.count \in Nat /\ row.at <= now /\ row \in Row
      /\ \A b \in Attempt : att[b].count \in Nat /\ att'[b].count \in Nat
  <2>1. \A b \in Attempt : att[b] \in AttemptState /\ att'[b] \in AttemptState
    BY NextTyped DEF Typed, TypeOK
  <2>2. \A b \in Attempt : att[b].count \in Nat /\ att'[b].count \in Nat
    BY <2>1 DEF AttemptState
  <2> QED
    BY <2>2, Numbers, Clock DEF Dated
<1>4. ASSUME att[a].pc \in Working, att[a].run = r
      PROVE  /\ \A b \in Attempt \ {a} : att[b].run = r => \A k \in att[b].kept : k < att[a].first
             /\ \A row \in Open : row.run = r => row.at < now \/ row.count <= att[a].count
  BY <1>2, <1>4 DEF Ahead, RunOf
<1>5. CASE /\ \A b \in Attempt : Stays(b)
           /\ \A x \in rows' : \E row \in rows : Was(x, row)
  <2>1. /\ att[a].pc \in Working /\ att[a].run = r /\ att'[a].first = att[a].first
        /\ att'[a].count >= att[a].count
    BY <1>5 DEF Stays
  <2>2. Leads
    BY <1>4, <1>5, <2>1 DEF Stays
  <2>3. ASSUME NEW x \in Open', x.run = r PROVE x.at < now' \/ x.count <= att'[a].count
    <3>1. PICK row \in Open : Was(x, row)
      BY <1>5, <2>3, OpenBefore DEF Open
    <3>2. row \in rows /\ x.at = row.at /\ x.count = row.count /\ row.run = r
      BY <2>3, <3>1 DEF Was, Open
    <3>3. row.at < now \/ row.count <= att[a].count
      BY <1>4, <2>1, <3>1, <3>2
    <3> QED
      BY <1>3, <2>1, <3>2, <3>3
  <2> QED
    BY <2>2, <2>3
<1>6. ASSUME NEW c \in Attempt, Send(c) PROVE Leads /\ Newest
  <2>1. /\ rows' = rows /\ now' = now /\ att[c].pc = "idle" /\ att'[c].run = c
        /\ att'[c].kept = {} /\ att'[c].count \in Nat
        /\ \A d \in Attempt \ {c} : att'[d] = att[d]
    BY <1>3, <1>6, SendKeeps
  <2>2. /\ \A d \in Attempt : att[d].run # c
        /\ \A row \in rows : row.run # c
    BY <2>1, WorkflowAssumption DEF Serving, Attempt
  <2>3. CASE a = c
    BY <2>1, <2>2, <2>3 DEF Open
  <2>4. CASE a # c
    <3>1. att'[a] = att[a]
      BY <2>1, <2>4
    <3> QED
      BY <1>4, <2>1, <2>4, <3>1 DEF Open
  <2> QED
    BY <2>3, <2>4
<1>7. ASSUME NEW c \in Attempt, Resume(c) PROVE Leads /\ Newest
  <2>1. /\ rows' = rows /\ now' = now /\ att'[c].pc = "validated" /\ att'[c].kept = {}
        /\ \A d \in Attempt \ {c} : att'[d] = att[d]
    BY <1>7, ResumeKeeps
  <2>2. a # c /\ att'[a] = att[a]
    BY <2>1 DEF Working
  <2> QED
    BY <1>4, <2>1, <2>2 DEF Open
<1>8. ASSUME NEW c \in Attempt, Locate(c) PROVE Leads /\ Newest
  <2>1. PICK row \in Latest :
          /\ row \in rows /\ att[c].pc = "validated" /\ UNCHANGED <<now, rows>>
          /\ att'[c].run = row.run /\ att'[c].first = row.next /\ att'[c].count = row.count
          /\ att'[c].kept = att[c].kept
          /\ \A d \in Attempt \ {c} : Stays(d)
    BY <1>8, LocateKeeps
  <2>2. att'[c].kept = {} /\ rows' = rows /\ now' = now
    BY <2>1 DEF Serving
  <2>3. CASE a = c
    <3>1. row \in Open /\ \A other \in Open : ~Newer(other, row)
      BY <2>1 DEF Latest
    <3>2. ASSUME NEW b \in Attempt \ {a}, att'[b].run = r, NEW k \in att'[b].kept, ~(k < row.next) PROVE FALSE
      <4>1. b \in Attempt /\ att[b].run = row.run /\ k \in att[b].kept
        BY <2>1, <2>3, <3>2 DEF Stays
      <4>2. k \in Nat /\ row.next \in Nat
        BY <2>1, <4>1, Numbers
      <4>3. k >= row.next
        BY <3>2, <4>2
      <4>4. \E other \in Open : Newer(other, row)
        BY <1>2, <2>1, <2>3, <3>1, <4>1, <4>3 DEF Bettered
      <4> QED
        BY <3>1, <4>4
    <3>3. ASSUME NEW x \in Open', x.run = r PROVE x.at < now' \/ x.count <= row.count
      <4>1. x \in Open /\ x \in rows
        BY <2>2, <3>3 DEF Open
      <4>2. ~Newer(x, row)
        BY <3>1, <4>1
      <4> QED
        BY <1>3, <2>1, <2>2, <4>1, <4>2 DEF Newer
    <3> QED
      BY <2>1, <2>3, <3>2, <3>3
  <2>4. CASE a # c
    <3>1. /\ att[a].pc \in Working /\ att[a].run = r /\ att'[a].first = att[a].first
          /\ att'[a].count >= att[a].count
      BY <2>1, <2>4 DEF Stays
    <3>2. \A b \in Attempt \ {c} : att'[b].run = att[b].run /\ att'[b].kept = att[b].kept
      BY <2>1 DEF Stays
    <3>3. Leads
      BY <1>4, <2>2, <3>1, <3>2
    <3>4. \A x \in Open : x \in rows
      BY DEF Open
    <3>5. Open' = Open
      BY <2>2 DEF Open
    <3> QED
      BY <1>3, <1>4, <2>2, <3>1, <3>3, <3>4, <3>5
  <2> QED
    BY <2>3, <2>4
<1>9. ASSUME NEW c \in Attempt, Save(c) PROVE Leads /\ Newest
  <2>1. /\ rows' = rows \union {Checkpoint(c)} /\ now' = now /\ att[c].pc \in Working
        /\ \A b \in Attempt \ {c} : att'[b] = att[b]
        /\ att'[c].run = att[c].run
        /\ att'[c].pc = "working" => /\ att'[c].first = att[c].first
                                     /\ att'[c].count = att[c].count + 1
        /\ att'[c].pc \in {"working", "finishing", "ended"}
    BY <1>9, SaveKeeps DEF Working
  <2>2. Checkpoint(c).run = att[c].run /\ Checkpoint(c).count = att[c].count + 1
    BY DEF Checkpoint
  <2>3. \A x \in Open' : x \in Open \/ x = Checkpoint(c)
    BY <2>1 DEF Open
  <2>4. CASE a = c
    <3>1. att'[a].first = att[a].first /\ att'[a].count = att[a].count + 1
      BY <2>1, <2>4 DEF Working
    <3>2. att[a].pc \in Working /\ att[a].run = r
      BY <2>1, <2>4
    <3>3. Leads
      BY <1>4, <2>1, <2>4, <3>1, <3>2
    <3>4. \A x \in Open : x \in rows
      BY DEF Open
    <3> QED
      BY <1>3, <1>4, <2>1, <2>2, <2>3, <2>4, <3>1, <3>2, <3>3, <3>4
  <2>5. CASE a # c
    <3>1. att'[a] = att[a]
      BY <2>1, <2>5
    <3>2. att[c].run # r
      <4>1. att[a].alone
        BY <1>1, <1>2, <3>1 DEF Sound, RunOf
      <4> QED
        BY <2>1, <2>5, <3>1, <4>1 DEF Serving
    <3>3. Leads
      BY <1>4, <2>1, <3>1, <3>2
    <3> QED
      BY <1>4, <2>1, <2>2, <2>3, <3>1, <3>2, <3>3
  <2> QED
    BY <2>4, <2>5
<1> QED
  BY <1>5, <1>6, <1>7, <1>8, <1>9, StayCases

\* A newer checkpoint of a sound run, or one that is newer still, outlives the
\* step that leaves the older one.
LEMMA Survives ==
  ASSUME Typed, Identified, Dated, Serving, Bettered, [Next]_vars,
         NEW v \in Open, NEW x \in Open', Was(x, v), Sound(v.run)',
         NEW y \in Open, y.run = v.run, Newer(y, v)
  PROVE  \E z \in Open' : z.run = v.run /\ Newer(z, x) /\ z.next >= y.next
<1>1. /\ \A row \in Open : /\ row \in rows /\ row.at \in Nat /\ row.count \in Nat
                           /\ row.next \in Nat /\ row.run # 0 /\ row \in Row
      /\ x.at = v.at /\ x.count = v.count /\ Id(x) = Id(v)
  BY Numbers DEF Open, Was
<1>2. Sound(v.run)
  BY <1>1, SoundBefore
<1>3. ASSUME NEW w \in Open, NEW z \in Open', Was(z, w), w.run = v.run, Newer(w, v),
             w.next >= y.next
      PROVE  \E u \in Open' : u.run = v.run /\ Newer(u, x) /\ u.next >= y.next
  BY <1>1, <1>3 DEF Was, Newer
<1>4. ASSUME NEW a \in Attempt, Mark(a), y \in TargetRows(a)
      PROVE  \E u \in Open' : u.run = v.run /\ Newer(u, x) /\ u.next >= y.next
  <2>1. att[a].run = v.run
    BY <1>4 DEF Serving
  <2>2. att'[a].pc = "marked" /\ att'[a].saves = att[a].saves /\ att'[a].run = v.run
    <3>1. att[a] \in AttemptState
      BY DEF Typed, TypeOK
    <3>2. att'[a] = [att[a] EXCEPT !.pc = "marked"]
      BY <1>4 DEF Mark, Typed, TypeOK
    <3> QED
      BY <2>1, <3>1, <3>2 DEF AttemptState
  <2>3. att'[a].saves # 0
    BY <2>2 DEF Sound, RunOf, Barren
  <2>4. att[a].saves > 0
    BY <2>2, <2>3, Numbers
  <2>5. PICK w \in Open : w.run = v.run /\ Newer(w, y) /\ w.next >= y.next
    BY <1>2, <1>4, <2>1, <2>4 DEF Bettered
  <2>6. w \notin TargetRows(a)
    <3>1. w # y
      BY <1>1, <2>5 DEF Newer
    <3> QED
      BY <1>1, <1>4, <3>1 DEF TargetRows, Identified
  <2>7. w \in Open'
    BY <1>4, <2>6 DEF Mark, Open
  <2>8. Newer(w, v)
    BY <1>1, <2>5 DEF Newer
  <2> QED
    BY <1>1, <1>3, <2>5, <2>7, <2>8 DEF Was
<1>5. CASE DeleteExpired /\ y \in Expired
  <2>1. v.at <= y.at
    BY <1>1 DEF Newer
  <2>2. v.expires # Never
    BY <1>5, <2>1 DEF Dated, Expired
  <2>3. v.expires < now
    BY <2>2 DEF Dated, Open
  <2>4. x = v
    BY <1>1, <1>5 DEF DeleteExpired, Open, Identified
  <2> QED
    BY <1>1, <1>5, <2>2, <2>3, <2>4 DEF DeleteExpired, Expired, Open
<1>6. CASE \E z \in Open' : Was(z, y)
  BY <1>1, <1>3, <1>6
<1> QED
  BY <1>4, <1>5, <1>6, OpenForward

LEMMA NextBettered ==
  Typed /\ Identified /\ Dated /\ Serving /\ Ahead /\ Bettered /\ [Next]_vars => Bettered'
<1> SUFFICES ASSUME Typed, Identified, Dated, Serving, Ahead, Bettered, [Next]_vars,
                    NEW x \in Open', NEW b \in Attempt, att'[b].run = x.run, Sound(x.run)'
             PROVE  /\ \A k \in att'[b].kept : k >= x.next =>
                         \E z \in Open' : z.run = x.run /\ Newer(z, x) /\ z.next > k
                    /\ att'[b].saves > 0 /\ x \in TargetRows(b)' =>
                         \E z \in Open' : z.run = x.run /\ Newer(z, x) /\ z.next >= x.next
  BY DEF Bettered
<1> DEFINE Knows == \A k \in att'[b].kept : k >= x.next =>
                      \E z \in Open' : z.run = x.run /\ Newer(z, x) /\ z.next > k
           Leaves == att'[b].saves > 0 /\ x \in TargetRows(b)' =>
                       \E z \in Open' : z.run = x.run /\ Newer(z, x) /\ z.next >= x.next
<1>1. /\ now \in Nat
      /\ \A c \in Attempt : /\ att[c].first \in Nat /\ att[c].step \in Nat
                            /\ att[c].count \in Nat /\ att[c].kept \subseteq Nat
      /\ \A row \in Open : /\ row.at \in Nat /\ row.count \in Nat /\ row.next \in Nat
                           /\ row.run \in Attempt /\ row.run # 0 /\ row \in rows
                           /\ row \in Row /\ row.at <= now
  BY Numbers DEF Open, Dated
<1>2. ASSUME NEW v \in Open, Was(x, v), att[b].run = v.run, att'[b].kept = att[b].kept,
             att'[b].saves = att[b].saves, att'[b].target = att[b].target
      PROVE  Knows /\ Leaves
  <2>1. x.run = v.run /\ x.next = v.next /\ Sound(v.run) /\ Sound(v.run)'
    BY <1>1, <1>2, SoundBefore DEF Was
  <2>2. ASSUME NEW k \in att'[b].kept, k >= x.next
        PROVE  \E z \in Open' : z.run = x.run /\ Newer(z, x) /\ z.next > k
    <3>1. PICK y \in Open : y.run = v.run /\ Newer(y, v) /\ y.next > k
      BY <1>2, <2>1, <2>2 DEF Bettered
    <3>2. PICK z \in Open' : z.run = v.run /\ Newer(z, x) /\ z.next >= y.next
      BY <1>2, <2>1, <3>1, Survives
    <3>3. z.next \in Nat /\ y.next \in Nat /\ k \in Nat
      <4>1. z \in Row
        BY NextTyped DEF Open, Typed, TypeOK
      <4> QED
        BY <1>1, <1>2, <2>2, <4>1, WorkflowAssumption DEF Row
    <3> QED
      BY <2>1, <3>1, <3>2, <3>3
  <2>3. ASSUME att'[b].saves > 0, x \in TargetRows(b)'
        PROVE  \E z \in Open' : z.run = x.run /\ Newer(z, x) /\ z.next >= x.next
    <3>1. v \in TargetRows(b)
      BY <1>1, <1>2, <2>3 DEF TargetRows, Was
    <3>2. PICK y \in Open : y.run = v.run /\ Newer(y, v) /\ y.next >= v.next
      BY <1>2, <2>1, <2>3, <3>1 DEF Bettered
    <3>3. PICK z \in Open' : z.run = v.run /\ Newer(z, x) /\ z.next >= y.next
      BY <1>2, <2>1, <3>2, Survives
    <3>4. z.next \in Nat
      <4>1. z \in Row
        BY NextTyped DEF Open, Typed, TypeOK
      <4> QED
        BY <4>1, WorkflowAssumption DEF Row
    <3> QED
      BY <1>1, <2>1, <3>2, <3>3, <3>4
  <2> QED
    BY <2>2, <2>3
<1>3. CASE /\ \A c \in Attempt : Stays(c)
           /\ \A y \in rows' : \E row \in rows : Was(y, row)
  <2>1. PICK v \in Open : Was(x, v)
    BY <1>3, OpenBefore DEF Open
  <2>2. att[b].run = v.run
    BY <1>3, <2>1 DEF Stays, Was
  <2> QED
    BY <1>2, <1>3, <2>1, <2>2 DEF Stays
<1>4. ASSUME NEW a \in Attempt, Send(a) PROVE Knows /\ Leaves
  <2>1. /\ rows' = rows /\ att[a].pc = "idle" /\ att'[a].run = a
        /\ \A c \in Attempt \ {a} : att'[c] = att[c]
    BY <1>4, SendKeeps
  <2>2. x \in Open /\ Was(x, x)
    BY <1>1, <2>1 DEF Open, Was
  <2>3. b # a
    BY <1>1, <2>1, <2>2 DEF Serving
  <2> QED
    BY <1>2, <2>1, <2>2, <2>3
<1>5. ASSUME NEW a \in Attempt, Resume(a) \/ Locate(a) PROVE Knows /\ Leaves
  <2>1. /\ rows' = rows /\ att'[a].kept = {} /\ att'[a].saves = 0
        /\ \A c \in Attempt \ {a} : Stays(c)
    BY <1>5, ResumeKeeps, LocateKeeps, SameStays DEF Serving
  <2>2. x \in Open /\ Was(x, x)
    BY <1>1, <2>1 DEF Open, Was
  <2>3. CASE b = a
    BY <2>1, <2>3
  <2>4. CASE b # a
    BY <1>2, <2>1, <2>2, <2>4 DEF Stays
  <2> QED
    BY <2>3, <2>4
<1>6. ASSUME NEW a \in Attempt, Save(a) PROVE Knows /\ Leaves
  <2> DEFINE new == Checkpoint(a)
  <2>1. /\ rows' = rows \union {new} /\ att[a].pc = "saving" /\ att[a].pc \in Working
        /\ \A c \in Attempt \ {a} : att'[c] = att[c]
        /\ att'[a].run = att[a].run /\ att'[a].target = att[a].target
        /\ att'[a].kept = att[a].first .. (att[a].step - 1)
    BY <1>6, SaveKeeps DEF Working
  <2>2. /\ new.run = att[a].run /\ new.next = att[a].step /\ new.at = now
        /\ new.count = att[a].count + 1 /\ ~new.completed
    BY DEF Checkpoint
  <2>3. /\ \A c \in Attempt : att[c].target # Id(new)
        /\ \A row \in rows : Id(row) # Id(new)
    BY <2>1, CheckpointNew
  <2>4. att[a].first <= att[a].step
    BY <2>1 DEF Serving
  <2>5. new \in Open' /\ (x \in Open \/ x = new)
    BY <2>1, <2>2 DEF Open
  <2>6. att[b].run = x.run
    BY <2>1
  <2>7. Sound(x.run)
    <3>1. x.run # 0
      BY <1>1, <2>1, <2>2, <2>5, WorkflowAssumption DEF Typed, Placed, Attempt
    <3> QED
      BY <3>1, SoundBefore
  <2> HIDE DEF new
  <2>8. CASE x = new
    <3>1. Leaves
      <4>1. Id(new) # att'[b].target
        BY <2>1, <2>3
      <4> QED
        BY <2>8, <4>1 DEF TargetRows
    <3>2. ASSUME NEW k \in att'[b].kept, k >= new.next PROVE FALSE
      <4>1. CASE b = a
        BY <1>1, <2>1, <2>2, <3>2, <4>1
      <4>2. CASE b # a
        <5>1. k \in att[b].kept /\ att[b].run = att[a].run
          BY <2>1, <2>2, <2>6, <2>8, <3>2, <4>2
        <5>2. k < att[a].first
          BY <2>1, <2>2, <2>7, <2>8, <4>2, <5>1 DEF Ahead, RunOf
        <5>3. k \in Nat
          BY <1>1, <5>1
        <5> QED
          BY <1>1, <2>2, <2>4, <3>2, <5>2, <5>3
      <4> QED
        BY <4>1, <4>2
    <3> QED
      BY <2>8, <3>1, <3>2
  <2>9. CASE x \in Open /\ b # a
    <3>1. Was(x, x)
      BY <1>1, <2>9 DEF Was
    <3> QED
      BY <1>2, <2>1, <2>6, <2>9, <3>1
  <2>10. CASE x \in Open /\ b = a
    <3>1. Newer(new, x)
      <4>1. x.at < now \/ x.count <= att[a].count
        BY <2>1, <2>6, <2>7, <2>10 DEF Ahead
      <4> QED
        BY <1>1, <2>2, <2>10, <4>1 DEF Newer
    <3>2. new.run = x.run
      BY <2>2, <2>6, <2>10
    <3>3. Knows
      <4>1. \A k \in att'[b].kept : new.next > k
        BY <1>1, <2>1, <2>2, <2>10
      <4> QED
        BY <2>5, <3>1, <3>2, <4>1
    <3>4. Leaves
      <4>1. ASSUME x \in TargetRows(b)' PROVE new.next >= x.next
        <5>1. x \in TargetRows(a)
          BY <1>1, <2>1, <2>10, <4>1 DEF TargetRows
        <5>2. x.next = att[a].first
          BY <2>1, <5>1 DEF Serving
        <5> QED
          BY <2>2, <2>4, <5>2
      <4> QED
        BY <2>5, <3>1, <3>2, <4>1
    <3> QED
      BY <3>3, <3>4
  <2> QED
    BY <2>5, <2>8, <2>9, <2>10
<1> QED
  BY <1>3, <1>4, <1>5, <1>6, StayCases

------------------------------------------------------------------------------
(* The theorems.                                                            *)

\* "Every executed step carries the same snapshot": a step of the run that was
\* sent, or of a resume of it, can read the outputs of all the steps before it.
THEOREM OutputsAlwaysKept == Spec => []OutputsKept
<1>1. Typed /\ Carried => OutputsKept
  BY DEF Carried, OutputsKept, Working
<1> QED
  BY <1>1, AlwaysTyped, InitCarried, NextCarried, PTL DEF Spec

LEMMA AlwaysAnswered == Spec => [](Identified /\ Answered)
BY AlwaysTyped, InitIdentified, NextIdentified, InitAnswered, NextAnswered, PTL DEF Spec

\* A paused checkpoint is completed only when its request has had an answer, or
\* the resume had found another one when it was checked.
THEOREM PausesAnswered == Spec => []AskedIsAnswered
<1>1. Answered => AskedIsAnswered
  BY DEF Answered
<1> QED
  BY <1>1, AlwaysAnswered, PTL

\* The sweep deletes no checkpoint inside the retention window, and leaves no
\* open one behind that is older than one it deletes.
THEOREM OldestTaken == Spec => SweepTakesOldest
<1>1. ASSUME Typed, Dated, [Next]_vars
      PROVE  \A row \in rows : (\A kept \in rows' : Id(kept) # Id(row)) =>
               /\ now - row.at > Ttl
               /\ \A kept \in Open' : ~row.completed => kept.at >= row.at
  BY <1>1, RowsStay, DeleteOldest
<1>2. Typed /\ Dated /\ [Next]_vars =>
        [\A row \in rows : (\A kept \in rows' : Id(kept) # Id(row)) =>
           /\ now - row.at > Ttl
           /\ \A kept \in Open' : ~row.completed => kept.at >= row.at]_vars
  BY <1>1
<1>3. Spec => []Dated
  BY AlwaysTyped, AlwaysAnswered, InitDated, NextDated, PTL DEF Spec
<1> QED
  BY <1>2, <1>3, AlwaysTyped, PTL DEF Spec, SweepTakesOldest

\* "Resume does not redo completed steps": as long as the attempts of a run do
\* not overlap and none completes its target without a checkpoint of its own, a
\* step whose completion was saved is not run again.
THEOREM StepsRunOnce == Spec => NoStepRedone
<1>1. ASSUME Typed, Serving, Ahead, NEW a \in Attempt, Executes(a), Sound(att[a].run),
             NEW b \in RunOf(att[a].run) \ {a}
      PROVE  att[a].step \notin att[b].kept
  <2>1. att[a].pc \in Working
    BY <1>1 DEF Executes, Working
  <2>2. att[a].first <= att[a].step
    BY <1>1, <2>1 DEF Serving
  <2>3. \A k \in att[b].kept : k < att[a].first
    BY <1>1, <2>1 DEF Ahead
  <2>4. b \in Attempt
    BY DEF RunOf
  <2>5. att[a].first \in Nat /\ att[a].step \in Nat
    BY <1>1, Numbers
  <2> QED
    BY <2>2, <2>3, <2>5
<1>2. Typed /\ Serving /\ Ahead =>
        [\A a \in Attempt : Executes(a) /\ Sound(att[a].run)
           => \A b \in RunOf(att[a].run) \ {a} : att[a].step \notin att[b].kept]_vars
  BY <1>1
<1>3. Spec => [](Identified /\ Dated)
  BY AlwaysTyped, AlwaysAnswered, InitDated, NextDated, PTL DEF Spec
<1>4. Spec => [](Serving /\ Ahead /\ Bettered)
  BY <1>3, AlwaysTyped, InitServing, NextServing, NextAhead, NextBettered, PTL DEF Spec
<1> QED
  BY <1>2, <1>4, AlwaysTyped, PTL DEF Spec, NoStepRedone

------------------------------------------------------------------------------
(* The graph of a definition.  The comment of validate_branches says that   *)
(* it is enough to search the branches for a cycle, because the chain       *)
(* cannot close one.  It cannot: no edge of the chain enters a step that    *)
(* branches, and along the chain the steps increase.                        *)

\* A set of steps that is not empty has a last one.
LEMMA LastStep ==
  ASSUME NEW T \in SUBSET Node, T # {}
  PROVE  \E s \in T : \A t \in T : s >= t
<1> DEFINE Above(s) == {t \in T : t > s}
           Aboves == {Above(s) : s \in T}
           R == StrictSubsetOrdering(T)
<1>1. T \subseteq Int /\ IsFiniteSet(T)
  <2>1. Size \in Int /\ IsFiniteSet(1 .. Size)
    BY WorkflowGraphAssumption, FS_Interval
  <2>2. IsFiniteSet(T)
    BY <2>1, FS_Subset, Zenon DEF Node
  <2> QED  BY <2>1, <2>2 DEF Node
<1>2. IsWellFoundedOn(R, FiniteSubsetsOf(T))
  BY FS_StrictSubsetOrderingWellFounded
<1>3. Aboves \subseteq FiniteSubsetsOf(T) /\ Aboves # {}
  <2>1. \A s \in T : Above(s) \in SUBSET T
    OBVIOUS
  <2>2. \A s \in T : IsFiniteSet(Above(s))
    BY <2>1, <1>1, FS_Subset, Zenon
  <2> QED  BY <2>1, <2>2 DEF FiniteSubsetsOf
<1> HIDE DEF Aboves, R
<1>4. PICK X \in Aboves : \A Y \in Aboves : ~ (<<Y, X>> \in R)
  BY <1>2, <1>3, WFMin
<1>5. PICK s \in T : X = Above(s)
  BY <1>4 DEF Aboves
<1>6. ASSUME NEW t \in T, t > s PROVE FALSE
  <2>1. Above(t) \in Aboves
    BY DEF Aboves
  <2>2. Above(t) \subseteq X /\ t \in X /\ t \notin Above(t)
    <3>1. s \in Int /\ t \in Int /\ ~(t > t)
      BY <1>1, <1>6
    <3>2. \A u \in T : u > t => u > s
      BY <3>1, <1>1, <1>6
    <3> QED  BY <3>1, <3>2, <1>5, <1>6
  <2>3. <<Above(t), X>> \in R
    BY <2>2, <1>5 DEF R, StrictSubsetOrdering
  <2> QED  BY <2>1, <2>3, <1>4
<1> QED  BY <1>6, <1>1

\* The code looks for cycles in the branch edges alone.  For every set of
\* branches between steps: when these have none, the graph has none.
THEOREM BranchesDecide ==
  ASSUME NEW branches \in SUBSET Branch, Acyclic(BranchEdges(branches))
  PROVE  Acyclic(Edges(branches))
<1> DEFINE Chained == Node \ Sources(branches)
<1>1. \A s \in Sources(branches), t \in Node :
        <<s, t>> \in Edges(branches) => <<s, t>> \in BranchEdges(branches)
  BY DEF Edges, ChainEdges
<1>2. \A s \in Chained, t \in Node :
        <<s, t>> \in Edges(branches) => t \in Chained /\ s < t
  <2> SUFFICES ASSUME NEW s \in Chained, NEW t \in Node, <<s, t>> \in Edges(branches)
               PROVE  t \in Chained /\ s < t
    OBVIOUS
  <2>1. <<s, t>> \notin BranchEdges(branches)
    BY DEF BranchEdges, Sources
  <2> QED  BY <2>1 DEF Edges, ChainEdges
<1>3. SUFFICES ASSUME NEW S \in SUBSET Node, S # {}
               PROVE  \E s \in S : \A t \in S : <<s, t>> \notin Edges(branches)
  BY DEF Acyclic
<1>4. CASE S \subseteq Sources(branches)
  <2>1. PICK s \in S : \A t \in S : <<s, t>> \notin BranchEdges(branches)
    BY <1>3 DEF Acyclic
  <2> QED  BY <2>1, <1>1, <1>4
<1>5. CASE ~(S \subseteq Sources(branches))
  <2> DEFINE T == S \intersect Chained
  <2>1. T # {} /\ T \subseteq Node
    BY <1>5
  <2>3. PICK s \in T : \A t \in T : s >= t
    BY <2>1, LastStep
  <2>4. \A t \in S : <<s, t>> \notin Edges(branches)
    <3> SUFFICES ASSUME NEW t \in S, <<s, t>> \in Edges(branches) PROVE FALSE
      OBVIOUS
    <3>1. t \in Chained /\ s < t
      BY <1>2
    <3>2. s >= t
      BY <3>1, <2>3
    <3> QED  BY <3>1, <3>2, <2>1 DEF Node
  <2> QED  BY <2>4
<1> QED  BY <1>4, <1>5

------------------------------------------------------------------------------
(* The composition.                                                         *)

\* A behaviour of Chat is one of the workflow and one of the agent.
LEMMA ChatIsEach == ChatSpec => Spec /\ AgentSpec
<1>1. ChatInit => Init /\ AgentInit
  BY Zenon DEF ChatInit
<1>2. [ChatNext]_chatVars => [Next]_vars
  BY Zenon DEF ChatNext, chatVars
<1>3. [ChatNext]_chatVars => [AgentNext]_agentVars
  BY Zenon DEF ChatNext, chatVars
<1> QED
  BY <1>1, <1>2, <1>3, PTL DEF ChatSpec, Spec, AgentSpec

\* Whichever of the two answers a message, the state of both has its type.
THEOREM ChatTypeCorrect == ChatSpec => []ChatTypeOK
  BY ChatIsEach, TypeCorrect, AgentTypeCorrect, PTL DEF ChatTypeOK

\* Every other safety property that the run "workflow" checks, of the behaviours
\* that it checks them of, whatever the number of steps, attempts, rounds and calls.
THEOREM ChatIsSafe ==
  ChatSpec => /\ [](OutputsKept /\ AskedIsAnswered)
              /\ SweepTakesOldest /\ NoStepRedone
              /\ [](SubagentsWhole /\ LimitsAreSaid /\ ShownIsKept)
  BY ChatIsEach, OutputsAlwaysKept, PausesAnswered, OldestTaken, StepsRunOnce,
     SubagentsAreWhole, LimitsSaid, ShownStaysKept, PTL
==============================================================================
