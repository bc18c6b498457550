--------------------------- MODULE A2ATask_proofs ---------------------------
(***************************************************************************)
(* Proofs about A2ATask for any sets of resumers and cancellers: type      *)
(* correctness, that an answer never replaces another outcome, that a      *)
(* cancel which comes before the agent keeps the agent from starting, and  *)
(* who is able to replace an outcome.                                      *)
(***************************************************************************)
EXTENDS A2ATask, TLAPS

\* The runner has not started its agent.
Early == pc[Runner] \in {"start", "begin", "recheck", "preflight"}

\* Until the agent is started nobody can have resumed the task, and whoever is
\* about to write CANCELED, or did, has left the flag for the runner to see.
CancelFlagged ==
  /\ pc[Runner] \notin {"idle", "context"}
  /\ Early =>
           /\ state \in {"SUBMITTED", "WORKING", "CANCELED"}
           /\ \A r \in Resumers : pc[r] = "idle"
           /\ state = "CANCELED" => "stream" \in flags
           /\ \A c \in Cancellers : pc[c] = "write" => "stream" \in flags

Inv == TypeOK /\ CancelFlagged

USE A2ATaskAssumption

------------------------------------------------------------------------------
LEMMA InitInv == Init => Inv
<1> SUFFICES ASSUME Init PROVE Inv
  OBVIOUS
<1> USE DEF Init
<1>1. pc \in [Actors -> PC]
  BY DEF PC, Open, Collected, Over
<1>2. TypeOK
  BY <1>1 DEF TypeOK, State, Actors, Suspended, Terminal
<1>3. CancelFlagged
  BY DEF CancelFlagged, Early, Actors
<1> QED
  BY <1>2, <1>3 DEF Inv

\* A write leaves behind only actors whose transaction stays open.
LEMMA WriteTyped ==
  ASSUME TypeOK, NEW a \in Actors, NEW s \in State, NEW there \in PC,
         Write(a, s) \/ Refused(a), Goto(a, there)
  PROVE  /\ state' \in State
         /\ pc' \in [Actors -> PC]
         /\ changed' \subseteq {x \in Actors : pc'[x] \in Open}
BY DEF TypeOK, Write, Refused, Goto

\* An actor that leaves the row alone, and stays behind it or catches up.
LEMMA MoveTyped ==
  ASSUME TypeOK, NEW a \in Actors, NEW there \in PC, Goto(a, there),
         changed' = changed \ {a} \/ (changed' = changed /\ (there \in Open \/ pc[a] \notin Open))
  PROVE  /\ pc' \in [Actors -> PC]
         /\ changed' \subseteq {x \in Actors : pc'[x] \in Open}
BY DEF TypeOK, Goto

LEMMA TypedStep == TypeOK /\ [Next]_vars => TypeOK'
<1> SUFFICES ASSUME TypeOK, [Next]_vars PROVE TypeOK'
  OBVIOUS
<1> USE DEF PC, Open, Collected, Over, State, Suspended, Terminal
<1>a. Runner \in Actors /\ Workers \subseteq Actors /\ Resumers \subseteq Actors /\ Cancellers \subseteq Actors
  BY DEF Actors, Workers
<1>b. state \in State
  BY DEF TypeOK
<1>1. CASE Start
  BY <1>1, <1>a, WriteTyped, MoveTyped DEF Start, TypeOK
<1>2. CASE Begin
  BY <1>2, <1>a, WriteTyped, MoveTyped DEF Begin, TypeOK
<1>3. CASE Recheck
  BY <1>3, <1>a, WriteTyped, MoveTyped DEF Recheck, TypeOK
<1>4. ASSUME NEW a \in Workers, Context(a) PROVE TypeOK'
  BY <1>4, <1>a, MoveTyped DEF Context, TypeOK
<1>5. ASSUME NEW a \in Workers, PreflightStops(a) PROVE TypeOK'
  BY <1>5, <1>a, WriteTyped DEF PreflightStops, RecordFailure, TypeOK
<1>6. ASSUME NEW a \in Workers, PreflightPasses(a) PROVE TypeOK'
  BY <1>6, <1>a, MoveTyped DEF PreflightPasses, TypeOK
<1>7. ASSUME NEW a \in Workers, AgentAnswers(a) PROVE TypeOK'
  <2>1. asked' \subseteq {"input", "auth"}
    BY <1>7 DEF AgentAnswers, TypeOK
  <2>2. state' \in State /\ pc' \in [Actors -> PC] /\ changed' \subseteq {x \in Actors : pc'[x] \in Open}
    BY <1>7, <1>a, WriteTyped DEF AgentAnswers
  <2> QED
    BY <1>7, <2>1, <2>2 DEF AgentAnswers, TypeOK
<1>8. ASSUME NEW a \in Workers, AgentFails(a) PROVE TypeOK'
  BY <1>8, <1>a, WriteTyped DEF AgentFails, RecordFailure, TypeOK
<1>9. ASSUME NEW a \in Workers, Collect(a) PROVE TypeOK'
  BY <1>9, <1>a, MoveTyped DEF Collect, TypeOK
<1>10. ASSUME NEW a \in Workers, NEW key, NEW s \in Suspended, Suspend(a, key, s) PROVE TypeOK'
  BY <1>10, <1>a, <1>b, WriteTyped DEF Suspend, TypeOK
<1>11. ASSUME NEW a \in Workers, Complete(a) PROVE TypeOK'
  BY <1>11, <1>a, WriteTyped DEF Complete, TypeOK
<1>12. ASSUME NEW a \in Workers, Stumble(a) PROVE TypeOK'
  BY <1>12, <1>a, WriteTyped DEF Stumble, RecordFailure, TypeOK
<1>13. ASSUME NEW r \in Resumers, Resume(r) PROVE TypeOK'
  BY <1>13, <1>a, MoveTyped DEF Resume, Resumable, TypeOK
<1>14. ASSUME NEW c \in Cancellers, CancelRead(c) PROVE TypeOK'
  BY <1>14, <1>a, MoveTyped DEF CancelRead, Final, TypeOK
<1>15. ASSUME NEW c \in Cancellers, SetFlags(c) PROVE TypeOK'
  BY <1>15, <1>a, MoveTyped DEF SetFlags, CancelKeys, TypeOK
<1>16. ASSUME NEW c \in Cancellers, CancelWrite(c) PROVE TypeOK'
  BY <1>16, <1>a, WriteTyped DEF CancelWrite, TypeOK
<1>20. ASSUME NEW c \in Cancellers, LockTimeout(c) PROVE TypeOK'
  BY <1>20, <1>a, MoveTyped DEF LockTimeout, TypeOK
<1>17. CASE FlagsExpire
  BY <1>17 DEF FlagsExpire, TypeOK
<1>18. ASSUME NEW a \in Actors, Break(a) PROVE TypeOK'
  <2>1. pc' \in [Actors -> PC] /\ changed' \subseteq {x \in Actors : pc'[x] \in Open}
    BY <1>18 DEF Break, Goto, TypeOK
  <2> QED
    BY <1>18, <2>1 DEF Break, TypeOK
<1>19. CASE UNCHANGED vars
  BY <1>19 DEF vars, TypeOK
<1> QED
  BY <1>1, <1>2, <1>3, <1>4, <1>5, <1>6, <1>7, <1>8, <1>9, <1>10, <1>11, <1>12,
     <1>13, <1>14, <1>15, <1>16, <1>17, <1>18, <1>19, <1>20
     DEF Next, Work, ToInput, ToAuth, Cancel

------------------------------------------------------------------------------
LEMMA FlaggedStep == Inv /\ [Next]_vars => CancelFlagged'
<1> SUFFICES ASSUME Inv, [Next]_vars PROVE CancelFlagged'
  OBVIOUS
<1> USE DEF Inv, TypeOK, CancelFlagged, Early
<1>a. Runner \in Actors /\ Workers = {Runner} \union Resumers
      /\ Resumers \subseteq Actors /\ Cancellers \subseteq Actors
  BY DEF Actors, Workers
<1>1. CASE Start
  BY <1>1, <1>a DEF Start, Goto, Write, Refused
<1>2. CASE Begin
  BY <1>2, <1>a DEF Begin, Goto, Write, Refused, Final, Terminal
<1>3. CASE Recheck
  BY <1>3, <1>a DEF Recheck, Goto, Write, Refused
\* The runner's own step leads out of the early part, or leaves the row alone.
<1>4. CASE Work(Runner) \/ Stumble(Runner)
  BY <1>4, <1>a DEF Work, Stumble, Context, PreflightStops, PreflightPasses, AgentAnswers, AgentFails,
     RecordFailure, Collect, ToInput, ToAuth, Suspend, Complete, Goto, Collected
\* A resumer at work: the runner is long past its early part.
<1>5. ASSUME NEW r \in Resumers, Work(r) \/ Stumble(r) PROVE CancelFlagged'
  <2>1. pc[r] # "idle"
    BY <1>5 DEF Work, Stumble, Context, PreflightStops, PreflightPasses, AgentAnswers, AgentFails,
       Collect, ToInput, ToAuth, Complete, Collected
  <2>2. pc'[Runner] = pc[Runner]
    BY <1>5, <1>a DEF Work, Stumble, Context, PreflightStops, PreflightPasses, AgentAnswers, AgentFails,
       RecordFailure, Collect, ToInput, ToAuth, Suspend, Complete, Goto
  <2> QED
    BY <2>1, <2>2
<1>6. ASSUME NEW r \in Resumers, Resume(r) PROVE CancelFlagged'
  BY <1>6, <1>a DEF Resume, Resumable, Suspended, Goto
<1>7. ASSUME NEW c \in Cancellers, CancelRead(c) PROVE CancelFlagged'
  BY <1>7, <1>a DEF CancelRead, Goto
<1>8. ASSUME NEW c \in Cancellers, SetFlags(c) PROVE CancelFlagged'
  BY <1>8, <1>a DEF SetFlags, CancelKeys, Goto
<1>9. ASSUME NEW c \in Cancellers, CancelWrite(c) PROVE CancelFlagged'
  BY <1>9, <1>a DEF CancelWrite, Write, Refused, Goto
<1>13. ASSUME NEW c \in Cancellers, LockTimeout(c) PROVE CancelFlagged'
  BY <1>13, <1>a DEF LockTimeout, Goto
<1>10. CASE FlagsExpire
  BY <1>10 DEF FlagsExpire
<1>11. ASSUME NEW a \in Actors, Break(a) PROVE CancelFlagged'
  BY <1>11, <1>a DEF Break, Goto, Over
<1>12. CASE UNCHANGED vars
  BY <1>12 DEF vars
<1> QED
  BY <1>1, <1>2, <1>3, <1>4, <1>5, <1>6, <1>7, <1>8, <1>9, <1>10, <1>11, <1>12, <1>13, <1>a
     DEF Next, Cancel

LEMMA Invariance == Spec => []Inv
<1>1. Init => Inv
  BY InitInv
<1>2. Inv /\ [Next]_vars => Inv'
  BY TypedStep, FlaggedStep DEF Inv
<1> QED
  BY <1>1, <1>2, PTL DEF Spec

\* Every variable keeps its type, a resumer holds a suspended task, and only an
\* open transaction can be older than the row.
THEOREM TypeCorrect == Spec => []TypeOK
<1>1. Inv => TypeOK
  BY DEF Inv
<1> QED
  BY <1>1, Invariance, PTL

\* Only Complete writes COMPLETED, on the state add_artifact refreshed: a task
\* that is final already is not answered.
THEOREM AnsweredOnce == Spec => AnswersOnce
<1> DEFINE Once == state' = "COMPLETED" => state \notin Terminal \/ state = "COMPLETED"
<1>1. [Next]_vars => [Once]_vars
  <2> SUFFICES ASSUME Next, state' = "COMPLETED", state \in Terminal, state # "COMPLETED"
               PROVE  FALSE
    BY DEF vars
  <2>1. \A a : ~RecordFailure(a)
    BY DEF RecordFailure, Write, Refused
  <2>2. \A a : ~ToInput(a) /\ ~ToAuth(a)
    BY DEF ToInput, ToAuth, Suspend, Write, Refused
  <2>3. \A a : ~Complete(a)
    BY DEF Complete, Refreshed, Final, Write, Refused
  <2> QED
    BY <2>1, <2>2, <2>3 DEF Next, Start, Begin, Recheck, Work, Stumble, Context, PreflightStops,
       PreflightPasses, AgentAnswers, AgentFails, Collect, Resume, CancelRead, Cancel, SetFlags,
       CancelWrite, LockTimeout, FlagsExpire, Break, Write, Refused
<1> QED
  BY <1>1, PTL DEF Spec, AnswersOnce

\* A CANCELED task has left its flag where the runner's last check finds it.
THEOREM NeverStartedOnceCanceled == Spec => CanceledNeverStarts
<1> DEFINE Kept == (state = "CANCELED" /\ pc[Runner] = "preflight") => pc'[Runner] # "agent"
<1>1. Inv /\ [Next]_vars => [Kept]_vars
  <2> SUFFICES ASSUME Inv, Next, state = "CANCELED", pc[Runner] = "preflight" PROVE pc'[Runner] # "agent"
    BY DEF vars
  <2> USE DEF Inv, TypeOK
  <2>a. Runner \in Actors /\ Workers = {Runner} \union Resumers
        /\ Resumers \subseteq Actors /\ Cancellers \subseteq Actors
    BY DEF Actors, Workers
  <2>b. "stream" \in flags /\ \A r \in Resumers : pc[r] = "idle"
    BY DEF CancelFlagged, Early
  <2>1. \A a \in Workers : ~PreflightPasses(a)
    BY <2>b DEF PreflightPasses, CancelSeen
  <2>2. CASE Start \/ Begin \/ Recheck
    BY <2>2 DEF Start, Begin, Recheck
  <2>3. ASSUME NEW a \in Workers, Work(a) \/ Stumble(a) PROVE pc'[Runner] # "agent"
    BY <2>3, <2>1, <2>a DEF Work, Stumble, Context, PreflightStops, AgentAnswers, AgentFails,
       RecordFailure, Collect, ToInput, ToAuth, Suspend, Complete, Goto, Collected
  <2>4. ASSUME NEW r \in Resumers, Resume(r) PROVE pc'[Runner] # "agent"
    BY <2>4, <2>a DEF Resume, Goto
  <2>5. ASSUME NEW c \in Cancellers, CancelRead(c) \/ Cancel(c) PROVE pc'[Runner] # "agent"
    BY <2>5, <2>a DEF CancelRead, Cancel, SetFlags, CancelWrite, LockTimeout, Goto
  <2>6. CASE FlagsExpire
    BY <2>6 DEF FlagsExpire
  <2>7. ASSUME NEW a \in Actors, Break(a) PROVE pc'[Runner] # "agent"
    BY <2>7, <2>a DEF Break, Goto
  <2> QED
    BY <2>2, <2>3, <2>4, <2>5, <2>6, <2>7 DEF Next
<1> QED
  BY <1>1, Invariance, PTL DEF Spec, CanceledNeverStarts

------------------------------------------------------------------------------
(* Outcomes.                                                                *)

\* While a stream holds the lock its task is under way and nobody has resumed it;
\* and a cancel whose transaction is not behind the row has an open task before it.
Outstanding ==
  /\ pc[Runner] \in {"start", "recheck"} => kind = "background"
  /\ Locked => state \in {"SUBMITTED", "WORKING"} /\ \A r \in Resumers : pc[r] = "idle"
  /\ \A c \in Cancellers :
       pc[c] \in {"flag", "write"} /\ c \notin changed => state \notin Terminal

\* A write leaves every cancel behind that has not made it.
LEMMA WriteOutdates ==
  ASSUME NEW a \in Actors, NEW s, NEW there \in PC \ {"flag", "write"}, TypeOK,
         Write(a, s), Goto(a, there)
  PROVE  \A c \in Cancellers : pc'[c] \in {"flag", "write"} => c \in changed'
BY DEF TypeOK, Write, Goto, Open, Actors

\* Who leaves the row alone, and is no cancel, changes nothing for the cancels.
LEMMA OthersWait ==
  ASSUME NEW a \in Workers, NEW there \in PC, TypeOK, Outstanding, Goto(a, there),
         state' = state, changed' \in {changed, changed \ {a}}
  PROVE  \A c \in Cancellers :
           pc'[c] \in {"flag", "write"} /\ c \notin changed' => state' \notin Terminal
BY DEF TypeOK, Outstanding, Goto, Workers, Actors

\* The cancels, whatever a worker does.
LEMMA WorkersOutdate ==
  ASSUME NEW a \in Workers, NEW s, NEW there \in PC \ {"flag", "write"}, TypeOK, Outstanding,
         Write(a, s) \/ Refused(a), Goto(a, there)
  PROVE  \A c \in Cancellers :
           pc'[c] \in {"flag", "write"} /\ c \notin changed' => state' \notin Terminal
<1>1. a \in Actors /\ there \in PC
  BY DEF Workers, Actors
<1>2. CASE Write(a, s)
  BY <1>1, <1>2, WriteOutdates
<1>3. CASE Refused(a)
  BY <1>1, <1>3, OthersWait DEF Refused
<1> QED
  BY <1>2, <1>3

LEMMA OutstandingCancels ==
  ASSUME Inv, Outstanding, NEW a \in Workers,
         (a = Runner /\ (Start \/ Begin \/ Recheck)) \/ Work(a) \/ Stumble(a) \/ (a \in Resumers /\ Resume(a))
  PROVE  \A c \in Cancellers :
           pc'[c] \in {"flag", "write"} /\ c \notin changed' => state' \notin Terminal
<1> USE DEF Inv
<1>0. {"ended", "begin", "recheck", "preflight", "agent", "context"} \cup Collected
        \subseteq PC \ {"flag", "write"}
  BY DEF PC, Open, Collected, Over
<1>1. CASE Start \/ Begin \/ Recheck
  <2>2. Runner \in Workers
    BY DEF Workers
  <2>3. CASE Start
    BY <2>2, <2>3, <1>0, WorkersOutdate, OthersWait DEF Start
  <2>4. CASE Begin
    BY <2>2, <2>4, <1>0, WorkersOutdate, OthersWait DEF Begin
  <2>5. CASE Recheck
    BY <2>2, <2>5, <1>0, WorkersOutdate, OthersWait DEF Recheck
  <2> QED
    BY <1>1, <2>3, <2>4, <2>5
<1>2. CASE Context(a)
  BY <1>2, <1>0, OthersWait DEF Context
<1>3. CASE PreflightStops(a) \/ AgentFails(a) \/ Stumble(a)
  BY <1>3, <1>0, WorkersOutdate DEF PreflightStops, AgentFails, Stumble, RecordFailure
<1>4. CASE PreflightPasses(a) \/ Collect(a)
  BY <1>4, <1>0, OthersWait DEF PreflightPasses, Collect, Collected
<1>5. CASE AgentAnswers(a)
  BY <1>5, <1>0, WorkersOutdate DEF AgentAnswers, Collected
<1>6. CASE ToInput(a) \/ ToAuth(a)
  BY <1>6, <1>0, WorkersOutdate DEF ToInput, ToAuth, Suspend
<1>7. CASE Complete(a)
  BY <1>7, <1>0, WorkersOutdate DEF Complete
<1>8. CASE Resume(a)
  BY <1>8, <1>0, OthersWait DEF Resume
<1> QED
  BY <1>1, <1>2, <1>3, <1>4, <1>5, <1>6, <1>7, <1>8 DEF Work


\* Only the runner takes the lock, on a task that nobody has settled.
LEMMA LockStep ==
  ASSUME Inv, Outstanding, Next
  PROVE  /\ pc'[Runner] \in {"start", "recheck"} => kind' = "background"
         /\ Locked' => state' \in {"SUBMITTED", "WORKING"} /\ \A r \in Resumers : pc'[r] = "idle"
<1> DEFINE Held == /\ pc'[Runner] \in {"start", "recheck"} => kind' = "background"
                   /\ Locked' => state' \in {"SUBMITTED", "WORKING"}
                                 /\ \A r \in Resumers : pc'[r] = "idle"
<1> USE DEF Inv, TypeOK, Locked, Outstanding
<1>a. Runner \in Actors /\ Workers = {Runner} \union Resumers
      /\ Resumers \subseteq Actors /\ Cancellers \subseteq Actors
  BY DEF Actors, Workers
<1>1. ASSUME Start PROVE Held
  BY <1>1, <1>a DEF Start, Goto
<1>2. ASSUME Begin PROVE Held
  <2>1. state \in {"SUBMITTED", "WORKING", "CANCELED"} /\ \A r \in Resumers : pc[r] = "idle"
    BY <1>2 DEF Begin, CancelFlagged, Early
  <2>2. /\ kind' = kind
        /\ pc' = [pc EXCEPT ![Runner] = pc'[Runner]]
        /\ pc'[Runner] = "recheck" => kind = "background"
        /\ pc'[Runner] \in {"ended", "recheck", "preflight"}
        /\ pc'[Runner] = "preflight" /\ kind = "stream" => state' = state /\ ~Final(state)
    BY <1>2, <1>a DEF Begin, Goto
  <2>3. \A r \in Resumers : pc'[r] = pc[r]
    BY <2>2, <1>a
  <2> QED
    BY <2>1, <2>2, <2>3 DEF Final, Terminal
<1>3. ASSUME Recheck PROVE Held
  BY <1>3, <1>a DEF Recheck, Goto
<1>4. ASSUME Work(Runner) \/ Stumble(Runner) PROVE Held
  BY <1>4, <1>a DEF CancelFlagged, Work, Stumble, Context, PreflightStops, PreflightPasses, AgentAnswers,
     AgentFails, RecordFailure, Collect, ToInput, ToAuth, Suspend, Complete, Goto, Collected
<1>5. ASSUME NEW r \in Resumers, Work(r) \/ Stumble(r) PROVE Held
  <2>1. pc[r] # "idle" /\ kind' = kind
    BY <1>5 DEF Work, Stumble, Context, PreflightStops, PreflightPasses, AgentAnswers, AgentFails,
       Collect, ToInput, ToAuth, Suspend, Complete, Collected
  <2>2. pc'[Runner] = pc[Runner]
    BY <1>5, <1>a DEF Work, Stumble, Context, PreflightStops, PreflightPasses, AgentAnswers, AgentFails,
       RecordFailure, Collect, ToInput, ToAuth, Suspend, Complete, Goto
  <2> QED
    BY <2>1, <2>2
<1>6. ASSUME NEW r \in Resumers, Resume(r) PROVE Held
  BY <1>6, <1>a DEF Resume, Resumable, Suspended, Goto
<1>7. ASSUME NEW c \in Cancellers, CancelRead(c) \/ Cancel(c) PROVE Held
  <2>1. kind' = kind /\ (Locked => state' = state) /\ pc' = [pc EXCEPT ![c] = pc'[c]]
    BY <1>7, <1>a DEF CancelRead, Cancel, SetFlags, CancelWrite, LockTimeout, Goto
  <2>2. \A a \in Workers : pc'[a] = pc[a]
    BY <2>1, <1>a
  <2> QED
    BY <2>1, <2>2, <1>a
<1>8. ASSUME FlagsExpire PROVE Held
  BY <1>8 DEF FlagsExpire
<1>9. ASSUME NEW a \in Actors, Break(a) PROVE Held
  <2>1. kind' = kind /\ state' = state /\ pc[a] # "idle" /\ pc' = [pc EXCEPT ![a] = "broken"]
    BY <1>9 DEF Break, Goto
  <2> QED
    BY <2>1, <1>a
<1> QED
  BY <1>1, <1>2, <1>3, <1>4, <1>5, <1>6, <1>7, <1>8, <1>9, <1>a DEF Next

LEMMA CancelStep ==
  ASSUME Inv, Outstanding, Next
  PROVE  \A c \in Cancellers :
           pc'[c] \in {"flag", "write"} /\ c \notin changed' => state' \notin Terminal
<1> DEFINE Waits == \A c \in Cancellers :
           pc'[c] \in {"flag", "write"} /\ c \notin changed' => state' \notin Terminal
<1>a. Runner \in Workers /\ Resumers \subseteq Workers /\ Cancellers \subseteq Actors
  BY DEF Actors, Workers
<1>1. ASSUME Start \/ Begin \/ Recheck PROVE Waits
  BY <1>1, <1>a, OutstandingCancels
<1>2. ASSUME NEW a \in Workers, Work(a) \/ Stumble(a) PROVE Waits
  BY <1>2, OutstandingCancels
<1>3. ASSUME NEW r \in Resumers, Resume(r) PROVE Waits
  BY <1>3, <1>a, OutstandingCancels
<1> USE DEF Inv, TypeOK, Outstanding
<1>4. ASSUME NEW c \in Cancellers, CancelRead(c) PROVE Waits
  BY <1>4, <1>a DEF CancelRead, Goto, Final
<1>5. ASSUME NEW c \in Cancellers, SetFlags(c) PROVE Waits
  BY <1>5, <1>a DEF SetFlags, Goto
<1>6. ASSUME NEW c \in Cancellers, CancelWrite(c) PROVE Waits
  <2>1. Goto(c, "ended") /\ "ended" \in PC \ {"flag", "write"}
    BY <1>6 DEF CancelWrite, PC, Over
  <2>2. CASE Refused(c)
    BY <2>1, <2>2, <1>a DEF Refused, Goto
  <2>3. CASE Write(c, "CANCELED")
    BY <2>1, <2>3, <1>a, WriteOutdates
  <2> QED
    BY <1>6, <2>2, <2>3 DEF CancelWrite
<1>7. ASSUME NEW c \in Cancellers, LockTimeout(c) PROVE Waits
  BY <1>7, <1>a DEF LockTimeout, Goto
<1>8. ASSUME FlagsExpire PROVE Waits
  BY <1>8 DEF FlagsExpire
<1>9. ASSUME NEW a \in Actors, Break(a) PROVE Waits
  BY <1>9, <1>a DEF Break, Goto
<1> QED
  BY <1>1, <1>2, <1>3, <1>4, <1>5, <1>6, <1>7, <1>8, <1>9 DEF Next, Cancel

LEMMA OutstandingInv == Spec => [](Inv /\ Outstanding)
<1>1. Init => Inv /\ Outstanding
  <2>1. Init => Outstanding
    BY DEF Init, Outstanding, Locked, Terminal, Actors, Kinds
  <2> QED
    BY <2>1, InitInv
<1>2. Inv /\ Outstanding /\ [Next]_vars => (Inv /\ Outstanding)'
  <2>1. CASE UNCHANGED vars
    BY <2>1, TypedStep, FlaggedStep DEF vars, Inv, Outstanding, Locked
  <2>2. ASSUME Inv, Outstanding, Next PROVE Outstanding'
    BY <2>2, LockStep, CancelStep DEF Outstanding
  <2> QED
    BY <2>1, <2>2, TypedStep, FlaggedStep DEF Inv
<1> QED
  BY <1>1, <1>2, PTL DEF Spec

\* The service's "terminal states cannot be changed" has one exception only: an
\* outcome is replaced, by a suspension or a failure, at the end of a resumer that
\* holds the task as it was when it was suspended. No cancel, no runner and no
\* answer replaces one, whatever their order.
OnlyStaleReplace ==
  [][(state \in Terminal /\ state' # state) =>
       \E r \in Resumers : /\ seen[r] \in Suspended
                           /\ pc[r] \notin Over /\ pc'[r] = "ended"
                           /\ state' \in Suspended \union {"FAILED"}]_vars

\* Who replaces the outcome of a task, for any number of resumers and cancellers.
THEOREM OnlyStaleReplaceOutcomes == Spec => OnlyStaleReplace
<1> DEFINE Replaced == \E r \in Resumers : /\ seen[r] \in Suspended
                                           /\ pc[r] \notin Over /\ pc'[r] = "ended"
                                           /\ state' \in Suspended \union {"FAILED"}
<1>1. ASSUME Inv, Outstanding, Next, state \in Terminal, state' # state PROVE Replaced
  <2> USE DEF Inv, TypeOK
  <2>a. Runner \in Actors /\ Workers = {Runner} \union Resumers
        /\ Resumers \subseteq Actors /\ Cancellers \subseteq Actors
    BY DEF Actors, Workers
  <2>1. ~Locked
    BY <1>1 DEF Outstanding, Terminal
  <2>2. ~Start /\ ~Begin /\ ~Recheck
    BY <1>1 DEF Start, Begin, Recheck, Final, Refused
  <2>3. \A r \in Resumers : ~Resume(r)
    BY <1>1 DEF Resume
  <2>4. \A c \in Cancellers : ~CancelRead(c) /\ ~SetFlags(c) /\ ~LockTimeout(c)
    BY <1>1 DEF CancelRead, SetFlags, LockTimeout
  <2>5. \A c \in Cancellers : ~CancelWrite(c)
    BY <1>1 DEF CancelWrite, Refused, Outstanding
  <2>6. ~FlagsExpire /\ \A a \in Actors : ~Break(a)
    BY <1>1 DEF FlagsExpire, Break
  <2>7. PICK a \in Workers : Work(a) \/ Stumble(a)
    BY <1>1, <2>2, <2>3, <2>4, <2>5, <2>6 DEF Next, Cancel
  <2>8. ~Context(a) /\ ~PreflightPasses(a) /\ ~AgentAnswers(a) /\ ~Collect(a) /\ ~Complete(a)
    BY <1>1, <2>1 DEF Context, PreflightPasses, AgentAnswers, Collect, Complete, Refused, Refreshed, Final
  <2>9. /\ pc[a] \notin Over /\ pc' = [pc EXCEPT ![a] = "ended"]
        /\ ~Final(Believed(a))
        /\ state' \in Suspended \union {"FAILED"}
    BY <1>1, <2>7, <2>8 DEF Work, Stumble, PreflightStops, AgentFails, RecordFailure, FailureKept,
       ToInput, ToAuth, Suspend, Goto, Write, Refused, Over, Collected, Suspended
  <2>10. a \in Resumers /\ seen[a] \in Suspended
    BY <1>1, <2>7, <2>9, <2>a DEF Believed, Final
  <2>11. pc'[a] = "ended"
    BY <1>1, <2>9, <2>a
  <2> QED
    BY <2>9, <2>10, <2>11
<1>2. Inv /\ Outstanding /\ [Next]_vars => [(state \in Terminal /\ state' # state) => Replaced]_vars
  BY <1>1
<1> QED
  BY <1>2, OutstandingInv, PTL DEF Spec, OnlyStaleReplace

\* A task that is never resumed keeps its outcome: the finding on TerminalIsFinal
\* takes a resumer.
THEOREM FinalUnlessResumed == ASSUME Resumers = {} PROVE Spec => TerminalIsFinal
<1>1. ASSUME [(state \in Terminal /\ state' # state) =>
               \E r \in Resumers : /\ seen[r] \in Suspended
                                   /\ pc[r] \notin Over /\ pc'[r] = "ended"
                                   /\ state' \in Suspended \union {"FAILED"}]_vars
      PROVE  [(state \in Terminal) => state' = state]_vars
  BY <1>1
<1> QED
  BY <1>1, OnlyStaleReplaceOutcomes, PTL DEF OnlyStaleReplace, TerminalIsFinal
==============================================================================
