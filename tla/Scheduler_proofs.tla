-------------------------- MODULE Scheduler_proofs --------------------------
(***************************************************************************)
(* Proofs about Scheduler for any set of tasks and any number of requests  *)
(* and stops: type correctness, and that the dedup guard holds.            *)
(***************************************************************************)
EXTENDS Scheduler, TLAPS

\* A due time that is not yet paid for by a wrapper: the task waits for a poll,
\* or for its turn in the batch, or for both at once.
Pending(t) == IF next[t] = "due" \/ t \in batch THEN 1 ELSE 0

\* OncePerDueTime alone is not inductive: a pending task adds a wrapper.
Accounted == \A t \in Tasks : spawned[t] + Pending(t) <= dueCount[t]

Guarded == TypeOK /\ Accounted

------------------------------------------------------------------------------
LEMMA InitGuarded == Init => Guarded
<1> SUFFICES ASSUME Init PROVE Guarded
  OBVIOUS
<1> USE SchedulerAssumption DEF Init
<1>1. next \in [Tasks -> {"none", "later", "due"}]
  BY DEF Computed
<1>2. \A t \in Tasks : next[t] # "none" => parses[t]
  BY Zenon DEF Computed
<1>3. TypeOK
  BY <1>1, <1>2 DEF TypeOK, State
<1>4. Accounted
  BY DEF Accounted, Pending, Computed
<1> QED
  BY <1>3, <1>4 DEF Guarded

\* A request changes one row, and may leave a pending task pending only.
LEMMA OwnerGuarded ==
  ASSUME Guarded, NEW t \in Tasks, NEW s \in State, NEW n \in {"none", "later", "due"},
         Put(t, s, n), Owner(t),
         n = "due" => next[t] = "due",
         parses' \in [Tasks -> BOOLEAN],
         \A u \in Tasks : next'[u] # "none" => parses'[u]
  PROVE  Guarded'
<1>1. next' \in [Tasks -> {"none", "later", "due"}] /\ state' \in [Tasks -> State]
  BY DEF Guarded, TypeOK, Put
<1>2. requests' \in 0..MaxRequests /\ crashes' \in 0..MaxCrashes
  BY SchedulerAssumption DEF Guarded, TypeOK, Owner
<1>3. outdated' \subseteq batch' /\ batch' \subseteq Tasks
  BY DEF Guarded, TypeOK, Owner
<1>4. UNCHANGED <<wrappers, dueCount, spawned, batch>>
  BY DEF Owner
<1>5. TypeOK'
  BY <1>1, <1>2, <1>3, <1>4 DEF Guarded, TypeOK
<1>6. Accounted'
  <2> SUFFICES ASSUME NEW u \in Tasks PROVE (spawned[u] + Pending(u) <= dueCount[u])'
    BY DEF Accounted
  <2>1. next'[u] = "due" => next[u] = "due"
    BY DEF Guarded, TypeOK, Put
  <2>2. spawned[u] \in Nat /\ dueCount[u] \in 0..MaxDue /\ spawned[u] + Pending(u) <= dueCount[u]
    BY DEF Guarded, TypeOK, Accounted
  <2> QED
    BY <1>4, <2>1, <2>2, SchedulerAssumption DEF Pending
<1> QED
  BY <1>5, <1>6 DEF Guarded

LEMMA GuardedStep == Guarded /\ [Next]_vars => Guarded'
<1> SUFFICES ASSUME Guarded, [Next]_vars PROVE Guarded'
  OBVIOUS
<1> USE SchedulerAssumption
<1>1. ASSUME NEW t \in Tasks, BecomeDue(t) PROVE Guarded'
  <2>1. TypeOK'
    BY <1>1 DEF BecomeDue, Guarded, TypeOK, bounded
  <2>2. Accounted'
    BY <1>1 DEF BecomeDue, Guarded, TypeOK, Accounted, Pending
  <2> QED
    BY <2>1, <2>2 DEF Guarded
<1>2. CASE Poll
  <2>1. TypeOK'
    BY <1>2 DEF Poll, Due, Guarded, TypeOK, rows, bounded
  <2>2. Accounted'
    BY <1>2 DEF Poll, Due, Guarded, TypeOK, Accounted, Pending, rows
  <2> QED
    BY <2>1, <2>2 DEF Guarded
<1>3. CASE GiveUp
  <2>1. TypeOK'
    BY <1>3 DEF GiveUp, Guarded, TypeOK, rows, bounded
  <2>2. Accounted'
    BY <1>3 DEF GiveUp, Guarded, TypeOK, Accounted, Pending, rows
  <2> QED
    BY <2>1, <2>2 DEF Guarded
<1>4. ASSUME NEW t \in Tasks, Claim(t) PROVE Guarded'
  <2>1. TypeOK'
    BY <1>4 DEF Claim, NextCleared, Guarded, TypeOK, bounded
  <2>2. Accounted'
    <3>1. Pending(t) = 1 /\ Pending(t)' = 0
      BY <1>4 DEF Claim, NextCleared, Guarded, TypeOK, Pending
    <3>2. \A u \in Tasks \ {t} : Pending(u)' = Pending(u) /\ spawned'[u] = spawned[u]
      BY <1>4 DEF Claim, Guarded, TypeOK, Pending
    <3> QED
      BY <1>4, <3>1, <3>2 DEF Claim, Guarded, TypeOK, Accounted
  <2> QED
    BY <2>1, <2>2 DEF Guarded
<1>5. ASSUME NEW t \in Tasks, Finish(t) PROVE Guarded'
  <2>1. TypeOK'
    BY <1>5 DEF Finish, Guarded, TypeOK, rows, bounded
  <2>2. Accounted'
    BY <1>5 DEF Finish, Guarded, TypeOK, Accounted, Pending, rows
  <2> QED
    BY <2>1, <2>2 DEF Guarded
<1>6. ASSUME NEW t \in Tasks, Pause(t) PROVE Guarded'
  <2>1. \A u \in Tasks : next'[u] # "none" => parses'[u]
    BY <1>6 DEF Pause, Put, Guarded, TypeOK
  <2> QED
    BY <1>6, <2>1, OwnerGuarded DEF Pause, Guarded, TypeOK, State
<1>7. ASSUME NEW t \in Tasks, Delete(t) PROVE Guarded'
  <2>1. \A u \in Tasks : next'[u] # "none" => parses'[u]
    BY <1>7 DEF Delete, Put, Guarded, TypeOK
  <2> QED
    BY <1>7, <2>1, OwnerGuarded DEF Delete, Guarded, TypeOK, State
<1>8. ASSUME NEW t \in Tasks, Resume(t) PROVE Guarded'
  <2>1. \A u \in Tasks : next'[u] # "none" => parses'[u]
    BY <1>8 DEF Resume, Put, Computed, Guarded, TypeOK
  <2>2. Computed(parses[t]) \in {"none", "later"}
    BY DEF Computed
  <2> QED
    BY <1>8, <2>1, <2>2, OwnerGuarded DEF Resume, Guarded, TypeOK, State
<1>9. ASSUME NEW t \in Tasks, Update(t) PROVE Guarded'
  <2>1. PICK s \in State :
          \/ Put(t, s, next[t]) /\ UNCHANGED parses
          \/ \E ok \in BOOLEAN :
               Put(t, s, Computed(ok)) /\ parses' = [parses EXCEPT ![t] = ok]
    BY <1>9 DEF Update
  <2>2. CASE Put(t, s, next[t]) /\ UNCHANGED parses
    <3>1. \A u \in Tasks : next'[u] # "none" => parses'[u]
      BY <2>2 DEF Put, Guarded, TypeOK
    <3> QED
      BY <1>9, <2>2, <3>1, OwnerGuarded DEF Update, Guarded, TypeOK
  <2>3. ASSUME NEW ok \in BOOLEAN, Put(t, s, Computed(ok)), parses' = [parses EXCEPT ![t] = ok]
        PROVE  Guarded'
    <3>1. \A u \in Tasks : next'[u] # "none" => parses'[u]
      BY <2>3 DEF Put, Computed, Guarded, TypeOK
    <3>2. Computed(ok) \in {"none", "later"}
      BY DEF Computed
    <3>3. parses' \in [Tasks -> BOOLEAN]
      BY <2>3 DEF Guarded, TypeOK
    <3> QED
      BY <1>9, <2>3, <3>1, <3>2, <3>3, OwnerGuarded DEF Update
  <2> QED
    BY <2>1, <2>2, <2>3
<1>10. CASE Crash
  <2>1. TypeOK'
    BY <1>10 DEF Crash, Guarded, TypeOK, rows
  <2>2. Accounted'
    BY <1>10 DEF Crash, Guarded, TypeOK, Accounted, Pending, rows
  <2> QED
    BY <2>1, <2>2 DEF Guarded
<1>11. CASE UNCHANGED vars
  BY <1>11 DEF vars, rows, bounded, Guarded, TypeOK, Accounted, Pending
<1> QED
  BY <1>1, <1>2, <1>3, <1>4, <1>5, <1>6, <1>7, <1>8, <1>9, <1>10, <1>11
     DEF Next, Scheduled, Skip, Execute

LEMMA Invariance == Spec => []Guarded
<1>1. Init => Guarded
  BY InitGuarded
<1>2. Guarded /\ [Next]_vars => Guarded'
  BY GuardedStep
<1> QED
  BY <1>1, <1>2, PTL DEF Spec

\* Every variable keeps its type, and a task without a sound schedule has no
\* next run, whatever its owner asks for.
THEOREM TypeCorrect == Spec => []TypeOK
<1>1. Guarded => TypeOK
  BY DEF Guarded
<1> QED
  BY <1>1, Invariance, PTL

\* The dedup guard of the polling loop: no task is executed twice for one due
\* time, although requests come between the poll and the claim.
THEOREM NoDoubleExecution == Spec => []OncePerDueTime
<1>1. Guarded => OncePerDueTime
  <2> SUFFICES ASSUME Guarded, NEW t \in Tasks PROVE spawned[t] <= dueCount[t]
    BY DEF OncePerDueTime
  <2> QED
    BY SchedulerAssumption DEF Guarded, TypeOK, Accounted, Pending
<1> QED
  BY <1>1, Invariance, PTL
==============================================================================
