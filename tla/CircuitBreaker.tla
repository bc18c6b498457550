---------------------------- MODULE CircuitBreaker ---------------------------
(***************************************************************************)
(* The circuit breaker of a remote A2A server: a hash in Redis that every  *)
(* worker reads before a call and counts the outcome in after it           *)
(* (services/a2a_circuit_breaker.py), as send_message_resilient uses it:   *)
(* one check before the first attempt, the retries inside, one record at   *)
(* the end (services/a2a_client.py).                                       *)
(***************************************************************************)
EXTENDS Integers, Sequences

CONSTANTS
  Callers,      \* concurrent calls of the server
  Threshold,    \* failures that open the circuit
  Window,       \* window_seconds: the longest pause between them
  Cooldown,     \* cooldown_seconds: how long it stays open
  MaxClock,     \* bound: time
  MaxRecords    \* bound: outcomes and resets

ASSUME CircuitAssumption ==
  /\ Threshold \in Nat \ {0} /\ Window \in Nat \ {0} /\ Cooldown \in Nat \ {0}
  /\ MaxClock \in Nat /\ MaxRecords \in Nat

VARIABLES
  clock,
  circuit,  \* the hash
  call,     \* the calls
  log       \* history: the outcomes and resets, in the order they were written

circuitVars == <<clock, circuit, call, log>>

NotSet == -1
Time == 0 .. MaxClock
Circuit ==
  [failures: 0 .. MaxRecords, degraded: Time \union {NotSet}, last: Time \union {NotSet},
   expires: 0 .. MaxClock + 2 * Cooldown]

\* No hash, and what a success leaves in it.
Closed == [failures |-> 0, degraded |-> NotSet, last |-> NotSet, expires |-> 0]

CallState ==
  [pc: {"idle", "sending", "counting"},
   failures: 0 .. MaxRecords,    \* failures as record_failure has counted them
   at: Time,                     \* its now
   seen: 0 .. MaxRecords]        \* history: the records there were when it read

NoCall == [pc |-> "idle", failures |-> 0, at |-> 0, seen |-> 0]

Record ==
  [what: {"failure", "success", "reset"}, at: Time, seen: 0 .. MaxRecords]

CircuitInit ==
  /\ clock = 0 /\ circuit = Closed
  /\ call = [c \in Callers |-> NoCall]
  /\ log = <<>>

------------------------------------------------------------------------------
\* A plausible bug: the window in the place of the cooldown.
CooledDownByWindow == clock - circuit.degraded >= Window

CooledDown == clock - circuit.degraded >= Cooldown

\* before_call: open circuits refuse, until the cooldown is over; then everybody is
\* a probe.  Neither the verdict nor last_probe_at decides anything afterwards.
BeforeCall(c) ==
  /\ call[c].pc = "idle"
  /\ circuit.degraded # NotSet => CooledDown
  /\ call' = [call EXCEPT ![c] = [@ EXCEPT !.pc = "sending"]]
  /\ UNCHANGED <<clock, circuit, log>>

\* _refresh_ttl.
Refreshed == clock + 2 * Cooldown

\* A plausible bug: the counter survives a success.
SucceededKeeps == [circuit EXCEPT !.degraded = NotSet, !.last = NotSet, !.expires = Refreshed]

Succeeded == [Closed EXCEPT !.expires = Refreshed]

\* An attempt has succeeded: record_success.
RecordSuccess(c) ==
  /\ call[c].pc = "sending" /\ Len(log) < MaxRecords
  /\ circuit' = Succeeded
  /\ call' = [call EXCEPT ![c] = NoCall]
  /\ log' = Append(log, [what |-> "success", at |-> clock, seen |-> Len(log)])
  /\ UNCHANGED clock

\* A plausible bug: every attempt of the call is counted.
FailuresOfAttempts ==
  2 + IF circuit.last # NotSet /\ clock - circuit.last >= Window THEN 0 ELSE circuit.failures

\* The failures in the window, which starts anew with each of them.
FailuresNow ==
  1 + IF circuit.last # NotSet /\ clock - circuit.last >= Window THEN 0 ELSE circuit.failures

\* The last attempt has failed: record_failure reads the hash.
CountFailure(c) ==
  /\ call[c].pc = "sending" /\ Len(log) < MaxRecords
  /\ call' = [call EXCEPT ![c] =
       [@ EXCEPT !.pc = "counting", !.failures = FailuresNow, !.at = clock, !.seen = Len(log)]]
  /\ UNCHANGED <<clock, circuit, log>>

\* It writes the fields back; below the threshold degraded_at is not among them.
RecordFailure(c) ==
  /\ call[c].pc = "counting" /\ Len(log) < MaxRecords
  /\ circuit' = [failures |-> call[c].failures, last |-> call[c].at, expires |-> Refreshed,
                 degraded |-> IF call[c].failures >= Threshold THEN call[c].at ELSE circuit.degraded]
  /\ call' = [call EXCEPT ![c] = NoCall]
  /\ log' = Append(log, [what |-> "failure", at |-> call[c].at, seen |-> call[c].seen])
  /\ UNCHANGED clock

\* A cancelled call, or the end of its process: nothing is recorded.
Abandon(c) ==
  /\ call[c].pc # "idle"
  /\ call' = [call EXCEPT ![c] = NoCall]
  /\ UNCHANGED <<clock, circuit, log>>

\* reset, by an administrator.
Reset ==
  /\ Len(log) < MaxRecords
  /\ circuit' = Closed
  /\ log' = Append(log, [what |-> "reset", at |-> clock, seen |-> Len(log)])
  /\ UNCHANGED <<clock, call>>

\* Time passes; Redis drops the hash.
PassTime ==
  /\ clock < MaxClock /\ clock' = clock + 1
  /\ circuit' = IF circuit.expires <= clock + 1 THEN Closed ELSE circuit
  /\ UNCHANGED <<call, log>>

CircuitNext ==
  \/ \E c \in Callers :
       BeforeCall(c) \/ RecordSuccess(c) \/ CountFailure(c) \/ RecordFailure(c) \/ Abandon(c)
  \/ Reset \/ PassTime

CircuitSpec == CircuitInit /\ [][CircuitNext]_circuitVars

------------------------------------------------------------------------------
(* Correctness.                                                             *)

\* Everything has its type, and the counter never exceeds the failures there were.
CircuitTypeOK ==
  /\ clock \in Time /\ circuit \in Circuit
  /\ call \in [Callers -> CallState]
  /\ log \in Seq(Record) /\ Len(log) <= MaxRecords
  /\ circuit.failures <= Len(log)
  /\ \A c \in Callers : call[c].pc = "counting" => call[c].failures <= call[c].seen + 1

\* Failures with less than the window between any two, each of which was counted
\* when the one before it was the latest record.
Chain(entries) ==
  /\ \A e \in DOMAIN entries : log[entries[e]].what = "failure"
  /\ \A e \in DOMAIN entries \ {1} :
       /\ log[entries[e]].seen = entries[e - 1]
       /\ log[entries[e]].at - log[entries[e - 1]].at < Window

\* An open circuit has a cause: Threshold failures in its window, the last of them
\* when it opened.  A success or a reset between them is overlooked only by a
\* failure that was being recorded at that moment.
OpenHasCause ==
  circuit.degraded # NotSet =>
    \E entries \in [1 .. Threshold -> DOMAIN log] :
      Chain(entries) /\ log[entries[Threshold]].at = circuit.degraded

Begins(c) == call[c].pc = "idle" /\ call'[c].pc = "sending"

\* Nothing but failures was recorded since the i-th record.
FailingSince(i) == \A j \in i .. Len(log) : log[j].what = "failure"

\* The circuit opens: after Threshold failures in the window, each recorded before
\* the next was counted, no call begins until the cooldown is over, unless a success
\* or a reset came since, or a late record of an earlier failure took degraded_at
\* back.  A window longer than the life of the hash is cut short by it.
OpenBlocks ==
  [][Window <= 2 * Cooldown =>
       \A c \in Callers : Begins(c) =>
         \A first \in DOMAIN log :
           LET last == first + Threshold - 1 IN
           /\ last \in DOMAIN log /\ FailingSince(first)
           /\ \A i \in first + 1 .. last : log[i].seen = i - 1 /\ log[i].at - log[i - 1].at < Window
           /\ \A i \in last .. Len(log) : log[i].at >= log[last].at
           => clock - log[last].at >= Cooldown]_circuitVars
==============================================================================
