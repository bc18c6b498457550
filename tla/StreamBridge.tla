---------------------------- MODULE StreamBridge ----------------------------
(***************************************************************************)
(* agents/stream_bridge.py: the bridge between the background task that    *)
(* runs an agent and the SSE connections that show it.                     *)
(*                                                                         *)
(* One bridge, one producer (put, close) and the generators returned by    *)
(* subscribe().  All of it runs on one asyncio loop, so a step of the      *)
(* model is the code between two points where a coroutine is suspended:    *)
(*   - put and close never suspend (the queues are unbounded, the close    *)
(*     lock is never contended), so each is one step;                      *)
(*   - a generator is suspended at every yield, until the SSE writer has   *)
(*     sent the event and asks for the next one, and inside wait_for.      *)
(* Events are identified by their production number; their payload plays   *)
(* no part in the bridge.                                                  *)
(***************************************************************************)
EXTENDS Integers, Sequences

CONSTANTS Subscribers,   \* the SSE connections
          MaxBuffer,     \* max_buffer of the bridge (the deque's maxlen)
          MaxEvents      \* bound of the model: events the run produces

ASSUME BridgeAssumption == MaxBuffer \in Nat \ {0} /\ MaxEvents \in Nat

VARIABLES buffer,      \* _buffer
          eventCount,  \* _event_count
          closed,      \* _closed
          registered,  \* subscribers whose queue is in _subscribers
          queues,      \* the private queue of each subscriber
          pc,          \* where each generator stands
          joinedAt,    \* eventCount when the iterator over _buffer was made, or -1
          delivered    \* what each subscriber's client was sent, heartbeats aside

vars == <<buffer, eventCount, closed, registered, queues, pc, joinedAt, delivered>>

Event == 1..MaxEvents
Sentinel == 0             \* the None that close() pushes

NotJoined == -1

\* "yielded" is a generator whose last live event or heartbeat is being sent.
Running == {"replaying", "yielded", "waiting"}
Stopped == {"ended", "failed", "gone"}
PC == {"new"} \union Running \union Stopped

Init ==
  /\ buffer = <<>>
  /\ eventCount = 0
  /\ closed = FALSE
  /\ registered = {}
  /\ queues = [s \in Subscribers |-> <<>>]
  /\ pc = [s \in Subscribers |-> "new"]
  /\ joinedAt = [s \in Subscribers |-> NotJoined]
  /\ delivered = [s \in Subscribers |-> <<>>]

------------------------------------------------------------------------------
(* The producer.                                                            *)

\* Plausible bugs: a list instead of a deque, and a full buffer that refuses
\* the new event instead of dropping the oldest.
BufferedForever(e) == Append(buffer, e)
NewestDropped(e) == IF Len(buffer) = MaxBuffer THEN buffer ELSE Append(buffer, e)

\* deque.append with maxlen: the oldest event makes room.
Buffered(e) ==
  IF Len(buffer) = MaxBuffer THEN Append(Tail(buffer), e) ELSE Append(buffer, e)

\* A plausible bug: the subscribers compete for the events of one queue.
SentToOne(e) ==
  [s \in Subscribers |-> IF registered # {} /\ s = CHOOSE r \in registered : TRUE
                         THEN Append(queues[s], e) ELSE queues[s]]

Broadcasted(e) ==
  [s \in Subscribers |-> IF s \in registered THEN Append(queues[s], e) ELSE queues[s]]

\* put(): a put on a closed bridge only logs, and changes nothing.
Put ==
  /\ ~closed
  /\ eventCount < MaxEvents
  /\ buffer' = Buffered(eventCount + 1)
  /\ eventCount' = eventCount + 1
  /\ queues' = Broadcasted(eventCount + 1)
  /\ UNCHANGED <<closed, registered, pc, joinedAt, delivered>>

\* close(): the second call returns early.
Close ==
  /\ ~closed
  /\ closed' = TRUE
  /\ queues' = Broadcasted(Sentinel)
  /\ UNCHANGED <<buffer, eventCount, registered, pc, joinedAt, delivered>>

------------------------------------------------------------------------------
(* The subscribers.                                                         *)

\* A plausible bug: the loop relies on the sentinel alone ("while True").
LoopForever == FALSE

\* The condition of "while not self._closed" is false.
LoopOver == closed

\* The generator returns, and its finally clause drops the queue.
Leave(s, how) ==
  /\ pc' = [pc EXCEPT ![s] = how]
  /\ registered' = registered \ {s}
  /\ queues' = [queues EXCEPT ![s] = <<>>]

\* The queue is made and appended to _subscribers, and the loop is entered
\* for the first time, without a suspension in between.
Register(s) ==
  IF LoopOver
  THEN Leave(s, "ended")
  ELSE /\ registered' = registered \union {s}
       /\ pc' = [pc EXCEPT ![s] = "waiting"]
       /\ UNCHANGED queues

Send(s, e) == delivered' = [delivered EXCEPT ![s] = Append(@, e)]

\* A plausible bug: the replay walks over a copy, so that a put during the
\* replay goes unnoticed although the queue is not registered yet.
NeverMutated(s) == FALSE

\* A deque iterator fails once the deque changed: put is all that changes it.
Mutated(s) == eventCount # joinedAt[s]

\* First pull, on an empty buffer.
SubscribeLive(s) ==
  /\ pc[s] = "new"
  /\ buffer = <<>>
  /\ joinedAt' = [joinedAt EXCEPT ![s] = eventCount]
  /\ Register(s)
  /\ UNCHANGED <<buffer, eventCount, closed, delivered>>

\* First pull, with events to replay.
SubscribeReplay(s) ==
  /\ pc[s] = "new"
  /\ buffer # <<>>
  /\ joinedAt' = [joinedAt EXCEPT ![s] = eventCount]
  /\ Send(s, Head(buffer))
  /\ pc' = [pc EXCEPT ![s] = "replaying"]
  /\ UNCHANGED <<buffer, eventCount, closed, registered, queues>>

ReplayNext(s) ==
  /\ pc[s] = "replaying"
  /\ ~Mutated(s)
  /\ Len(delivered[s]) < Len(buffer)
  /\ Send(s, buffer[Len(delivered[s]) + 1])
  /\ UNCHANGED <<buffer, eventCount, closed, registered, queues, pc, joinedAt>>

\* RuntimeError("deque mutated during iteration") leaves the generator, and
\* with it the SSE response; nothing was registered yet.
ReplayBroken(s) ==
  /\ pc[s] = "replaying"
  /\ Mutated(s)
  /\ pc' = [pc EXCEPT ![s] = "failed"]
  /\ UNCHANGED <<buffer, eventCount, closed, registered, queues, joinedAt, delivered>>

ReplayDone(s) ==
  /\ pc[s] = "replaying"
  /\ ~Mutated(s)
  /\ Len(delivered[s]) >= Len(buffer)
  /\ Register(s)
  /\ UNCHANGED <<buffer, eventCount, closed, joinedAt, delivered>>

\* The client took the last event or heartbeat; back to the loop condition.
Resume(s) ==
  /\ pc[s] = "yielded"
  /\ IF LoopOver
     THEN Leave(s, "ended")
     ELSE /\ pc' = [pc EXCEPT ![s] = "waiting"]
          /\ UNCHANGED <<registered, queues>>
  /\ UNCHANGED <<buffer, eventCount, closed, joinedAt, delivered>>

\* wait_for(queue.get()) returns an event, or the sentinel.
Wake(s) ==
  /\ pc[s] = "waiting"
  /\ queues[s] # <<>>
  /\ IF Head(queues[s]) = Sentinel
     THEN Leave(s, "ended") /\ UNCHANGED delivered
     ELSE /\ Send(s, Head(queues[s]))
          /\ queues' = [queues EXCEPT ![s] = Tail(@)]
          /\ pc' = [pc EXCEPT ![s] = "yielded"]
          /\ UNCHANGED registered
  /\ UNCHANGED <<buffer, eventCount, closed, joinedAt>>

\* wait_for times out: a heartbeat is sent.
Heartbeat(s) ==
  /\ pc[s] = "waiting"
  /\ queues[s] = <<>>
  /\ pc' = [pc EXCEPT ![s] = "yielded"]
  /\ UNCHANGED <<buffer, eventCount, closed, registered, queues, joinedAt, delivered>>

\* The browser went away: the generator is closed wherever it is suspended.
Disconnect(s) ==
  /\ pc[s] \in Running
  /\ Leave(s, "gone")
  /\ UNCHANGED <<buffer, eventCount, closed, joinedAt, delivered>>

Step(s) ==
  \/ SubscribeReplay(s) \/ ReplayNext(s) \/ ReplayBroken(s) \/ ReplayDone(s)
  \/ SubscribeLive(s) \/ Resume(s) \/ Wake(s) \/ Heartbeat(s)

Next ==
  \/ Put
  \/ Close
  \/ \E s \in Subscribers : Step(s) \/ Disconnect(s)

\* The event loop runs every ready generator, and a client that stays
\* connected reads what it is sent.  Neither puts, nor the close, nor a
\* disconnection is promised.
Fairness == \A s \in Subscribers : WF_vars(Step(s))

Spec == Init /\ [][Next]_vars /\ Fairness

------------------------------------------------------------------------------
(* Properties.                                                              *)

Oldest(n) == IF n <= MaxBuffer THEN 1 ELSE n - MaxBuffer + 1

TypeOK ==
  /\ buffer \in Seq(Event) /\ Len(buffer) <= MaxBuffer
  /\ eventCount \in 0..MaxEvents
  /\ closed \in BOOLEAN
  /\ registered \subseteq Subscribers
  /\ queues \in [Subscribers -> Seq(Event \union {Sentinel})]
  /\ pc \in [Subscribers -> PC]
  /\ joinedAt \in [Subscribers -> (0..MaxEvents) \union {NotJoined}]
  /\ delivered \in [Subscribers -> Seq(Event)]

\* What a client was sent is the stream from the oldest event buffered when it
\* subscribed, in order, with no event missing or repeated: the hand-over from
\* the replay to the live queue loses and duplicates nothing.
Gapless ==
  \A s \in Subscribers : \A i \in 1..Len(delivered[s]) :
    delivered[s][i] = Oldest(joinedAt[s]) + i - 1

\* The event a subscriber's client is to be sent next.
NextFor(s) == Oldest(joinedAt[s]) + Len(delivered[s])

\* Events still in the queue of a subscriber: the sentinel, once pushed, is last.
Undelivered(s) == IF closed THEN Len(queues[s]) - 1 ELSE Len(queues[s])

\* A subscriber in the live loop holds, between what its client was sent and
\* what its queue still holds, everything up to the newest event: no event is
\* put between the end of the replay and the registration of the queue, and
\* the sentinel of close() was pushed to everyone who is in the loop.
NothingMissed ==
  \A s \in Subscribers :
    pc[s] \in {"yielded", "waiting"} =>
      NextFor(s) + Undelivered(s) = eventCount + 1

\* Every event produced while a subscriber is in the live loop reaches its
\* client, unless the generator stops first.
LiveEventsArrive ==
  \A s \in Subscribers : \A n \in Event :
    (s \in registered /\ eventCount = n)
      ~> (pc[s] \in Stopped \/ \E i \in DOMAIN delivered[s] : delivered[s][i] = n)

\* Once the bridge is closed every generator that was started stops: none is
\* left waiting for a sentinel that was pushed before it registered.
ClosedStops ==
  \A s \in Subscribers : (closed /\ pc[s] \in Running) ~> pc[s] \in Stopped

\* The bridge implements the broadcast it promises.
Promise == INSTANCE Broadcast WITH
  Readers <- Subscribers, Window <- MaxBuffer,
  produced <- eventCount, finished <- closed,
  joined <- joinedAt, seen <- delivered

ImplementsBroadcast == Promise!Spec

\* The class says "each subscriber gets ALL events": a stream that ended
\* because the bridge closed, and not because its client left, is complete.
AllEventsDelivered ==
  \A s \in Subscribers :
    pc[s] = "ended" => NextFor(s) = eventCount + 1
==============================================================================
