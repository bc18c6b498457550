------------------------- MODULE StreamBridge_proofs -------------------------
(***************************************************************************)
(* Proofs about StreamBridge for every set of subscribers, every buffer    *)
(* size and every number of events: type correctness, the absence of gaps  *)
(* and repetitions, and the refinement of Broadcast.                       *)
(***************************************************************************)
EXTENDS StreamBridge, TLAPS

(* The inductive invariant.  Gapless alone is not inductive: it needs to    *)
(* know what the buffer and the queues hold.                                *)

\* The buffer is the tail of the run, of at most MaxBuffer events.
BufferIsTail ==
  /\ Len(buffer) = IF eventCount <= MaxBuffer THEN eventCount ELSE MaxBuffer
  /\ \A i \in 1..Len(buffer) : buffer[i] = eventCount - Len(buffer) + i

\* What holds of one subscriber.
Live(s) == pc[s] \in {"yielded", "waiting"}

RegisteredIsLive(s) ==
  /\ s \in registered <=> Live(s)
  /\ ~Live(s) => queues[s] = <<>>

\* Where the replay iterator stands.
IteratorOK(s) ==
  /\ pc[s] = "new" => joinedAt[s] = NotJoined /\ delivered[s] = <<>>
  /\ pc[s] # "new" => joinedAt[s] \in 0..eventCount
  /\ pc[s] = "replaying" =>
       NextFor(s) <= joinedAt[s] + 1

InOrder(s) ==
  \A i \in 1..Len(delivered[s]) : delivered[s][i] = Oldest(joinedAt[s]) + i - 1

\* A queue holds the events after those delivered, up to the newest, and after
\* the close the sentinel.
QueueIsTail(s) ==
  Live(s) =>
    /\ closed => Len(queues[s]) >= 1 /\ queues[s][Len(queues[s])] = Sentinel
    /\ NextFor(s) + Undelivered(s) = eventCount + 1
    /\ \A i \in 1..Undelivered(s) : queues[s][i] = NextFor(s) + i - 1

SubscriberInv(s) ==
  RegisteredIsLive(s) /\ IteratorOK(s) /\ InOrder(s) /\ QueueIsTail(s)

IInv ==
  /\ TypeOK
  /\ BufferIsTail
  /\ \A s \in Subscribers : SubscriberInv(s)

------------------------------------------------------------------------------
LEMMA InitInvariant == Init => IInv
<1> SUFFICES ASSUME Init PROVE IInv
  OBVIOUS
<1>1. TypeOK
  <2>1. <<>> \in Seq(Event) /\ <<>> \in Seq(Event \union {Sentinel}) /\ Len(<<>>) = 0
    OBVIOUS
  <2>2. "new" \in PC /\ MaxEvents \in Nat /\ MaxBuffer \in Nat
    BY BridgeAssumption DEF PC
  <2>3. queues \in [Subscribers -> Seq(Event \union {Sentinel})]
        /\ delivered \in [Subscribers -> Seq(Event)]
    BY <2>1 DEF Init
  <2>4. pc \in [Subscribers -> PC]
    BY <2>2 DEF Init
  <2>5. joinedAt \in [Subscribers -> (0..MaxEvents) \union {NotJoined}]
    BY DEF Init
  <2>6. buffer \in Seq(Event) /\ Len(buffer) <= MaxBuffer
    BY <2>1, <2>2 DEF Init
  <2>7. eventCount \in 0..MaxEvents /\ registered \subseteq Subscribers
    BY <2>2 DEF Init
  <2>8. closed \in BOOLEAN
    BY DEF Init
  <2> QED
    BY <2>3, <2>4, <2>5, <2>6, <2>7, <2>8 DEF TypeOK
<1>2. BufferIsTail
  BY BridgeAssumption DEF Init, BufferIsTail
<1>3. ASSUME NEW s \in Subscribers PROVE SubscriberInv(s)
  BY DEF Init, SubscriberInv, RegisteredIsLive, IteratorOK, InOrder, QueueIsTail, Live,
         NextFor
<1> QED
  BY <1>1, <1>2, <1>3 DEF IInv

\* deque.append keeps the newest MaxBuffer events.
LEMMA BufferedIsTail ==
  ASSUME TypeOK, BufferIsTail, eventCount < MaxEvents,
         NEW e, e = eventCount + 1, NEW b, b = Buffered(e)
  PROVE  /\ b \in Seq(Event) /\ Len(b) <= MaxBuffer
         /\ Len(b) = IF e <= MaxBuffer THEN e ELSE MaxBuffer
         /\ \A i \in 1..Len(b) : b[i] = e - Len(b) + i
<1>1. e \in Event /\ eventCount \in Nat /\ MaxBuffer \in Nat /\ MaxBuffer > 0
  BY BridgeAssumption DEF TypeOK, Event
<1>2. CASE Len(buffer) = MaxBuffer
  <2>1. buffer # <<>> /\ buffer \in Seq(Event)
    BY <1>1, <1>2 DEF TypeOK
  <2>2. /\ Tail(buffer) \in Seq(Event)
        /\ Len(Tail(buffer)) = MaxBuffer - 1
        /\ \A i \in 1..(MaxBuffer - 1) : Tail(buffer)[i] = buffer[i + 1]
    BY <2>1, <1>1, <1>2
  <2>3. /\ Append(Tail(buffer), e) \in Seq(Event)
        /\ Len(Append(Tail(buffer), e)) = MaxBuffer
        /\ \A i \in 1..(MaxBuffer - 1) : Append(Tail(buffer), e)[i] = Tail(buffer)[i]
        /\ Append(Tail(buffer), e)[MaxBuffer] = e
    BY <2>2, <1>1
  <2>4. \A i \in 1..MaxBuffer : Append(Tail(buffer), e)[i] = e - MaxBuffer + i
    BY <2>2, <2>3, <1>1, <1>2 DEF BufferIsTail
  <2>5. b = Append(Tail(buffer), e)
    BY <1>2 DEF Buffered
  <2>6. b \in Seq(Event) /\ Len(b) = MaxBuffer /\ \A i \in 1..MaxBuffer : b[i] = e - MaxBuffer + i
    BY <2>3, <2>4, <2>5
  <2>7. e > MaxBuffer
    BY <1>1, <1>2 DEF BufferIsTail
  <2> QED
    BY <2>6, <2>7, <1>1
<1>3. CASE Len(buffer) # MaxBuffer
  <2>1. buffer \in Seq(Event) /\ Len(buffer) = eventCount /\ eventCount < MaxBuffer
    BY <1>1, <1>3 DEF TypeOK, BufferIsTail
  <2>2. /\ Append(buffer, e) \in Seq(Event)
        /\ Len(Append(buffer, e)) = e
        /\ \A i \in 1..eventCount : Append(buffer, e)[i] = buffer[i]
        /\ Append(buffer, e)[e] = e
    BY <2>1, <1>1
  <2>3. b = Append(buffer, e)
    BY <1>3 DEF Buffered
  <2>4. \A i \in 1..e : Append(buffer, e)[i] = e - e + i
    BY <2>1, <2>2, <1>1 DEF BufferIsTail
  <2> QED
    BY <2>1, <2>2, <2>3, <2>4, <1>1
<1> QED
  BY <1>2, <1>3

------------------------------------------------------------------------------
\* A step that leaves a subscriber alone keeps what holds of it.
LEMMA Untouched ==
  ASSUME NEW s \in Subscribers, SubscriberInv(s),
         eventCount' = eventCount, closed' = closed,
         pc'[s] = pc[s], queues'[s] = queues[s], joinedAt'[s] = joinedAt[s],
         delivered'[s] = delivered[s], s \in registered' <=> s \in registered
  PROVE  SubscriberInv(s)'
  BY DEF SubscriberInv, RegisteredIsLive, IteratorOK, InOrder, QueueIsTail, Live,
         NextFor, Undelivered

\* Consecutive events stay consecutive when the next one is appended.
LEMMA ConsecutiveAppend ==
  ASSUME NEW S, NEW q \in Seq(S), NEW o \in Int, NEW c \in S, c \in Int,
         c = o + Len(q), \A i \in 1..Len(q) : q[i] = o + i - 1
  PROVE  /\ Append(q, c) \in Seq(S)
         /\ Len(Append(q, c)) = Len(q) + 1
         /\ \A i \in 1..Len(Append(q, c)) : Append(q, c)[i] = o + i - 1
<1>1. /\ Append(q, c) \in Seq(S)
      /\ Len(Append(q, c)) = Len(q) + 1
      /\ \A i \in 1..Len(q) : Append(q, c)[i] = q[i]
      /\ Append(q, c)[Len(q) + 1] = c
  OBVIOUS
<1> QED
  BY <1>1

\* ... and when the first one is taken.
LEMMA ConsecutiveTail ==
  ASSUME NEW S, NEW q \in Seq(S), NEW o \in Int, NEW u \in 1..Len(q),
         \A i \in 1..u : q[i] = o + i - 1
  PROVE  \A i \in 1..(u - 1) : Tail(q)[i] = (o + 1) + i - 1
<1>1. \A i \in 1..(u - 1) : i \in Int /\ Tail(q)[i] = q[i + 1] /\ i + 1 \in 1..u
  OBVIOUS
<1> QED
  BY <1>1

LEMMA PutInvariant == IInv /\ Put => IInv'
<1> SUFFICES ASSUME IInv, Put PROVE IInv'
  OBVIOUS
<1>0. PICK e : e = eventCount + 1
  OBVIOUS
<1>1. e = eventCount + 1 /\ eventCount \in 0..MaxEvents /\ e \in Event /\ eventCount < MaxEvents /\ MaxEvents \in Nat
      /\ buffer' = Buffered(e) /\ eventCount' = e /\ closed = FALSE /\ closed' = FALSE
  BY <1>0, BridgeAssumption DEF IInv, TypeOK, Put, Event
<1>2. /\ buffer' \in Seq(Event) /\ Len(buffer') <= MaxBuffer
      /\ Len(buffer') = IF e <= MaxBuffer THEN e ELSE MaxBuffer
      /\ \A i \in 1..Len(buffer') : buffer'[i] = e - Len(buffer') + i
  <2>1. TypeOK /\ BufferIsTail
    BY DEF IInv
  <2>2. PICK b : b = Buffered(e)
    OBVIOUS
  <2>3. /\ b \in Seq(Event) /\ Len(b) <= MaxBuffer
        /\ Len(b) = IF e <= MaxBuffer THEN e ELSE MaxBuffer
        /\ \A i \in 1..Len(b) : b[i] = e - Len(b) + i
    BY <1>1, <2>1, <2>2, BufferedIsTail
  <2> QED
    BY <1>1, <2>2, <2>3
<1>3. ASSUME NEW s \in Subscribers
      PROVE  /\ queues[s] \in Seq(Event \union {Sentinel})
             /\ queues'[s] = IF s \in registered THEN Append(queues[s], e) ELSE queues[s]
             /\ queues'[s] \in Seq(Event \union {Sentinel})
  BY <1>1 DEF IInv, TypeOK, Put, Broadcasted
<1>4. TypeOK'
  <2>1. queues' \in [Subscribers -> Seq(Event \union {Sentinel})]
    BY <1>3 DEF Put, Broadcasted
  <2>2. eventCount' \in 0..MaxEvents
    BY <1>1
  <2> QED
    BY <1>1, <1>2, <2>1, <2>2 DEF TypeOK, IInv, Put
<1>5. BufferIsTail'
  BY <1>1, <1>2 DEF BufferIsTail
<1>6. ASSUME NEW s \in Subscribers PROVE SubscriberInv(s)'
  <2>1. SubscriberInv(s) /\ joinedAt[s] \in (0..MaxEvents) \union {NotJoined}
        /\ Len(delivered[s]) \in Nat
    BY DEF IInv, TypeOK
  <2>2. UNCHANGED <<registered, pc, joinedAt, delivered>>
    BY DEF Put
  <2>3. (RegisteredIsLive(s) /\ IteratorOK(s) /\ InOrder(s))'
    BY <1>1, <1>3, <2>1, <2>2
    DEF SubscriberInv, RegisteredIsLive, IteratorOK, InOrder, Live, NextFor
  <2>4. CASE ~Live(s)
    BY <2>2, <2>3, <2>4 DEF SubscriberInv, QueueIsTail, Live
  <2>5. CASE Live(s)
    <3>1. s \in registered /\ queues'[s] = Append(queues[s], e)
      BY <1>3, <2>1, <2>5 DEF SubscriberInv, RegisteredIsLive
    <3>2. PICK q : q = queues[s]
      OBVIOUS
    <3>3. PICK o : o = NextFor(s)
      OBVIOUS
    <3>4. q \in Seq(Event \union {Sentinel}) /\ o \in Int
      BY <1>1, <1>3, <2>1, <2>5, <3>2, <3>3, BridgeAssumption
      DEF Live, SubscriberInv, IteratorOK, NextFor, Oldest
    <3>5. Undelivered(s) = Len(q) /\ Undelivered(s)' = Len(queues'[s])
      BY <1>1, <3>2 DEF Undelivered
    <3>6. o + Len(q) = eventCount + 1 /\ \A i \in 1..Len(q) : q[i] = o + i - 1
      BY <2>1, <2>5, <3>2, <3>3, <3>4, <3>5, BridgeAssumption DEF SubscriberInv, QueueIsTail
    <3>7. /\ Len(queues'[s]) = Len(q) + 1
          /\ \A i \in 1..Len(queues'[s]) : queues'[s][i] = o + i - 1
      BY <1>1, <3>1, <3>2, <3>4, <3>6, ConsecutiveAppend
    <3>8. QueueIsTail(s)'
      <4>1. o = NextFor(s)'
        BY <2>2, <3>3 DEF NextFor
      <4>2. o + Undelivered(s)' = eventCount' + 1
        BY <1>1, <3>4, <3>5, <3>6, <3>7
      <4>3. \A i \in 1..Undelivered(s)' : queues'[s][i] = o + i - 1
        BY <3>5, <3>7
      <4> QED
        BY <1>1, <4>1, <4>2, <4>3 DEF QueueIsTail
    <3> QED
      BY <2>3, <3>8 DEF SubscriberInv
  <2> QED
    BY <2>4, <2>5
<1> QED
  BY <1>4, <1>5, <1>6 DEF IInv

LEMMA CloseInvariant == IInv /\ Close => IInv'
<1> SUFFICES ASSUME IInv, Close PROVE IInv'
  OBVIOUS
<1>1. closed = FALSE /\ closed' = TRUE /\ queues' = Broadcasted(Sentinel)
      /\ UNCHANGED <<buffer, eventCount, registered, pc, joinedAt, delivered>>
  BY DEF Close, IInv, TypeOK
<1>2. ASSUME NEW s \in Subscribers
      PROVE  /\ queues[s] \in Seq(Event \union {Sentinel})
             /\ queues'[s] = IF s \in registered THEN Append(queues[s], Sentinel) ELSE queues[s]
             /\ queues'[s] \in Seq(Event \union {Sentinel})
  BY <1>1 DEF IInv, TypeOK, Broadcasted
<1>3. TypeOK'
  <2>1. queues' \in [Subscribers -> Seq(Event \union {Sentinel})]
    BY <1>1, <1>2 DEF Broadcasted
  <2> QED
    BY <1>1, <2>1 DEF TypeOK, IInv
<1>4. BufferIsTail'
  BY <1>1 DEF IInv, BufferIsTail
<1>5. ASSUME NEW s \in Subscribers PROVE SubscriberInv(s)'
  <2>1. SubscriberInv(s) /\ NextFor(s)' = NextFor(s)
    BY <1>1 DEF IInv, NextFor
  <2>2. (RegisteredIsLive(s) /\ IteratorOK(s) /\ InOrder(s))'
    BY <1>1, <1>2, <2>1 DEF SubscriberInv, RegisteredIsLive, IteratorOK, InOrder, Live
  <2>3. ASSUME Live(s) PROVE QueueIsTail(s)'
    <3>1. queues'[s] = Append(queues[s], Sentinel)
      BY <1>2, <2>1, <2>3 DEF SubscriberInv, RegisteredIsLive
    <3>2. /\ Len(queues[s]) \in Nat
          /\ Len(queues'[s]) = Len(queues[s]) + 1
          /\ \A i \in 1..Len(queues[s]) : queues'[s][i] = queues[s][i]
          /\ queues'[s][Len(queues'[s])] = Sentinel
      BY <1>2, <3>1
    <3>3. Undelivered(s) = Len(queues[s]) /\ Undelivered(s)' = Len(queues'[s]) - 1
      BY <1>1 DEF Undelivered
    <3>4. Undelivered(s)' = Undelivered(s)
      BY <3>2, <3>3
    <3>5. \A i \in 1..Undelivered(s) : queues'[s][i] = NextFor(s) + i - 1
      BY <2>1, <2>3, <3>2, <3>3 DEF SubscriberInv, QueueIsTail
    <3>6. Len(queues'[s]) >= 1
      BY <3>2
    <3> QED
      BY <1>1, <2>1, <2>3, <3>2, <3>4, <3>5, <3>6 DEF SubscriberInv, QueueIsTail
  <2> QED
    BY <1>1, <2>2, <2>3 DEF SubscriberInv, QueueIsTail, Live
<1> QED
  BY <1>3, <1>4, <1>5 DEF IInv

------------------------------------------------------------------------------
\* What a step of one generator has to show: the rest is left alone.
LEMMA OneSubscriber ==
  ASSUME IInv, NEW s \in Subscribers, TypeOK', SubscriberInv(s)',
         UNCHANGED <<buffer, eventCount, closed>>,
         \A t \in Subscribers \ {s} :
           /\ pc'[t] = pc[t] /\ queues'[t] = queues[t]
           /\ joinedAt'[t] = joinedAt[t] /\ delivered'[t] = delivered[t]
           /\ t \in registered' <=> t \in registered
  PROVE  IInv'
<1>1. ASSUME NEW t \in Subscribers PROVE SubscriberInv(t)'
  BY Untouched DEF IInv
<1>2. BufferIsTail'
  BY DEF IInv, BufferIsTail
<1> QED
  BY <1>1, <1>2 DEF IInv

\* A generator that stops has no queue left.
LEMMA LeaveInvariant ==
  ASSUME IInv, NEW s \in Subscribers, NEW how \in Stopped, Leave(s, how),
         UNCHANGED <<buffer, eventCount, closed, delivered>>,
         joinedAt' \in [Subscribers -> (0..MaxEvents) \union {NotJoined}],
         joinedAt'[s] \in 0..eventCount,
         \A t \in Subscribers \ {s} : joinedAt'[t] = joinedAt[t],
         delivered[s] # <<>> => joinedAt'[s] = joinedAt[s]
  PROVE  IInv'
<1>1. how \in PC /\ how # "new" /\ how \notin {"replaying", "yielded", "waiting"}
  BY DEF Stopped, PC
<1>2. <<>> \in Seq(Event \union {Sentinel})
  OBVIOUS
<1>3. /\ pc'[s] = how /\ s \notin registered' /\ queues'[s] = <<>>
      /\ \A t \in Subscribers \ {s} :
           /\ pc'[t] = pc[t] /\ queues'[t] = queues[t]
           /\ t \in registered' <=> t \in registered
  BY DEF Leave, IInv, TypeOK
<1>4. TypeOK'
  BY <1>1, <1>2 DEF Leave, IInv, TypeOK
<1>5. SubscriberInv(s)'
  <2>1. InOrder(s)'
    <3>1. CASE delivered[s] = <<>>
      BY <3>1 DEF InOrder
    <3>2. CASE delivered[s] # <<>>
      BY <3>2 DEF IInv, SubscriberInv, InOrder
    <3> QED
      BY <3>1, <3>2
  <2>2. ~Live(s)'
    BY <1>1, <1>3 DEF Live
  <2>3. IteratorOK(s)'
    BY <1>1, <1>3 DEF IteratorOK
  <2> QED
    BY <1>3, <2>1, <2>2, <2>3 DEF SubscriberInv, RegisteredIsLive, QueueIsTail
<1>6. \A t \in Subscribers \ {s} :
        /\ pc'[t] = pc[t] /\ queues'[t] = queues[t]
        /\ joinedAt'[t] = joinedAt[t] /\ delivered'[t] = delivered[t]
        /\ t \in registered' <=> t \in registered
  BY <1>3
<1>7. UNCHANGED <<buffer, eventCount, closed>>
  OBVIOUS
<1> QED
  BY <1>4, <1>5, <1>6, <1>7, OneSubscriber

\* Entering the live loop with nothing left to replay.
LEMMA RegisterInvariant ==
  ASSUME IInv, NEW s \in Subscribers, Register(s), ~Live(s),
         UNCHANGED <<buffer, eventCount, closed, delivered>>,
         joinedAt' \in [Subscribers -> (0..MaxEvents) \union {NotJoined}],
         joinedAt'[s] = eventCount, NextFor(s)' = eventCount + 1,
         \A t \in Subscribers \ {s} : joinedAt'[t] = joinedAt[t],
         delivered[s] # <<>> => joinedAt'[s] = joinedAt[s],
         queues[s] = <<>>
  PROVE  IInv'
<1>0. eventCount \in Nat /\ "ended" \in Stopped /\ "waiting" \in PC
  BY BridgeAssumption DEF IInv, TypeOK, Stopped, PC, Running
<1>1. CASE closed
  <2>1. Leave(s, "ended")
    BY <1>1 DEF Register, LoopOver
  <2> QED
    BY <1>0, <2>1, LeaveInvariant
<1>2. CASE ~closed
  <2>1. /\ registered' = registered \union {s} /\ UNCHANGED queues
        /\ pc' = [pc EXCEPT ![s] = "waiting"] /\ pc'[s] = "waiting"
        /\ \A t \in Subscribers \ {s} : pc'[t] = pc[t]
    BY <1>2 DEF Register, LoopOver, IInv, TypeOK
  <2>2. TypeOK'
    BY <1>0, <2>1 DEF IInv, TypeOK
  <2>3. InOrder(s)'
    <3>1. CASE delivered[s] = <<>>
      BY <3>1 DEF InOrder
    <3>2. CASE delivered[s] # <<>>
      BY <3>2 DEF IInv, SubscriberInv, InOrder
    <3> QED
      BY <3>1, <3>2
  <2>4. Undelivered(s)' = 0
    BY <1>2, <2>1 DEF Undelivered
  <2>5. QueueIsTail(s)'
    BY <1>0, <1>2, <2>4 DEF QueueIsTail
  <2>6. RegisteredIsLive(s)' /\ IteratorOK(s)'
    BY <1>0, <2>1 DEF RegisteredIsLive, IteratorOK, Live
  <2>7. SubscriberInv(s)'
    BY <2>3, <2>5, <2>6 DEF SubscriberInv
  <2>8. \A t \in Subscribers \ {s} :
          /\ pc'[t] = pc[t] /\ queues'[t] = queues[t]
          /\ joinedAt'[t] = joinedAt[t] /\ delivered'[t] = delivered[t]
          /\ t \in registered' <=> t \in registered
    BY <2>1
  <2>9. UNCHANGED <<buffer, eventCount, closed>>
    OBVIOUS
  <2> QED
    BY <2>2, <2>7, <2>8, <2>9, OneSubscriber
<1> QED
  BY <1>1, <1>2

\* Sending the next event: what a client was sent stays in order.
LEMMA SendInvariant ==
  ASSUME TypeOK, NEW s \in Subscribers, InOrder(s), NEW e \in Event, Send(s, e),
         joinedAt'[s] = joinedAt[s], joinedAt[s] \in 0..eventCount, e = NextFor(s)
  PROVE  /\ delivered' \in [Subscribers -> Seq(Event)]
         /\ \A t \in Subscribers \ {s} : delivered'[t] = delivered[t]
         /\ InOrder(s)'
         /\ NextFor(s)' = NextFor(s) + 1
<1>1. PICK o : o = Oldest(joinedAt[s])
  OBVIOUS
<1>2. PICK d : d = delivered[s]
  OBVIOUS
<1>3. o \in Int /\ d \in Seq(Event) /\ e \in Int /\ Len(d) \in Nat
  BY <1>1, <1>2, BridgeAssumption DEF TypeOK, Oldest, Event
<1>4. e = o + Len(d) /\ \A i \in 1..Len(d) : d[i] = o + i - 1
  BY <1>1, <1>2 DEF NextFor, InOrder
<1>5. /\ Append(d, e) \in Seq(Event) /\ Len(Append(d, e)) = Len(d) + 1
      /\ \A i \in 1..Len(Append(d, e)) : Append(d, e)[i] = o + i - 1
  BY <1>3, <1>4, ConsecutiveAppend
<1>6. delivered' = [delivered EXCEPT ![s] = Append(d, e)] /\ delivered'[s] = Append(d, e)
  BY <1>2 DEF Send, TypeOK
<1>7. InOrder(s)'
  BY <1>1, <1>5, <1>6 DEF InOrder
<1>8. NextFor(s)' = NextFor(s) + 1
  BY <1>1, <1>2, <1>3, <1>5, <1>6 DEF NextFor
<1>9. delivered' \in [Subscribers -> Seq(Event)]
      /\ \A t \in Subscribers \ {s} : delivered'[t] = delivered[t]
  BY <1>5, <1>6 DEF TypeOK
<1> QED
  BY <1>7, <1>8, <1>9

------------------------------------------------------------------------------
LEMMA SubscribeLiveInvariant ==
  ASSUME IInv, NEW s \in Subscribers, SubscribeLive(s)
  PROVE  IInv'
<1>1. /\ eventCount \in 0..MaxEvents /\ MaxEvents \in Nat /\ MaxBuffer \in Nat \ {0}
      /\ BufferIsTail /\ buffer = <<>> /\ SubscriberInv(s) /\ pc[s] = "new"
  BY BridgeAssumption DEF IInv, TypeOK, SubscribeLive
<1>2. eventCount = 0
  BY <1>1 DEF BufferIsTail
<1>3. /\ delivered[s] = <<>> /\ ~Live(s)
  BY <1>1 DEF SubscriberInv, IteratorOK, Live
<1>4. /\ joinedAt' = [joinedAt EXCEPT ![s] = eventCount]
      /\ UNCHANGED <<buffer, eventCount, closed, delivered>> /\ Register(s)
  BY DEF SubscribeLive
<1>5. /\ joinedAt' \in [Subscribers -> (0..MaxEvents) \union {NotJoined}]
      /\ joinedAt'[s] = eventCount
      /\ \A t \in Subscribers \ {s} : joinedAt'[t] = joinedAt[t]
  BY <1>1, <1>4 DEF IInv, TypeOK
<1>6. NextFor(s)' = eventCount + 1
  BY <1>1, <1>2, <1>3, <1>4, <1>5 DEF NextFor, Oldest
<1>7. queues[s] = <<>>
  BY <1>1, <1>3 DEF SubscriberInv, RegisteredIsLive
<1> QED
  BY <1>3, <1>4, <1>5, <1>6, <1>7, RegisterInvariant

LEMMA SubscribeReplayInvariant ==
  ASSUME IInv, NEW s \in Subscribers, SubscribeReplay(s)
  PROVE  IInv'
<1>1. /\ eventCount \in 0..MaxEvents /\ MaxEvents \in Nat /\ MaxBuffer \in Nat \ {0}
      /\ BufferIsTail /\ buffer # <<>> /\ SubscriberInv(s) /\ pc[s] = "new"
      /\ buffer \in Seq(Event) /\ "replaying" \in PC
  BY BridgeAssumption DEF IInv, TypeOK, SubscribeReplay, PC, Running
<1>2. /\ joinedAt' = [joinedAt EXCEPT ![s] = eventCount] /\ Send(s, Head(buffer))
      /\ pc' = [pc EXCEPT ![s] = "replaying"]
      /\ UNCHANGED <<buffer, eventCount, closed, registered, queues>>
  BY DEF SubscribeReplay
<1>3. delivered[s] = <<>>
  BY <1>1 DEF SubscriberInv, IteratorOK
<1>4. /\ joinedAt' \in [Subscribers -> (0..MaxEvents) \union {NotJoined}]
      /\ joinedAt'[s] = eventCount
      /\ \A t \in Subscribers \ {s} : joinedAt'[t] = joinedAt[t]
      /\ pc' \in [Subscribers -> PC] /\ pc'[s] = "replaying"
      /\ \A t \in Subscribers \ {s} : pc'[t] = pc[t]
  BY <1>1, <1>2 DEF IInv, TypeOK
<1>5. Head(buffer) \in Event /\ Head(buffer) = Oldest(eventCount) /\ eventCount > 0
  <2>1. Len(buffer) > 0 /\ Head(buffer) = buffer[1] /\ buffer[1] \in Event
    BY <1>1
  <2>2. buffer[1] = eventCount - Len(buffer) + 1
    BY <1>1, <2>1 DEF BufferIsTail
  <2> QED
    BY <1>1, <2>1, <2>2 DEF BufferIsTail, Oldest
<1>6. PICK h : h = Head(buffer)
  OBVIOUS
<1>7. /\ delivered' = [delivered EXCEPT ![s] = <<h>>] /\ h \in Event
      /\ h = Oldest(eventCount) /\ h \in Int
  BY <1>2, <1>3, <1>5, <1>6 DEF Send, IInv, TypeOK, Event
<1>8. /\ delivered' \in [Subscribers -> Seq(Event)] /\ delivered'[s] = <<h>>
      /\ \A t \in Subscribers \ {s} : delivered'[t] = delivered[t]
  BY <1>7 DEF IInv, TypeOK
<1>9. InOrder(s)' /\ NextFor(s)' = h + 1
  BY <1>4, <1>7, <1>8 DEF InOrder, NextFor
<1>10. h <= eventCount
  BY <1>1, <1>5, <1>7 DEF Oldest
<1>11. IteratorOK(s)'
  BY <1>1, <1>2, <1>4, <1>7, <1>9, <1>10 DEF IteratorOK
<1>12. s \notin registered' /\ ~Live(s)' /\ queues'[s] = <<>>
  BY <1>1, <1>2, <1>4 DEF SubscriberInv, RegisteredIsLive, Live
<1>13. SubscriberInv(s)'
  BY <1>9, <1>11, <1>12 DEF SubscriberInv, RegisteredIsLive, QueueIsTail
<1>14. TypeOK'
  BY <1>2, <1>4, <1>8 DEF IInv, TypeOK
<1>15. \A t \in Subscribers \ {s} :
         /\ pc'[t] = pc[t] /\ queues'[t] = queues[t]
         /\ joinedAt'[t] = joinedAt[t] /\ delivered'[t] = delivered[t]
         /\ t \in registered' <=> t \in registered
  BY <1>2, <1>4, <1>8
<1>16. UNCHANGED <<buffer, eventCount, closed>>
  BY <1>2
<1> QED
  BY <1>13, <1>14, <1>15, <1>16, OneSubscriber

LEMMA ReplayNextInvariant ==
  ASSUME IInv, NEW s \in Subscribers, ReplayNext(s)
  PROVE  IInv'
<1>1. /\ eventCount \in 0..MaxEvents /\ MaxEvents \in Nat /\ MaxBuffer \in Nat \ {0}
      /\ BufferIsTail /\ TypeOK /\ SubscriberInv(s) /\ pc[s] = "replaying"
      /\ joinedAt[s] = eventCount /\ Len(delivered[s]) < Len(buffer)
      /\ buffer \in Seq(Event) /\ delivered[s] \in Seq(Event)
  BY BridgeAssumption DEF IInv, TypeOK, ReplayNext, Mutated
<1>2. PICK n : n = Len(delivered[s])
  OBVIOUS
<1>3. PICK e : e = buffer[n + 1]
  OBVIOUS
<1>4. /\ Send(s, e) /\ UNCHANGED <<buffer, eventCount, closed, registered, queues, pc, joinedAt>>
  BY <1>2, <1>3 DEF ReplayNext
<1>5. n \in Nat /\ n + 1 \in 1..Len(buffer) /\ e \in Event
  BY <1>1, <1>2, <1>3
<1>6. e = eventCount - Len(buffer) + (n + 1)
  BY <1>1, <1>3, <1>5 DEF BufferIsTail
<1>7. eventCount - Len(buffer) + 1 = Oldest(eventCount)
  BY <1>1 DEF BufferIsTail, Oldest
<1>8. e = NextFor(s) /\ e <= eventCount
  BY <1>1, <1>2, <1>5, <1>6, <1>7 DEF NextFor
<1>9. /\ delivered' \in [Subscribers -> Seq(Event)]
      /\ \A t \in Subscribers \ {s} : delivered'[t] = delivered[t]
      /\ InOrder(s)'
      /\ NextFor(s)' = NextFor(s) + 1
  BY <1>1, <1>4, <1>5, <1>8, SendInvariant DEF SubscriberInv
<1>10. IteratorOK(s)'
  BY <1>1, <1>4, <1>5, <1>6, <1>8, <1>9 DEF IteratorOK
<1>11. RegisteredIsLive(s)' /\ ~Live(s)'
  BY <1>1, <1>4 DEF SubscriberInv, RegisteredIsLive, Live
<1>12. SubscriberInv(s)'
  BY <1>9, <1>10, <1>11 DEF SubscriberInv, QueueIsTail
<1>13. TypeOK'
  BY <1>1, <1>4, <1>9 DEF TypeOK
<1>14. \A t \in Subscribers \ {s} :
         /\ pc'[t] = pc[t] /\ queues'[t] = queues[t]
         /\ joinedAt'[t] = joinedAt[t] /\ delivered'[t] = delivered[t]
         /\ t \in registered' <=> t \in registered
  BY <1>4, <1>9
<1> QED
  BY <1>4, <1>12, <1>13, <1>14, OneSubscriber

\* The steps that end a generator before it is in the live loop, or leave it
\* where its queue is untouched.
LEMMA QuietInvariant ==
  ASSUME IInv, NEW s \in Subscribers, NEW to \in PC, to # "new", to # "replaying",
         pc' = [pc EXCEPT ![s] = to], pc[s] # "new",
         to \in {"yielded", "waiting"} <=> Live(s),
         UNCHANGED <<buffer, eventCount, closed, registered, queues, joinedAt, delivered>>
  PROVE  IInv'
<1>1. pc'[s] = to /\ pc' \in [Subscribers -> PC]
      /\ \A t \in Subscribers \ {s} : pc'[t] = pc[t]
  BY DEF IInv, TypeOK
<1>2. SubscriberInv(s)
  BY DEF IInv
<1>3. Live(s)' <=> Live(s)
  BY <1>1 DEF Live
<1>4. NextFor(s)' = NextFor(s) /\ Undelivered(s)' = Undelivered(s)
  BY DEF NextFor, Undelivered
<1>5. SubscriberInv(s)'
  BY <1>1, <1>2, <1>3, <1>4
  DEF SubscriberInv, RegisteredIsLive, IteratorOK, InOrder, QueueIsTail
<1>6. TypeOK'
  BY <1>1 DEF IInv, TypeOK
<1> QED
  BY <1>1, <1>5, <1>6, OneSubscriber

LEMMA ReplayDoneInvariant ==
  ASSUME IInv, NEW s \in Subscribers, ReplayDone(s)
  PROVE  IInv'
<1>1. /\ eventCount \in 0..MaxEvents /\ MaxEvents \in Nat /\ MaxBuffer \in Nat \ {0}
      /\ BufferIsTail /\ TypeOK /\ SubscriberInv(s) /\ pc[s] = "replaying" /\ ~Live(s)
      /\ joinedAt[s] = eventCount /\ Len(delivered[s]) >= Len(buffer)
      /\ buffer \in Seq(Event) /\ delivered[s] \in Seq(Event)
      /\ joinedAt' = joinedAt /\ UNCHANGED <<buffer, eventCount, closed, delivered>>
  BY BridgeAssumption DEF IInv, TypeOK, ReplayDone, Mutated, Live
<1>2. eventCount - Len(buffer) + 1 = Oldest(eventCount)
  BY <1>1 DEF BufferIsTail, Oldest
<1>3. NextFor(s) <= eventCount + 1
  BY <1>1 DEF SubscriberInv, IteratorOK
<1>4. NextFor(s) = eventCount + 1
  <2>1. NextFor(s) = Oldest(eventCount) + Len(delivered[s])
    BY <1>1 DEF NextFor
  <2> QED
    BY <2>1, <1>1, <1>2, <1>3
<1>5. NextFor(s)' = eventCount + 1 /\ queues[s] = <<>>
  BY <1>1, <1>4 DEF NextFor, SubscriberInv, RegisteredIsLive
<1>6. Register(s)
  BY DEF ReplayDone
<1>7. joinedAt \in [Subscribers -> (0..MaxEvents) \union {NotJoined}]
  BY <1>1 DEF TypeOK
<1> QED
  BY <1>1, <1>5, <1>6, <1>7, RegisterInvariant

\* wait_for hands over the head of the queue: the next event, or the sentinel.
LEMMA WakeInvariant ==
  ASSUME IInv, NEW s \in Subscribers, Wake(s)
  PROVE  IInv'
<1>1. /\ eventCount \in 0..MaxEvents /\ MaxEvents \in Nat /\ MaxBuffer \in Nat \ {0}
      /\ TypeOK /\ SubscriberInv(s) /\ pc[s] = "waiting" /\ Live(s)
      /\ queues[s] \in Seq(Event \union {Sentinel}) /\ queues[s] # <<>>
      /\ UNCHANGED <<buffer, eventCount, closed, joinedAt>>
      /\ joinedAt[s] \in 0..eventCount
  BY BridgeAssumption DEF IInv, TypeOK, Wake, Live, SubscriberInv, IteratorOK
<1>2. CASE Head(queues[s]) = Sentinel
  <2>1. Leave(s, "ended") /\ delivered' = delivered /\ "ended" \in Stopped
    BY <1>2 DEF Wake, Stopped
  <2>2. joinedAt \in [Subscribers -> (0..MaxEvents) \union {NotJoined}]
    BY <1>1 DEF TypeOK
  <2> QED
    BY <1>1, <2>1, <2>2, LeaveInvariant
<1>3. CASE Head(queues[s]) # Sentinel
  <2>1. PICK q : q = queues[s]
    OBVIOUS
  <2>2. PICK e : e = Head(q)
    OBVIOUS
  <2>3. /\ q \in Seq(Event \union {Sentinel}) /\ Len(q) \in Nat /\ Len(q) > 0
        /\ e = q[1] /\ e \in Event
        /\ Tail(q) \in Seq(Event \union {Sentinel}) /\ Len(Tail(q)) = Len(q) - 1
        /\ \A i \in 1..(Len(q) - 1) : Tail(q)[i] = q[i + 1]
    BY <1>1, <1>3, <2>1, <2>2
  <2>4. /\ Send(s, e) /\ queues' = [queues EXCEPT ![s] = Tail(q)]
        /\ pc' = [pc EXCEPT ![s] = "yielded"] /\ registered' = registered
    BY <1>3, <2>1, <2>2 DEF Wake
  <2>5. /\ queues'[s] = Tail(q) /\ pc'[s] = "yielded" /\ "yielded" \in PC
        /\ queues' \in [Subscribers -> Seq(Event \union {Sentinel})]
        /\ pc' \in [Subscribers -> PC]
        /\ \A t \in Subscribers \ {s} : pc'[t] = pc[t] /\ queues'[t] = queues[t]
    BY <1>1, <2>3, <2>4 DEF TypeOK, PC, Running
  <2>6. PICK u : u = Undelivered(s)
    OBVIOUS
  <2>7. PICK n : n = NextFor(s)
    OBVIOUS
  <2>8. /\ closed => Len(q) >= 1 /\ q[Len(q)] = Sentinel
        /\ n + u = eventCount + 1
        /\ \A i \in 1..u : q[i] = n + i - 1
    BY <1>1, <2>1, <2>6, <2>7 DEF SubscriberInv, QueueIsTail
  <2>9. u \in 1..Len(q) /\ Undelivered(s)' = u - 1
    <3>1. CASE closed
      <4>1. u = Len(q) - 1 /\ Undelivered(s)' = Len(Tail(q)) - 1
        BY <1>1, <2>1, <2>5, <2>6, <3>1 DEF Undelivered
      <4>2. Len(q) # 1
        BY <1>3, <2>1, <2>2, <2>3, <2>8, <3>1
      <4> QED
        BY <4>1, <4>2, <2>3
    <3>2. CASE ~closed
      BY <1>1, <2>1, <2>3, <2>5, <2>6, <3>2 DEF Undelivered
    <3> QED
      BY <3>1, <3>2
  <2>10. n \in Int /\ e = n
    <3>1. n \in Int
      BY <1>1, <2>7 DEF NextFor, Oldest, TypeOK
    <3>2. \A i \in 1..u : q[i] = n + i - 1
      BY <2>8
    <3>3. 1 \in 1..u
      BY <2>9
    <3>4. q[1] = n + 1 - 1
      BY <3>2, <3>3
    <3> QED
      BY <3>1, <3>4, <2>3
  <2>11. /\ delivered' \in [Subscribers -> Seq(Event)]
         /\ \A t \in Subscribers \ {s} : delivered'[t] = delivered[t]
         /\ InOrder(s)'
         /\ NextFor(s)' = n + 1
    BY <1>1, <2>3, <2>4, <2>7, <2>10, SendInvariant DEF SubscriberInv
  <2>12. QueueIsTail(s)'
    <3>1. NextFor(s)' + Undelivered(s)' = eventCount + 1
      BY <2>8, <2>9, <2>10, <2>11
    <3>2. \A i \in 1..(u - 1) : Tail(q)[i] = (n + 1) + i - 1
      <4>1. \A i \in 1..u : q[i] = n + i - 1
        BY <2>8
      <4> QED
        BY <2>3, <2>9, <2>10, <4>1, ConsecutiveTail
    <3>3. \A i \in 1..Undelivered(s)' : queues'[s][i] = NextFor(s)' + i - 1
      BY <2>5, <2>9, <2>11, <3>2
    <3>4. ASSUME closed PROVE Len(queues'[s]) >= 1 /\ queues'[s][Len(queues'[s])] = Sentinel
      <4>1. q[Len(q)] = Sentinel /\ q[1] # Sentinel
        BY <1>3, <2>1, <2>2, <2>3, <2>8, <3>4
      <4>2. Len(Tail(q)) >= 1 /\ Tail(q)[Len(Tail(q))] = q[Len(q)]
        BY <2>3, <4>1
      <4> QED
        BY <2>5, <4>1, <4>2
    <3> QED
      BY <1>1, <3>1, <3>3, <3>4 DEF QueueIsTail
  <2>13. RegisteredIsLive(s)' /\ IteratorOK(s)'
    BY <1>1, <2>4, <2>5 DEF SubscriberInv, RegisteredIsLive, IteratorOK, Live
  <2>14. SubscriberInv(s)'
    BY <2>11, <2>12, <2>13 DEF SubscriberInv
  <2>15. TypeOK'
    BY <1>1, <2>4, <2>5, <2>11 DEF TypeOK
  <2>16. \A t \in Subscribers \ {s} :
           /\ pc'[t] = pc[t] /\ queues'[t] = queues[t]
           /\ joinedAt'[t] = joinedAt[t] /\ delivered'[t] = delivered[t]
           /\ t \in registered' <=> t \in registered
    BY <1>1, <2>4, <2>5, <2>11
  <2> QED
    BY <1>1, <2>14, <2>15, <2>16, OneSubscriber
<1> QED
  BY <1>2, <1>3

\* The other steps of a generator.
LEMMA OtherInvariant ==
  ASSUME IInv, NEW s \in Subscribers,
         ReplayBroken(s) \/ Resume(s) \/ Heartbeat(s) \/ Disconnect(s)
  PROVE  IInv'
<1>1. /\ SubscriberInv(s) /\ TypeOK /\ {"failed", "ended", "waiting", "yielded", "gone"} \subseteq PC
      /\ "gone" \in Stopped /\ "ended" \in Stopped
  BY DEF IInv, PC, Running, Stopped
<1>2. CASE ReplayBroken(s)
  BY <1>1, <1>2, QuietInvariant DEF ReplayBroken, Live
<1>3. CASE Heartbeat(s)
  BY <1>1, <1>3, QuietInvariant DEF Heartbeat, Live
<1>4. CASE Disconnect(s) \/ (Resume(s) /\ closed)
  <2>1. PICK how \in Stopped : Leave(s, how)
    BY <1>1, <1>4 DEF Disconnect, Resume, LoopOver
  <2>2. pc[s] # "new" /\ UNCHANGED <<buffer, eventCount, closed, joinedAt, delivered>>
    BY <1>4 DEF Disconnect, Resume, Running
  <2>3. joinedAt[s] \in 0..eventCount
    BY <1>1, <2>2 DEF SubscriberInv, IteratorOK
  <2>4. joinedAt \in [Subscribers -> (0..MaxEvents) \union {NotJoined}]
    BY <1>1 DEF TypeOK
  <2> QED
    BY <2>1, <2>2, <2>3, <2>4, LeaveInvariant
<1>5. CASE Resume(s) /\ ~closed
  BY <1>1, <1>5, QuietInvariant DEF Resume, LoopOver, Live
<1> QED
  BY <1>2, <1>3, <1>4, <1>5

LEMMA NextInvariant == IInv /\ [Next]_vars => IInv'
<1> SUFFICES ASSUME IInv, [Next]_vars PROVE IInv'
  OBVIOUS
<1>1. CASE Put
  BY <1>1, PutInvariant
<1>2. CASE Close
  BY <1>2, CloseInvariant
<1>3. ASSUME NEW s \in Subscribers, Step(s) \/ Disconnect(s) PROVE IInv'
  BY <1>3, SubscribeLiveInvariant, SubscribeReplayInvariant, ReplayNextInvariant,
     ReplayDoneInvariant, WakeInvariant, OtherInvariant DEF Step
<1>4. CASE UNCHANGED vars
  <2>1. TypeOK' /\ BufferIsTail'
    BY <1>4 DEF vars, IInv, TypeOK, BufferIsTail
  <2>2. ASSUME NEW s \in Subscribers PROVE SubscriberInv(s)'
    BY <1>4, Untouched DEF vars, IInv
  <2> QED
    BY <2>1, <2>2 DEF IInv
<1> QED
  BY <1>1, <1>2, <1>3, <1>4 DEF Next

------------------------------------------------------------------------------
(* The theorems.                                                            *)

THEOREM Invariance == Spec => []IInv
  BY InitInvariant, NextInvariant, PTL DEF Spec

\* Every variable of the bridge keeps its type, and the buffer its bound.
THEOREM TypeCorrect == Spec => []TypeOK
<1>1. IInv => TypeOK
  BY DEF IInv
<1> QED
  BY <1>1, Invariance, PTL

\* Whatever the interleaving of puts, closes, joins and departures, a client is
\* sent the events from the oldest one buffered when it joined, in order.
THEOREM NoGaps == Spec => []Gapless
<1>1. IInv => Gapless
  BY DEF IInv, SubscriberInv, InOrder, Gapless
<1> QED
  BY <1>1, Invariance, PTL

\* A subscriber in the live loop has every later event delivered or queued.
THEOREM NoneMissed == Spec => []NothingMissed
<1>1. IInv => NothingMissed
  BY DEF IInv, SubscriberInv, QueueIsTail, Live, NothingMissed
<1> QED
  BY <1>1, Invariance, PTL

------------------------------------------------------------------------------
(* Refinement: the bridge implements Broadcast.                             *)

\* A step that sends an event to s, before and after which the invariant holds,
\* is a delivery of the abstract specification.
LEMMA SendIsDeliver ==
  ASSUME IInv, IInv', NEW s \in Subscribers, NEW e, Send(s, e),
         UNCHANGED <<eventCount, closed, joinedAt>>,
         pc[s] \in {"replaying", "waiting"}, pc'[s] \in {"replaying", "yielded"}
  PROVE  Promise!Deliver(s)
<1>0. SubscriberInv(s) /\ SubscriberInv(s)' /\ TypeOK /\ TypeOK'
  BY DEF IInv
<1>1. /\ eventCount \in Nat /\ MaxBuffer \in Nat /\ joinedAt[s] \in 0..eventCount
      /\ delivered[s] \in Seq(Event) /\ delivered'[s] \in Seq(Event)
      /\ queues'[s] \in Seq(Event \union {Sentinel}) /\ Len(queues'[s]) \in Nat
  BY <1>0, BridgeAssumption DEF TypeOK, SubscriberInv, IteratorOK
<1>2. delivered' = [delivered EXCEPT ![s] = Append(@, e)] /\ delivered'[s] = Append(delivered[s], e)
  BY <1>0 DEF Send, TypeOK
<1>3. PICK d : d = delivered[s]
  OBVIOUS
<1>4. /\ d \in Seq(Event) /\ Append(d, e) \in Seq(Event) /\ Len(d) \in Nat
      /\ Len(Append(d, e)) = Len(d) + 1 /\ Append(d, e)[Len(d) + 1] = e
  BY <1>1, <1>2, <1>3
<1>5. e = NextFor(s) /\ NextFor(s)' = NextFor(s) + 1
  <2>1. \A i \in 1..(Len(d) + 1) : Append(d, e)[i] = Oldest(joinedAt[s]) + i - 1
    BY <1>0, <1>2, <1>3, <1>4 DEF SubscriberInv, InOrder
  <2>2. e = Oldest(joinedAt[s]) + (Len(d) + 1) - 1
    BY <1>4, <2>1
  <2>3. Oldest(joinedAt[s]) \in Int
    BY <1>1, BridgeAssumption DEF Oldest
  <2> QED
    BY <1>2, <1>3, <1>4, <2>2, <2>3 DEF NextFor
<1>6. NextFor(s) \in Int
  BY <1>1 DEF NextFor, Oldest
<1>7. NextFor(s)' <= eventCount + 1
  <2>1. CASE pc'[s] = "replaying"
    <3>1. NextFor(s)' <= joinedAt[s] + 1
      BY <1>0, <2>1 DEF SubscriberInv, IteratorOK
    <3> QED
      BY <1>1, <1>5, <1>6, <3>1
  <2>2. CASE pc'[s] = "yielded"
    <3>1. NextFor(s)' + Undelivered(s)' = eventCount + 1
      BY <1>0, <2>2 DEF SubscriberInv, QueueIsTail, Live
    <3>2. closed' => Len(queues'[s]) >= 1
      BY <1>0, <2>2 DEF SubscriberInv, QueueIsTail, Live
    <3>3. CASE closed'
      BY <1>1, <1>5, <1>6, <3>1, <3>2, <3>3 DEF Undelivered
    <3>4. CASE ~closed'
      BY <1>1, <1>5, <1>6, <3>1, <3>4 DEF Undelivered
    <3> QED
      BY <3>3, <3>4
  <2> QED
    BY <2>1, <2>2
<1>8. joinedAt[s] # Promise!NotJoined /\ Promise!NextFor(s) = NextFor(s)
  BY <1>1 DEF Promise!NotJoined, Promise!NextFor, Promise!Oldest, NextFor, Oldest
<1>9. Promise!NextFor(s) <= eventCount
  BY <1>1, <1>5, <1>7, <1>8, <1>6
<1> QED
  BY <1>2, <1>5, <1>8, <1>9 DEF Promise!Deliver

LEMMA StepRefines ==
  ASSUME IInv, IInv', NEW s \in Subscribers, Step(s) \/ Disconnect(s)
  PROVE  Promise!Next \/ UNCHANGED Promise!vars
<1>1. /\ TypeOK /\ BufferIsTail /\ SubscriberInv(s) /\ SubscriberInv(s)' /\ TypeOK'
      /\ eventCount \in Nat /\ MaxBuffer \in Nat \ {0}
  BY BridgeAssumption DEF IInv, TypeOK
<1>2. CASE SubscribeLive(s)
  <2>1. joinedAt[s] = Promise!NotJoined
    BY <1>1, <1>2 DEF SubscribeLive, SubscriberInv, IteratorOK, NotJoined, Promise!NotJoined
  <2>2. eventCount = 0
    BY <1>1, <1>2 DEF SubscribeLive, BufferIsTail
  <2> QED
    BY <1>2, <2>1, <2>2 DEF SubscribeLive, Promise!Join, Promise!Next
<1>3. CASE SubscribeReplay(s)
  <2>1. joinedAt[s] = Promise!NotJoined /\ delivered[s] = <<>>
    BY <1>1, <1>3 DEF SubscribeReplay, SubscriberInv, IteratorOK, NotJoined, Promise!NotJoined
  <2>2. /\ buffer \in Seq(Event) /\ Len(buffer) > 0 /\ Head(buffer) = buffer[1]
    BY <1>1, <1>3 DEF SubscribeReplay, TypeOK
  <2>3. eventCount # 0 /\ buffer[1] = eventCount - Len(buffer) + 1
    BY <1>1, <2>2 DEF BufferIsTail
  <2>4. Head(buffer) = Promise!Oldest(eventCount)
    BY <1>1, <2>2, <2>3 DEF BufferIsTail, Promise!Oldest
  <2>5. delivered' = [delivered EXCEPT ![s] = <<Promise!Oldest(eventCount)>>]
    <3>1. PICK h : h = Head(buffer)
      OBVIOUS
    <3>2. Append(delivered[s], h) = <<h>>
      BY <2>1
    <3>3. delivered' = [delivered EXCEPT ![s] = Append(delivered[s], h)]
      BY <1>3, <3>1 DEF SubscribeReplay, Send
    <3> QED
      BY <2>4, <3>1, <3>2, <3>3
  <2> QED
    BY <1>3, <2>1, <2>3, <2>5 DEF SubscribeReplay, Promise!Join, Promise!Next
<1>4. CASE ReplayNext(s)
  <2>1. UNCHANGED <<eventCount, closed, joinedAt, pc>> /\ pc[s] = "replaying"
        /\ \E e : Send(s, e)
    BY <1>4 DEF ReplayNext
  <2> QED
    BY <1>4, <2>1, SendIsDeliver DEF Promise!Next
<1>5. CASE Wake(s) /\ Head(queues[s]) # Sentinel
  <2>1. UNCHANGED <<eventCount, closed, joinedAt>> /\ pc[s] = "waiting" /\ pc'[s] = "yielded"
        /\ \E e : Send(s, e)
    BY <1>1, <1>5 DEF Wake, TypeOK
  <2> QED
    BY <2>1, SendIsDeliver DEF Promise!Next
<1>6. CASE \/ ReplayBroken(s) \/ ReplayDone(s) \/ Resume(s) \/ Heartbeat(s)
           \/ Disconnect(s) \/ (Wake(s) /\ Head(queues[s]) = Sentinel)
  BY <1>6
  DEF ReplayBroken, ReplayDone, Resume, Heartbeat, Disconnect, Wake, Promise!vars
<1> QED
  BY <1>2, <1>3, <1>4, <1>5, <1>6 DEF Step

\* For every number of subscribers and every buffer size, what the clients see
\* is the broadcast that the bridge promises.
THEOREM Refinement == Spec => ImplementsBroadcast
<1>1. Init => Promise!Init
  BY DEF Init, Promise!Init, NotJoined, Promise!NotJoined
<1>2. IInv /\ IInv' /\ [Next]_vars => [Promise!Next]_(Promise!vars)
  <2> SUFFICES ASSUME IInv, IInv', [Next]_vars
               PROVE  Promise!Next \/ UNCHANGED Promise!vars
    OBVIOUS
  <2>1. CASE Put
    BY <2>1 DEF Put, Promise!Next, Promise!Produce
  <2>2. CASE Close
    BY <2>2 DEF Close, Promise!Next, Promise!Finish
  <2>3. ASSUME NEW s \in Subscribers, Step(s) \/ Disconnect(s)
        PROVE  Promise!Next \/ UNCHANGED Promise!vars
    BY <2>3, StepRefines
  <2>4. CASE UNCHANGED vars
    BY <2>4 DEF vars, Promise!vars
  <2> QED
    BY <2>1, <2>2, <2>3, <2>4 DEF Next
<1> QED
  BY <1>1, <1>2, Invariance, PTL DEF Spec, Promise!Spec, ImplementsBroadcast

------------------------------------------------------------------------------
(* What a stream that ended with the bridge can be missing.                 *)

\* A generator that ends because the bridge was closed has sent its client
\* everything, unless the close met it at a yield: then its client misses what
\* its queue still held, and nothing else.
OnlyQueuedLost ==
  [][\A s \in Subscribers :
       pc[s] # "ended" /\ pc'[s] = "ended" =>
         /\ closed
         /\ NextFor(s)' + (IF pc[s] = "yielded" THEN Undelivered(s) ELSE 0) = eventCount' + 1]_vars

\* The first event for a reader is at least the first event of the run.
LEMMA NextForPositive ==
  ASSUME IInv, NEW s \in Subscribers, pc[s] # "new"
  PROVE  NextFor(s) \in Nat /\ NextFor(s) >= 1
<1>1. /\ joinedAt[s] \in 0..eventCount /\ eventCount \in 0..MaxEvents
      /\ delivered[s] \in Seq(Event) /\ MaxBuffer \in Nat \ {0}
  BY BridgeAssumption DEF IInv, TypeOK, SubscriberInv, IteratorOK
<1>2. Len(delivered[s]) \in Nat /\ Oldest(joinedAt[s]) \in Nat /\ Oldest(joinedAt[s]) >= 1
  BY <1>1 DEF Oldest
<1> QED
  BY <1>2 DEF NextFor

\* A replay that is over has sent everything.
LEMMA ReplayedAll ==
  ASSUME IInv, NEW s \in Subscribers, ReplayDone(s)
  PROVE  NextFor(s) = eventCount + 1
<1>1. /\ eventCount \in Nat /\ MaxBuffer \in Nat \ {0} /\ BufferIsTail
      /\ pc[s] = "replaying" /\ joinedAt[s] = eventCount
      /\ Len(delivered[s]) >= Len(buffer)
      /\ Len(delivered[s]) \in Nat /\ Len(buffer) \in Nat
  BY BridgeAssumption DEF IInv, TypeOK, ReplayDone, Mutated
<1>2. eventCount - Len(buffer) + 1 = Oldest(eventCount)
  BY <1>1 DEF BufferIsTail, Oldest
<1>3. NextFor(s) <= eventCount + 1
  BY <1>1 DEF IInv, SubscriberInv, IteratorOK
<1>4. NextFor(s) = Oldest(eventCount) + Len(delivered[s])
  BY <1>1 DEF NextFor
<1> QED
  BY <1>1, <1>2, <1>3, <1>4

\* The sentinel at the head of a queue has nothing before or behind it.
LEMMA SentinelIsAlone ==
  ASSUME IInv, NEW s \in Subscribers, pc[s] = "waiting",
         queues[s] # <<>>, Head(queues[s]) = Sentinel
  PROVE  closed /\ NextFor(s) = eventCount + 1
<1>1. /\ SubscriberInv(s) /\ Live(s) /\ closed \in BOOLEAN /\ eventCount \in Nat
      /\ queues[s] \in Seq(Event \union {Sentinel})
  BY DEF IInv, TypeOK, Live
<1>2. Len(queues[s]) \in Nat /\ Len(queues[s]) >= 1 /\ queues[s][1] = 0
  BY <1>1 DEF Sentinel
<1>3. NextFor(s) \in Nat /\ NextFor(s) >= 1
  BY NextForPositive
<1>4. /\ NextFor(s) + Undelivered(s) = eventCount + 1
      /\ \A i \in 1..Undelivered(s) : queues[s][i] = NextFor(s) + i - 1
  BY <1>1 DEF SubscriberInv, QueueIsTail
<1>5. Undelivered(s) \in Int
  BY <1>2 DEF Undelivered
<1>6. 1 \notin 1..Undelivered(s)
  BY <1>2, <1>3, <1>4
<1>7. Undelivered(s) < 1
  BY <1>5, <1>6
<1>8. closed
  BY <1>2, <1>7 DEF Undelivered
<1>9. Undelivered(s) = 0
  <2>1. PICK n : n = Len(queues[s])
    OBVIOUS
  <2>2. Undelivered(s) = n - 1
    BY <1>8, <2>1 DEF Undelivered
  <2>3. n \in Nat /\ n >= 1
    BY <1>2, <2>1
  <2>4. n = 1
    BY <1>7, <2>2, <2>3
  <2> QED
    BY <2>2, <2>4
<1> QED
  BY <1>3, <1>4, <1>8, <1>9

LEMMA EndingStep ==
  ASSUME IInv, NEW s \in Subscribers, Step(s) \/ Disconnect(s),
         pc[s] # "ended", pc'[s] = "ended"
  PROVE  /\ closed
         /\ NextFor(s)' + (IF pc[s] = "yielded" THEN Undelivered(s) ELSE 0) = eventCount' + 1
<1>1. /\ pc \in [Subscribers -> PC] /\ SubscriberInv(s) /\ eventCount \in Nat
      /\ joinedAt \in [Subscribers -> (0..MaxEvents) \union {NotJoined}]
      /\ MaxBuffer \in Nat \ {0} /\ BufferIsTail
  BY BridgeAssumption DEF IInv, TypeOK
<1>2. CASE SubscribeLive(s)
  <2>1. pc[s] = "new" /\ eventCount' = eventCount /\ joinedAt'[s] = eventCount
        /\ delivered'[s] = delivered[s] /\ Register(s)
    BY <1>1, <1>2 DEF SubscribeLive
  <2>2. closed
    BY <1>1, <2>1 DEF Register, LoopOver
  <2>3. eventCount = 0 /\ delivered[s] = <<>>
    BY <1>1, <1>2 DEF SubscribeLive, SubscriberInv, IteratorOK, BufferIsTail
  <2> QED
    BY <1>1, <2>1, <2>2, <2>3 DEF NextFor, Oldest
<1>3. CASE ReplayDone(s)
  <2>1. pc[s] = "replaying" /\ UNCHANGED <<eventCount, joinedAt, delivered>> /\ Register(s)
    BY <1>3 DEF ReplayDone
  <2>2. closed
    BY <1>1, <2>1 DEF Register, LoopOver
  <2>3. NextFor(s)' = eventCount + 1
    BY <1>3, <2>1, ReplayedAll DEF NextFor
  <2> QED
    BY <1>1, <2>1, <2>2, <2>3
<1>4. CASE Resume(s)
  <2>1. pc[s] = "yielded" /\ UNCHANGED <<eventCount, joinedAt, delivered>> /\ Live(s)
    BY <1>4 DEF Resume, Live
  <2>2. closed
    BY <1>1, <1>4 DEF Resume, LoopOver
  <2>3. NextFor(s)' = NextFor(s)
    BY <2>1 DEF NextFor
  <2>4. NextFor(s) + Undelivered(s) = eventCount + 1
    BY <1>1, <2>1 DEF SubscriberInv, QueueIsTail
  <2> QED
    BY <2>1, <2>2, <2>3, <2>4
<1>5. CASE Wake(s)
  <2>1. pc[s] = "waiting" /\ queues[s] # <<>> /\ UNCHANGED <<eventCount, joinedAt>>
    BY <1>5 DEF Wake
  <2>2. Head(queues[s]) = Sentinel /\ delivered' = delivered
    BY <1>1, <1>5 DEF Wake
  <2>3. closed /\ NextFor(s) = eventCount + 1 /\ NextFor(s)' = NextFor(s)
    BY <2>1, <2>2, SentinelIsAlone DEF NextFor
  <2>4. pc[s] # "yielded" /\ eventCount' + 1 \in Nat
    BY <1>1, <2>1
  <2> QED
    BY <1>1, <2>1, <2>3, <2>4
<1>6. CASE \/ SubscribeReplay(s) \/ ReplayNext(s) \/ ReplayBroken(s) \/ Heartbeat(s)
           \/ Disconnect(s)
  <2>1. pc'[s] # "ended"
    BY <1>1, <1>6
    DEF SubscribeReplay, ReplayNext, ReplayBroken, Heartbeat, Disconnect, Leave
  <2> QED
    BY <2>1
<1> QED
  BY <1>2, <1>3, <1>4, <1>5, <1>6 DEF Step

\* The exact extent of the truncation that AllEventsDelivered runs into: of a
\* stream that ends with its bridge only a queued tail can be lost, and only by
\* a client that was being sent an event at the time.
THEOREM TruncationIsBounded == Spec => OnlyQueuedLost
<1>1. ASSUME IInv, Next, NEW s \in Subscribers, pc[s] # "ended", pc'[s] = "ended"
      PROVE  /\ closed
             /\ NextFor(s)' + (IF pc[s] = "yielded" THEN Undelivered(s) ELSE 0) = eventCount' + 1
  <2>1. pc \in [Subscribers -> PC]
    BY <1>1 DEF IInv, TypeOK
  <2>2. PICK t \in Subscribers : Step(t) \/ Disconnect(t)
    BY <1>1 DEF Next, Put, Close
  <2>3. \A u \in Subscribers \ {t} : pc'[u] = pc[u]
    BY <2>1, <2>2
    DEF Step, Disconnect, SubscribeLive, SubscribeReplay, ReplayNext, ReplayBroken,
        ReplayDone, Resume, Wake, Heartbeat, Register, Leave
  <2>4. s = t
    BY <1>1, <2>3
  <2> QED
    BY <1>1, <2>2, <2>4, EndingStep
<1>2. IInv /\ [Next]_vars =>
        [\A s \in Subscribers :
           pc[s] # "ended" /\ pc'[s] = "ended" =>
             /\ closed
             /\ NextFor(s)' + (IF pc[s] = "yielded" THEN Undelivered(s) ELSE 0) = eventCount' + 1]_vars
  BY <1>1
<1> QED
  BY <1>2, Invariance, PTL DEF Spec, OnlyQueuedLost
==============================================================================
