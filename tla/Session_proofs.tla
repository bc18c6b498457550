---------------------------- MODULE Session_proofs ---------------------------
(***************************************************************************)
(* What a session keeps, for every number of turns and requests: the       *)
(* messages of a temporary one (TempSession), the questions, answers and   *)
(* the file of a permanent one (Conversation).                             *)
(***************************************************************************)
EXTENDS TempSession, Conversation, WellFoundedInduction, TLAPS

------------------------------------------------------------------------------
(* What the writers of a temporary session have yet to do.                  *)

\* A plan, or what is left of it.
Orderly(todo) ==
  /\ Len(todo) =< 3
  /\ Len(todo) = 3 /\ todo[1] = "move" => todo[3] = "commit"
  /\ \A i \in 1 .. Len(todo) :
       /\ \A j \in 1 .. Len(todo) : todo[i] = todo[j] => i = j
       /\ todo[i] = "fold" => \A j \in 1 .. Len(todo) : todo[j] # "summary"
       /\ todo[i] = "move" => i < Len(todo) /\ todo[i + 1] = "wipe"
       /\ todo[i] = "wipe" => i = 1 \/ todo[i - 1] = "move"

Todos == {todo \in Seq(Tasks) : Orderly(todo)}

\* What is left of the plan of an upload that has taken the messages along.
Left(todo) ==
  /\ Len(todo) \in 1 .. 2 /\ todo[Len(todo)] = "commit"
  /\ Len(todo) = 2 => todo[1] = "wipe"

\* The messages that are yet to be written; a summary comes of a fold.
Tags(todo) ==
  {tag \in Appends :
     \E i \in 1 .. Len(todo) : todo[i] = tag \/ (tag = "summary" /\ todo[i] = "fold")}

LEMMA FirstOf ==
  ASSUME NEW p \in Seq(Tasks), Len(p) > 0
  PROVE  p # <<>> /\ Head(p) = p[1]
  OBVIOUS

LEMMA TodoPlan ==
  ASSUME NEW kind \in Kinds
  PROVE  Plan(kind) \in Todos /\ Plan(kind) # <<>> /\ Head(Plan(kind)) # "wipe"
<1> DEFINE p == Plan(kind)
<1>1. CASE kind = "stream"
  <2>1. p = <<"user", "fold", "answer">>
    BY <1>1 DEF Plan
  <2>2. p \in Seq(Tasks) /\ Len(p) = 3 /\ p[1] = "user" /\ p[2] = "fold" /\ p[3] = "answer"
    BY <2>1 DEF Tasks
  <2> HIDE DEF p
  <2>3. Orderly(p)
    BY <2>2 DEF Orderly
  <2>4. p # <<>> /\ Head(p) # "wipe"
    BY <2>2, FirstOf
  <2> QED
    BY <2>2, <2>3, <2>4 DEF Todos, p
<1>2. CASE kind = "plain"
  <2>1. p = <<"fold", "user", "answer">>
    BY <1>2 DEF Plan
  <2>2. p \in Seq(Tasks) /\ Len(p) = 3 /\ p[1] = "fold" /\ p[2] = "user" /\ p[3] = "answer"
    BY <2>1 DEF Tasks
  <2> HIDE DEF p
  <2>3. Orderly(p)
    BY <2>2 DEF Orderly
  <2>4. p # <<>> /\ Head(p) # "wipe"
    BY <2>2, FirstOf
  <2> QED
    BY <2>2, <2>3, <2>4 DEF Todos, p
<1>3. CASE kind = "summarize"
  <2>1. p = <<"fold">>
    BY <1>3 DEF Plan
  <2>2. p \in Seq(Tasks) /\ Len(p) = 1 /\ p[1] = "fold"
    BY <2>1 DEF Tasks
  <2> HIDE DEF p
  <2>3. Orderly(p)
    BY <2>2 DEF Orderly
  <2>4. p # <<>> /\ Head(p) # "wipe"
    BY <2>2, FirstOf
  <2> QED
    BY <2>2, <2>3, <2>4 DEF Todos, p
<1>4. CASE kind = "finalize"
  <2>1. p = <<"move", "wipe">>
    BY <1>4 DEF Plan
  <2>2. p \in Seq(Tasks) /\ Len(p) = 2 /\ p[1] = "move" /\ p[2] = "wipe"
    BY <2>1 DEF Tasks
  <2> HIDE DEF p
  <2>3. Orderly(p)
    BY <2>2 DEF Orderly
  <2>4. p # <<>> /\ Head(p) # "wipe"
    BY <2>2, FirstOf
  <2> QED
    BY <2>2, <2>3, <2>4 DEF Todos, p
<1>5. CASE kind = "upload"
  <2>1. p = <<"move", "wipe", "commit">>
    BY <1>5 DEF Plan
  <2>2. p \in Seq(Tasks) /\ Len(p) = 3 /\ p[1] = "move" /\ p[2] = "wipe" /\ p[3] = "commit"
    BY <2>1 DEF Tasks
  <2> HIDE DEF p
  <2>3. Orderly(p)
    BY <2>2 DEF Orderly
  <2>4. p # <<>> /\ Head(p) # "wipe"
    BY <2>2, FirstOf
  <2> QED
    BY <2>2, <2>3, <2>4 DEF Todos, p
<1>6. CASE kind = "rename"
  <2>1. p = <<"title">>
    BY <1>6 DEF Plan
  <2>2. p \in Seq(Tasks) /\ Len(p) = 1 /\ p[1] = "title"
    BY <2>1 DEF Tasks
  <2> HIDE DEF p
  <2>3. Orderly(p)
    BY <2>2 DEF Orderly
  <2>4. p # <<>> /\ Head(p) # "wipe"
    BY <2>2, FirstOf
  <2> QED
    BY <2>2, <2>3, <2>4 DEF Todos, p
<1> QED
  BY <1>1, <1>2, <1>3, <1>4, <1>5, <1>6 DEF Kinds

LEMMA TodoTail ==
  ASSUME NEW todo \in Todos, todo # <<>>
  PROVE  /\ Tail(todo) \in Todos
         /\ Head(todo) = "move" => Tail(todo) # <<>> /\ Head(Tail(todo)) = "wipe"
         /\ Head(todo) # "move" => Tail(todo) = <<>> \/ Head(Tail(todo)) # "wipe"
         /\ Tags(Tail(todo)) \subseteq Tags(todo)
         /\ Head(todo) \in Appends => Head(todo) \in Tags(todo) \ Tags(Tail(todo))
<1>1. todo \in Seq(Tasks) /\ Len(todo) \in Nat \ {0}
  BY DEF Todos
<1>2. /\ Tail(todo) \in Seq(Tasks) /\ Len(Tail(todo)) = Len(todo) - 1
      /\ \A i \in 1 .. Len(todo) - 1 : Tail(todo)[i] = todo[i + 1]
  BY <1>1
<1> DEFINE rest == Tail(todo)
           n == Len(todo)
<1> HIDE DEF rest, n
<1>3. /\ todo \in Seq(Tasks) /\ n \in Nat \ {0} /\ rest \in Seq(Tasks) /\ Len(rest) = n - 1
      /\ \A i \in 1 .. n - 1 : i + 1 \in 1 .. n /\ rest[i] = todo[i + 1]
      /\ Head(todo) = todo[1] /\ (rest # <<>> => n > 1 /\ Head(rest) = todo[2])
      /\ (rest = <<>> => n = 1)
  BY <1>1, <1>2 DEF rest, n
<1>4. \A i \in 1 .. n :
        /\ \A j \in 1 .. n : todo[i] = todo[j] => i = j
        /\ todo[i] = "fold" => \A j \in 1 .. n : todo[j] # "summary"
        /\ todo[i] = "move" => i < n /\ todo[i + 1] = "wipe"
        /\ todo[i] = "wipe" => i = 1 \/ todo[i - 1] = "move"
  BY DEF Todos, Orderly, n
<1>5. \A i \in 1 .. n - 1 :
        /\ \A j \in 1 .. n - 1 : rest[i] = rest[j] => i = j
        /\ rest[i] = "fold" => \A j \in 1 .. n - 1 : rest[j] # "summary"
  <2> SUFFICES ASSUME NEW i \in 1 .. n - 1, NEW j \in 1 .. n - 1
               PROVE  /\ rest[i] = rest[j] => i = j
                      /\ rest[i] = "fold" => rest[j] # "summary"
    OBVIOUS
  <2>1. rest[i] = todo[i + 1] /\ rest[j] = todo[j + 1] /\ i + 1 \in 1 .. n /\ j + 1 \in 1 .. n
    BY <1>3
  <2>2. todo[i + 1] = todo[j + 1] => i + 1 = j + 1
    BY <1>4, <2>1
  <2>3. todo[i + 1] = "fold" => todo[j + 1] # "summary"
    BY <1>4, <2>1
  <2> QED
    BY <1>3, <2>1, <2>2, <2>3
<1>6. \A i \in 1 .. n - 1 :
        /\ rest[i] = "move" => i < n - 1 /\ rest[i + 1] = "wipe"
        /\ rest[i] = "wipe" => i = 1 \/ rest[i - 1] = "move"
  <2> SUFFICES ASSUME NEW i \in 1 .. n - 1
               PROVE  /\ rest[i] = "move" => i < n - 1 /\ rest[i + 1] = "wipe"
                      /\ rest[i] = "wipe" => i = 1 \/ rest[i - 1] = "move"
    OBVIOUS
  <2>1. rest[i] = todo[i + 1] /\ i + 1 \in 1 .. n
    BY <1>3
  <2>2. todo[i + 1] = "move" => i + 1 < n /\ todo[i + 2] = "wipe"
    BY <1>3, <1>4, <2>1
  <2>3. i + 1 < n => rest[i + 1] = todo[i + 2]
    BY <1>3
  <2>4. todo[i + 1] = "wipe" => todo[i] = "move"
    BY <1>3, <1>4, <2>1
  <2>5. i # 1 => rest[i - 1] = todo[i]
    BY <1>3
  <2> QED
    BY <1>3, <2>1, <2>2, <2>3, <2>4, <2>5
<1>7. rest \in Todos
  <2>1. n =< 3
    BY DEF Todos, Orderly, n
  <2>2. Orderly(rest)
    BY <1>3, <1>5, <1>6, <2>1 DEF Orderly
  <2> QED
    BY <1>3, <2>2 DEF Todos
<1>8. Head(todo) = "move" => rest # <<>> /\ Head(rest) = "wipe"
  BY <1>3, <1>4
<1>9. Head(todo) # "move" => rest = <<>> \/ Head(rest) # "wipe"
  BY <1>3, <1>4
<1>10. Tags(rest) \subseteq Tags(todo)
  BY <1>3 DEF Tags, n
<1>11. ASSUME Head(todo) \in Appends PROVE Head(todo) \in Tags(todo) \ Tags(rest)
  <2>1. Head(todo) \in Tags(todo)
    BY <1>3, <1>11 DEF Tags, n
  <2>2. \A i \in 1 .. n - 1 : rest[i] # todo[1]
    BY <1>3, <1>4
  <2>3. todo[1] = "summary" => \A i \in 1 .. n - 1 : rest[i] # "fold"
    BY <1>3, <1>4
  <2> QED
    BY <1>3, <2>1, <2>2, <2>3 DEF Tags
<1> QED
  BY <1>7, <1>8, <1>9, <1>10, <1>11 DEF rest

LEMMA TodoFolded ==
  ASSUME NEW todo \in Todos, todo # <<>>, Head(todo) = "fold"
  PROVE  LET next == <<"summary">> \o Tail(todo) IN
         /\ next \in Todos /\ next # <<>> /\ Head(next) = "summary"
         /\ Tags(next) \subseteq Tags(todo) /\ "summary" \in Tags(todo)
<1> DEFINE next == <<"summary">> \o Tail(todo)
<1>1. todo \in Seq(Tasks) /\ Len(todo) \in Nat \ {0} /\ todo[1] = "fold"
  BY DEF Todos
<1>2. /\ next \in Seq(Tasks) /\ Len(next) = Len(todo) /\ next[1] = "summary"
      /\ \A i \in 2 .. Len(todo) : next[i] = todo[i]
  BY <1>1 DEF Tasks
<1> HIDE DEF next
<1>3. next \in Todos
  <2>1. Orderly(todo)
    BY DEF Todos
  <2>2. Orderly(next)
    BY <1>1, <1>2, <2>1 DEF Orderly
  <2> QED
    BY <1>2, <2>2 DEF Todos
<1>4. Tags(next) \subseteq Tags(todo) /\ "summary" \in Tags(todo)
  BY <1>1, <1>2 DEF Tags, Appends
<1> QED
  BY <1>1, <1>2, <1>3, <1>4 DEF next

------------------------------------------------------------------------------
(* A temporary session.                                                     *)

\* What a writer is at.  Between the two deletions of a promotion its copy is
\* empty.
Writing ==
  \A w \in Writers :
    /\ writer[w].todo \in Todos
    /\ writer[w].step = "new" => writer[w].todo = <<>>
    /\ writer[w].step \in {"open", "thinking"} => writer[w].todo # <<>>
    /\ writer[w].step = "thinking" => Head(writer[w].todo) = "fold"
    /\ writer[w].todo # <<>> /\ Head(writer[w].todo) = "wipe" =>
         writer[w].step = "open" /\ writer[w].copy = <<>>

NoTwins(s) == \A i, j \in DOMAIN s : s[i].id = s[j].id => i = j

\* Whatever is anywhere was written; no list has a message twice.
Listed == Ids(list) \subseteq written /\ saved \subseteq written /\ NoTwins(list)

Copied ==
  \A w \in Writers :
    /\ Ids(writer[w].copy) \subseteq written /\ NoTwins(writer[w].copy)
    /\ writer[w].moved \subseteq written

\* What is yet to be written was not.
Unwritten ==
  \A w \in Writers, tag \in Appends :
    writer[w].step = "new" \/ tag \in Tags(writer[w].todo) => <<w, tag>> \notin written

TempIInv == TempTypeOK /\ Writing /\ Listed /\ Copied /\ Unwritten

\* Sequences of messages.
LEMMA IdsEmpty == Ids(<<>>) = {} /\ NoTwins(<<>>)
BY DEF Ids, NoTwins, Range

LEMMA IdsTyped == ASSUME NEW s \in Seq(Message) PROVE Ids(s) \in SUBSET Identifier
<1>1. \A i \in DOMAIN s : s[i] \in Message
  OBVIOUS
<1>2. \A m \in Message : m.id \in Identifier
  BY DEF Message
<1> QED
  BY <1>1, <1>2 DEF Ids, Range

LEMMA IdsAppend ==
  ASSUME NEW s \in Seq(Message), NEW m \in Message
  PROVE  /\ Append(s, m) \in Seq(Message)
         /\ Ids(Append(s, m)) = Ids(s) \union {m.id}
         /\ NoTwins(s) /\ m.id \notin Ids(s) => NoTwins(Append(s, m))
<1> DEFINE t == Append(s, m)
<1>1. t \in Seq(Message) /\ Len(t) = Len(s) + 1 /\ t[Len(s) + 1] = m
      /\ DOMAIN t = 1 .. Len(s) + 1 /\ DOMAIN s = 1 .. Len(s)
      /\ \A i \in 1 .. Len(s) : t[i] = s[i]
  OBVIOUS
<1> HIDE DEF t
<1>2. Ids(t) = Ids(s) \union {m.id}
  BY <1>1 DEF Ids, Range
<1>3. NoTwins(s) /\ m.id \notin Ids(s) => NoTwins(t)
  BY <1>1 DEF Ids, Range, NoTwins
<1> QED
  BY <1>1, <1>2, <1>3 DEF t

LEMMA IdsSame ==
  ASSUME NEW s \in Seq(Message), NEW t \in Seq(Message), DOMAIN t = DOMAIN s,
         \A i \in DOMAIN s : t[i].id = s[i].id
  PROVE  Ids(t) = Ids(s) /\ (NoTwins(s) => NoTwins(t))
BY DEF Ids, NoTwins, Range

\* The messages s, those of C marked.
MarkedIn(s, C) == [i \in DOMAIN s |-> [s[i] EXCEPT !.summarized = @ \/ s[i].id \in C]]

LEMMA IdsMarked ==
  ASSUME NEW s \in Seq(Message), NEW C
  PROVE  LET t == MarkedIn(s, C) IN
         /\ t \in Seq(Message) /\ Ids(t) = Ids(s) /\ (NoTwins(s) => NoTwins(t))
         /\ \A m \in Range(t) : m.summarized =>
              m.id \in C \/ \E n \in Range(s) : n.id = m.id /\ n.summarized
<1> DEFINE b(i) == s[i].summarized \/ s[i].id \in C
           new(i) == [s[i] EXCEPT !.summarized = b(i)]
           t == [i \in DOMAIN s |-> new(i)]
<1>1. \A i \in DOMAIN s : b(i) \in BOOLEAN
  BY Zenon
<1>2. MarkedIn(s, C) = t
  BY Zenon DEF MarkedIn
<1>3. s \in Seq(Message) /\ DOMAIN s = 1 .. Len(s) /\ \A i \in DOMAIN s : s[i] \in Message
  OBVIOUS
<1> HIDE DEF b
<1>4. \A i \in DOMAIN s : new(i) \in Message /\ new(i).id = s[i].id /\ new(i).summarized = b(i)
  BY <1>1, <1>3 DEF Message
<1> HIDE DEF new
<1>5. t \in Seq(Message) /\ DOMAIN t = DOMAIN s /\ \A i \in DOMAIN s : t[i] = new(i)
  BY <1>3, <1>4
<1> HIDE DEF t
<1>6. Ids(t) = Ids(s) /\ (NoTwins(s) => NoTwins(t))
  <2>1. \A i \in DOMAIN s : t[i].id = s[i].id
    BY <1>4, <1>5, Zenon
  <2> QED
    BY <1>5, <2>1, IdsSame, Zenon
<1>8. ASSUME NEW m \in Range(t), m.summarized
      PROVE  m.id \in C \/ \E n \in Range(s) : n.id = m.id /\ n.summarized
  <2>1. PICK i \in DOMAIN s : m = new(i)
    BY <1>5, <1>8 DEF Range
  <2>2. b(i) /\ m.id = s[i].id /\ s[i] \in Range(s)
    BY <1>4, <1>8, <2>1, Zenon DEF Range
  <2>3. s[i].summarized \/ s[i].id \in C
    BY <2>2, Zenon DEF b
  <2> QED
    BY <2>2, <2>3
<1> QED
  BY <1>2, <1>5, <1>6, <1>8, Zenon

\* What a step does to the writer that takes it.
Sets(w, todo, step, copy, chosen, moved) ==
  /\ writer' \in [Writers -> WriterState]
  /\ \A u \in Writers \ {w} : writer'[u] = writer[u]
  /\ writer'[w].todo = todo /\ writer'[w].step = step /\ writer'[w].copy = copy
  /\ writer'[w].chosen = chosen /\ writer'[w].moved = moved

LEMMA StartSets ==
  ASSUME TempTypeOK, NEW w \in Writers, NEW kind \in Kinds, Start(w, kind)
  PROVE  Sets(w, Plan(kind), "ready", writer[w].copy, writer[w].chosen, writer[w].moved)
<1>1. writer[w] \in WriterState /\ writer \in [Writers -> WriterState]
  BY DEF TempTypeOK
<1> DEFINE b == kind = "summarize"
           x == [writer[w] EXCEPT !.todo = Plan(kind), !.step = "ready", !.asked = b]
<1>2. b \in BOOLEAN /\ Plan(kind) \in Seq(Tasks)
  BY TodoPlan DEF Todos
<1>3. writer' = [writer EXCEPT ![w] = x]
  BY <1>1, Zenon DEF Start
<1> HIDE DEF b
<1>4. /\ x \in WriterState /\ x.todo = Plan(kind) /\ x.step = "ready" /\ x.copy = writer[w].copy
      /\ x.chosen = writer[w].chosen /\ x.moved = writer[w].moved
  BY <1>1, <1>2 DEF WriterState
<1> HIDE DEF x
<1> QED
  BY <1>1, <1>3, <1>4 DEF Sets

LEMMA ReadSets ==
  ASSUME TempTypeOK, NEW w \in Writers, ReadList(w)
  PROVE  Sets(w, writer[w].todo, "open", list, writer[w].chosen, writer[w].moved)
<1>1. writer[w] \in WriterState /\ writer \in [Writers -> WriterState]
  BY DEF TempTypeOK
<1> QED
  BY <1>1 DEF Sets, WriterState, TempTypeOK, ReadList

LEMMA DoneTyped ==
  ASSUME TempTypeOK, NEW w \in Writers, writer[w].todo # <<>>
  PROVE  /\ Done(w) \in WriterState
         /\ Done(w).todo = Tail(writer[w].todo) /\ Done(w).step = "ready" /\ Done(w).copy = <<>>
         /\ Done(w).chosen = writer[w].chosen /\ Done(w).moved = writer[w].moved
<1>1. writer[w] \in WriterState /\ writer \in [Writers -> WriterState]
  BY DEF TempTypeOK
<1>2. Tail(writer[w].todo) \in Seq(Tasks) /\ <<>> \in Seq(Message)
  BY <1>1 DEF WriterState
<1> QED
  BY <1>1, <1>2 DEF Done, WriterState

LEMMA DoneSets ==
  ASSUME TempTypeOK, NEW w \in Writers, writer[w].todo # <<>>, writer' = [writer EXCEPT ![w] = Done(w)]
  PROVE  Sets(w, Tail(writer[w].todo), "ready", <<>>, writer[w].chosen, writer[w].moved)
<1>1. writer \in [Writers -> WriterState]
  BY DEF TempTypeOK
<1> QED
  BY <1>1, DoneTyped DEF Sets

LEMMA ThinkSets ==
  ASSUME TempTypeOK, NEW w \in Writers, ToSummarize(list) \in SUBSET Identifier, Think(w)
  PROVE  Sets(w, writer[w].todo, "thinking", list, ToSummarize(list), writer[w].moved)
<1>1. writer[w] \in WriterState /\ writer \in [Writers -> WriterState]
  BY DEF TempTypeOK
<1> QED
  BY <1>1 DEF Sets, WriterState, TempTypeOK, Think

LEMMA NoSummarySets ==
  ASSUME TempTypeOK, NEW w \in Writers, writer[w].todo # <<>>, NoSummary(w)
  PROVE  Sets(w, Tail(writer[w].todo), "ready", <<>>, {}, writer[w].moved)
<1>1. writer[w] \in WriterState /\ writer \in [Writers -> WriterState]
  BY DEF TempTypeOK
<1> DEFINE d == Done(w)
<1>2. writer' = [writer EXCEPT ![w] = [d EXCEPT !.chosen = {}]]
  BY DEF NoSummary
<1>3. /\ d \in WriterState /\ d.todo = Tail(writer[w].todo) /\ d.step = "ready" /\ d.copy = <<>>
      /\ d.moved = writer[w].moved
  BY DoneTyped
<1> HIDE DEF d
<1> QED
  BY <1>1, <1>2, <1>3 DEF Sets, WriterState

LEMMA CollectSets ==
  ASSUME TempTypeOK, NEW w \in Writers, Collect(w)
  PROVE  Sets(w, writer[w].todo, "open", list, writer[w].chosen, writer[w].moved)
<1>1. writer[w] \in WriterState /\ writer \in [Writers -> WriterState]
  BY DEF TempTypeOK
<1> QED
  BY <1>1 DEF Sets, WriterState, TempTypeOK, Collect, Reread

LEMMA MarkSets ==
  ASSUME TempTypeOK, NEW w \in Writers, writer[w].todo # <<>>, MarkMessages(w)
  PROVE  Sets(w, <<"summary">> \o Tail(writer[w].todo), "ready", <<>>, writer[w].chosen, writer[w].moved)
<1>1. writer[w] \in WriterState /\ writer \in [Writers -> WriterState]
  BY DEF TempTypeOK
<1>2. <<"summary">> \o Tail(writer[w].todo) \in Seq(Tasks) /\ <<>> \in Seq(Message)
  BY <1>1 DEF WriterState, Tasks
<1> QED
  BY <1>1, <1>2 DEF Sets, WriterState, MarkMessages

LEMMA MigrateSets ==
  ASSUME TempTypeOK, NEW w \in Writers, writer[w].todo # <<>>, Migrate(w)
  PROVE  Sets(w, Tail(writer[w].todo), "open", <<>>, writer[w].chosen, writer[w].moved)
<1>1. writer[w] \in WriterState /\ writer \in [Writers -> WriterState]
  BY DEF TempTypeOK
<1>2. Tail(writer[w].todo) \in Seq(Tasks) /\ <<>> \in Seq(Message)
  BY <1>1 DEF WriterState
<1> QED
  BY <1>1, <1>2 DEF Sets, WriterState, Migrate, Moves

LEMMA AdoptSets ==
  ASSUME TempTypeOK, NEW w \in Writers, writer[w].todo # <<>>, Adopt(w)
  PROVE  Sets(w, Tail(writer[w].todo), "open", <<>>, writer[w].chosen, Ids(writer[w].copy))
<1>1. writer[w] \in WriterState /\ writer \in [Writers -> WriterState]
  BY DEF TempTypeOK
<1>2. /\ Tail(writer[w].todo) \in Seq(Tasks) /\ <<>> \in Seq(Message)
      /\ Ids(writer[w].copy) \in SUBSET Identifier
  BY <1>1, IdsTyped DEF WriterState
<1> QED
  BY <1>1, <1>2 DEF Sets, WriterState, Adopt, Moves

LEMMA FailSets ==
  ASSUME TempTypeOK, NEW w \in Writers, Fail(w)
  PROVE  Sets(w, <<>>, "ready", <<>>, writer[w].chosen, {})
<1>1. writer[w] \in WriterState /\ writer \in [Writers -> WriterState]
  BY DEF TempTypeOK
<1>2. <<>> \in Seq(Tasks) /\ <<>> \in Seq(Message)
  OBVIOUS
<1> QED
  BY <1>1, <1>2 DEF Sets, WriterState, Fail

LEMMA SummarizedTyped == ASSUME TempTypeOK PROVE ToSummarize(list) \in SUBSET Identifier
<1>1. \A i \in DOMAIN list : list[i].id \in Identifier
  <2>1. \A i \in DOMAIN list : list[i] \in Message
    BY DEF TempTypeOK
  <2>2. \A m \in Message : m.id \in Identifier
    BY DEF Message
  <2> QED
    BY <2>1, <2>2
<1>2. \A I \in SUBSET DOMAIN list : {list[i].id : i \in I} \in SUBSET Identifier
  BY <1>1
<1> DEFINE open == {i \in DOMAIN list : ~list[i].summarized}
           asks == {i \in open : list[i].id[2] = "user"}
           before == {i \in open : Cardinality({k \in asks : k > i}) >= Keep}
           those == IF Cardinality(asks) < Keep THEN open ELSE before
<1>3. those \in SUBSET DOMAIN list
  OBVIOUS
<1>4. ToSummarize(list) = {list[i].id : i \in those}
  BY DEF ToSummarize
<1> HIDE DEF those
<1> QED
  BY <1>2, <1>3, <1>4

\* The step of one writer.
LEMMA WriterStep ==
  ASSUME TempIInv, NEW w \in Writers,
         NEW todo \in Todos, NEW step, NEW copy, NEW chosen, NEW moved,
         Sets(w, todo, step, copy, chosen, moved),
         step \in {"open", "thinking"} => todo # <<>>,
         step # "new", step = "thinking" => Head(todo) = "fold",
         todo # <<>> /\ Head(todo) = "wipe" => step = "open" /\ copy = <<>>,
         written \subseteq written', \A u \in Writers \ {w}, tag \in Appends : <<u, tag>> \in written' => <<u, tag>> \in written,
         Ids(copy) \subseteq written', moved \subseteq written', NoTwins(copy),
         \A tag \in Appends : tag \in Tags(todo) => <<w, tag>> \notin written'
  PROVE  Writing' /\ Copied' /\ Unwritten'
<1>1. ASSUME NEW u \in Writers, u # w PROVE writer'[u] = writer[u]
  BY <1>1 DEF Sets
<1>2. /\ writer'[w].todo = todo /\ writer'[w].step = step /\ writer'[w].copy = copy
      /\ writer'[w].moved = moved
  BY DEF Sets
<1>3. Writing'
  BY <1>1, <1>2 DEF Writing, TempIInv
<1>4. Copied'
  BY <1>1, <1>2 DEF Copied, TempIInv, Ids, NoTwins
<1>5. Unwritten'
  BY <1>1, <1>2 DEF Unwritten, TempIInv
<1> QED
  BY <1>3, <1>4, <1>5

LEMMA TempInitially == TempInit => TempIInv
<1> SUFFICES ASSUME TempInit PROVE TempIInv
  OBVIOUS
<1>1. Absent \in WriterState /\ Absent.todo = <<>> /\ Absent.step = "new" /\ Absent.copy = <<>> /\ Absent.moved = {}
  BY DEF Absent, WriterState
<1>2. <<>> \in Todos /\ Tags(<<>>) = {}
  BY DEF Todos, Orderly, Tags
<1>3. \A w \in Writers : writer[w] = Absent
  BY DEF TempInit
<1>4. TempTypeOK
  <2>1. list \in Seq(Message) /\ IsInjective(list)
    BY DEF TempInit, IsInjective
  <2>2. writer \in [Writers -> WriterState]
    BY <1>1, Zenon DEF TempInit
  <2> QED
    BY <2>1, <2>2 DEF TempInit, TempTypeOK
<1>5. Writing /\ Copied
  BY <1>1, <1>2, <1>3, IdsEmpty DEF Writing, Copied
<1>6. Listed /\ Unwritten
  BY IdsEmpty DEF TempInit, Listed, Unwritten
<1> QED
  BY <1>4, <1>5, <1>6 DEF TempIInv

\* What a step has to do, but for the writers.
LEMMA TempRest ==
  ASSUME TempIInv, writer' \in [Writers -> WriterState],
         blob' \in BOOLEAN, row' \in BOOLEAN, list' \in Seq(Message),
         written \subseteq written', written' \subseteq Identifier,
         Ids(list') \subseteq written', NoTwins(list'), saved' \subseteq written',
         exposed' \subseteq written', gone' \subseteq written', ghosts' \subseteq written',
         Writing', Copied', Unwritten'
  PROVE  TempIInv'
<1>1. IsInjective(list')
  BY DEF IsInjective, NoTwins
<1> QED
  BY <1>1 DEF TempIInv, TempTypeOK, Listed

\* The tasks and the copy of a writer that is not done.
LEMMA BusyWriter ==
  ASSUME TempIInv, NEW w \in Writers, writer[w].step \in {"open", "thinking"} \/ writer[w].todo # <<>>
  PROVE  /\ writer[w].todo \in Todos /\ writer[w].todo # <<>>
         /\ writer[w].copy \in Seq(Message) /\ Ids(writer[w].copy) \subseteq written
         /\ NoTwins(writer[w].copy) /\ writer[w].moved \subseteq written
         /\ \A tag \in Tags(writer[w].todo) : <<w, tag>> \notin written
<1>1. writer[w] \in WriterState
  BY DEF TempIInv, TempTypeOK
<1> QED
  BY <1>1 DEF TempIInv, Writing, Copied, Unwritten, WriterState, Tags

\* What it has left when the first task is done.
LEMMA BusyTail ==
  ASSUME TempIInv, NEW w \in Writers, writer[w].todo # <<>>
  PROVE  LET rest == Tail(writer[w].todo) IN
         /\ rest \in Todos
         /\ Head(writer[w].todo) = "move" => rest # <<>> /\ Head(rest) = "wipe"
         /\ Head(writer[w].todo) # "move" => rest = <<>> \/ Head(rest) # "wipe"
         /\ \A tag \in Appends : tag \in Tags(rest) => <<w, tag>> \notin written
         /\ Ids(writer[w].copy) \subseteq written /\ writer[w].moved \subseteq written
<1>1. /\ writer[w].todo \in Todos
      /\ Ids(writer[w].copy) \subseteq written /\ writer[w].moved \subseteq written
      /\ \A tag \in Tags(writer[w].todo) : <<w, tag>> \notin written
  BY BusyWriter
<1> QED
  BY <1>1, TodoTail

\* The message that a step appends is a new one.
LEMMA StoreNew ==
  ASSUME TempIInv, NEW w \in Writers, Store(w)
  PROVE  LET id == <<w, Head(writer[w].todo)>>
             m == [id |-> id, summarized |-> FALSE]
         IN /\ id \in Identifier /\ id \notin written /\ m \in Message
            /\ written' = written \union {id}
            /\ list' = Append(writer[w].copy, m) /\ list' \in Seq(Message)
            /\ Ids(list') = Ids(writer[w].copy) \union {id} /\ NoTwins(list')
            /\ Sets(w, Tail(writer[w].todo), "ready", <<>>, writer[w].chosen, writer[w].moved)
<1> DEFINE h == Head(writer[w].todo)
           id == <<w, h>>
           m == [id |-> id, summarized |-> FALSE]
<1>1. /\ writer[w].step = "open" /\ h \in Appends /\ list' = Append(writer[w].copy, m)
      /\ written' = written \union {id} /\ writer' = [writer EXCEPT ![w] = Done(w)]
  BY DEF Store
<1>2. /\ writer[w].todo \in Todos /\ writer[w].todo # <<>>
      /\ writer[w].copy \in Seq(Message) /\ Ids(writer[w].copy) \subseteq written
      /\ NoTwins(writer[w].copy)
      /\ \A tag \in Tags(writer[w].todo) : <<w, tag>> \notin written
  BY <1>1, BusyWriter
<1>3. h \in Tags(writer[w].todo)
  BY <1>1, <1>2, TodoTail
<1>4. id \in Identifier /\ m.id = id
  BY <1>1 DEF Identifier, Appends
<1>5. id \notin written
  BY <1>2, <1>3
<1>6. m \in Message
  BY <1>4 DEF Message
<1>7. Sets(w, Tail(writer[w].todo), "ready", <<>>, writer[w].chosen, writer[w].moved)
  BY <1>1, <1>2, DoneSets DEF TempIInv
<1> HIDE DEF m, id
<1>8. list' \in Seq(Message) /\ Ids(list') = Ids(writer[w].copy) \union {id} /\ NoTwins(list')
  BY <1>1, <1>2, <1>4, <1>5, <1>6, IdsAppend
<1> QED
  BY <1>1, <1>4, <1>5, <1>6, <1>7, <1>8 DEF m, id

\* What marks the messages marks no other, and loses none.
LEMMA MarkList ==
  ASSUME TempIInv, NEW w \in Writers, MarkMessages(w)
  PROVE  /\ list' \in Seq(Message) /\ Ids(list') = Ids(writer[w].copy) /\ NoTwins(list')
         /\ \A m \in Range(list') : m.summarized =>
              m.id \in writer[w].chosen \/ \E n \in Range(writer[w].copy) : n.id = m.id /\ n.summarized
<1>1. writer[w].copy \in Seq(Message) /\ NoTwins(writer[w].copy)
  BY BusyWriter DEF MarkMessages
<1>2. list' = MarkedIn(writer[w].copy, writer[w].chosen)
  BY Zenon DEF MarkMessages, MarkedIn, Marked
<1> QED
  BY <1>1, <1>2, IdsMarked

\* The steps that leave the list as it is, and append nothing.
LEMMA TempSame ==
  ASSUME TempIInv, NEW w \in Writers,
         NEW todo \in Todos, NEW step, NEW copy, NEW chosen, NEW moved,
         Sets(w, todo, step, copy, chosen, moved),
         step \in {"open", "thinking"} => todo # <<>>,
         step # "new", step = "thinking" => Head(todo) = "fold",
         todo # <<>> /\ Head(todo) = "wipe" => step = "open" /\ copy = <<>>,
         Ids(copy) \subseteq written, moved \subseteq written, NoTwins(copy),
         \A tag \in Appends : tag \in Tags(todo) => <<w, tag>> \notin written,
         blob' \in BOOLEAN, row' \in BOOLEAN, list' \in {list, <<>>}, saved' \subseteq written,
         written' = written, exposed' \subseteq written, gone' = gone, ghosts' = ghosts
  PROVE  TempIInv'
<1>1. Writing' /\ Copied' /\ Unwritten'
  BY WriterStep
<1>2. Ids(list') \subseteq written' /\ NoTwins(list') /\ list' \in Seq(Message)
  <2>1. Ids(list) \subseteq written /\ NoTwins(list) /\ list \in Seq(Message)
    BY DEF TempIInv, Listed, TempTypeOK
  <2>2. <<>> \in Seq(Message)
    OBVIOUS
  <2> QED
    BY <2>1, <2>2, IdsEmpty, Zenon
<1> QED
  BY <1>1, <1>2, TempRest DEF TempIInv, Listed, TempTypeOK, Sets

\* Those with which a writer is done with a task.
LEMMA TempDone ==
  ASSUME TempIInv, NEW w \in Writers, writer[w].todo # <<>>, NEW step, NEW chosen, NEW moved,
         Sets(w, Tail(writer[w].todo), step, <<>>, chosen, moved),
         step = IF Head(writer[w].todo) = "move" THEN "open" ELSE "ready",
         moved \subseteq written,
         blob' \in BOOLEAN, row' \in BOOLEAN, list' \in {list, <<>>}, saved' \subseteq written,
         written' = written, exposed' \subseteq written, gone' = gone, ghosts' = ghosts
  PROVE  TempIInv'
<1> DEFINE rest == Tail(writer[w].todo)
<1>1. /\ rest \in Todos
      /\ Head(writer[w].todo) = "move" => rest # <<>> /\ Head(rest) = "wipe"
      /\ Head(writer[w].todo) # "move" => rest = <<>> \/ Head(rest) # "wipe"
      /\ \A tag \in Appends : tag \in Tags(rest) => <<w, tag>> \notin written
  BY BusyTail
<1>2. Sets(w, rest, step, <<>>, chosen, moved)
  OBVIOUS
<1> HIDE DEF rest
<1>3. Ids(<<>>) = {} /\ NoTwins(<<>>)
  BY IdsEmpty
<1>4. /\ step \in {"open", "thinking"} => rest # <<>>
      /\ step # "new" /\ step # "thinking"
      /\ rest # <<>> /\ Head(rest) = "wipe" => step = "open"
  BY <1>1
<1> QED
  BY <1>1, <1>2, <1>3, <1>4, TempSame

\* What somebody holds in hand.
LEMMA OpenedWhere ==
  \A id : id \in Opened <=> id \in Pending \/ \E w \in Windows : id \in Ids(writer[w].copy)
<1> SUFFICES ASSUME NEW id
             PROVE  id \in Opened <=> id \in Pending \/ \E w \in Windows : id \in Ids(writer[w].copy)
  OBVIOUS
<1> DEFINE copied == UNION {Ids(writer[w].copy) : w \in Windows}
<1>1. id \in copied <=> \E w \in Windows : id \in Ids(writer[w].copy)
  BY Zenon
<1>2. Opened = copied \union Pending
  BY DEF Opened
<1> QED
  BY <1>1, <1>2

\* The deletions and what expires: no writer takes a step.
LEMMA TempWiped ==
  ASSUME TempIInv, blob' \in BOOLEAN, row' \in BOOLEAN, list' \in {list, <<>>},
         saved' \subseteq written, writer' = writer, written' = written,
         exposed' \subseteq written, gone' \subseteq written, ghosts' \subseteq written
  PROVE  TempIInv'
<1>1. Writing' /\ Copied' /\ Unwritten'
  BY DEF TempIInv, Writing, Copied, Unwritten
<1>2. Ids(list') \subseteq written' /\ NoTwins(list') /\ list' \in Seq(Message)
  <2>1. Ids(list) \subseteq written /\ NoTwins(list) /\ list \in Seq(Message)
    BY DEF TempIInv, Listed, TempTypeOK
  <2>2. <<>> \in Seq(Message)
    OBVIOUS
  <2> QED
    BY <2>1, <2>2, IdsEmpty, Zenon
<1> QED
  BY <1>1, <1>2, TempRest DEF TempIInv, TempTypeOK

LEMMA TempIStep == TempIInv /\ [TempNext]_tempVars => TempIInv'
<1> SUFFICES ASSUME TempIInv, [TempNext]_tempVars PROVE TempIInv'
  OBVIOUS
<1> USE DEF traces
<1>1. /\ TempTypeOK /\ Ids(list) \subseteq written /\ NoTwins(list) /\ list \in Seq(Message)
      /\ saved \subseteq written /\ exposed \subseteq written /\ gone \subseteq written
      /\ ghosts \subseteq written /\ blob \in BOOLEAN /\ row \in BOOLEAN
  BY DEF TempIInv, TempTypeOK, Listed
<1>2. Opened \subseteq written /\ Pending \subseteq written
  <2>1. \A w \in Writers : Ids(writer[w].copy) \subseteq written /\ writer[w].moved \subseteq written
    BY DEF TempIInv, Copied
  <2>2. Pending \subseteq written
    BY <2>1 DEF Pending, Uploads
  <2>3. \A w \in Windows : Ids(writer[w].copy) \subseteq written
    BY <2>1 DEF Windows
  <2> QED
    BY <2>2, <2>3, OpenedWhere
<1>3. ASSUME NEW w \in Writers, NEW kind \in Kinds, Start(w, kind) PROVE TempIInv'
  <2>1. Sets(w, Plan(kind), "ready", writer[w].copy, writer[w].chosen, writer[w].moved)
    BY <1>1, <1>3, StartSets
  <2>2. \A tag \in Appends : <<w, tag>> \notin written
    BY <1>3 DEF Start, TempIInv, Unwritten
  <2>3. Ids(writer[w].copy) \subseteq written /\ NoTwins(writer[w].copy) /\ writer[w].moved \subseteq written
    BY DEF TempIInv, Copied
  <2> QED
    BY <1>1, <1>3, <2>1, <2>2, <2>3, TodoPlan, TempSame DEF Start
<1>4. ASSUME NEW w \in Writers, ReadList(w) PROVE TempIInv'
  <2>1. Sets(w, writer[w].todo, "open", list, writer[w].chosen, writer[w].moved)
    BY <1>1, <1>4, ReadSets
  <2>2. writer[w].todo # <<>> /\ Head(writer[w].todo) # "wipe"
    BY <1>4 DEF ReadList, Ready, Appends
  <2> QED
    BY <1>1, <1>4, <2>1, <2>2, BusyWriter, TempSame DEF ReadList
<1>5. ASSUME NEW w \in Writers, Store(w) PROVE TempIInv'
  <2>1. writer[w].step = "open" /\ Head(writer[w].todo) \in Appends
    BY <1>5 DEF Store
  <2> DEFINE h == Head(writer[w].todo)
             id == <<w, h>>
             rest == Tail(writer[w].todo)
  <2>2. /\ id \in Identifier /\ id \notin written /\ written' = written \union {id}
        /\ list' \in Seq(Message) /\ Ids(list') = Ids(writer[w].copy) \union {id} /\ NoTwins(list')
        /\ Sets(w, rest, "ready", <<>>, writer[w].chosen, writer[w].moved)
    BY <1>5, StoreNew
  <2>3. writer[w].todo \in Todos /\ writer[w].todo # <<>> /\ Ids(writer[w].copy) \subseteq written
    BY <2>1, BusyWriter
  <2>4. /\ rest \in Todos /\ (rest = <<>> \/ Head(rest) # "wipe")
        /\ Tags(rest) \subseteq Tags(writer[w].todo) /\ h \in Tags(writer[w].todo) \ Tags(rest)
    BY <2>1, <2>3, TodoTail DEF Appends
  <2>5. \A u \in Writers \ {w}, tag \in Appends : <<u, tag>> \in written' => <<u, tag>> \in written
    BY <2>2
  <2>6. \A tag \in Appends : tag \in Tags(rest) => <<w, tag>> \notin written'
    BY <2>1, <2>2, <2>3, <2>4, BusyWriter
  <2>7. writer[w].moved \subseteq written
    BY <2>1, BusyWriter
  <2> HIDE DEF rest, id
  <2>8. Writing' /\ Copied' /\ Unwritten'
    BY <2>2, <2>4, <2>5, <2>6, <2>7, IdsEmpty, WriterStep
  <2>9. exposed' \subseteq written'
    BY <1>1, <1>5, <2>2 DEF Store, id
  <2>10. written' \subseteq Identifier /\ writer' \in [Writers -> WriterState]
    BY <1>1, <2>2 DEF Sets, TempTypeOK
  <2> QED
    BY <1>1, <1>5, <2>2, <2>3, <2>8, <2>9, <2>10, TempRest DEF Store
<1>6. ASSUME NEW w \in Writers, Skip(w) PROVE TempIInv'
  <2>1. writer[w].todo # <<>> /\ Head(writer[w].todo) = "fold"
    BY <1>6 DEF Skip, Ready
  <2>2. Sets(w, Tail(writer[w].todo), "ready", <<>>, writer[w].chosen, writer[w].moved)
    BY <1>1, <1>6, <2>1, DoneSets DEF Skip
  <2> QED
    BY <1>1, <1>6, <2>1, <2>2, BusyWriter, TempDone DEF Skip
<1>7. ASSUME NEW w \in Writers, Think(w) PROVE TempIInv'
  <2>1. writer[w].todo # <<>> /\ Head(writer[w].todo) = "fold"
    BY <1>7 DEF Think, Ready
  <2>2. Sets(w, writer[w].todo, "thinking", list, ToSummarize(list), writer[w].moved)
    BY <1>1, <1>7, ThinkSets, SummarizedTyped
  <2> QED
    BY <1>1, <1>7, <2>1, <2>2, BusyWriter, TempSame DEF Think
<1>8. ASSUME NEW w \in Writers, NoSummary(w) PROVE TempIInv'
  <2>1. writer[w].todo # <<>> /\ Head(writer[w].todo) = "fold"
    BY <1>8 DEF NoSummary, TempIInv, Writing
  <2>2. Sets(w, Tail(writer[w].todo), "ready", <<>>, {}, writer[w].moved)
    BY <1>1, <1>8, <2>1, NoSummarySets
  <2> QED
    BY <1>1, <1>8, <2>1, <2>2, BusyWriter, TempDone DEF NoSummary
<1>9. ASSUME NEW w \in Writers, Collect(w) PROVE TempIInv'
  <2>1. writer[w].todo # <<>> /\ Head(writer[w].todo) = "fold"
    BY <1>9 DEF Collect, TempIInv, Writing
  <2>2. Sets(w, writer[w].todo, "open", list, writer[w].chosen, writer[w].moved)
    BY <1>1, <1>9, CollectSets
  <2> QED
    BY <1>1, <1>9, <2>1, <2>2, BusyWriter, TempSame DEF Collect
<1>10. ASSUME NEW w \in Writers, MarkMessages(w) PROVE TempIInv'
  <2>1. writer[w].todo # <<>> /\ Head(writer[w].todo) = "fold" /\ writer[w].step = "open"
    BY <1>10 DEF MarkMessages, TempIInv, Writing
  <2> DEFINE next == <<"summary">> \o Tail(writer[w].todo)
  <2>2. Sets(w, next, "ready", <<>>, writer[w].chosen, writer[w].moved)
    BY <1>1, <1>10, <2>1, MarkSets
  <2>3. next \in Todos /\ next # <<>> /\ Head(next) = "summary" /\ Tags(next) \subseteq Tags(writer[w].todo)
    BY <2>1, BusyWriter, TodoFolded
  <2> HIDE DEF next
  <2>4. \A tag \in Appends : tag \in Tags(next) => <<w, tag>> \notin written
    BY <2>1, <2>3, BusyWriter
  <2>5. written' = written /\ writer[w].moved \subseteq written /\ Ids(writer[w].copy) \subseteq written
    BY <1>10, <2>1, BusyWriter DEF MarkMessages
  <2>6. Writing' /\ Copied' /\ Unwritten'
    BY <2>2, <2>3, <2>4, <2>5, IdsEmpty, WriterStep
  <2> QED
    BY <1>1, <1>10, <2>2, <2>5, <2>6, MarkList, TempRest DEF MarkMessages, Sets, TempTypeOK
<1>11. ASSUME NEW w \in Writers, Rename(w) PROVE TempIInv'
  <2>1. writer[w].todo # <<>> /\ Head(writer[w].todo) = "title"
    BY <1>11 DEF Rename, TempIInv, Writing
  <2>2. Sets(w, Tail(writer[w].todo), "ready", <<>>, writer[w].chosen, writer[w].moved)
    BY <1>1, <1>11, <2>1, DoneSets DEF Rename
  <2> QED
    BY <1>1, <1>11, <2>1, <2>2, BusyWriter, TempDone DEF Rename
<1>12. ASSUME NEW w \in Writers, Migrate(w) PROVE TempIInv'
  <2>1. writer[w].todo # <<>> /\ Head(writer[w].todo) = "move"
    BY <1>12 DEF Migrate, Moves, TempIInv, Writing
  <2>2. Sets(w, Tail(writer[w].todo), "open", <<>>, writer[w].chosen, writer[w].moved)
    BY <1>1, <1>12, <2>1, MigrateSets
  <2> QED
    BY <1>1, <1>12, <2>1, <2>2, BusyWriter, TempDone DEF Migrate
<1>13. ASSUME NEW w \in Writers, Adopt(w) PROVE TempIInv'
  <2>1. writer[w].todo # <<>> /\ Head(writer[w].todo) = "move"
    BY <1>13 DEF Adopt, Moves, TempIInv, Writing
  <2>2. Sets(w, Tail(writer[w].todo), "open", <<>>, writer[w].chosen, Ids(writer[w].copy))
    BY <1>1, <1>13, <2>1, AdoptSets
  <2> QED
    BY <1>1, <1>13, <2>1, <2>2, BusyWriter, TempDone DEF Adopt
<1>14. ASSUME NEW w \in Writers, CommitUpload(w) \/ RefuseUpload(w) PROVE TempIInv'
  <2>1. writer[w].todo # <<>> /\ Head(writer[w].todo) = "commit"
    BY <1>14 DEF CommitUpload, RefuseUpload
  <2>2. Sets(w, Tail(writer[w].todo), "ready", <<>>, writer[w].chosen, writer[w].moved)
    BY <1>1, <1>14, <2>1, DoneSets DEF CommitUpload, RefuseUpload
  <2> QED
    BY <1>1, <1>14, <2>1, <2>2, BusyWriter, TempDone DEF CommitUpload, RefuseUpload
<1>15. ASSUME NEW w \in Writers, Wipe(w) PROVE TempIInv'
  <2>1. writer[w].todo # <<>> /\ Head(writer[w].todo) = "wipe"
    BY <1>15 DEF Wipe
  <2>2. Sets(w, Tail(writer[w].todo), "ready", <<>>, writer[w].chosen, writer[w].moved)
    BY <1>1, <1>15, <2>1, DoneSets DEF Wipe
  <2> QED
    BY <1>1, <1>15, <2>1, <2>2, BusyWriter, TempDone DEF Wipe, Wiped
<1>16. ASSUME NEW w \in Writers, Fail(w) PROVE TempIInv'
  <2>1. writer[w].todo # <<>> /\ writer[w].moved \subseteq written
    BY <1>16, BusyWriter DEF Fail
  <2>2. Sets(w, <<>>, "ready", <<>>, writer[w].chosen, {})
    BY <1>1, <1>16, FailSets
  <2>3. <<>> \in Todos /\ Tags(<<>>) = {}
    BY DEF Todos, Orderly, Tags
  <2> QED
    BY <1>1, <1>16, <2>1, <2>2, <2>3, IdsEmpty, TempSame DEF Fail
<1>17. ASSUME Promote \/ Delete \/ DeletePermanent \/ Expire PROVE TempIInv'
  BY <1>1, <1>2, <1>17, TempWiped DEF Promote, Delete, DeletePermanent, Expire, Wiped
<1>18. CASE UNCHANGED tempVars
  BY <1>1, <1>18, TempWiped DEF tempVars
<1> QED
  BY <1>3, <1>4, <1>5, <1>6, <1>7, <1>8, <1>9, <1>10, <1>11, <1>12, <1>13, <1>14, <1>15, <1>16, <1>17, <1>18
     DEF TempNext

\* However turns and requests interleave on the list of a temporary session: it has
\* no message twice, for a message is appended once, to a copy that was read before.
THEOREM TempTypeCorrect == TempSpec => []TempTypeOK
<1>1. TempIInv => TempTypeOK
  BY DEF TempIInv
<1> QED
  BY <1>1, TempInitially, TempIStep, PTL DEF TempSpec

------------------------------------------------------------------------------
(* Messages that were appended stay.                                        *)

\* What is not lost with the list.
Safe == saved \union Pending \union gone \union exposed

\* The list, and every copy that is going to be written, differ in what is safe.
Agree ==
  /\ written \subseteq Safe \union Ids(list)
  /\ \A w \in Windows : /\ Ids(list) \subseteq Safe \union Ids(writer[w].copy)
                        /\ Ids(writer[w].copy) \subseteq Safe \union Ids(list)
  /\ row => Ids(list) \subseteq Safe

\* Messages are taken along by an upload whose promotion has made the row, which
\* nobody deletes before it is done.
Promoting ==
  /\ ~row => saved = {} /\ Pending = {}
  /\ \A w \in Writers :
       /\ writer[w].step = "new" => writer[w].moved = {} /\ writer[w].chosen = {}
       /\ writer[w].moved # {} /\ writer[w].todo # <<>> => Left(writer[w].todo)

KeptInv == TempIInv /\ Promoting /\ Agree

LEMMA PendingWhere ==
  \A id : id \in Pending <=> \E w \in Writers : writer[w].todo # <<>> /\ id \in writer[w].moved
<1> SUFFICES ASSUME NEW id
             PROVE  id \in Pending <=> \E w \in Writers : writer[w].todo # <<>> /\ id \in writer[w].moved
  OBVIOUS
<1>1. id \in Pending <=> \E w \in Uploads : id \in writer[w].moved
  BY Zenon DEF Pending
<1> QED
  BY <1>1 DEF Uploads

\* The same of the next state.
LEMMA PendingNext ==
  \A id : id \in Pending' <=> \E w \in Writers : writer'[w].todo # <<>> /\ id \in writer'[w].moved
<1> SUFFICES ASSUME NEW id
             PROVE  id \in Pending' <=> \E w \in Writers : writer'[w].todo # <<>> /\ id \in writer'[w].moved
  OBVIOUS
<1>1. id \in Pending' <=> \E w \in Uploads' : id \in writer'[w].moved
  BY Zenon DEF Pending
<1> QED
  BY <1>1 DEF Uploads

\* Who writes what is in hand, and where a writer comes to do so.
LEMMA WindowsStep ==
  ASSUME NEW w \in Writers, NEW todo, NEW step, NEW copy, NEW chosen, NEW moved,
         Sets(w, todo, step, copy, chosen, moved)
  PROVE  /\ \A u \in Writers \ {w} : u \in Windows' <=> u \in Windows
         /\ w \in Windows' <=> step = "open" /\ Head(todo) # "title"
BY DEF Windows, Sets

LEMMA NotMoved ==
  ASSUME Promoting, NEW w \in Writers,
         \/ writer[w].step = "new"
         \/ writer[w].todo \in Todos /\ writer[w].todo # <<>> /\ Head(writer[w].todo) \notin {"wipe", "commit"}
  PROVE  writer[w].moved = {}
<1>1. CASE writer[w].step = "new"
  BY <1>1 DEF Promoting
<1>2. CASE writer[w].todo \in Todos /\ writer[w].todo # <<>> /\ Head(writer[w].todo) \notin {"wipe", "commit"}
  <2>1. writer[w].todo \in Seq(Tasks)
    BY <1>2 DEF Todos
  <2>2. ~Left(writer[w].todo)
    BY <1>2, <2>1 DEF Left
  <2> QED
    BY <1>2, <2>2 DEF Promoting
<1> QED
  BY <1>1, <1>2

\* The promotion of an upload leaves the two tasks.
LEMMA UploadLeft ==
  ASSUME NEW todo \in Todos, todo # <<>>
  PROVE  /\ Head(todo) = "move" /\ Len(todo) = 3 => Left(Tail(todo))
         /\ Left(todo) /\ Head(todo) = "wipe" => Left(Tail(todo)) /\ Tail(todo) # <<>>
<1>1. todo \in Seq(Tasks) /\ Orderly(todo) /\ Len(todo) \in Nat \ {0} /\ Head(todo) = todo[1]
  BY DEF Todos
<1> DEFINE rest == Tail(todo)
<1>2. /\ rest \in Seq(Tasks) /\ Len(rest) = Len(todo) - 1
      /\ \A i \in 1 .. Len(todo) - 1 : rest[i] = todo[i + 1]
  BY <1>1
<1> HIDE DEF rest
<1>3. ASSUME Head(todo) = "move", Len(todo) = 3 PROVE Left(rest)
  BY <1>1, <1>2, <1>3 DEF Orderly, Left
<1>4. ASSUME Left(todo), Head(todo) = "wipe" PROVE Left(rest) /\ rest # <<>>
  <2>1. Len(todo) = 2
    BY <1>1, <1>4 DEF Left
  <2> QED
    BY <1>1, <1>2, <1>4, <2>1 DEF Left
<1> QED
  BY <1>3, <1>4 DEF rest

\* What the steps of a writer come to.  It prepares,
Prepares(w) ==
  /\ w \notin Windows' /\ writer[w].moved = {} /\ writer'[w].moved = {}
  /\ UNCHANGED <<row, list, saved, traces>>

\* reads the list,
Reads(w) ==
  /\ writer'[w].copy = list /\ writer[w].moved = {} /\ writer'[w].moved = {}
  /\ UNCHANGED <<row, list, saved, traces>>

\* writes it with one message more,
Stores(w) ==
  /\ w \in Windows /\ w \notin Windows' /\ writer[w].moved = {} /\ writer'[w].moved = {}
  /\ \E id \in Identifier :
       /\ id \notin written /\ written' = written \union {id}
       /\ Ids(list') = Ids(writer[w].copy) \union {id}
       /\ exposed' = exposed \union {id} \/ (exposed' = exposed /\ ~row /\ Windows \subseteq {w})
  /\ UNCHANGED <<row, saved, gone, ghosts>>

\* or with its messages marked,
Marks(w) ==
  /\ w \in Windows /\ w \notin Windows' /\ writer[w].moved = {} /\ writer'[w].moved = {}
  /\ Ids(list') = Ids(writer[w].copy)
  /\ UNCHANGED <<row, saved, traces>>

\* moves it to the permanent session,
Migrates(w) ==
  /\ w \in Windows /\ ~row /\ row' /\ saved' = Ids(writer[w].copy)
  /\ writer[w].moved = {} /\ writer'[w].moved = {} /\ Ids(writer'[w].copy) = {}
  /\ UNCHANGED <<list, traces>>

\* or to its transaction,
Adopts(w) ==
  /\ w \in Windows /\ ~row /\ row' /\ saved' = {}
  /\ writer'[w].todo # <<>> /\ writer[w].moved = {} /\ writer'[w].moved = Ids(writer[w].copy)
  /\ Ids(writer'[w].copy) = {}
  /\ UNCHANGED <<list, traces>>

\* commits that,
Commits(w) ==
  /\ w \notin Windows' /\ writer[w].todo # <<>> /\ writer'[w].todo = <<>>
  /\ saved' = saved \union writer[w].moved
  /\ UNCHANGED <<row, list, traces>>

\* or gives up,
GivesUp(w) ==
  /\ w \notin Windows' /\ writer[w].todo # <<>> /\ writer'[w].todo = <<>>
  /\ exposed' = exposed \union writer[w].moved
  /\ UNCHANGED <<row, list, saved, written, gone, ghosts>>

\* or deletes the list that it has moved.
Wipes(w) ==
  /\ w \in Windows /\ w \notin Windows' /\ Ids(writer[w].copy) = {} /\ list' = <<>>
  /\ writer'[w].moved = writer[w].moved
  /\ writer[w].moved # {} => writer'[w].todo # <<>> /\ writer[w].todo # <<>>
  /\ UNCHANGED <<row, saved, traces>>

Steps(w) ==
  /\ \A u \in Writers \ {w} : writer'[u] = writer[u]
  /\ writer'[w].step # "new"
  /\ writer'[w].moved # {} /\ writer'[w].todo # <<>> => Left(writer'[w].todo)
  /\ \/ Prepares(w) \/ Reads(w) \/ Stores(w) \/ Marks(w) \/ Migrates(w) \/ Adopts(w)
     \/ Commits(w) \/ GivesUp(w) \/ Wipes(w)

LEMMA WriterSteps ==
  ASSUME TempIInv, Promoting, NEW w \in Writers,
         \/ \E kind \in Kinds : Start(w, kind)
         \/ ReadList(w) \/ Store(w)
         \/ Skip(w) \/ Think(w) \/ NoSummary(w) \/ Collect(w) \/ MarkMessages(w)
         \/ Rename(w) \/ Migrate(w) \/ Wipe(w) \/ Fail(w)
         \/ Adopt(w) \/ CommitUpload(w) \/ RefuseUpload(w)
  PROVE  Steps(w)
<1> USE DEF traces
<1>1. TempTypeOK /\ Ids(<<>>) = {}
  BY IdsEmpty DEF TempIInv
<1>2. \A todo, step, copy, chosen, moved : Sets(w, todo, step, copy, chosen, moved) =>
        /\ \A u \in Writers \ {w} : writer'[u] = writer[u]
        /\ writer'[w].todo = todo /\ writer'[w].step = step /\ writer'[w].copy = copy
        /\ writer'[w].moved = moved
        /\ w \in Windows' <=> step = "open" /\ Head(todo) # "title"
  BY WindowsStep DEF Sets
<1>3. ASSUME NEW kind \in Kinds, Start(w, kind) PROVE Steps(w)
  <2>1. writer[w].step = "new"
    BY <1>3 DEF Start
  <2>2. Sets(w, Plan(kind), "ready", writer[w].copy, writer[w].chosen, writer[w].moved)
    BY <1>1, <1>3, <2>1, StartSets
  <2>3. writer[w].moved = {}
    BY <1>3, <2>1, NotMoved
  <2>4. UNCHANGED <<row, list, saved, written, exposed, gone, ghosts>>
    BY <1>3 DEF Start
  <2>5. Prepares(w)
    BY <1>1, <1>2, <2>1, <2>2, <2>3, <2>4 DEF Prepares
  <2> QED
    BY <1>2, <2>1, <2>2, <2>3, <2>4, <2>5 DEF Steps
<1>4. ASSUME ReadList(w) PROVE Steps(w)
  <2>1. writer[w].todo # <<>> /\ writer[w].todo \in Todos /\ Head(writer[w].todo) \notin {"wipe", "commit"}
    BY <1>4, BusyWriter DEF ReadList, Ready, Appends
  <2>2. Sets(w, writer[w].todo, "open", list, writer[w].chosen, writer[w].moved)
    BY <1>1, <1>4, <2>1, ReadSets
  <2>3. writer[w].moved = {}
    BY <1>4, <2>1, NotMoved
  <2>4. Reads(w)
    BY <1>1, <1>2, <1>4, <2>1, <2>2, <2>3 DEF Reads, ReadList
  <2> QED
    BY <1>2, <2>1, <2>2, <2>3, <2>4 DEF Steps
<1>5. ASSUME Skip(w) PROVE Steps(w)
  <2>1. writer[w].todo # <<>> /\ Head(writer[w].todo) = "fold" /\ writer[w].todo \in Todos
    BY <1>5, BusyWriter DEF Skip, Ready, TempIInv, Writing
  <2>2. Sets(w, Tail(writer[w].todo), "ready", <<>>, writer[w].chosen, writer[w].moved)
    BY <1>1, <1>5, <2>1, DoneSets DEF Skip
  <2>3. writer[w].moved = {}
    BY <1>5, <2>1, NotMoved
  <2>4. Prepares(w)
    BY <1>1, <1>2, <1>5, <2>1, <2>2, <2>3 DEF Prepares, Skip
  <2> QED
    BY <1>2, <2>1, <2>2, <2>3, <2>4 DEF Steps
<1>6. ASSUME Think(w) PROVE Steps(w)
  <2>1. writer[w].todo # <<>> /\ Head(writer[w].todo) = "fold" /\ writer[w].todo \in Todos
    BY <1>6, BusyWriter DEF Think, Ready, TempIInv, Writing
  <2>2. Sets(w, writer[w].todo, "thinking", list, ToSummarize(list), writer[w].moved)
    BY <1>1, <1>6, <2>1, ThinkSets, SummarizedTyped
  <2>3. writer[w].moved = {}
    BY <1>6, <2>1, NotMoved
  <2>4. UNCHANGED <<row, list, saved, written, exposed, gone, ghosts>>
    BY <1>6 DEF Think
  <2>5. Prepares(w)
    BY <1>1, <1>2, <2>1, <2>2, <2>3, <2>4 DEF Prepares
  <2> QED
    BY <1>2, <2>1, <2>2, <2>3, <2>4, <2>5 DEF Steps
<1>7. ASSUME NoSummary(w) PROVE Steps(w)
  <2>1. writer[w].todo # <<>> /\ Head(writer[w].todo) = "fold" /\ writer[w].todo \in Todos
    BY <1>7, BusyWriter DEF NoSummary, TempIInv, Writing
  <2>2. Sets(w, Tail(writer[w].todo), "ready", <<>>, {}, writer[w].moved)
    BY <1>1, <1>7, <2>1, NoSummarySets
  <2>3. writer[w].moved = {}
    BY <1>7, <2>1, NotMoved
  <2>4. Prepares(w)
    BY <1>1, <1>2, <1>7, <2>1, <2>2, <2>3 DEF Prepares, NoSummary
  <2> QED
    BY <1>2, <2>1, <2>2, <2>3, <2>4 DEF Steps
<1>8. ASSUME Collect(w) PROVE Steps(w)
  <2>1. writer[w].todo # <<>> /\ Head(writer[w].todo) = "fold" /\ writer[w].todo \in Todos
    BY <1>8, BusyWriter DEF Collect, TempIInv, Writing
  <2>2. Sets(w, writer[w].todo, "open", list, writer[w].chosen, writer[w].moved)
    BY <1>1, <1>8, <2>1, CollectSets
  <2>3. writer[w].moved = {}
    BY <1>8, <2>1, NotMoved
  <2>4. UNCHANGED <<row, list, saved, written, exposed, gone, ghosts>>
    BY <1>8 DEF Collect
  <2>5. Reads(w)
    BY <1>1, <1>2, <2>1, <2>2, <2>3, <2>4 DEF Reads
  <2> QED
    BY <1>2, <2>1, <2>2, <2>3, <2>4, <2>5 DEF Steps
<1>9. ASSUME MarkMessages(w) PROVE Steps(w)
  <2>1. writer[w].todo # <<>> /\ Head(writer[w].todo) = "fold" /\ writer[w].todo \in Todos
    BY <1>9, BusyWriter DEF MarkMessages, TempIInv, Writing
  <2>2. Sets(w, <<"summary">> \o Tail(writer[w].todo), "ready", <<>>, writer[w].chosen, writer[w].moved)
    BY <1>1, <1>9, <2>1, MarkSets
  <2>3. writer[w].moved = {}
    BY <1>9, <2>1, NotMoved
  <2>4. w \in Windows
    BY <1>9, <2>1 DEF MarkMessages, Windows
  <2>5. Ids(list') = Ids(writer[w].copy)
    BY <1>9, MarkList
  <2>6. UNCHANGED <<row, saved, written, exposed, gone, ghosts>>
    BY <1>9 DEF MarkMessages
  <2>7. Marks(w)
    BY <1>1, <1>2, <2>1, <2>2, <2>3, <2>4, <2>5, <2>6 DEF Marks
  <2> QED
    BY <1>2, <2>1, <2>2, <2>3, <2>4, <2>5, <2>6, <2>7 DEF Steps
<1>10. ASSUME Rename(w) PROVE Steps(w)
  <2>1. writer[w].todo # <<>> /\ Head(writer[w].todo) = "title" /\ writer[w].todo \in Todos
    BY <1>10, BusyWriter DEF Rename, TempIInv, Writing
  <2>2. Sets(w, Tail(writer[w].todo), "ready", <<>>, writer[w].chosen, writer[w].moved)
    BY <1>1, <1>10, <2>1, DoneSets DEF Rename
  <2>3. writer[w].moved = {}
    BY <1>10, <2>1, NotMoved
  <2>4. Prepares(w)
    BY <1>1, <1>2, <1>10, <2>1, <2>2, <2>3 DEF Prepares, Rename
  <2> QED
    BY <1>2, <2>1, <2>2, <2>3, <2>4 DEF Steps
<1>11. ASSUME Migrate(w) PROVE Steps(w)
  <2>1. writer[w].todo # <<>> /\ Head(writer[w].todo) = "move" /\ writer[w].todo \in Todos
    BY <1>11, BusyWriter DEF Migrate, Moves, TempIInv, Writing
  <2>2. Sets(w, Tail(writer[w].todo), "open", <<>>, writer[w].chosen, writer[w].moved)
    BY <1>1, <1>11, <2>1, MigrateSets
  <2>3. writer[w].moved = {}
    BY <1>11, <2>1, NotMoved
  <2>4. w \in Windows
    BY <1>11, <2>1 DEF Moves, Windows, Migrate, Adopt, Wipe, TempIInv, Writing
  <2>5. Migrates(w)
    BY <1>1, <1>2, <1>11, <2>1, <2>2, <2>3, <2>4 DEF Migrates, Migrate
  <2> QED
    BY <1>2, <2>1, <2>2, <2>3, <2>4, <2>5 DEF Steps
<1>12. ASSUME Adopt(w) PROVE Steps(w)
  <2>1. writer[w].todo # <<>> /\ Head(writer[w].todo) = "move" /\ writer[w].todo \in Todos
    BY <1>12, BusyWriter DEF Adopt, Moves, TempIInv, Writing
  <2>2. Sets(w, Tail(writer[w].todo), "open", <<>>, writer[w].chosen, Ids(writer[w].copy))
    BY <1>1, <1>12, <2>1, AdoptSets
  <2>3. writer[w].moved = {}
    BY <1>12, <2>1, NotMoved
  <2>4. w \in Windows
    BY <1>12, <2>1 DEF Moves, Windows, Migrate, Adopt, Wipe, TempIInv, Writing
  <2>5. Left(Tail(writer[w].todo)) /\ Tail(writer[w].todo) # <<>>
    BY <1>12, <2>1, UploadLeft, TodoTail DEF Adopt, IsUpload
  <2>6. ~row /\ row' /\ saved' = {} /\ UNCHANGED <<list, written, exposed, gone, ghosts>>
    BY <1>12 DEF Adopt
  <2>7. /\ writer'[w].todo # <<>> /\ Left(writer'[w].todo) /\ writer'[w].step = "open"
        /\ writer'[w].copy = <<>> /\ writer'[w].moved = Ids(writer[w].copy)
        /\ \A u \in Writers \ {w} : writer'[u] = writer[u]
    BY <2>2, <2>5 DEF Sets
  <2>8. Ids(writer'[w].copy) = {}
    BY <1>1, <2>7
  <2>9. Adopts(w)
    BY <2>3, <2>4, <2>6, <2>7, <2>8 DEF Adopts
  <2> QED
    BY <2>7, <2>9 DEF Steps
<1>13. ASSUME CommitUpload(w) PROVE Steps(w)
  <2>1. writer[w].todo # <<>> /\ Head(writer[w].todo) = "commit" /\ writer[w].todo \in Todos
    BY <1>13, BusyWriter DEF CommitUpload, TempIInv, Writing
  <2>2. Sets(w, Tail(writer[w].todo), "ready", <<>>, writer[w].chosen, writer[w].moved)
    BY <1>1, <1>13, <2>1, DoneSets DEF CommitUpload
  <2>3. Tail(writer[w].todo) = <<>>
    BY <1>13 DEF CommitUpload
  <2>4. Commits(w)
    BY <1>1, <1>2, <1>13, <2>1, <2>2, <2>3 DEF Commits, CommitUpload
  <2> QED
    BY <1>2, <2>1, <2>2, <2>3, <2>4 DEF Steps
<1>14. ASSUME RefuseUpload(w) PROVE Steps(w)
  <2>1. writer[w].todo # <<>> /\ Head(writer[w].todo) = "commit" /\ writer[w].todo \in Todos
    BY <1>14, BusyWriter DEF RefuseUpload, TempIInv, Writing
  <2>2. Sets(w, Tail(writer[w].todo), "ready", <<>>, writer[w].chosen, writer[w].moved)
    BY <1>1, <1>14, <2>1, DoneSets DEF RefuseUpload
  <2>3. Tail(writer[w].todo) = <<>>
    BY <1>14 DEF RefuseUpload
  <2>4. GivesUp(w)
    BY <1>1, <1>2, <1>14, <2>1, <2>2, <2>3 DEF GivesUp, RefuseUpload
  <2> QED
    BY <1>2, <2>1, <2>2, <2>3, <2>4 DEF Steps
<1>15. ASSUME Wipe(w) PROVE Steps(w)
  <2>1. writer[w].todo # <<>> /\ Head(writer[w].todo) = "wipe" /\ writer[w].todo \in Todos
    BY <1>15, BusyWriter DEF Wipe, TempIInv, Writing
  <2>2. Sets(w, Tail(writer[w].todo), "ready", <<>>, writer[w].chosen, writer[w].moved)
    BY <1>1, <1>15, <2>1, DoneSets DEF Wipe
  <2>3. w \in Windows /\ writer[w].copy = <<>>
    BY <1>15, <2>1 DEF Moves, Windows, Migrate, Adopt, Wipe, TempIInv, Writing
  <2>4. Ids(writer[w].copy) = {}
    BY <1>1, <2>3, Zenon
  <2>5. writer[w].moved # {} => Left(Tail(writer[w].todo)) /\ Tail(writer[w].todo) # <<>>
    BY <2>1, UploadLeft DEF Promoting
  <2>6. list' = <<>> /\ UNCHANGED <<row, saved, written, exposed, gone, ghosts>>
    BY <1>15 DEF Wipe, Wiped
  <2>7. /\ writer'[w].moved = writer[w].moved /\ writer'[w].todo = Tail(writer[w].todo)
        /\ w \notin Windows'
    BY <1>2, <2>2
  <2>8. Wipes(w)
    BY <2>1, <2>3, <2>4, <2>5, <2>6, <2>7 DEF Wipes
  <2> QED
    BY <1>2, <2>1, <2>2, <2>3, <2>5, <2>8 DEF Steps
<1>16. ASSUME Fail(w) PROVE Steps(w)
  <2>1. writer[w].todo # <<>>
    BY <1>16 DEF Fail
  <2>2. Sets(w, <<>>, "ready", <<>>, writer[w].chosen, {})
    BY <1>1, <1>16, <2>1, FailSets
  <2>3. GivesUp(w)
    BY <1>1, <1>2, <1>16, <2>1, <2>2 DEF GivesUp, Fail
  <2> QED
    BY <1>2, <2>1, <2>2, <2>3 DEF Steps
<1>17. ASSUME Store(w) PROVE Steps(w)
  <2> DEFINE id == <<w, Head(writer[w].todo)>>
  <2>1. writer[w].todo # <<>> /\ writer[w].todo \in Todos /\ Head(writer[w].todo) \in Appends /\ writer[w].step = "open"
    BY <1>17, BusyWriter DEF Store
  <2>2. /\ id \in Identifier /\ id \notin written /\ written' = written \union {id}
        /\ Ids(list') = Ids(writer[w].copy) \union {id}
        /\ Sets(w, Tail(writer[w].todo), "ready", <<>>, writer[w].chosen, writer[w].moved)
    BY <1>17, StoreNew
  <2>3. writer[w].moved = {}
    BY <2>1, NotMoved DEF Appends
  <2>4. w \in Windows
    BY <2>1 DEF Windows, Appends
  <2>5. /\ exposed' = exposed \union {id} \/ (exposed' = exposed /\ ~row /\ Windows \subseteq {w})
        /\ UNCHANGED <<row, saved, gone, ghosts>>
    BY <1>17 DEF Store, Temporary
  <2> HIDE DEF id
  <2>6. Stores(w)
    BY <1>2, <2>2, <2>3, <2>4, <2>5 DEF Stores
  <2> QED
    BY <1>2, <2>2, <2>3, <2>6 DEF Steps
<1> QED
  BY <1>3, <1>4, <1>5, <1>6, <1>7, <1>8, <1>9, <1>10, <1>11, <1>12, <1>13, <1>14, <1>15, <1>16, <1>17

\* What is pending after a step of one writer.
LEMMA PendingStep ==
  ASSUME NEW w \in Writers, \A u \in Writers \ {w} : writer'[u] = writer[u]
  PROVE  /\ \A id \in Pending' : id \in Pending \/ (writer'[w].todo # <<>> /\ id \in writer'[w].moved)
         /\ \A id \in Pending : id \in Pending' \/ (writer[w].todo # <<>> /\ id \in writer[w].moved)
         /\ writer'[w].todo # <<>> => writer'[w].moved \subseteq Pending'
         /\ writer[w].todo # <<>> => writer[w].moved \subseteq Pending
         /\ \A u \in Writers \ {w} : u \in Windows' <=> u \in Windows
         /\ Windows \subseteq Writers
<1>1. \A u \in Writers \ {w} : u \in Windows' <=> u \in Windows
  BY DEF Windows
<1>2. Windows \subseteq Writers
  BY DEF Windows
<1> QED
  BY <1>1, <1>2, PendingWhere, PendingNext

LEMMA PendingStays == writer' = writer => Pending' = Pending /\ Windows' = Windows
<1> SUFFICES ASSUME writer' = writer PROVE Pending' = Pending /\ Windows' = Windows
  OBVIOUS
<1>1. \A id : id \in Pending' <=> id \in Pending
  BY PendingWhere, PendingNext
<1> QED
  BY <1>1 DEF Windows

LEMMA PromotingStep == TempIInv /\ Promoting /\ [TempNext]_tempVars => Promoting'
<1> SUFFICES ASSUME TempIInv, Promoting, [TempNext]_tempVars PROVE Promoting'
  OBVIOUS
<1>1. row \in BOOLEAN /\ (~row => saved = {} /\ Pending = {})
  BY DEF Promoting, TempIInv, TempTypeOK
<1>2. ASSUME NEW w \in Writers, Steps(w) PROVE Promoting'
  <2>1. \A u \in Writers :
          /\ writer'[u].step = "new" => writer'[u].moved = {} /\ writer'[u].chosen = {}
          /\ writer'[u].moved # {} /\ writer'[u].todo # <<>> => Left(writer'[u].todo)
    BY <1>2 DEF Steps, Promoting
  <2>2. /\ \A id \in Pending' : id \in Pending \/ (writer'[w].todo # <<>> /\ id \in writer'[w].moved)
        /\ writer[w].todo # <<>> => writer[w].moved \subseteq Pending
    BY <1>2, PendingStep DEF Steps
  <2>3. CASE Prepares(w) \/ Reads(w) \/ Stores(w) \/ Marks(w)
    <3>1. row' = row /\ saved' = saved /\ writer'[w].moved = {}
      BY <2>3 DEF Prepares, Reads, Stores, Marks
    <3> QED
      BY <1>1, <2>1, <2>2, <3>1 DEF Promoting
  <2>4. CASE Migrates(w) \/ Adopts(w)
    BY <2>1, <2>4 DEF Migrates, Adopts, Promoting
  <2>5. CASE Commits(w) \/ GivesUp(w)
    <3>1. /\ row' = row /\ writer'[w].todo = <<>> /\ writer[w].todo # <<>>
          /\ saved' \subseteq saved \union writer[w].moved
      BY <2>5 DEF Commits, GivesUp
    <3> QED
      BY <1>1, <2>1, <2>2, <3>1 DEF Promoting
  <2>6. CASE Wipes(w)
    <3>1. /\ row' = row /\ saved' = saved /\ writer'[w].moved = writer[w].moved
          /\ writer[w].moved # {} => writer[w].todo # <<>>
      BY <2>6 DEF Wipes
    <3> QED
      BY <1>1, <2>1, <2>2, <3>1 DEF Promoting
  <2> QED
    BY <1>2, <2>3, <2>4, <2>5, <2>6 DEF Steps
<1>3. ASSUME writer' = writer, ~row' => saved' = {} /\ Pending = {} PROVE Promoting'
  BY <1>3, PendingStays DEF Promoting
<1>4. CASE Promote \/ Delete \/ Expire
  BY <1>1, <1>3, <1>4 DEF Promote, Delete, Expire, Temporary
<1>5. CASE DeletePermanent
  <2>1. Pending = {}
    BY <1>5, PendingWhere DEF DeletePermanent, Uploads
  <2> QED
    BY <1>3, <1>5, <2>1 DEF DeletePermanent
<1>6. CASE UNCHANGED tempVars
  BY <1>1, <1>3, <1>6 DEF tempVars
<1> QED
  BY <1>2, <1>4, <1>5, <1>6, WriterSteps DEF TempNext

\* A step after which the copies are as they were, but for that of one writer.
LEMMA AgreeWith ==
  ASSUME Agree, NEW w \in Writers, \A u \in Writers \ {w} : writer'[u] = writer[u],
         \A id \in Safe : id \in Safe',
         written' \subseteq written \union Safe', 
         Ids(list') = Ids(list), row' => row \/ Ids(list) \subseteq Safe',
         w \in Windows' =>
           /\ Ids(list) \subseteq Safe' \union Ids(writer'[w].copy)
           /\ Ids(writer'[w].copy) \subseteq Safe' \union Ids(list)
  PROVE  Agree'
<1>1. \A u \in Windows' : u = w \/ (u \in Windows /\ writer'[u] = writer[u])
  BY PendingStep DEF Windows
<1> QED
  BY <1>1 DEF Agree

LEMMA AgreeStep == KeptInv /\ [TempNext]_tempVars => Agree'
<1> SUFFICES ASSUME KeptInv, [TempNext]_tempVars PROVE Agree'
  OBVIOUS
<1> USE DEF traces
<1>1. /\ TempIInv /\ Promoting /\ Agree /\ (~row => saved = {} /\ Pending = {})
      /\ saved \subseteq Safe /\ Pending \subseteq Safe /\ gone \subseteq Safe /\ exposed \subseteq Safe
  BY DEF KeptInv, Promoting, Safe
<1>2. ASSUME NEW w \in Writers, Steps(w) PROVE Agree'
  <2>1. \A u \in Writers \ {w} : writer'[u] = writer[u]
    BY <1>2 DEF Steps
  <2>2. /\ \A id \in Pending : id \in Pending' \/ (writer[w].todo # <<>> /\ id \in writer[w].moved)
        /\ writer'[w].todo # <<>> => writer'[w].moved \subseteq Pending'
        /\ \A u \in Writers \ {w} : u \in Windows' <=> u \in Windows
        /\ Windows \subseteq Writers
    BY <2>1, PendingStep
  <2>3. \A u \in Windows' : u = w \/ (u \in Windows /\ writer'[u] = writer[u])
    BY <2>1, <2>2 DEF Windows
  <2>4. ASSUME Prepares(w) \/ Reads(w) PROVE Agree'
    <3>1. writer[w].moved = {} /\ UNCHANGED <<row, list, saved, written, exposed, gone>>
      BY <2>4 DEF Prepares, Reads
    <3>2. \A id \in Safe : id \in Safe'
      BY <2>2, <3>1 DEF Safe
    <3>3. w \in Windows' => writer'[w].copy = list
      BY <2>4 DEF Prepares, Reads
    <3> QED
      BY <1>1, <2>1, <3>1, <3>2, <3>3, AgreeWith
  <2>5. ASSUME Stores(w) PROVE Agree'
    <3>1. PICK id \in Identifier :
            /\ id \notin written /\ written' = written \union {id}
            /\ Ids(list') = Ids(writer[w].copy) \union {id}
            /\ exposed' = exposed \union {id} \/ (exposed' = exposed /\ ~row /\ Windows \subseteq {w})
      BY <2>5 DEF Stores
    <3>2. w \in Windows /\ w \notin Windows' /\ writer[w].moved = {} /\ UNCHANGED <<row, saved, gone, ghosts>>
      BY <2>5 DEF Stores
    <3>3. /\ Ids(list) \subseteq Safe \union Ids(writer[w].copy)
          /\ Ids(writer[w].copy) \subseteq Safe \union Ids(list)
      BY <1>1, <3>2 DEF Agree
    <3>4. (\A i \in Safe : i \in Safe') /\ exposed' \subseteq Safe'
      BY <2>2, <3>1, <3>2 DEF Safe
    <3>5. id \in Safe' \/ (Windows' = {} /\ ~row)
      BY <2>2, <2>3, <3>1, <3>2, <3>4
    <3>6. written' \subseteq Safe' \union Ids(list')
      BY <1>1, <3>1, <3>3, <3>4 DEF Agree
    <3>7. ASSUME NEW u \in Windows'
          PROVE  /\ Ids(list') \subseteq Safe' \union Ids(writer'[u].copy)
                 /\ Ids(writer'[u].copy) \subseteq Safe' \union Ids(list')
      <4>1. u \in Windows /\ writer'[u] = writer[u] /\ id \in Safe'
        BY <2>3, <3>2, <3>5
      <4>2. /\ Ids(list) \subseteq Safe \union Ids(writer[u].copy)
            /\ Ids(writer[u].copy) \subseteq Safe \union Ids(list)
        BY <1>1, <4>1 DEF Agree
      <4> QED
        BY <3>1, <3>3, <3>4, <4>1, <4>2
    <3>8. row' => Ids(list') \subseteq Safe'
      BY <1>1, <3>1, <3>2, <3>3, <3>4, <3>5 DEF Agree
    <3> QED
      BY <3>6, <3>7, <3>8 DEF Agree
  <2>6. ASSUME Marks(w) PROVE Agree'
    <3>1. /\ w \in Windows /\ w \notin Windows' /\ writer[w].moved = {}
          /\ Ids(list') = Ids(writer[w].copy) /\ UNCHANGED <<row, saved, written, exposed, gone>>
      BY <2>6 DEF Marks
    <3>2. /\ Ids(list) \subseteq Safe \union Ids(list')
          /\ Ids(list') \subseteq Safe \union Ids(list)
      BY <1>1, <3>1 DEF Agree
    <3>3. \A id \in Safe : id \in Safe'
      BY <2>2, <3>1 DEF Safe
    <3>4. ASSUME NEW u \in Windows'
          PROVE  /\ Ids(list') \subseteq Safe' \union Ids(writer'[u].copy)
                 /\ Ids(writer'[u].copy) \subseteq Safe' \union Ids(list')
      <4>1. u \in Windows /\ writer'[u] = writer[u]
        BY <2>3, <3>1
      <4>2. /\ Ids(list) \subseteq Safe \union Ids(writer[u].copy)
            /\ Ids(writer[u].copy) \subseteq Safe \union Ids(list)
        BY <1>1, <4>1 DEF Agree
      <4> QED
        BY <3>2, <3>3, <4>1, <4>2
    <3>5. written' \subseteq Safe' \union Ids(list') /\ (row' => Ids(list') \subseteq Safe')
      BY <1>1, <3>1, <3>2, <3>3 DEF Agree
    <3> QED
      BY <3>4, <3>5 DEF Agree
  <2>7. ASSUME Migrates(w) \/ Adopts(w) PROVE Agree'
    <3>1. /\ w \in Windows /\ ~row /\ row' /\ UNCHANGED <<list, written, exposed, gone>>
          /\ Ids(writer'[w].copy) = {} /\ writer[w].moved = {}
      BY <2>7 DEF Migrates, Adopts
    <3>5. \/ saved' = Ids(writer[w].copy)
          \/ writer'[w].moved = Ids(writer[w].copy) /\ writer'[w].todo # <<>>
      BY <2>7 DEF Migrates, Adopts
    <3>2. (\A id \in Safe : id \in Safe') /\ Ids(writer[w].copy) \subseteq Safe'
      BY <1>1, <2>2, <3>1, <3>5 DEF Safe
    <3>3. Ids(list) \subseteq Safe \union Ids(writer[w].copy)
      BY <1>1, <3>1 DEF Agree
    <3>4. Ids(list) \subseteq Safe' /\ Ids(list') = Ids(list) /\ written' = written
      BY <3>1, <3>2, <3>3
    <3> QED
      BY <1>1, <2>1, <3>1, <3>2, <3>4, AgreeWith
  <2>8. ASSUME Commits(w) \/ GivesUp(w) PROVE Agree'
    <3>1. /\ w \notin Windows' /\ UNCHANGED <<row, list, written, gone>>
          /\ saved \union exposed \union writer[w].moved \subseteq saved' \union exposed'
      BY <2>8 DEF Commits, GivesUp
    <3>2. \A id \in Safe : id \in Safe'
      BY <2>2, <3>1 DEF Safe
    <3> QED
      BY <1>1, <2>1, <3>1, <3>2, AgreeWith
  <2>9. ASSUME Wipes(w) PROVE Agree'
    <3>1. /\ w \in Windows /\ w \notin Windows' /\ Ids(writer[w].copy) = {} /\ list' = <<>>
          /\ writer'[w].moved = writer[w].moved
          /\ writer[w].moved # {} => writer'[w].todo # <<>> /\ writer[w].todo # <<>>
          /\ UNCHANGED <<row, saved, written, exposed, gone>>
      BY <2>9 DEF Wipes
    <3>2. \A id \in Safe : id \in Safe'
      BY <2>2, <3>1 DEF Safe
    <3>3. Ids(list) \subseteq Safe /\ written \subseteq Safe
      BY <1>1, <3>1 DEF Agree
    <3>4. Ids(list') = {}
      BY <3>1, IdsEmpty, Zenon
    <3>5. ASSUME NEW u \in Windows' PROVE Ids(writer'[u].copy) \subseteq Safe'
      <4>1. u \in Windows /\ writer'[u] = writer[u]
        BY <2>3, <3>1
      <4>2. Ids(writer[u].copy) \subseteq Safe \union Ids(list)
        BY <1>1, <4>1 DEF Agree
      <4> QED
        BY <3>2, <3>3, <4>1, <4>2
    <3> QED
      BY <3>1, <3>2, <3>3, <3>4, <3>5 DEF Agree
  <2> QED
    BY <1>2, <2>4, <2>5, <2>6, <2>7, <2>8, <2>9 DEF Steps
<1>3. ASSUME writer' = writer, written' = written, Ids(list') \subseteq Ids(list),
             \A id \in Safe : id \in Safe',
             \A id \in Ids(list) : id \in Ids(list') \/ id \in Safe',
             row' => row \/ Ids(list') = {}
      PROVE  Agree'
  <2>1. Windows' = Windows
    BY <1>3, PendingStays
  <2>2. ASSUME NEW u \in Windows
        PROVE  /\ Ids(list') \subseteq Safe' \union Ids(writer'[u].copy)
               /\ Ids(writer'[u].copy) \subseteq Safe' \union Ids(list')
    <3>1. /\ Ids(list) \subseteq Safe \union Ids(writer[u].copy)
          /\ Ids(writer[u].copy) \subseteq Safe \union Ids(list)
      BY <1>1 DEF Agree
    <3> QED
      BY <1>3, <3>1
  <2>3. written' \subseteq Safe' \union Ids(list') /\ (row' => Ids(list') \subseteq Safe')
    BY <1>1, <1>3 DEF Agree
  <2> QED
    BY <2>1, <2>2, <2>3 DEF Agree
<1>4. CASE Promote \/ Delete \/ DeletePermanent \/ Expire
  <2>1. /\ writer' = writer /\ written' = written
        /\ (list' = list /\ ~row') \/ (list' = <<>> /\ (\A id \in Ids(list) : id \in saved' \union gone' \union exposed'))
        /\ \A id \in saved \union gone \union exposed : id \in saved' \union gone' \union exposed'
    BY <1>1, <1>4 DEF Promote, Delete, DeletePermanent, Expire, Temporary, Wiped
  <2>2. Pending' = Pending
    BY <2>1, PendingStays
  <2>3. \A id : id \in saved' \union gone' \union exposed' => id \in Safe'
    BY DEF Safe
  <2>4. \A id \in Safe : id \in Safe'
    BY <2>1, <2>2 DEF Safe
  <2>5. list' = <<>> => Ids(list') = {}
    BY IdsEmpty
  <2> QED
    BY <1>3, <2>1, <2>3, <2>4, <2>5
<1>5. CASE UNCHANGED tempVars
  BY <1>3, <1>5, PendingStays DEF tempVars, Safe
<1> QED
  BY <1>1, <1>2, <1>4, <1>5, WriterSteps DEF TempNext

LEMMA TempStarts == TempInit => Promoting /\ Agree
<1> SUFFICES ASSUME TempInit PROVE Promoting /\ Agree
  OBVIOUS
<1>1. \A w \in Writers : writer[w] = Absent
  BY DEF TempInit
<1>2. Absent.todo = <<>> /\ Absent.step = "new" /\ Absent.moved = {} /\ Absent.chosen = {}
  BY DEF Absent
<1>3. Pending = {} /\ Windows = {}
  BY <1>1, <1>2, PendingWhere DEF Windows
<1>4. Promoting
  BY <1>1, <1>2, <1>3 DEF TempInit, Promoting
<1>5. Agree
  BY <1>3 DEF TempInit, Agree
<1> QED
  BY <1>4, <1>5

\* A message that was appended to a temporary session is in what the user sees, or
\* in a transaction that is to commit it, unless it was deleted, expired, or written
\* while somebody else was between the read and the write of the list, or the session
\* was promoted without it: for every number of turns and requests.
THEOREM AppendedStays == TempSpec => []MessagesKept
<1>1. TempInit => KeptInv
  BY TempInitially, TempStarts DEF KeptInv
<1>2. KeptInv /\ [TempNext]_tempVars => KeptInv'
  BY TempIStep, PromotingStep, AgreeStep DEF KeptInv
<1>3. KeptInv => MessagesKept
  <2> SUFFICES ASSUME KeptInv PROVE MessagesKept
    OBVIOUS
  <2>1. written \subseteq Safe \union Ids(list) /\ (row => Ids(list) \subseteq Safe)
    BY DEF KeptInv, Agree
  <2>2. CASE row
    BY <2>1, <2>2 DEF MessagesKept, Safe, Shown
  <2>3. CASE ~row
    BY <2>1, <2>3 DEF MessagesKept, Safe, Shown, KeptInv, Promoting
  <2> QED
    BY <2>2, <2>3
<1> QED
  BY <1>1, <1>2, <1>3, PTL DEF TempSpec

------------------------------------------------------------------------------
(* What was deleted stays deleted.                                          *)

\* What can still be shown, and was deleted, was in somebody's hand at the time, or
\* in Redis behind a permanent session.
Haunted == (Ids(list) \union saved \union Opened) \intersect gone \subseteq ghosts

LEMMA OpenedNext ==
  \A id : id \in Opened' <=> id \in Pending' \/ \E w \in Windows' : id \in Ids(writer'[w].copy)
<1> SUFFICES ASSUME NEW id
             PROVE  id \in Opened' <=> id \in Pending' \/ \E w \in Windows' : id \in Ids(writer'[w].copy)
  OBVIOUS
<1> DEFINE copied == UNION {Ids(writer'[w].copy) : w \in Windows'}
<1>1. id \in copied <=> \E w \in Windows' : id \in Ids(writer'[w].copy)
  BY Zenon
<1>2. Opened' = copied \union Pending'
  BY DEF Opened
<1> QED
  BY <1>1, <1>2

\* What comes in hand in a step is in the list, or in the writer's own copy.
LEMMA OpenedStep ==
  ASSUME NEW w \in Writers, \A u \in Writers \ {w} : writer'[u] = writer[u], NEW id \in Opened'
  PROVE  \/ id \in Opened
         \/ writer'[w].todo # <<>> /\ id \in writer'[w].moved
         \/ w \in Windows' /\ id \in Ids(writer'[w].copy)
<1>1. \A u \in Windows' : u = w \/ (u \in Windows /\ writer'[u] = writer[u])
  BY PendingStep DEF Windows
<1> QED
  BY <1>1, OpenedWhere, OpenedNext, PendingStep

LEMMA HauntedStep == TempIInv /\ Promoting /\ Haunted /\ [TempNext]_tempVars => Haunted'
<1> SUFFICES ASSUME TempIInv, Promoting, Haunted, [TempNext]_tempVars PROVE Haunted'
  OBVIOUS
<1> USE DEF traces
<1> DEFINE Near == Ids(list) \union saved \union Opened
<1>1. /\ gone \subseteq written /\ row \in BOOLEAN /\ (~row => saved = {})
      /\ \A id \in gone : id \in Near => id \in ghosts
  BY DEF TempIInv, TempTypeOK, Promoting, Haunted
<1>2. ASSUME NEW w \in Writers, Steps(w) PROVE Haunted'
  <2>1. \A u \in Writers \ {w} : writer'[u] = writer[u]
    BY <1>2 DEF Steps
  <2>2. \A id \in Opened' : \/ id \in Opened
                            \/ writer'[w].todo # <<>> /\ id \in writer'[w].moved
                            \/ w \in Windows' /\ id \in Ids(writer'[w].copy)
    BY <2>1, OpenedStep
  <2>3. w \in Windows => Ids(writer[w].copy) \subseteq Opened
    BY OpenedWhere
  <2>4. writer[w].todo # <<>> => writer[w].moved \subseteq Opened
    BY <2>1, PendingStep, OpenedWhere
  <2>5. gone' = gone /\ ghosts' = ghosts
    BY <1>2 DEF Steps, Prepares, Reads, Stores, Marks, Migrates, Adopts, Commits, GivesUp, Wipes
  <2>6. ASSUME \A id \in gone : id \in Ids(list') \/ id \in saved' \/ id \in Opened' => id \in Near
        PROVE  Haunted'
    BY <1>1, <2>5, <2>6 DEF Haunted
  <2>7. CASE Prepares(w) \/ Reads(w)
    <3>1. /\ list' = list /\ saved' = saved /\ writer'[w].moved = {}
          /\ w \in Windows' => writer'[w].copy = list
      BY <2>7 DEF Prepares, Reads
    <3> QED
      BY <2>2, <2>6, <3>1
  <2>8. CASE Stores(w) \/ Marks(w)
    <3>1. /\ w \in Windows /\ w \notin Windows' /\ writer'[w].moved = {} /\ saved' = saved
      BY <2>8 DEF Stores, Marks
    <3>2. \A id \in gone : id \in Ids(list') => id \in Ids(writer[w].copy)
      BY <1>1, <2>8 DEF Stores, Marks
    <3> QED
      BY <2>2, <2>3, <2>6, <3>1, <3>2
  <2>9. CASE Migrates(w) \/ Adopts(w)
    <3>1. /\ w \in Windows /\ Ids(writer'[w].copy) = {} /\ list' = list
      BY <2>9 DEF Migrates, Adopts
    <3>2. saved' \subseteq Ids(writer[w].copy) /\ writer'[w].moved \subseteq Ids(writer[w].copy)
      BY <2>9 DEF Migrates, Adopts
    <3> QED
      BY <2>2, <2>3, <2>6, <3>1, <3>2
  <2>10. CASE Commits(w) \/ GivesUp(w)
    <3>1. /\ w \notin Windows' /\ writer[w].todo # <<>> /\ writer'[w].todo = <<>> /\ list' = list
          /\ saved' \subseteq saved \union writer[w].moved
      BY <2>10 DEF Commits, GivesUp
    <3> QED
      BY <2>2, <2>4, <2>6, <3>1
  <2>11. CASE Wipes(w)
    <3>1. /\ w \notin Windows' /\ list' = <<>> /\ saved' = saved /\ writer'[w].moved = writer[w].moved
          /\ writer[w].moved # {} => writer[w].todo # <<>>
      BY <2>11 DEF Wipes
    <3>2. Ids(list') = {}
      BY <3>1, IdsEmpty, Zenon
    <3> QED
      BY <2>2, <2>4, <2>6, <3>1, <3>2
  <2> QED
    BY <1>2, <2>7, <2>8, <2>9, <2>10, <2>11 DEF Steps
<1>3. writer' = writer => Opened' = Opened
  <2> SUFFICES ASSUME writer' = writer PROVE Opened' = Opened
    OBVIOUS
  <2>1. \A id : id \in Opened' <=> id \in Opened
    BY PendingStays, OpenedWhere, OpenedNext
  <2> QED
    BY <2>1
<1>4. list' = <<>> => Ids(list') = {}
  BY IdsEmpty
<1>5. CASE Promote
  <2>1. /\ writer' = writer /\ list' = <<>> /\ saved' = {} /\ gone' = gone /\ ghosts' = ghosts
    BY <1>5 DEF Promote, Wiped
  <2> QED
    BY <1>1, <1>3, <1>4, <2>1 DEF Haunted
<1>6. CASE Delete
  <2>1. /\ writer' = writer /\ list' = <<>> /\ ~row /\ saved' = saved
        /\ gone' = gone \union Ids(list) /\ ghosts' = ghosts \union Opened
    BY <1>6 DEF Delete, Wiped, Temporary
  <2> QED
    BY <1>1, <1>3, <1>4, <2>1 DEF Haunted
<1>7. CASE DeletePermanent
  <2>1. /\ writer' = writer /\ list' = list /\ saved' = {}
        /\ gone' = gone \union saved /\ ghosts' = ghosts \union Opened \union Ids(list)
    BY <1>7 DEF DeletePermanent
  <2> QED
    BY <1>1, <1>3, <2>1 DEF Haunted
<1>8. CASE Expire
  <2>1. /\ writer' = writer /\ list' = <<>> /\ saved' = saved
        /\ gone' = gone \union (Ids(list) \ saved) /\ ghosts' = ghosts \union Opened
    BY <1>8 DEF Expire
  <2> QED
    BY <1>1, <1>3, <1>4, <2>1 DEF Haunted
<1>9. CASE UNCHANGED tempVars
  BY <1>1, <1>3, <1>9 DEF tempVars, Haunted
<1> QED
  BY <1>2, <1>5, <1>6, <1>7, <1>8, <1>9, WriterSteps DEF TempNext

\* What was deleted from a session is not shown again, but for what a turn, an upload
\* or a request held in its copy of the list when it was deleted, or what a session
\* that was finalized had left in Redis: nothing else can bring a message back.
THEOREM DeletedStays == TempSpec => []DeletedStayDeleted
<1> DEFINE HauntInv == TempIInv /\ Promoting /\ Haunted
<1>1. TempInit => HauntInv
  BY TempInitially, TempStarts DEF TempInit, Haunted
<1>2. HauntInv /\ [TempNext]_tempVars => HauntInv'
  BY TempIStep, PromotingStep, HauntedStep
<1>3. HauntInv => DeletedStayDeleted
  BY DEF Haunted, DeletedStayDeleted, Shown
<1> HIDE DEF HauntInv
<1> QED
  BY <1>1, <1>2, <1>3, PTL DEF TempSpec

------------------------------------------------------------------------------
(* What is marked is in a summary.                                          *)

\* The summary of w is about to be stored, is lost with w, or with a list.
Stands(w) ==
  \/ <<w, "summary">> \in gone \union exposed
  \/ writer[w].todo = <<>> /\ <<w, "summary">> \notin written
  \/ writer[w].todo # <<>> /\ Head(writer[w].todo) = "summary"

\* The marks of the messages s are those of summaries.
Covered(s) ==
  \A m \in Range(s) : m.summarized =>
    \E w \in Writers : m.id \in writer[w].chosen /\ (<<w, "summary">> \in Ids(s) \/ Stands(w))

\* So it is of the list, and of every copy that is going to be written.
Summed == Covered(list) /\ \A w \in Windows : Covered(writer[w].copy)

\* The same of the next state.
CoveredNext(s) ==
  \A m \in Range(s) : m.summarized =>
    \E w \in Writers : m.id \in writer'[w].chosen /\ (<<w, "summary">> \in Ids(s) \/ Stands(w)')

\* Writers go on to stand for what they have chosen, but for those of ids.
Lasting(ids) ==
  \A w \in Writers : \A id \in writer[w].chosen :
    Stands(w) \/ <<w, "summary">> \in written =>
      id \in writer'[w].chosen /\ (Stands(w) => Stands(w)' \/ <<w, "summary">> \in ids)

LEMMA SummedNext ==
  ASSUME CoveredNext(list'), \A w \in Windows' : CoveredNext(writer'[w].copy)
  PROVE  Summed'
BY DEF Summed, Covered, CoveredNext

LEMMA CoverKeeps ==
  ASSUME NEW s, NEW t, NEW ids, Covered(s), Ids(s) \subseteq written,
         Lasting(ids), ids \subseteq Ids(t), Ids(s) \subseteq Ids(t),
         \A m \in Range(t) : m.summarized =>
           \/ \E n \in Range(s) : n.id = m.id /\ n.summarized
           \/ \E w \in Writers : m.id \in writer'[w].chosen /\ Stands(w)'
  PROVE  CoveredNext(t)
<1> SUFFICES ASSUME NEW m \in Range(t), m.summarized
             PROVE  \E w \in Writers : /\ m.id \in writer'[w].chosen
                                       /\ <<w, "summary">> \in Ids(t) \/ Stands(w)'
  BY DEF CoveredNext
<1>1. CASE \E w \in Writers : m.id \in writer'[w].chosen /\ Stands(w)'
  BY <1>1
<1>2. CASE \E n \in Range(s) : n.id = m.id /\ n.summarized
  <2>1. PICK w \in Writers : m.id \in writer[w].chosen /\ (<<w, "summary">> \in Ids(s) \/ Stands(w))
    BY <1>2 DEF Covered
  <2>2. Stands(w) \/ <<w, "summary">> \in written
    BY <2>1
  <2>3. m.id \in writer'[w].chosen /\ (Stands(w) => Stands(w)' \/ <<w, "summary">> \in ids)
    BY <2>1, <2>2 DEF Lasting
  <2> QED
    BY <2>1, <2>3
<1> QED
  BY <1>1, <1>2

\* What a step does to the summary of the writer that takes it.
LEMMA LastingStep ==
  ASSUME TempIInv, Promoting, NEW v \in Writers,
         NEW todo, NEW step, NEW copy, NEW chosen, NEW moved,
         Sets(v, todo, step, copy, chosen, moved),
         gone \subseteq gone', exposed \subseteq exposed',
         \A w \in Writers : <<w, "summary">> \in written' => <<w, "summary">> \in written,
         \/ writer[v].step = "new"
         \/ todo = writer[v].todo /\ chosen = writer[v].chosen
         \/ writer[v].todo # <<>> /\ Head(writer[v].todo) = "fold"
         \/ /\ writer[v].todo # <<>> /\ Head(writer[v].todo) # "summary"
            /\ chosen = writer[v].chosen
         \/ writer[v].todo # <<>> /\ todo = <<>> /\ chosen = writer[v].chosen
  PROVE  Lasting({})
<1> SUFFICES ASSUME NEW w \in Writers, NEW id \in writer[w].chosen,
                    Stands(w) \/ <<w, "summary">> \in written
             PROVE  id \in writer'[w].chosen /\ (Stands(w) => Stands(w)')
  BY DEF Lasting
<1>1. gone \subseteq written /\ exposed \subseteq written
  BY DEF TempIInv, TempTypeOK
<1>2. CASE w # v
  <2>1. writer'[w] = writer[w]
    BY <1>2 DEF Sets
  <2> QED
    BY <2>1 DEF Stands
<1>3. CASE w = v
  <2>1. writer'[v].todo = todo /\ writer'[v].chosen = chosen
    BY DEF Sets
  <2>2. writer[v].step # "new"
    BY <1>3 DEF Promoting
  <2>3. ASSUME writer[v].todo # <<>>, Head(writer[v].todo) \in {"fold", "summary"}
        PROVE  <<v, "summary">> \notin written
    <3>1. "summary" \in Tags(writer[v].todo)
      <4>1. writer[v].todo \in Seq(Tasks) /\ Len(writer[v].todo) \in Nat \ {0} /\ Head(writer[v].todo) = writer[v].todo[1]
        BY <2>3, BusyWriter DEF Todos
      <4> QED
        BY <2>3, <4>1 DEF Tags, Appends
    <3> QED
      BY <2>3, <3>1, BusyWriter
  <2>4. ~(writer[v].todo # <<>> /\ Head(writer[v].todo) = "fold")
    BY <1>1, <1>3, <2>3 DEF Stands
  <2>5. CASE todo = writer[v].todo /\ chosen = writer[v].chosen
    BY <1>3, <2>1, <2>5 DEF Stands
  <2>6. CASE writer[v].todo # <<>> /\ Head(writer[v].todo) # "summary" /\ chosen = writer[v].chosen
    BY <1>3, <2>1, <2>6 DEF Stands
  <2>7. CASE writer[v].todo # <<>> /\ todo = <<>> /\ chosen = writer[v].chosen
    BY <1>3, <2>1, <2>3, <2>7 DEF Stands
  <2> QED
    BY <2>2, <2>4, <2>5, <2>6, <2>7
<1> QED
  BY <1>2, <1>3

\* The list stays, or goes, and who opens a copy has that of the list, or none.
LEMMA SummedSame ==
  ASSUME TempIInv, Summed, Lasting({}), list' \in {list, <<>>},
         \A w \in Windows' : \/ w \in Windows /\ writer'[w].copy = writer[w].copy
                             \/ w \in Writers /\ writer'[w].copy \in {list, <<>>}
  PROVE  Summed'
<1>1. CoveredNext(<<>>)
  BY DEF CoveredNext, Range
<1>2. CoveredNext(list)
  <2>1. Covered(list) /\ Ids(list) \subseteq written
    BY DEF Summed, TempIInv, Listed
  <2> QED
    BY <2>1, CoverKeeps
<1>3. ASSUME NEW w \in Windows PROVE CoveredNext(writer[w].copy)
  <2>1. Covered(writer[w].copy) /\ Ids(writer[w].copy) \subseteq written
    BY <1>3 DEF Summed, TempIInv, Copied, Windows
  <2> QED
    BY <2>1, CoverKeeps
<1> QED
  BY <1>1, <1>2, <1>3, SummedNext

LEMMA SummedStep == TempIInv /\ Promoting /\ Summed /\ [TempNext]_tempVars => Summed'
<1> SUFFICES ASSUME TempIInv, Promoting, Summed, [TempNext]_tempVars PROVE Summed'
  OBVIOUS
<1> USE DEF traces
<1>1. TempTypeOK /\ \A w \in Windows : w \in Writers
  BY DEF TempIInv, Windows
<1>2. \A v \in Writers : \A todo, step, copy, chosen, moved :
        Sets(v, todo, step, copy, chosen, moved) =>
          /\ writer'[v].todo = todo /\ writer'[v].step = step /\ writer'[v].copy = copy
          /\ writer'[v].chosen = chosen
          /\ v \in Windows' <=> step = "open" /\ Head(todo) # "title"
          /\ \A w \in Windows' : w = v \/ (w \in Windows /\ writer'[w].copy = writer[w].copy)
  <2> SUFFICES ASSUME NEW v \in Writers, NEW todo, NEW step, NEW copy, NEW chosen, NEW moved,
                      Sets(v, todo, step, copy, chosen, moved)
               PROVE  /\ writer'[v].todo = todo /\ writer'[v].step = step /\ writer'[v].copy = copy
                      /\ writer'[v].chosen = chosen
                      /\ v \in Windows' <=> step = "open" /\ Head(todo) # "title"
                      /\ \A w \in Windows' : w = v \/ (w \in Windows /\ writer'[w].copy = writer[w].copy)
    OBVIOUS
  <2>1. \A w \in Writers \ {v} : writer'[w] = writer[w]
    BY DEF Sets
  <2>2. \A w \in Windows' : w \in Writers
    BY DEF Windows
  <2>3. /\ \A u \in Writers \ {v} : u \in Windows' <=> u \in Windows
        /\ v \in Windows' <=> step = "open" /\ Head(todo) # "title"
    BY WindowsStep
  <2> QED
    BY <2>1, <2>2, <2>3 DEF Sets
<1>3. ASSUME NEW v \in Writers, NEW kind \in Kinds, Start(v, kind) PROVE Summed'
  <2>1. writer[v].step = "new"
    BY <1>3 DEF Start
  <2>2. Sets(v, Plan(kind), "ready", writer[v].copy, writer[v].chosen, writer[v].moved)
    BY <1>1, <1>3, <2>1, StartSets
  <2>3. list' = list /\ UNCHANGED <<written, exposed, gone>>
    BY <1>3 DEF Start
  <2>4. Lasting({})
    BY <2>1, <2>2, <2>3, LastingStep
  <2> QED
    BY <1>1, <1>2, <2>2, <2>3, <2>4, SummedSame
<1>4. ASSUME NEW v \in Writers, ReadList(v) PROVE Summed'
  <2>1. writer[v].todo # <<>>
    BY <1>4 DEF ReadList, Ready
  <2>2. Sets(v, writer[v].todo, "open", list, writer[v].chosen, writer[v].moved)
    BY <1>1, <1>4, <2>1, ReadSets
  <2>3. list' = list /\ UNCHANGED <<written, exposed, gone>>
    BY <1>4 DEF ReadList
  <2>4. Lasting({})
    BY <2>1, <2>2, <2>3, LastingStep
  <2> QED
    BY <1>1, <1>2, <2>2, <2>3, <2>4, SummedSame
<1>5. ASSUME NEW v \in Writers, Skip(v) PROVE Summed'
  <2>1. writer[v].todo # <<>> /\ Head(writer[v].todo) = "fold"
    BY <1>5 DEF Skip, Ready, TempIInv, Writing
  <2>2. Sets(v, Tail(writer[v].todo), "ready", <<>>, writer[v].chosen, writer[v].moved)
    BY <1>1, <1>5, <2>1, DoneSets DEF Skip
  <2>3. list' = list /\ UNCHANGED <<written, exposed, gone>>
    BY <1>5 DEF Skip
  <2>4. Lasting({})
    BY <2>1, <2>2, <2>3, LastingStep
  <2> QED
    BY <1>1, <1>2, <2>2, <2>3, <2>4, SummedSame
<1>6. ASSUME NEW v \in Writers, Think(v) PROVE Summed'
  <2>1. writer[v].todo # <<>> /\ Head(writer[v].todo) = "fold"
    BY <1>6 DEF Think, Ready, TempIInv, Writing
  <2>2. Sets(v, writer[v].todo, "thinking", list, ToSummarize(list), writer[v].moved)
    BY <1>1, <1>6, <2>1, ThinkSets, SummarizedTyped
  <2>3. list' = list /\ UNCHANGED <<written, exposed, gone>>
    BY <1>6 DEF Think
  <2>4. Lasting({})
    BY <2>1, <2>2, <2>3, LastingStep
  <2> QED
    BY <1>1, <1>2, <2>2, <2>3, <2>4, SummedSame
<1>7. ASSUME NEW v \in Writers, NoSummary(v) PROVE Summed'
  <2>1. writer[v].todo # <<>> /\ Head(writer[v].todo) = "fold"
    BY <1>7 DEF NoSummary, TempIInv, Writing
  <2>2. Sets(v, Tail(writer[v].todo), "ready", <<>>, {}, writer[v].moved)
    BY <1>1, <1>7, <2>1, NoSummarySets
  <2>3. list' = list /\ UNCHANGED <<written, exposed, gone>>
    BY <1>7 DEF NoSummary
  <2>4. Lasting({})
    BY <2>1, <2>2, <2>3, LastingStep
  <2> QED
    BY <1>1, <1>2, <2>2, <2>3, <2>4, SummedSame
<1>8. ASSUME NEW v \in Writers, Collect(v) PROVE Summed'
  <2>1. writer[v].todo # <<>> /\ Head(writer[v].todo) = "fold"
    BY <1>8 DEF Collect, TempIInv, Writing
  <2>2. Sets(v, writer[v].todo, "open", list, writer[v].chosen, writer[v].moved)
    BY <1>1, <1>8, <2>1, CollectSets
  <2>3. list' = list /\ UNCHANGED <<written, exposed, gone>>
    BY <1>8 DEF Collect
  <2>4. Lasting({})
    BY <2>1, <2>2, <2>3, LastingStep
  <2> QED
    BY <1>1, <1>2, <2>2, <2>3, <2>4, SummedSame
<1>9. ASSUME NEW v \in Writers, Rename(v) PROVE Summed'
  <2>1. writer[v].todo # <<>> /\ Head(writer[v].todo) = "title"
    BY <1>9 DEF Rename, TempIInv, Writing
  <2>2. Sets(v, Tail(writer[v].todo), "ready", <<>>, writer[v].chosen, writer[v].moved)
    BY <1>1, <1>9, <2>1, DoneSets DEF Rename
  <2>3. list' = list /\ UNCHANGED <<written, exposed, gone>>
    BY <1>9 DEF Rename
  <2>4. Lasting({})
    BY <2>1, <2>2, <2>3, LastingStep
  <2> QED
    BY <1>1, <1>2, <2>2, <2>3, <2>4, SummedSame
<1>10. ASSUME NEW v \in Writers, Migrate(v) PROVE Summed'
  <2>1. writer[v].todo # <<>> /\ Head(writer[v].todo) = "move"
    BY <1>10 DEF Migrate, Moves, TempIInv, Writing
  <2>2. Sets(v, Tail(writer[v].todo), "open", <<>>, writer[v].chosen, writer[v].moved)
    BY <1>1, <1>10, <2>1, MigrateSets
  <2>3. list' = list /\ UNCHANGED <<written, exposed, gone>>
    BY <1>10 DEF Migrate
  <2>4. Lasting({})
    BY <2>1, <2>2, <2>3, LastingStep
  <2> QED
    BY <1>1, <1>2, <2>2, <2>3, <2>4, SummedSame
<1>11. ASSUME NEW v \in Writers, Adopt(v) PROVE Summed'
  <2>1. writer[v].todo # <<>> /\ Head(writer[v].todo) = "move"
    BY <1>11 DEF Adopt, Moves, TempIInv, Writing
  <2>2. Sets(v, Tail(writer[v].todo), "open", <<>>, writer[v].chosen, Ids(writer[v].copy))
    BY <1>1, <1>11, <2>1, AdoptSets
  <2>3. list' = list /\ UNCHANGED <<written, exposed, gone>>
    BY <1>11 DEF Adopt
  <2>4. Lasting({})
    BY <2>1, <2>2, <2>3, LastingStep
  <2> QED
    BY <1>1, <1>2, <2>2, <2>3, <2>4, SummedSame
<1>12. ASSUME NEW v \in Writers, CommitUpload(v) \/ RefuseUpload(v) PROVE Summed'
  <2>1. writer[v].todo # <<>> /\ Head(writer[v].todo) = "commit"
    BY <1>12 DEF CommitUpload, RefuseUpload, TempIInv, Writing
  <2>2. Sets(v, Tail(writer[v].todo), "ready", <<>>, writer[v].chosen, writer[v].moved)
    BY <1>1, <1>12, <2>1, DoneSets DEF CommitUpload, RefuseUpload
  <2>3. list' = list /\ written' = written /\ gone' = gone /\ exposed \subseteq exposed'
    BY <1>12 DEF CommitUpload, RefuseUpload
  <2>4. Lasting({})
    BY <2>1, <2>2, <2>3, LastingStep
  <2> QED
    BY <1>1, <1>2, <2>2, <2>3, <2>4, SummedSame
<1>13. ASSUME NEW v \in Writers, Wipe(v) PROVE Summed'
  <2>1. writer[v].todo # <<>> /\ Head(writer[v].todo) = "wipe"
    BY <1>13 DEF Wipe, TempIInv, Writing
  <2>2. Sets(v, Tail(writer[v].todo), "ready", <<>>, writer[v].chosen, writer[v].moved)
    BY <1>1, <1>13, <2>1, DoneSets DEF Wipe
  <2>3. list' = <<>> /\ UNCHANGED <<written, exposed, gone>>
    BY <1>13 DEF Wipe, Wiped
  <2>4. Lasting({})
    BY <2>1, <2>2, <2>3, LastingStep
  <2> QED
    BY <1>1, <1>2, <2>2, <2>3, <2>4, SummedSame
<1>14. ASSUME NEW v \in Writers, Fail(v) PROVE Summed'
  <2>1. writer[v].todo # <<>>
    BY <1>14 DEF Fail
  <2>2. Sets(v, <<>>, "ready", <<>>, writer[v].chosen, {})
    BY <1>1, <1>14, <2>1, FailSets
  <2>3. list' = list /\ written' = written /\ gone' = gone /\ exposed \subseteq exposed'
    BY <1>14 DEF Fail
  <2>4. Lasting({})
    BY <2>1, <2>2, <2>3, LastingStep
  <2> QED
    BY <1>1, <1>2, <2>2, <2>3, <2>4, SummedSame
<1>15. ASSUME NEW v \in Writers, MarkMessages(v) PROVE Summed'
  <2>1. writer[v].todo # <<>> /\ Head(writer[v].todo) = "fold" /\ v \in Windows
    BY <1>15 DEF MarkMessages, Windows, TempIInv, Writing
  <2> DEFINE next == <<"summary">> \o Tail(writer[v].todo)
  <2>2. Sets(v, next, "ready", <<>>, writer[v].chosen, writer[v].moved)
    BY <1>1, <1>15, <2>1, MarkSets
  <2>3. next # <<>> /\ Head(next) = "summary"
    BY <2>1, BusyWriter, TodoFolded
  <2> HIDE DEF next
  <2>4. UNCHANGED <<written, exposed, gone>>
    BY <1>15 DEF MarkMessages
  <2>5. Lasting({})
    BY <2>1, <2>2, <2>4, LastingStep
  <2>6. writer'[v].chosen = writer[v].chosen /\ Stands(v)'
    BY <1>2, <2>2, <2>3 DEF Stands
  <2>7. /\ Ids(list') = Ids(writer[v].copy)
        /\ \A m \in Range(list') : m.summarized =>
             m.id \in writer[v].chosen \/ \E n \in Range(writer[v].copy) : n.id = m.id /\ n.summarized
    BY <1>15, MarkList
  <2>8. Covered(writer[v].copy) /\ Ids(writer[v].copy) \subseteq written
    BY <2>1, BusyWriter DEF Summed
  <2>9. CoveredNext(list')
    BY <2>5, <2>6, <2>7, <2>8, CoverKeeps
  <2>10. ASSUME NEW w \in Windows' PROVE CoveredNext(writer'[w].copy)
    <3>1. w \in Windows /\ w \in Writers /\ writer'[w].copy = writer[w].copy
      BY <1>1, <1>2, <2>2
    <3>2. Covered(writer[w].copy) /\ Ids(writer[w].copy) \subseteq written
      BY <3>1 DEF Summed, TempIInv, Copied
    <3> QED
      BY <2>5, <3>1, <3>2, CoverKeeps
  <2> QED
    BY <2>9, <2>10, SummedNext
<1>16. ASSUME NEW v \in Writers, Store(v) PROVE Summed'
  <2> DEFINE h == Head(writer[v].todo)
             id == <<v, h>>
             new == [id |-> id, summarized |-> FALSE]
  <2>1. writer[v].todo # <<>> /\ h \in Appends /\ v \in Windows
    BY <1>16 DEF Store, Windows, Appends, TempIInv, Writing
  <2>2. /\ Sets(v, Tail(writer[v].todo), "ready", <<>>, writer[v].chosen, writer[v].moved)
        /\ id \notin written /\ written' = written \union {id} /\ list' = Append(writer[v].copy, new)
        /\ Ids(list') = Ids(writer[v].copy) \union {id} /\ new \in Message
    BY <1>16, StoreNew
  <2>3. /\ gone' = gone /\ exposed \subseteq exposed'
        /\ id \in exposed' \/ Windows \subseteq {v}
    BY <1>16 DEF Store
  <2>4. \A w \in Writers : w # v => writer'[w] = writer[w]
    BY <2>2 DEF Sets
  <2>5. writer'[v].chosen = writer[v].chosen /\ v \notin Windows'
    BY <1>2, <2>2
  <2>6. writer[v].todo \in Todos /\ Ids(writer[v].copy) \subseteq written /\ writer[v].copy \in Seq(Message)
    BY <2>1, BusyWriter
  <2>7. Lasting(Ids(list')) /\ (Windows' # {} => Lasting({}))
    <3>1. CASE h = "summary"
      <4>1. ASSUME NEW w \in Writers, NEW i \in writer[w].chosen
            PROVE  /\ i \in writer'[w].chosen
                   /\ Stands(w) => Stands(w)' \/ <<w, "summary">> = id
        <5>1. CASE w # v
          <6>1. <<w, "summary">> # id
            BY <5>1
          <6>2. <<w, "summary">> \in written' <=> <<w, "summary">> \in written
            BY <2>2, <6>1
          <6> QED
            BY <2>3, <2>4, <5>1, <6>2 DEF Stands
        <5>2. CASE w = v
          BY <2>5, <3>1, <5>2
        <5> QED
          BY <5>1, <5>2
      <4>2. Windows' # {} => id \in exposed'
        <5>1. \A w \in Windows' : w = v \/ w \in Windows
          BY <1>2, <2>2
        <5> QED
          BY <2>3, <2>5, <5>1
      <4>3. id \in Ids(list')
        BY <2>2
      <4>4. Lasting(Ids(list'))
        BY <4>1, <4>3 DEF Lasting
      <4>5. ASSUME Windows' # {} PROVE Lasting({})
        <5>1. \A w \in Writers : <<w, "summary">> = id => Stands(w)'
          BY <4>2, <4>5 DEF Stands
        <5> QED
          BY <4>1, <5>1 DEF Lasting
      <4> QED
        BY <4>4, <4>5
    <3>2. CASE h # "summary"
      <4>1. \A w \in Writers : <<w, "summary">> # id
        BY <3>2
      <4>2. \A w \in Writers : <<w, "summary">> \in written' => <<w, "summary">> \in written
        BY <2>2, <4>1
      <4>3. Lasting({})
        BY <2>1, <2>2, <2>3, <3>2, <4>2, LastingStep
      <4> QED
        BY <4>3 DEF Lasting
    <3> QED
      BY <3>1, <3>2
  <2>8. \A m \in Range(list') : m.summarized => m \in Range(writer[v].copy)
    <3>1. new.summarized = FALSE
      OBVIOUS
    <3> HIDE DEF new
    <3>2. \A m \in Range(list') : m = new \/ m \in Range(writer[v].copy)
      BY <2>2, <2>6 DEF Range
    <3> QED
      BY <3>1, <3>2
  <2> HIDE DEF id, h, new
  <2>9. CoveredNext(list')
    <3>1. Covered(writer[v].copy) /\ Ids(writer[v].copy) \subseteq Ids(list')
      BY <2>1, <2>2 DEF Summed
    <3> QED
      BY <2>6, <2>7, <2>8, <3>1, CoverKeeps
  <2>10. ASSUME NEW w \in Windows' PROVE CoveredNext(writer'[w].copy)
    <3>1. w \in Windows /\ w \in Writers /\ writer'[w].copy = writer[w].copy
      BY <1>1, <1>2, <2>2, <2>5
    <3>2. Covered(writer[w].copy) /\ Ids(writer[w].copy) \subseteq written /\ Lasting({})
      BY <2>7, <3>1 DEF Summed, TempIInv, Copied
    <3> QED
      BY <3>1, <3>2, CoverKeeps
  <2> QED
    BY <2>9, <2>10, SummedNext
<1>17. ASSUME writer' = writer, written' = written, list' \in {list, <<>>},
              gone \subseteq gone', exposed \subseteq exposed'
       PROVE  Summed'
  <2>1. Lasting({})
    BY <1>17 DEF Lasting, Stands
  <2>2. Windows' = Windows
    BY <1>17, PendingStays
  <2> QED
    BY <1>17, <2>1, <2>2, SummedSame
<1>18. CASE Promote \/ Delete \/ DeletePermanent \/ Expire
  BY <1>17, <1>18 DEF Promote, Delete, DeletePermanent, Expire, Wiped
<1>19. CASE UNCHANGED tempVars
  BY <1>17, <1>19 DEF tempVars
<1> QED
  BY <1>3, <1>4, <1>5, <1>6, <1>7, <1>8, <1>9, <1>10, <1>11, <1>12, <1>13, <1>14, <1>15, <1>16, <1>18, <1>19
     DEF TempNext

\* A message that is marked as summarized, and so left out of every later context, is
\* in the content of a summary that is in the list, is about to be appended, or was
\* lost with its writer or with a list: nobody marks what no summary is made of, however
\* the summaries of several turns and requests overlap.
THEOREM MarkedIsIn == TempSpec => []MarkedIsSummarized
<1> DEFINE SumInv == TempIInv /\ Promoting /\ Summed
<1>1. TempInit => SumInv
  <2> SUFFICES ASSUME TempInit PROVE SumInv
    OBVIOUS
  <2>1. \A w \in Writers : w \notin Windows
    BY DEF TempInit, Windows, Absent
  <2>2. Summed
    BY <2>1 DEF TempInit, Summed, Covered, Range, Windows
  <2> QED
    BY <2>2, TempInitially, TempStarts
<1>2. SumInv /\ [TempNext]_tempVars => SumInv'
  BY TempIStep, PromotingStep, SummedStep
<1>3. SumInv => MarkedIsSummarized
  BY DEF Summed, Covered, Stands, MarkedIsSummarized
<1> HIDE DEF SumInv
<1> QED
  BY <1>1, <1>2, <1>3, PTL DEF TempSpec

------------------------------------------------------------------------------
(* A permanent session: what its turns and requests do to one another.      *)

\* Everything has its type, and only a stream asks before it runs.
Typed ==
  /\ second \in 0 .. MaxSecond /\ session \in BOOLEAN
  /\ messages \subseteq StoredMessage
  /\ file \in FileState /\ exchange \in [Exchange -> ExchangeState]
  /\ request \in [Requests -> RequestState]
  /\ \A t \in Exchange : exchange[t].pc = "asking" => exchange[t].stream

Pcs == Before \union {"over"}

\* A stream that has stored its question, and no answer yet.
Advances(t) ==
  exchange[t].stream /\ exchange[t].pc \in {"linking", "reading", "thinking", "marked", "answering"}

\* Whatever happens, a turn never comes to be without what it had; only an answer
\* changes whether it has the second of its question.
GoesOn(t) ==
  /\ ~Unasked(t) => ~Unasked(t)'
  /\ ~Unsummed(t) => ~Unsummed(t)'
  /\ ~Unanswered(t) => ~Unanswered(t)'
  /\ exchange[t].disturbed => exchange'[t].disturbed
  /\ exchange'[t].same = exchange[t].same \/ Unanswered(t)
  /\ Advances(t)' => Advances(t) \/ Ask(t)
  /\ exchange'[t].pc = "asking" => exchange'[t].stream

\* A turn that goes on as t does.
LEMMA AtIs ==
  ASSUME Typed, NEW t \in Exchange, NEW pc \in Pcs
  PROVE  LET x == At(t, pc) IN
         /\ x \in ExchangeState /\ x.pc = pc /\ x.chosen = {}
         /\ pc = "over" => x.stream
         /\ pc # "over" => x.stream = exchange[t].stream
         /\ x.same = exchange[t].same /\ x.disturbed = exchange[t].disturbed
<1> DEFINE s == exchange[t].stream \/ pc = "over"
           f == exchange[t].files /\ pc # "over"
           x == [exchange[t] EXCEPT !.pc = pc, !.chosen = {}, !.stream = s, !.files = f]
<1>1. exchange[t] \in ExchangeState /\ exchange[t].stream \in BOOLEAN
  BY DEF Typed, ExchangeState
<1>2. s \in BOOLEAN /\ f \in BOOLEAN
  BY Zenon
<1>3. At(t, pc) = x
  BY Zenon DEF At
<1>4. (pc = "over" => s) /\ (pc # "over" => s = exchange[t].stream)
  BY <1>1
<1> HIDE DEF s, f
<1>5. /\ x \in ExchangeState /\ x.pc = pc /\ x.chosen = {} /\ x.stream = s
      /\ x.same = exchange[t].same /\ x.disturbed = exchange[t].disturbed
  BY <1>1, <1>2 DEF ExchangeState, Pcs
<1> HIDE DEF x
<1> QED
  BY <1>3, <1>4, <1>5

\* One turn takes a step: pc and the others are what it comes to.
TurnSets(t, pc, stream, same, disturbed) ==
  /\ exchange' \in [Exchange -> ExchangeState]
  /\ \A u \in Exchange \ {t} : exchange'[u] = exchange[u]
  /\ exchange'[t].pc = pc /\ exchange'[t].stream = stream
  /\ exchange'[t].same = same /\ exchange'[t].disturbed = disturbed

LEMMA GoIs ==
  ASSUME Typed, NEW t \in Exchange, NEW to \in Pcs, exchange' = [exchange EXCEPT ![t] = At(t, to)]
  PROVE  \E stream \in BOOLEAN :
           /\ to = "over" => stream
           /\ to # "over" => stream = exchange[t].stream
           /\ TurnSets(t, to, stream, exchange[t].same, exchange[t].disturbed)
<1> DEFINE x == At(t, to)
<1>1. /\ x \in ExchangeState /\ x.pc = to
      /\ to = "over" => x.stream
      /\ to # "over" => x.stream = exchange[t].stream
      /\ x.same = exchange[t].same /\ x.disturbed = exchange[t].disturbed
  BY AtIs
<1>2. exchange' = [exchange EXCEPT ![t] = x] /\ exchange \in [Exchange -> ExchangeState]
  BY DEF Typed
<1> HIDE DEF x
<1>3. exchange'[t] = x /\ x.stream \in BOOLEAN
  BY <1>1, <1>2 DEF ExchangeState
<1>4. TurnSets(t, to, x.stream, exchange[t].same, exchange[t].disturbed)
  BY <1>1, <1>2, <1>3 DEF TurnSets
<1> QED
  BY <1>1, <1>3, <1>4

LEMMA AnswerIs ==
  ASSUME Typed, NEW t \in Exchange, Answer(t)
  PROVE  \E to \in {"over", "linking"}, stream \in BOOLEAN, same \in BOOLEAN, disturbed \in BOOLEAN :
           /\ to = IF exchange[t].stream THEN "over" ELSE "linking"
           /\ stream = exchange[t].stream
           /\ same <=> ~exchange[t].stream \/ \E q \in Questions(t) : q.at = second
           /\ disturbed <=> exchange[t].disturbed \/ Open # {}
           /\ TurnSets(t, to, stream, same, disturbed)
<1> DEFINE to == IF exchange[t].stream THEN "over" ELSE "linking"
           b == ~exchange[t].stream \/ \E q \in Questions(t) : q.at = second
           d == At(t, to).disturbed \/ Open # {}
           x == [At(t, to) EXCEPT !.same = b, !.disturbed = d]
<1>1. exchange[t] \in ExchangeState /\ exchange[t].stream \in BOOLEAN /\ exchange \in [Exchange -> ExchangeState]
  BY DEF Typed, ExchangeState
<1>2. b \in BOOLEAN /\ d \in BOOLEAN
  BY Zenon
<1>3. exchange' = [exchange EXCEPT ![t] = x]
  BY Zenon DEF Answer
<1>4. to \in {"over", "linking"} /\ to \in Pcs
  BY DEF Pcs, Before
<1>5. /\ At(t, to) \in ExchangeState /\ At(t, to).pc = to
      /\ At(t, to).stream = exchange[t].stream
      /\ At(t, to).disturbed = exchange[t].disturbed
  BY <1>1, <1>4, AtIs
<1>6. (d <=> exchange[t].disturbed \/ Open # {})
  BY <1>5
<1> HIDE DEF b, d, to
<1>7. /\ x \in ExchangeState /\ x.pc = to /\ x.stream = exchange[t].stream
      /\ x.same = b /\ x.disturbed = d
  BY <1>2, <1>5 DEF ExchangeState
<1> HIDE DEF x
<1>8. TurnSets(t, to, exchange[t].stream, b, d)
  BY <1>1, <1>3, <1>7 DEF TurnSets
<1> QED
  BY <1>1, <1>2, <1>4, <1>6, <1>8 DEF b, to

\* A set of numbers has a least one.
LEMMA LeastOf == ASSUME NEW T \in SUBSET Nat, T # {} PROVE \E n \in T : \A k \in T : n <= k
<1>1. IsWellFoundedOn(OpToRel(<, Nat), Nat)
  BY NatLessThanWellFounded
<1> DEFINE R == OpToRel(<, Nat)
<1>2. \A k, n \in Nat : k < n => <<k, n>> \in R
  BY DEF OpToRel
<1> HIDE DEF R
<1>3. PICK n \in T : \A k \in T : ~ (<<k, n>> \in R)
  BY <1>1, WFMin DEF R
<1>4. ASSUME NEW k \in T PROVE n <= k
  <2>1. k \in Nat /\ n \in Nat /\ ~ (<<k, n>> \in R)
    BY <1>3
  <2>2. ~ (k < n)
    BY <1>2, <2>1, Zenon
  <2> QED
    BY <2>1, <2>2
<1> QED
  BY <1>4

\* The next turn begins.
LEMMA BegunIs ==
  ASSUME ConversationAssumption,
         NEW turns \in [Exchange -> ExchangeState], NEW stream \in BOOLEAN, NEW files \in BOOLEAN,
         \E t \in Exchange : turns[t].pc = "idle"
  PROVE  LET next == Begun(turns, stream, files) IN
         \E t \in Exchange :
           /\ turns[t].pc = "idle"
           /\ next \in [Exchange -> ExchangeState]
           /\ \A u \in Exchange \ {t} : next[u] = turns[u]
           /\ next[t].pc = IF stream THEN "asking" ELSE "reading"
           /\ next[t].stream = stream /\ next[t].chosen = turns[t].chosen
           /\ next[t].same = turns[t].same /\ next[t].disturbed = turns[t].disturbed
<1> DEFINE waiting == {n \in Exchange : turns[n].pc = "idle"}
           t == CHOOSE n \in waiting : \A k \in waiting : n <= k
           pc == IF stream THEN "asking" ELSE "reading"
<1>1. waiting \in SUBSET Nat /\ waiting # {}
  BY DEF Exchange, ConversationAssumption
<1>2. t \in waiting
  <2>1. \E n \in waiting : \A k \in waiting : n <= k
    BY <1>1, LeastOf
  <2> QED
    BY <2>1, Zenon
<1> DEFINE first == [turns EXCEPT ![t].pc = pc]
           streamed == [first EXCEPT ![t].stream = stream]
           next == [streamed EXCEPT ![t].files = files]
<1>3. Begun(turns, stream, files) = next
  BY Zenon DEF Begun
<1>4. t \in Exchange /\ turns[t].pc = "idle" /\ turns[t] \in ExchangeState
  BY <1>2
<1> HIDE DEF t, waiting
<1>5. pc \in Pcs
  BY DEF Pcs, Before
<1> HIDE DEF pc
<1>6. /\ first \in [Exchange -> ExchangeState] /\ first[t].pc = pc
      /\ \A u \in Exchange \ {t} : first[u] = turns[u]
      /\ first[t].chosen = turns[t].chosen /\ first[t].same = turns[t].same
      /\ first[t].disturbed = turns[t].disturbed
  BY <1>4, <1>5 DEF ExchangeState, Pcs
<1> HIDE DEF first
<1>7. /\ streamed \in [Exchange -> ExchangeState] /\ streamed[t].pc = pc /\ streamed[t].stream = stream
      /\ \A u \in Exchange \ {t} : streamed[u] = turns[u]
      /\ streamed[t].chosen = turns[t].chosen /\ streamed[t].same = turns[t].same
      /\ streamed[t].disturbed = turns[t].disturbed
  BY <1>4, <1>6 DEF ExchangeState
<1> HIDE DEF streamed
<1>8. /\ next \in [Exchange -> ExchangeState] /\ next[t].pc = pc /\ next[t].stream = stream
      /\ \A u \in Exchange \ {t} : next[u] = turns[u]
      /\ next[t].chosen = turns[t].chosen /\ next[t].same = turns[t].same
      /\ next[t].disturbed = turns[t].disturbed
  BY <1>4, <1>7 DEF ExchangeState
<1> HIDE DEF next
<1>9. \E k \in Exchange :
        /\ turns[k].pc = "idle"
        /\ next \in [Exchange -> ExchangeState]
        /\ \A u \in Exchange \ {k} : next[u] = turns[u]
        /\ next[k].pc = pc /\ next[k].stream = stream /\ next[k].chosen = turns[k].chosen
        /\ next[k].same = turns[k].same /\ next[k].disturbed = turns[k].disturbed
  BY <1>4, <1>8
<1> QED
  BY <1>3, <1>9 DEF pc

\* The turns, those that are under way disturbed by a request.
Disturbed == [t \in Exchange |-> [exchange[t] EXCEPT !.disturbed = @ \/ t \in Active]]

LEMMA DisturbedIs ==
  ASSUME Typed
  PROVE  /\ Disturbed \in [Exchange -> ExchangeState]
         /\ \A t \in Exchange :
              /\ Disturbed[t].pc = exchange[t].pc /\ Disturbed[t].stream = exchange[t].stream
              /\ Disturbed[t].same = exchange[t].same /\ Disturbed[t].chosen = exchange[t].chosen
              /\ Disturbed[t].disturbed <=> exchange[t].disturbed \/ t \in Active
<1> DEFINE d(t) == exchange[t].disturbed \/ t \in Active
           new(t) == [exchange[t] EXCEPT !.disturbed = d(t)]
<1>1. \A t \in Exchange : d(t) \in BOOLEAN
  BY Zenon
<1>2. Disturbed = [t \in Exchange |-> new(t)]
  BY Zenon DEF Disturbed
<1>3. \A t \in Exchange : exchange[t] \in ExchangeState
  BY DEF Typed
<1>4. \A t \in Exchange : d(t) <=> exchange[t].disturbed \/ t \in Active
  BY Zenon
<1> HIDE DEF d
<1>5. \A t \in Exchange :
        /\ new(t) \in ExchangeState /\ new(t).pc = exchange[t].pc /\ new(t).stream = exchange[t].stream
        /\ new(t).same = exchange[t].same /\ new(t).chosen = exchange[t].chosen
        /\ new(t).disturbed = d(t)
  BY <1>1, <1>3 DEF ExchangeState
<1> HIDE DEF new
<1>6. Disturbed \in [Exchange -> ExchangeState] /\ \A t \in Exchange : Disturbed[t] = new(t)
  BY <1>2, <1>5
<1> QED
  BY <1>4, <1>5, <1>6

LEMMA SummarizableIs == \A c \in Summarizable : c \subseteq messages
<1> SUFFICES ASSUME NEW c \in Summarizable PROVE c \subseteq messages
  OBVIOUS
<1> DEFINE open == {m \in messages : m.summarized = 0}
<1>1. c \in {open} \union SUBSET open
  BY DEF Summarizable
<1> QED
  BY <1>1

\* One turn takes a step, the others none.
LEMMA TurnGoesOn ==
  ASSUME Typed, NEW t \in Exchange, NEW pc, NEW stream \in BOOLEAN, NEW same, NEW disturbed \in BOOLEAN,
         TurnSets(t, pc, stream, same, disturbed),
         exchange[t].disturbed => disturbed,
         same = exchange[t].same \/ Unanswered(t),
         \/ pc = "over" /\ stream
         \/ /\ exchange[t].pc = "idle"
            /\ pc = IF stream THEN "asking" ELSE "reading"
         \/ /\ stream = exchange[t].stream
            /\ \/ exchange[t].pc = "asking" /\ pc = "linking" /\ stream /\ Ask(t)
               \/ exchange[t].pc = "linking" /\ pc = "reading" /\ stream
               \/ exchange[t].pc = "reading" /\ pc \in {"thinking", "answering"}
               \/ exchange[t].pc = "thinking" /\ pc \in {"marked", "answering"}
               \/ exchange[t].pc = "marked" /\ pc = "answering"
               \/ exchange[t].pc = "answering" /\ pc = "linking" /\ ~stream
  PROVE  \A u \in Exchange : GoesOn(u)
<1>1. ASSUME NEW u \in Exchange, u # t PROVE GoesOn(u)
  <2>1. exchange'[u] = exchange[u]
    BY <1>1 DEF TurnSets
  <2> QED
    BY <2>1 DEF Typed, GoesOn, Unasked, Unsummed, Unanswered, Advances
<1>2. GoesOn(t)
  <2>1. /\ exchange'[t].pc = pc /\ exchange'[t].stream = stream
        /\ exchange'[t].same = same /\ exchange'[t].disturbed = disturbed
        /\ exchange[t].stream \in BOOLEAN
    BY DEF TurnSets, Typed, ExchangeState
  <2>2. CASE pc = "over" /\ stream
    BY <2>1, <2>2 DEF GoesOn, Unasked, Unsummed, Unanswered, Advances
  <2>3. CASE exchange[t].pc = "idle" /\ pc = IF stream THEN "asking" ELSE "reading"
    BY <2>1, <2>3 DEF GoesOn, Unasked, Unsummed, Unanswered, Advances
  <2>4. CASE /\ stream = exchange[t].stream
             /\ \/ exchange[t].pc = "asking" /\ pc = "linking" /\ stream /\ Ask(t)
                \/ exchange[t].pc = "linking" /\ pc = "reading" /\ stream
                \/ exchange[t].pc = "reading" /\ pc \in {"thinking", "answering"}
                \/ exchange[t].pc = "thinking" /\ pc \in {"marked", "answering"}
                \/ exchange[t].pc = "marked" /\ pc = "answering"
                \/ exchange[t].pc = "answering" /\ pc = "linking" /\ ~stream
    BY <2>1, <2>4 DEF GoesOn, Unasked, Unsummed, Unanswered, Advances
  <2> QED
    BY <2>2, <2>3, <2>4
<1> QED
  BY <1>1, <1>2

LEMMA StillGoesOn ==
  ASSUME Typed, exchange' = exchange PROVE \A u \in Exchange : GoesOn(u)
BY DEF Typed, GoesOn, Unasked, Unsummed, Unanswered, Advances

LEMMA SendTurn ==
  ASSUME ConversationAssumption, Typed, NEW stream \in BOOLEAN, NEW files \in BOOLEAN, Send(stream, files)
  PROVE  \E t \in Exchange :
           /\ exchange[t].pc = "idle"
           /\ TurnSets(t, IF stream THEN "asking" ELSE "reading", stream, exchange[t].same, exchange[t].disturbed)
<1>1. exchange' = Begun(exchange, stream, files) /\ \E t \in Exchange : exchange[t].pc = "idle"
  BY DEF Send, Idle
<1>2. exchange \in [Exchange -> ExchangeState]
  BY DEF Typed
<1> QED
  BY <1>1, <1>2, BegunIs DEF TurnSets

\* What a commit does to the turns.
LEMMA CommitTurns ==
  ASSUME ConversationAssumption, Typed, NEW r \in Requests, Commit(r)
  PROVE  /\ exchange' \in [Exchange -> ExchangeState]
         /\ \A t \in Exchange : exchange'[t].disturbed <=> exchange[t].disturbed \/ t \in Active
         /\ \A t \in Exchange : exchange'[t].same = exchange[t].same
         /\ \A t \in Exchange :
              \/ exchange'[t].pc = exchange[t].pc /\ exchange'[t].stream = exchange[t].stream
              \/ /\ exchange[t].pc = "idle"
                 /\ exchange'[t].pc = IF exchange'[t].stream THEN "asking" ELSE "reading"
<1>1. /\ Disturbed \in [Exchange -> ExchangeState]
      /\ \A t \in Exchange :
           /\ Disturbed[t].pc = exchange[t].pc /\ Disturbed[t].stream = exchange[t].stream
           /\ Disturbed[t].same = exchange[t].same /\ Disturbed[t].chosen = exchange[t].chosen
           /\ Disturbed[t].disturbed <=> exchange[t].disturbed \/ t \in Active
  BY DisturbedIs
<1>2. \/ exchange' = Disturbed
      \/ /\ Idle # {}
         /\ \E stream \in BOOLEAN, files \in BOOLEAN : exchange' = Begun(Disturbed, stream, files)
  BY Zenon DEF Commit, Disturbed
<1>3. CASE exchange' = Disturbed
  BY <1>1, <1>3
<1>4. ASSUME Idle # {}, NEW stream \in BOOLEAN, NEW files \in BOOLEAN,
             exchange' = Begun(Disturbed, stream, files)
      PROVE  /\ exchange' \in [Exchange -> ExchangeState]
             /\ \A t \in Exchange : exchange'[t].disturbed <=> exchange[t].disturbed \/ t \in Active
             /\ \A t \in Exchange : exchange'[t].same = exchange[t].same
             /\ \A t \in Exchange :
                  \/ exchange'[t].pc = exchange[t].pc /\ exchange'[t].stream = exchange[t].stream
                  \/ /\ exchange[t].pc = "idle"
                     /\ exchange'[t].pc = IF exchange'[t].stream THEN "asking" ELSE "reading"
  <2>1. \E t \in Exchange : Disturbed[t].pc = "idle"
    BY <1>1, <1>4 DEF Idle
  <2>2. PICK t \in Exchange :
          /\ Disturbed[t].pc = "idle"
          /\ exchange' \in [Exchange -> ExchangeState]
          /\ \A u \in Exchange \ {t} : exchange'[u] = Disturbed[u]
          /\ exchange'[t].pc = IF stream THEN "asking" ELSE "reading"
          /\ exchange'[t].stream = stream
          /\ exchange'[t].same = Disturbed[t].same /\ exchange'[t].disturbed = Disturbed[t].disturbed
    BY <1>1, <1>4, <2>1, BegunIs
  <2> HIDE DEF Disturbed
  <2>3. ASSUME NEW u \in Exchange
        PROVE  /\ exchange'[u].disturbed <=> exchange[u].disturbed \/ u \in Active
               /\ exchange'[u].same = exchange[u].same
               /\ \/ exchange'[u].pc = exchange[u].pc /\ exchange'[u].stream = exchange[u].stream
                  \/ /\ exchange[u].pc = "idle"
                     /\ exchange'[u].pc = IF exchange'[u].stream THEN "asking" ELSE "reading"
    BY <1>1, <2>2
  <2> QED
    BY <2>2, <2>3
<1> QED
  BY <1>2, <1>3, <1>4

LEMMA TurnsStep ==
  ASSUME ConversationAssumption, Typed, [ConversationNext]_conversationVars
  PROVE  exchange' \in [Exchange -> ExchangeState] /\ \A t \in Exchange : GoesOn(t)
<1> DEFINE Goal == exchange' \in [Exchange -> ExchangeState] /\ \A t \in Exchange : GoesOn(t)
<1>1. \A t \in Exchange : exchange[t] \in ExchangeState /\ exchange[t].stream \in BOOLEAN /\ exchange[t].disturbed \in BOOLEAN
  BY DEF Typed, ExchangeState
<1>2. exchange' = exchange => Goal
  BY StillGoesOn DEF Typed
<1>3. ASSUME NEW stream \in BOOLEAN, NEW files \in BOOLEAN, Send(stream, files) PROVE Goal
  BY <1>1, <1>3, SendTurn, TurnGoesOn DEF TurnSets
<1>4. ASSUME NEW t \in Exchange, NEW to \in Pcs, exchange' = [exchange EXCEPT ![t] = At(t, to)],
             \/ to = "over"
             \/ exchange[t].pc = "asking" /\ to = "linking" /\ exchange[t].stream /\ Ask(t)
             \/ exchange[t].pc = "linking" /\ to = "reading" /\ exchange[t].stream
             \/ exchange[t].pc = "reading" /\ to = "answering"
             \/ exchange[t].pc = "thinking" /\ to \in {"marked", "answering"}
             \/ exchange[t].pc = "marked" /\ to = "answering"
      PROVE  Goal
  <2>1. PICK stream \in BOOLEAN :
           /\ to = "over" => stream
           /\ to # "over" => stream = exchange[t].stream
           /\ TurnSets(t, to, stream, exchange[t].same, exchange[t].disturbed)
    BY <1>4, GoIs
  <2>2. \A u \in Exchange : GoesOn(u)
    BY <1>1, <1>4, <2>1, TurnGoesOn
  <2> QED
    BY <2>1, <2>2 DEF TurnSets
<1>5. \A pc \in {"linking", "reading", "answering", "marked", "over"} : pc \in Pcs
  BY DEF Pcs, Before
<1>6. ASSUME NEW t \in Exchange, Summarize(t) PROVE Goal
  <2>1. PICK c \in Summarizable : exchange' = [exchange EXCEPT ![t].pc = "thinking", ![t].chosen = c]
    BY <1>6 DEF Summarize
  <2>2. c \in SUBSET StoredMessage
    BY SummarizableIs DEF Typed
  <2>3. "thinking" \in Pcs
    BY DEF Pcs, Before
  <2>4. TurnSets(t, "thinking", exchange[t].stream, exchange[t].same, exchange[t].disturbed)
    BY <2>1, <2>2, <2>3 DEF TurnSets, Typed, ExchangeState, Pcs
  <2>5. exchange[t].pc = "reading"
    BY <1>6 DEF Summarize
  <2>6. \A u \in Exchange : GoesOn(u)
    BY <1>1, <2>4, <2>5, TurnGoesOn
  <2> QED
    BY <2>4, <2>6 DEF TurnSets
<1>7. ASSUME NEW t \in Exchange, Answer(t) PROVE Goal
  <2>1. PICK to \in {"over", "linking"}, stream \in BOOLEAN, same \in BOOLEAN, disturbed \in BOOLEAN :
           /\ to = IF exchange[t].stream THEN "over" ELSE "linking"
           /\ stream = exchange[t].stream
           /\ disturbed <=> exchange[t].disturbed \/ Open # {}
           /\ TurnSets(t, to, stream, same, disturbed)
    BY <1>7, AnswerIs
  <2>2. exchange[t].pc = "answering" /\ Unanswered(t)
    BY <1>7 DEF Answer, Unanswered
  <2>3. \A u \in Exchange : GoesOn(u)
    BY <1>1, <2>1, <2>2, TurnGoesOn
  <2> QED
    BY <2>1, <2>3 DEF TurnSets
<1>8. ASSUME NEW r \in Requests, Commit(r) PROVE Goal
  <2>1. /\ exchange' \in [Exchange -> ExchangeState]
        /\ \A t \in Exchange : exchange'[t].disturbed <=> exchange[t].disturbed \/ t \in Active
        /\ \A t \in Exchange : exchange'[t].same = exchange[t].same
        /\ \A t \in Exchange :
             \/ exchange'[t].pc = exchange[t].pc /\ exchange'[t].stream = exchange[t].stream
             \/ /\ exchange[t].pc = "idle"
                /\ exchange'[t].pc = IF exchange'[t].stream THEN "asking" ELSE "reading"
    BY <1>8, CommitTurns
  <2>2. ASSUME NEW t \in Exchange PROVE GoesOn(t)
    <3>1. /\ exchange'[t].disturbed <=> exchange[t].disturbed \/ t \in Active
          /\ exchange[t].pc = "asking" => exchange[t].stream
      BY <2>1 DEF Typed
    <3>2. CASE exchange'[t].pc = exchange[t].pc /\ exchange'[t].stream = exchange[t].stream
      BY <2>1, <3>1, <3>2 DEF GoesOn, Unasked, Unsummed, Unanswered, Advances
    <3>3. CASE /\ exchange[t].pc = "idle"
               /\ exchange'[t].pc = IF exchange'[t].stream THEN "asking" ELSE "reading"
      BY <2>1, <3>1, <3>3 DEF GoesOn, Unasked, Unsummed, Unanswered, Advances
    <3> QED
      BY <2>1, <3>2, <3>3
  <2> QED
    BY <2>1, <2>2
<1>9. ASSUME NEW t \in Exchange, Ask(t) PROVE Goal
  <2>1. exchange[t].pc = "asking" /\ exchange' = [exchange EXCEPT ![t] = At(t, "linking")]
    BY <1>9 DEF Ask, Go
  <2>2. exchange[t].stream
    BY <2>1 DEF Typed
  <2> QED
    BY <1>4, <1>5, <1>9, <2>1, <2>2
<1>10. ASSUME NEW t \in Exchange,
              Link(t) \/ ShortEnough(t) \/ SummaryFails(t) \/ Mark(t) \/ StoreSummary(t) \/ Stop(t)
       PROVE  Goal
  BY <1>4, <1>5, <1>10 DEF Link, ShortEnough, SummaryFails, Mark, StoreSummary, Stop, Go
<1> QED
  BY <1>2, <1>3, <1>6, <1>7, <1>8, <1>9, <1>10
     DEF ConversationNext, conversationVars, Tick, Rate, PutObject, UploadFails, Reindex, DropChunks, Index,
         IndexFails, StoreFile, Truncate, Hold, Regenerate, RefuseRegenerate, DeleteUpload, DeleteSession,
         RemoveObject, Rollback

\* What a request reads: all that comes after something it deletes, or the last
\* answer and the question before it.
UpToEnd(doomed) == \A m \in doomed, n \in messages : n.at > m.at => n \in doomed

LastTwo(doomed) ==
  \E m \in Newest(messages) : m.sender = "answer" /\ \E prev \in Newest(messages \ {m}) : doomed = {m, prev}

\* Request r starts.
Starts(r) ==
  LET q == request'[r] IN
  /\ q.pc = "held"
  /\ q.doomed \subseteq messages
  /\ UpToEnd(q.doomed) \/ LastTwo(q.doomed)
  /\ q.attached <=> Attached(q.kind, q.doomed)
  /\ UNCHANGED <<second, session, messages, rated, exchange>>
  /\ file'.row = file.row /\ file'.link = file.link /\ file'.pc = file.pc

\* It was open, and is as it was, but that it may have removed the object.
GoesAhead(r) ==
  LET q == request'[r] IN
  /\ request[r].pc \in {"held", "removed"}
  /\ q.kind = request[r].kind /\ q.doomed = request[r].doomed /\ q.attached = request[r].attached
  /\ q.pc = "removed" => request[r].pc = "removed" \/ Removes(r)

RequestGoesOn(r) ==
  request'[r].pc \notin {"held", "removed"} \/ GoesAhead(r) \/ Starts(r)

LEMMA HoldIs ==
  ASSUME Typed, NEW r \in Requests, NEW kind \in RequestKinds, NEW doomed \in SUBSET messages,
         Hold(r, kind, doomed)
  PROVE  /\ request' \in [Requests -> RequestState]
         /\ \A k \in Requests \ {r} : request'[k] = request[k]
         /\ request'[r].pc = "held" /\ request'[r].doomed = doomed /\ request'[r].kind = kind
         /\ request'[r].attached <=> Attached(kind, doomed)
<1> DEFINE b == Attached(kind, doomed)
           q == [pc |-> "held", kind |-> kind, doomed |-> doomed, attached |-> b]
<1>1. b \in BOOLEAN /\ doomed \in SUBSET StoredMessage
  BY Zenon DEF Attached, Typed
<1>2. request' = [request EXCEPT ![r] = q]
  BY Zenon DEF Hold
<1> HIDE DEF b
<1>3. q \in RequestState /\ q.pc = "held" /\ q.doomed = doomed /\ q.kind = kind /\ q.attached = b
  BY <1>1 DEF RequestState
<1> HIDE DEF q
<1>4. request' \in [Requests -> RequestState] /\ request'[r] = q /\ \A k \in Requests \ {r} : request'[k] = request[k]
  BY <1>2, <1>3 DEF Typed
<1> QED
  BY <1>3, <1>4 DEF b

\* A request that starts, the others as they were.
LEMMA HoldStarts ==
  ASSUME Typed, NEW r \in Requests, NEW kind \in RequestKinds, NEW doomed \in SUBSET messages,
         Hold(r, kind, doomed), UpToEnd(doomed) \/ LastTwo(doomed),
         UNCHANGED <<second, session, messages, rated, exchange>>,
         file'.row = file.row, file'.link = file.link, file'.pc = file.pc
  PROVE  request' \in [Requests -> RequestState] /\ \A k \in Requests : RequestGoesOn(k)
<1>1. /\ request' \in [Requests -> RequestState]
      /\ \A k \in Requests \ {r} : request'[k] = request[k]
      /\ request'[r].pc = "held" /\ request'[r].doomed = doomed /\ request'[r].kind = kind
      /\ request'[r].attached <=> Attached(kind, doomed)
  BY HoldIs
<1>2. Starts(r)
  BY <1>1, Zenon DEF Starts
<1>3. ASSUME NEW k \in Requests, k # r PROVE RequestGoesOn(k)
  BY <1>1, <1>3 DEF RequestGoesOn, GoesAhead
<1> QED
  BY <1>1, <1>2, <1>3 DEF RequestGoesOn

LEMMA RequestStill ==
  ASSUME Typed, request' = request
  PROVE  request' \in [Requests -> RequestState] /\ \A k \in Requests : RequestGoesOn(k)
BY DEF Typed, RequestGoesOn, GoesAhead

LEMMA LaterClosed ==
  ASSUME Typed, NEW m \in messages
  PROVE  /\ Later(m) \in SUBSET messages /\ UpToEnd(Later(m))
         /\ Later(m) \union {m} \in SUBSET messages /\ UpToEnd(Later(m) \union {m})
<1>1. \A n \in messages : n.at \in Nat
  BY DEF Typed, StoredMessage
<1> QED
  BY <1>1 DEF Later, UpToEnd

LEMMA RequestsStep ==
  ASSUME Typed, [ConversationNext]_conversationVars
  PROVE  request' \in [Requests -> RequestState] /\ \A k \in Requests : RequestGoesOn(k)
<1> DEFINE Goal == request' \in [Requests -> RequestState] /\ \A k \in Requests : RequestGoesOn(k)
<1>1. \A kind \in {"delete", "edit", "patch", "regenerate", "upload", "session", "purge"} : kind \in RequestKinds
  BY DEF RequestKinds
<1>2. request' = request => Goal
  BY RequestStill
<1>3. ASSUME NEW r \in Requests, NEW m \in messages, Truncate(r, m) PROVE Goal
  <2>1. UNCHANGED <<second, session, messages, rated, exchange>> /\ file' = file
    BY <1>3 DEF Truncate
  <2>2. \E kind \in RequestKinds, doomed \in SUBSET messages : Hold(r, kind, doomed) /\ UpToEnd(doomed)
    BY <1>1, <1>3, LaterClosed DEF Truncate
  <2> QED
    BY <2>1, <2>2, HoldStarts
<1>4. ASSUME NEW r \in Requests, NEW m \in messages, Regenerate(r, m) PROVE Goal
  <2>1. UNCHANGED <<second, session, messages, rated, exchange>> /\ file' = file
    BY <1>4 DEF Regenerate
  <2>2. PICK prev \in Newest(messages \ {m}) : Hold(r, "regenerate", {m, prev})
    BY <1>4 DEF Regenerate
  <2>3. {m, prev} \in SUBSET messages /\ LastTwo({m, prev})
    BY <1>4, <2>2 DEF Regenerate, Newest, LastTwo
  <2> QED
    BY <1>1, <2>1, <2>2, <2>3, HoldStarts
<1>5. ASSUME NEW r \in Requests, NEW m \in messages, RefuseRegenerate(r, m) PROVE Goal
  <2>1. request' = [request EXCEPT ![r].pc = "refused"]
    BY <1>5 DEF RefuseRegenerate
  <2>2. request' \in [Requests -> RequestState]
    BY <2>1 DEF Typed, RequestState
  <2>3. request'[r].pc = "refused" /\ \A k \in Requests \ {r} : request'[k] = request[k]
    BY <2>1 DEF Typed, RequestState
  <2> QED
    BY <2>2, <2>3 DEF RequestGoesOn, GoesAhead
<1>6. ASSUME NEW r \in Requests, DeleteUpload(r) PROVE Goal
  <2>1. /\ UNCHANGED <<second, session, messages, rated, exchange>>
        /\ file'.row = file.row /\ file'.link = file.link /\ file'.pc = file.pc
    BY <1>6 DEF DeleteUpload, Typed, FileState
  <2>2. Hold(r, "upload", {}) /\ UpToEnd({})
    BY <1>6 DEF DeleteUpload, UpToEnd
  <2> QED
    BY <1>1, <2>1, <2>2, HoldStarts
<1>7. ASSUME NEW r \in Requests, DeleteSession(r) PROVE Goal
  <2>1. UNCHANGED <<second, session, messages, rated, exchange>> /\ file' = file
    BY <1>7 DEF DeleteSession
  <2>2. \E kind \in RequestKinds, doomed \in SUBSET messages : Hold(r, kind, doomed) /\ UpToEnd(doomed)
    BY <1>1, <1>7 DEF DeleteSession, UpToEnd
  <2> QED
    BY <2>1, <2>2, HoldStarts
<1>8. ASSUME NEW r \in Requests, RemoveObject(r) PROVE Goal
  <2>1. request' = [request EXCEPT ![r].pc = "removed"] /\ request[r].pc = "held" /\ Removes(r)
    BY <1>8 DEF RemoveObject
  <2>2. request' \in [Requests -> RequestState]
    BY <2>1 DEF Typed, RequestState
  <2>3. /\ request'[r].kind = request[r].kind /\ request'[r].doomed = request[r].doomed
        /\ request'[r].attached = request[r].attached
        /\ \A k \in Requests \ {r} : request'[k] = request[k]
    BY <2>1 DEF Typed, RequestState
  <2> QED
    BY <2>1, <2>2, <2>3 DEF RequestGoesOn, GoesAhead
<1>9. ASSUME NEW r \in Requests, NEW q \in {NoRequest, [NoRequest EXCEPT !.pc = "done"]},
             request' = [request EXCEPT ![r] = q]
      PROVE  Goal
  <2>1. q \in RequestState /\ q.pc \notin {"held", "removed"}
    <3>1. {} \in SUBSET StoredMessage
      OBVIOUS
    <3>2. NoRequest \in RequestState /\ NoRequest.pc = "idle"
      BY <3>1 DEF NoRequest, RequestState, RequestKinds
    <3>3. LET x == [NoRequest EXCEPT !.pc = "done"] IN x \in RequestState /\ x.pc = "done"
      BY <3>2 DEF RequestState
    <3> QED
      BY <3>2, <3>3
  <2>2. request' \in [Requests -> RequestState] /\ request'[r] = q /\ \A k \in Requests \ {r} : request'[k] = request[k]
    BY <1>9, <2>1 DEF Typed
  <2> QED
    BY <2>1, <2>2 DEF RequestGoesOn, GoesAhead
<1>10. ASSUME NEW r \in Requests, Commit(r) \/ Rollback(r) PROVE Goal
  BY <1>9, <1>10, Zenon DEF Commit, Rollback
<1>11. ASSUME NEW t \in Exchange,
              \/ Ask(t) \/ Link(t) \/ ShortEnough(t) \/ Summarize(t) \/ SummaryFails(t) \/ Mark(t)
              \/ StoreSummary(t) \/ Answer(t) \/ Stop(t) \/ Rate(t)
       PROVE  Goal
  BY <1>2, <1>11 DEF Ask, Link, ShortEnough, Summarize, SummaryFails, Mark, StoreSummary, Answer, Stop, Rate
<1> QED
  BY <1>2, <1>3, <1>4, <1>5, <1>6, <1>7, <1>8, <1>10, <1>11
     DEF ConversationNext, conversationVars, Tick, Send, PutObject, UploadFails, Reindex, DropChunks, Index,
         IndexFails, StoreFile

\* The file has its type, and a row and chunks only once it is stored.
Filed == file.row \/ file.chunks => file.pc = "stored"

LEMMA FileStep ==
  ASSUME Typed, Filed, [ConversationNext]_conversationVars
  PROVE  file' \in FileState /\ Filed'
<1> DEFINE Goal == file' \in FileState /\ (file'.row \/ file'.chunks => file'.pc = "stored")
<1>1. file \in FileState
  BY DEF Typed
<1>2. file' = file => Goal
  BY <1>1 DEF Filed
<1>3. ASSUME NEW t \in Exchange, Link(t) PROVE Goal
  <2>1. file' = file \/ file' = [file EXCEPT !.link = t]
    BY <1>3 DEF Link
  <2> QED
    BY <1>1, <2>1 DEF FileState, Filed
<1>4. ASSUME PutObject \/ UploadFails \/ Reindex \/ DropChunks \/ Index PROVE Goal
  BY <1>1, <1>4 DEF PutObject, UploadFails, Reindex, DropChunks, Index, FileState, Filed
<1>5. ASSUME NEW text \in BOOLEAN, StoreFile(text) PROVE Goal
  BY <1>1, <1>5 DEF StoreFile, FileState, Filed
<1>6. ASSUME IndexFails PROVE Goal
  <2>1. PICK c \in BOOLEAN : file' = [file EXCEPT !.indexing = "no", !.chunks = c] /\ (c => file.chunks)
    BY <1>1, <1>6 DEF IndexFails, FileState
  <2> QED
    BY <1>1, <2>1 DEF FileState, Filed
<1>7. ASSUME NEW r \in Requests, DeleteUpload(r) PROVE Goal
  BY <1>1, <1>7 DEF DeleteUpload, FileState, Filed
<1>8. ASSUME NEW r \in Requests, RemoveObject(r) PROVE Goal
  <2>1. file' = file \/ file' = [file EXCEPT !.object = FALSE]
    BY <1>8 DEF RemoveObject
  <2> QED
    BY <1>1, <2>1 DEF FileState, Filed
<1>9. ASSUME NEW r \in Requests, Commit(r) PROVE Goal
  <2>1. file' \in {file, [file EXCEPT !.link = 0], [file EXCEPT !.row = FALSE, !.link = 0]}
    BY <1>9, Zenon DEF Commit, Released
  <2> QED
    BY <1>1, <2>1 DEF FileState, Filed
<1>10. ASSUME NEW r \in Requests, Rollback(r) PROVE Goal
  <2> DEFINE b == file.torn \/ request[r].pc = "removed"
  <2>1. file' = [file EXCEPT !.torn = b]
    BY <1>10 DEF Rollback
  <2>2. b \in BOOLEAN
    BY Zenon
  <2> HIDE DEF b
  <2> QED
    BY <1>1, <2>1, <2>2 DEF FileState, Filed
<1>11. ASSUME NEW t \in Exchange,
              \/ Ask(t) \/ ShortEnough(t) \/ Summarize(t) \/ SummaryFails(t) \/ Mark(t)
              \/ StoreSummary(t) \/ Answer(t) \/ Stop(t) \/ Rate(t)
       PROVE  Goal
  BY <1>2, <1>11 DEF Ask, ShortEnough, Summarize, SummaryFails, Mark, StoreSummary, Answer, Stop, Rate
<1>12. ASSUME NEW r \in Requests, NEW m \in messages,
              Truncate(r, m) \/ Regenerate(r, m) \/ RefuseRegenerate(r, m) \/ DeleteSession(r)
       PROVE  Goal
  BY <1>2, <1>12 DEF Truncate, Regenerate, RefuseRegenerate, DeleteSession
<1>13. ASSUME NEW r \in Requests, DeleteSession(r) PROVE Goal
  BY <1>2, <1>13 DEF DeleteSession
<1>14. Goal
  BY <1>2, <1>3, <1>4, <1>5, <1>6, <1>7, <1>8, <1>9, <1>10, <1>11, <1>12, <1>13
     DEF ConversationNext, conversationVars, Tick, Send
<1> QED
  BY <1>14 DEF Filed

\* A turn has one message of a kind, none before it has stored it, and none that is of
\* a later second than now.
Single == \A m, n \in messages : m.turn = n.turn /\ m.sender = n.sender => m = n

Stored(m) ==
  /\ m.sender = "user" => ~Unasked(m.turn)
  /\ m.sender = "summary" => ~Unsummed(m.turn)
  /\ m.sender = "answer" => ~Unanswered(m.turn)

Known == \A m \in messages : Stored(m) /\ m.at <= second

\* What a turn stores in a step.
Fresh(m) ==
  /\ m.sender = "user" => Unasked(m.turn)
  /\ m.sender = "summary" => Unsummed(m.turn)
  /\ m.sender = "answer" => Unanswered(m.turn)

Adds(new) ==
  /\ messages' = messages \union new
  /\ new \subseteq StoredMessage /\ second' = second /\ session
  /\ \A m \in new : m.at = second /\ m.summarized = 0 /\ Fresh(m) /\ Stored(m)'
  /\ \A m, n \in new : m.turn = n.turn /\ m.sender = n.sender => m = n

\* Messages are marked as summarized.
SumsUp(t, chosen) ==
  /\ Mark(t) /\ chosen = exchange[t].chosen
  /\ chosen \subseteq messages
  /\ messages' = (messages \ chosen) \union {[m EXCEPT !.summarized = t] : m \in chosen}
  /\ second' = second

LEMMA NewIs ==
  ASSUME Typed, NEW t \in Exchange, NEW sender \in Senders
  PROVE  /\ New(t, sender) \in StoredMessage /\ New(t, sender).turn = t
         /\ New(t, sender).sender = sender /\ New(t, sender).at = second
         /\ New(t, sender).summarized = 0
BY DEF Typed, New, StoredMessage

LEMMA MessagesStep ==
  ASSUME ConversationAssumption, Typed, [ConversationNext]_conversationVars
  PROVE  \/ messages' = messages
         \/ \E new : Adds(new)
         \/ \E t \in Exchange : \E chosen : SumsUp(t, chosen)
         \/ \E r \in Requests : Commit(r)
<1> DEFINE Goal == \/ messages' = messages
                   \/ \E new : Adds(new)
                   \/ \E t \in Exchange : \E chosen : SumsUp(t, chosen)
                   \/ \E r \in Requests : Commit(r)
<1>1. messages' = messages => Goal
  OBVIOUS
<1>2. Senders = {"user", "summary", "answer"}
  BY DEF Senders
<1>3. \A t \in Exchange : exchange[t] \in ExchangeState /\ exchange[t].stream \in BOOLEAN
  BY DEF Typed, ExchangeState
<1>4. ASSUME NEW t \in Exchange, Ask(t) PROVE Goal
  <2>1. /\ exchange[t].pc = "asking" /\ exchange' = [exchange EXCEPT ![t] = At(t, "linking")]
        /\ messages' = messages \union {New(t, "user")} /\ second' = second /\ session
    BY <1>4 DEF Ask, Go
  <2>2. "linking" \in Pcs
    BY DEF Pcs, Before
  <2>3. exchange'[t].pc = "linking" /\ exchange'[t].stream
    BY <2>1, <2>2, GoIs DEF TurnSets, Typed
  <2>4. Unasked(t) /\ ~Unasked(t)'
    BY <2>1, <2>3 DEF Unasked
  <2>5. Adds({New(t, "user")})
    BY <1>2, <2>1, <2>4, NewIs DEF Adds, Fresh, Stored
  <2> QED
    BY <2>5
<1>5. ASSUME NEW t \in Exchange, StoreSummary(t) PROVE Goal
  <2>1. /\ exchange[t].pc = "marked" /\ exchange' = [exchange EXCEPT ![t] = At(t, "answering")]
        /\ messages' = messages \union {New(t, "summary")} /\ second' = second /\ session
    BY <1>5 DEF StoreSummary, Go
  <2>2. "answering" \in Pcs
    BY DEF Pcs, Before
  <2>3. exchange'[t].pc = "answering"
    BY <2>1, <2>2, GoIs DEF TurnSets
  <2>4. Unsummed(t) /\ ~Unsummed(t)'
    BY <2>1, <2>3 DEF Unsummed
  <2>5. Adds({New(t, "summary")})
    BY <1>2, <2>1, <2>4, NewIs DEF Adds, Fresh, Stored
  <2> QED
    BY <2>5
<1>6. ASSUME NEW t \in Exchange, Answer(t) PROVE Goal
  <2> DEFINE new == {New(t, "answer")} \union IF exchange[t].stream THEN {} ELSE {New(t, "user")}
  <2>1. exchange[t].pc = "answering" /\ messages' = messages \union new /\ second' = second /\ session
    BY <1>6 DEF Answer
  <2>2. /\ exchange'[t].pc = IF exchange[t].stream THEN "over" ELSE "linking"
        /\ exchange'[t].stream = exchange[t].stream
    BY <1>6, AnswerIs DEF TurnSets
  <2>3. /\ Unanswered(t) /\ ~Unanswered(t)'
        /\ ~exchange[t].stream => Unasked(t) /\ ~Unasked(t)'
    BY <1>3, <2>1, <2>2 DEF Unanswered, Unasked
  <2>4. \A m \in new : /\ m \in StoredMessage /\ m.turn = t /\ m.at = second /\ m.summarized = 0
                       /\ \/ m.sender = "answer" /\ m = New(t, "answer")
                          \/ m.sender = "user" /\ ~exchange[t].stream /\ m = New(t, "user")
    BY <1>2, NewIs
  <2> HIDE DEF new
  <2>5. \A m \in new : Fresh(m) /\ Stored(m)'
    BY <2>3, <2>4 DEF Fresh, Stored
  <2>6. Adds(new)
    BY <2>1, <2>4, <2>5 DEF Adds
  <2> QED
    BY <2>6
<1>7. ASSUME NEW t \in Exchange, Mark(t) PROVE Goal
  <2>1. SumsUp(t, exchange[t].chosen)
    BY <1>7 DEF Mark, Unchanged, SumsUp
  <2> QED
    BY <2>1
<1>8. ASSUME NEW t \in Exchange,
             Link(t) \/ ShortEnough(t) \/ Summarize(t) \/ SummaryFails(t) \/ Stop(t) \/ Rate(t)
      PROVE  messages' = messages
  BY <1>8 DEF Link, ShortEnough, Summarize, SummaryFails, Stop, Rate
<1>9. ASSUME NEW r \in Requests,
             \/ \E m \in messages : Truncate(r, m) \/ Regenerate(r, m) \/ RefuseRegenerate(r, m)
             \/ DeleteUpload(r) \/ DeleteSession(r) \/ RemoveObject(r) \/ Rollback(r)
      PROVE  messages' = messages
  BY <1>9 DEF Truncate, Regenerate, RefuseRegenerate, DeleteUpload, DeleteSession, RemoveObject, Rollback
<1>10. \/ messages' = messages
       \/ \E t \in Exchange : Ask(t) \/ StoreSummary(t) \/ Answer(t) \/ Mark(t)
       \/ \E r \in Requests : Commit(r)
  BY <1>8, <1>9
     DEF ConversationNext, conversationVars, Tick, Send, PutObject, UploadFails, Reindex, DropChunks, Index,
         IndexFails, StoreFile
<1> QED
  BY <1>4, <1>5, <1>6, <1>7, <1>10

\* One message, before and after a step.
Kin(n, o) == n.turn = o.turn /\ n.sender = o.sender /\ n.at = o.at

LEMMA SumsUpIs ==
  ASSUME Typed, NEW t \in Exchange, NEW chosen, SumsUp(t, chosen)
  PROVE  /\ messages' \subseteq StoredMessage
         /\ \A n \in messages' : \E o \in messages : Kin(n, o)
         /\ \A o \in messages : \E n \in messages' : Kin(n, o)
         /\ Single => Single'
<1> DEFINE Changed(m) == [m EXCEPT !.summarized = t]
<1>1. \A m \in messages : Changed(m) \in StoredMessage /\ Kin(Changed(m), m)
  BY DEF Typed, StoredMessage, Kin
<1>2. chosen \subseteq messages /\ messages' = (messages \ chosen) \union {Changed(m) : m \in chosen}
  BY DEF SumsUp
<1>3. \A o \in messages : Kin(o, o)
  BY DEF Kin
<1>4. \A n \in messages' : \E o \in messages :
        Kin(n, o) /\ n = IF o \in chosen THEN Changed(o) ELSE o
  BY <1>1, <1>2, <1>3
<1>5. \A n \in messages' : n \in StoredMessage
  BY <1>1, <1>2 DEF Typed
<1>6. ASSUME NEW o \in messages PROVE \E n \in messages' : Kin(n, o)
  <2>1. CASE o \in chosen
    BY <1>1, <1>2, <2>1
  <2>2. CASE o \notin chosen
    BY <1>2, <1>3, <2>2
  <2> QED
    BY <2>1, <2>2
<1> HIDE DEF Changed
<1>7. ASSUME Single, NEW m \in messages', NEW n \in messages', m.turn = n.turn, m.sender = n.sender
      PROVE  m = n
  <2>1. PICK o \in messages : Kin(m, o) /\ m = IF o \in chosen THEN Changed(o) ELSE o
    BY <1>4
  <2>2. PICK p \in messages : Kin(n, p) /\ n = IF p \in chosen THEN Changed(p) ELSE p
    BY <1>4
  <2>3. o = p
    BY <1>7, <2>1, <2>2 DEF Kin, Single
  <2> QED
    BY <2>1, <2>2, <2>3
<1>8. Single => Single'
  BY <1>7 DEF Single
<1> QED
  BY <1>4, <1>5, <1>6, <1>8

LEMMA OldOrNew ==
  ASSUME ConversationAssumption, Typed, [ConversationNext]_conversationVars
  PROVE  /\ messages' \subseteq StoredMessage
         /\ \A n \in messages' :
              \/ \E o \in messages : Kin(n, o)
              \/ \E new : Adds(new) /\ n \in new
         /\ \A o \in messages :
              \/ \E n \in messages' : Kin(n, o)
              \/ \E r \in Requests : Commit(r) /\ o \in request[r].doomed
<1> DEFINE Goal == /\ messages' \subseteq StoredMessage
                   /\ \A n \in messages' :
                        \/ \E o \in messages : Kin(n, o)
                        \/ \E new : Adds(new) /\ n \in new
                   /\ \A o \in messages :
                        \/ \E n \in messages' : Kin(n, o)
                        \/ \E r \in Requests : Commit(r) /\ o \in request[r].doomed
<1>1. messages \subseteq StoredMessage /\ \A o \in messages : Kin(o, o)
  BY DEF Typed, Kin
<1>2. messages' = messages => Goal
  BY <1>1
<1>3. ASSUME NEW new, Adds(new) PROVE Goal
  <2>1. messages' = messages \union new /\ new \subseteq StoredMessage
    BY <1>3 DEF Adds
  <2> QED
    BY <1>1, <1>3, <2>1
<1>4. ASSUME NEW t \in Exchange, NEW chosen, SumsUp(t, chosen) PROVE Goal
  BY <1>4, SumsUpIs
<1>5. ASSUME NEW r \in Requests, Commit(r) PROVE Goal
  <2>1. messages' = messages \ request[r].doomed
    BY <1>5 DEF Commit
  <2> QED
    BY <1>1, <1>5, <2>1
<1> QED
  BY <1>2, <1>3, <1>4, <1>5, MessagesStep

LEMMA SecondStep ==
  ASSUME Typed, [ConversationNext]_conversationVars
  PROVE  second' \in 0 .. MaxSecond /\ second <= second'
<1>1. second \in 0 .. MaxSecond
  BY DEF Typed
<1>2. Tick => second < MaxSecond /\ second' = second + 1
  BY DEF Tick
<1>3. Tick \/ second' = second
  BY DEF ConversationNext, conversationVars, Send, Ask, Link, ShortEnough, Summarize, SummaryFails, Mark,
         StoreSummary, Answer, Stop, Rate, PutObject, UploadFails, Reindex, DropChunks, Index, IndexFails,
         StoreFile, Truncate, Regenerate, RefuseRegenerate, DeleteUpload, DeleteSession, RemoveObject,
         Commit, Rollback
<1> QED
  BY <1>1, <1>2, <1>3, ConversationAssumption DEF ConversationAssumption

LEMMA StoredStays ==
  ASSUME NEW n, NEW o, Kin(n, o), Stored(o), GoesOn(o.turn)
  PROVE  Stored(n)'
<1>1. n.turn = o.turn /\ n.sender = o.sender
  BY DEF Kin
<1> QED
  BY <1>1 DEF Stored, GoesOn

LEMMA KnownStep ==
  ASSUME ConversationAssumption, Typed, Single, Known, [ConversationNext]_conversationVars
  PROVE  Known' /\ Single'
<1>1. second \in Nat /\ second' \in Nat /\ second <= second'
  BY SecondStep DEF Typed
<1>2. \A t \in Exchange : GoesOn(t)
  BY TurnsStep
<1>3. \A m \in messages : m \in StoredMessage /\ m.at \in Nat /\ m.turn \in Exchange
  BY DEF Typed, StoredMessage
<1>4. ASSUME NEW n \in messages' PROVE Stored(n)' /\ n.at <= second'
  <2>1. CASE \E o \in messages : Kin(n, o)
    <3>1. PICK o \in messages : Kin(n, o)
      BY <2>1
    <3>2. o.at <= second /\ Stored(o) /\ GoesOn(o.turn)
      BY <1>2, <1>3 DEF Known
    <3>3. n.at = o.at
      BY <3>1 DEF Kin
    <3> QED
      BY <1>1, <1>3, <3>1, <3>2, <3>3, StoredStays
  <2>2. CASE \E new : Adds(new) /\ n \in new
    <3>1. PICK new : Adds(new) /\ n \in new
      BY <2>2
    <3>2. n.at = second /\ second' = second /\ Stored(n)'
      BY <3>1 DEF Adds
    <3> QED
      BY <1>1, <3>2
  <2> QED
    BY <2>1, <2>2, OldOrNew
<1>5. Known'
  BY <1>4 DEF Known
<1>6. CASE \E new : Adds(new)
  <2>1. PICK new : Adds(new)
    BY <1>6
  <2>2. /\ messages' = messages \union new
        /\ \A m \in new : Fresh(m)
        /\ \A m, n \in new : m.turn = n.turn /\ m.sender = n.sender => m = n
    BY <2>1 DEF Adds
  <2>3. ASSUME NEW m \in messages, NEW n \in new, m.turn = n.turn, m.sender = n.sender PROVE FALSE
    <3>1. Stored(m) /\ Fresh(n) /\ m.sender \in Senders
      BY <1>3, <2>2 DEF Known, StoredMessage
    <3> QED
      BY <2>3, <3>1 DEF Stored, Fresh, Senders
  <2> QED
    BY <1>5, <2>2, <2>3 DEF Single
<1>7. CASE \E r \in Requests : Commit(r)
  <2>1. messages' \subseteq messages
    BY <1>7 DEF Commit
  <2> QED
    BY <1>5, <2>1 DEF Single
<1>8. CASE \E t \in Exchange : \E chosen : SumsUp(t, chosen)
  BY <1>5, <1>8, SumsUpIs
<1>9. CASE messages' = messages
  BY <1>5, <1>9 DEF Single
<1> QED
  BY <1>5, <1>6, <1>7, <1>8, <1>9, MessagesStep

\* Only an answer that is there has feedback.
Rated == \A t \in rated : \E m \in messages : m.turn = t /\ m.sender = "answer"

\* Nothing is in a session that is gone.
Gone == ~session => messages = {} /\ ~file.row

LEMMA RatedStep ==
  ASSUME ConversationAssumption, Typed, Rated, [ConversationNext]_conversationVars
  PROVE  Rated'
<1>1. \A o \in messages :
        (\E n \in messages' : Kin(n, o)) \/ \E r \in Requests : Commit(r) /\ o \in request[r].doomed
  BY OldOrNew
<1>2. CASE rated' = rated /\ \A r \in Requests : ~Commit(r)
  BY <1>1, <1>2 DEF Rated, Kin
<1>3. ASSUME NEW t \in Exchange, Rate(t) PROVE Rated'
  <2>1. rated' = rated \union {t} /\ messages' = messages /\ \E m \in messages : m.turn = t /\ m.sender = "answer"
    BY <1>3 DEF Rate, Answers
  <2> QED
    BY <2>1 DEF Rated
<1>4. ASSUME NEW r \in Requests, Commit(r) PROVE Rated'
  <2>1. /\ messages' = messages \ request[r].doomed
        /\ rated' = rated \ {m.turn : m \in {n \in request[r].doomed : n.sender = "answer"}}
    BY <1>4 DEF Commit
  <2>2. ASSUME NEW t \in rated' PROVE \E m \in messages' : m.turn = t /\ m.sender = "answer"
    <3>1. t \in rated /\ \A n \in request[r].doomed : n.sender = "answer" => n.turn # t
      BY <2>1
    <3>2. PICK m \in messages : m.turn = t /\ m.sender = "answer"
      BY <3>1 DEF Rated
    <3> QED
      BY <2>1, <3>1, <3>2
  <2> QED
    BY <2>2 DEF Rated
<1>5. \/ rated' = rated
      \/ \E t \in Exchange : Rate(t)
      \/ \E r \in Requests : Commit(r)
  BY DEF ConversationNext, conversationVars, Tick, Send, Ask, Link, ShortEnough, Summarize, SummaryFails, Mark,
         StoreSummary, Answer, Stop, PutObject, UploadFails, Reindex, DropChunks, Index, IndexFails,
         StoreFile, Truncate, Regenerate, RefuseRegenerate, DeleteUpload, DeleteSession, RemoveObject, Rollback
<1> QED
  BY <1>2, <1>3, <1>4, <1>5

\* Only in a session that is there does a file come to have a row.
LEMMA RowStep ==
  ASSUME Typed, [ConversationNext]_conversationVars
  PROVE  /\ file'.row => file.row \/ session
         /\ session' = session \/ \E r \in Requests : Commit(r)
<1>1. file \in FileState
  BY DEF Typed
<1>2. ASSUME NEW t \in Exchange, Link(t) PROVE file'.row = file.row
  <2>1. file' = file \/ file' = [file EXCEPT !.link = t]
    BY <1>2 DEF Link
  <2> QED
    BY <1>1, <2>1 DEF FileState
<1>3. ASSUME PutObject \/ UploadFails \/ Reindex \/ DropChunks \/ Index \/ IndexFails PROVE file'.row = file.row
  BY <1>1, <1>3 DEF PutObject, UploadFails, Reindex, DropChunks, Index, IndexFails, FileState
<1>4. ASSUME NEW text \in BOOLEAN, StoreFile(text) PROVE session
  BY <1>4 DEF StoreFile
<1>5. ASSUME NEW r \in Requests, DeleteUpload(r) \/ RemoveObject(r) PROVE file'.row = file.row
  BY <1>1, <1>5 DEF DeleteUpload, RemoveObject, FileState
<1>6. ASSUME NEW r \in Requests, Rollback(r) PROVE file'.row = file.row
  BY <1>1, <1>6 DEF Rollback, FileState
<1>7. ASSUME NEW r \in Requests, Commit(r) PROVE file'.row => file.row
  <2>1. file' \in {file, [file EXCEPT !.link = 0], [file EXCEPT !.row = FALSE, !.link = 0]}
    BY <1>7, Zenon DEF Commit, Released
  <2> QED
    BY <1>1, <2>1 DEF FileState
<1>8. session' = session \/ \E r \in Requests : Commit(r)
  BY DEF ConversationNext, conversationVars, Tick, Send, Ask, Link, ShortEnough, Summarize, SummaryFails, Mark,
         StoreSummary, Answer, Stop, Rate, PutObject, UploadFails, Reindex, DropChunks, Index, IndexFails,
         StoreFile, Truncate, Regenerate, RefuseRegenerate, DeleteUpload, DeleteSession, RemoveObject, Rollback
<1>9. \/ file' = file
      \/ \E t \in Exchange : Link(t)
      \/ PutObject \/ UploadFails \/ Reindex \/ DropChunks \/ Index \/ IndexFails
      \/ \E text \in BOOLEAN : StoreFile(text)
      \/ \E r \in Requests : DeleteUpload(r) \/ RemoveObject(r) \/ Rollback(r) \/ Commit(r)
  BY DEF ConversationNext, conversationVars, Tick, Send, Ask, ShortEnough, Summarize, SummaryFails, Mark,
         StoreSummary, Answer, Stop, Rate, Truncate, Regenerate, RefuseRegenerate, DeleteSession
<1> QED
  BY <1>2, <1>3, <1>4, <1>5, <1>6, <1>7, <1>8, <1>9

LEMMA GoneStep ==
  ASSUME ConversationAssumption, Typed, Gone, [ConversationNext]_conversationVars
  PROVE  Gone'
<1>1. CASE ~session
  <2>1. messages = {} /\ ~file.row
    BY <1>1 DEF Gone
  <2>2. \A n \in messages' : \E new : Adds(new)
    BY <2>1, OldOrNew
  <2>3. messages' = {}
    BY <1>1, <2>2 DEF Adds
  <2> QED
    BY <1>1, <2>1, <2>3, RowStep DEF Gone
<1>2. ASSUME session, NEW r \in Requests, Commit(r), ~session' PROVE messages' = {} /\ ~file'.row
  <2>1. /\ Committable(r) /\ messages' = messages \ request[r].doomed
        /\ session' = (session /\ request[r].kind \notin {"session", "purge"})
        /\ file' = Released(r)
    BY <1>2 DEF Commit
  <2>2. request[r].kind \in {"session", "purge"}
    BY <1>2, <2>1
  <2>3. messages = request[r].doomed
    BY <2>1, <2>2 DEF Committable
  <2>4. CASE file.row
    <3>1. Attached(request[r].kind, request[r].doomed) /\ request[r].kind # "regenerate"
      BY <2>2, <2>4 DEF Attached
    <3>2. file' = [file EXCEPT !.row = FALSE, !.link = 0]
      BY <2>1, <3>1 DEF Released
    <3> QED
      BY <2>1, <2>3, <3>2 DEF Typed, FileState
  <2>5. CASE ~file.row
    <3>1. file' = file
      BY <2>1, <2>5 DEF Released, Attached
    <3> QED
      BY <2>1, <2>3, <2>5, <3>1
  <2> QED
    BY <2>4, <2>5
<1>3. CASE session
  BY <1>2, <1>3, RowStep DEF Gone
<1> QED
  BY <1>1, <1>3

ConversationIInv == Typed /\ Filed /\ Single /\ Known /\ Rated /\ Gone

LEMMA ConversationStarts ==
  ASSUME ConversationAssumption, ConversationInit PROVE ConversationIInv
<1>1. second \in 0 .. MaxSecond /\ session = TRUE /\ messages = {} /\ rated = {}
  BY DEF ConversationInit
<1>2. file \in FileState /\ ~file.row /\ ~file.chunks
  <2>1. PICK pc \in {"none", "refused"} :
          file = [pc |-> pc, object |-> FALSE, row |-> FALSE, link |-> 0,
                  indexing |-> "no", chunks |-> FALSE, torn |-> FALSE]
    BY DEF ConversationInit
  <2> QED
    BY <2>1 DEF FileState
<1>3. exchange \in [Exchange -> ExchangeState] /\ \A t \in Exchange : exchange[t].pc = "idle"
  <2> DEFINE x == [pc |-> "idle", stream |-> TRUE, files |-> FALSE, chosen |-> {}, same |-> FALSE, disturbed |-> FALSE]
  <2>1. {} \in SUBSET StoredMessage
    OBVIOUS
  <2>2. x \in ExchangeState /\ x.pc = "idle"
    BY <2>1 DEF ExchangeState, Before
  <2>3. exchange = [t \in Exchange |-> x]
    BY DEF ConversationInit
  <2> HIDE DEF x
  <2> QED
    BY <2>2, <2>3
<1>4. request \in [Requests -> RequestState]
  <2>1. {} \in SUBSET StoredMessage
    OBVIOUS
  <2>2. NoRequest \in RequestState
    BY <2>1 DEF NoRequest, RequestState, RequestKinds
  <2> QED
    BY <2>2 DEF ConversationInit
<1>5. Typed
  BY <1>1, <1>2, <1>3, <1>4 DEF Typed
<1> QED
  BY <1>1, <1>2, <1>5 DEF ConversationIInv, Filed, Single, Known, Rated, Gone

LEMMA ConversationTypeStep ==
  ASSUME ConversationAssumption, ConversationIInv, [ConversationNext]_conversationVars
  PROVE  ConversationIInv'
<1>1. Typed /\ Filed /\ Single /\ Known /\ Rated /\ Gone
  BY DEF ConversationIInv
<1>2. Filed' /\ Single' /\ Known' /\ Rated' /\ Gone'
  BY <1>1, FileStep, KnownStep, RatedStep, GoneStep
<1>3. session' \in BOOLEAN
  <2>1. \A r \in Requests : Commit(r) => session' \in BOOLEAN
    BY Zenon DEF Commit
  <2> QED
    BY <1>1, <2>1, RowStep DEF Typed
<1>4. \A t \in Exchange : exchange'[t].pc = "asking" => exchange'[t].stream
  BY <1>1, TurnsStep DEF GoesOn
<1>5. Typed'
  BY <1>1, <1>3, <1>4, SecondStep, OldOrNew, FileStep, TurnsStep, RequestsStep DEF Typed, Exchange, ExchangeState, RequestState, FileState, StoredMessage
<1> QED
  BY <1>2, <1>5 DEF ConversationIInv

LEMMA ConversationIs ==
  ASSUME ConversationIInv PROVE ConversationTypeOK
<1>1. \A t \in rated : t \in {m.turn : m \in {n \in messages : n.sender = "answer"}}
  BY DEF ConversationIInv, Rated
<1> QED
  BY <1>1 DEF ConversationIInv, Typed, Filed, Single, Gone, ConversationTypeOK

LEMMA ConversationInvariant == ConversationSpec => []ConversationIInv
<1>1. ConversationInit => ConversationIInv
  BY ConversationStarts, ConversationAssumption
<1>2. ConversationIInv /\ [ConversationNext]_conversationVars => ConversationIInv'
  BY ConversationTypeStep, ConversationAssumption
<1> QED
  BY <1>1, <1>2, PTL DEF ConversationSpec

\* Everything in a permanent session has its type whatever turns and requests do in it:
\* a turn has at most one message of a kind, feedback is on answers that are there, a
\* file is listed or found only once it is stored, and a deleted session keeps nothing.
THEOREM ConversationTypeCorrect == ConversationSpec => []ConversationTypeOK
<1>1. ConversationIInv => ConversationTypeOK
  BY ConversationIs
<1> QED
  BY <1>1, ConversationInvariant, PTL

------------------------------------------------------------------------------
(* An answer has its question.                                              *)

\* A question comes before its answer; of one second they are only when that is known.
Ordered ==
  \A q, a \in messages : q.turn = a.turn /\ q.sender = "user" /\ a.sender = "answer" =>
    q.at <= a.at /\ (q.at = a.at => exchange[a.turn].same)

\* A stream that is to answer has its question, or a request took it.
Asked == \A t \in Exchange : Advances(t) => Questions(t) # {} \/ exchange[t].disturbed

\* A request that takes a question takes its answer along, unless that has come since.
Whole ==
  \A r \in Open : \A q \in request[r].doomed, a \in messages :
    q.sender = "user" /\ a.sender = "answer" /\ a.turn = q.turn =>
      \/ \E n \in request[r].doomed : n.turn = q.turn /\ n.sender = "answer"
      \/ exchange[a.turn].disturbed \/ exchange[a.turn].same

LEMMA Answering ==
  ASSUME ConversationAssumption, Typed, [ConversationNext]_conversationVars,
         NEW a \in messages', a.sender = "answer", \A o \in messages : ~Kin(a, o)
  PROVE  /\ a.turn \in Exchange /\ Answer(a.turn) /\ a.at = second
<1> DEFINE Goal == a.turn \in Exchange /\ Answer(a.turn) /\ a.at = second
<1>1. a \notin messages
  BY DEF Kin
<1>2. ASSUME NEW t \in Exchange, Ask(t) PROVE Goal
  <2>1. a = New(t, "user")
    BY <1>1, <1>2 DEF Ask
  <2> QED
    BY <2>1 DEF New
<1>3. ASSUME NEW t \in Exchange, StoreSummary(t) PROVE Goal
  <2>1. a = New(t, "summary")
    BY <1>1, <1>3 DEF StoreSummary
  <2> QED
    BY <2>1 DEF New
<1>4. ASSUME NEW t \in Exchange, Answer(t) PROVE Goal
  <2>1. a = New(t, "answer") \/ a = New(t, "user")
    BY <1>1, <1>4 DEF Answer
  <2>2. a.turn = t /\ a.at = second
    BY <2>1 DEF New
  <2> QED
    BY <1>4, <2>2
<1>5. ASSUME NEW t \in Exchange, Mark(t) PROVE FALSE
  <2>1. SumsUp(t, exchange[t].chosen)
    BY <1>5 DEF Mark, Unchanged, SumsUp
  <2> QED
    BY <2>1, SumsUpIs
<1>6. ASSUME NEW r \in Requests, Commit(r) PROVE FALSE
  BY <1>1, <1>6 DEF Commit
<1> QED
  BY <1>1, <1>2, <1>3, <1>4, <1>5, <1>6
     DEF ConversationNext, conversationVars, Tick, Send, Link, ShortEnough, Summarize, SummaryFails,
         Stop, Rate, PutObject, UploadFails, Reindex, DropChunks, Index, IndexFails,
         StoreFile, Truncate, Regenerate, RefuseRegenerate, DeleteUpload, DeleteSession, RemoveObject, Rollback

\* What an answer changes.
LEMMA AnswerChanges ==
  ASSUME Typed, NEW t \in Exchange, Answer(t)
  PROVE  /\ exchange[t].pc = "answering" /\ second' = second
         /\ ~exchange[t].stream => exchange'[t].same
         /\ (\E q \in Questions(t) : q.at = second) => exchange'[t].same
         /\ Open # {} => exchange'[t].disturbed
         /\ \A o \in messages : o \in messages'
<1>1. /\ exchange'[t].same <=> ~exchange[t].stream \/ \E q \in Questions(t) : q.at = second
      /\ exchange'[t].disturbed <=> exchange[t].disturbed \/ Open # {}
  BY AnswerIs DEF TurnSets
<1>2. exchange[t].pc = "answering" /\ second' = second /\ \A o \in messages : o \in messages'
  BY DEF Answer
<1> QED
  BY <1>1, <1>2

LEMMA OrderedStep ==
  ASSUME ConversationAssumption, ConversationIInv, Ordered, [ConversationNext]_conversationVars
  PROVE  Ordered'
<1> SUFFICES ASSUME NEW q \in messages', NEW a \in messages',
                    q.turn = a.turn, q.sender = "user", a.sender = "answer"
             PROVE  q.at <= a.at /\ (q.at = a.at => exchange'[a.turn].same)
  BY DEF Ordered
<1>1. Typed /\ Single /\ Known
  BY DEF ConversationIInv
<1>2. second \in Nat /\ \A t \in Exchange : GoesOn(t)
  BY <1>1, TurnsStep DEF Typed
<1>3. \A m \in messages : m \in StoredMessage /\ m.at \in Nat /\ m.turn \in Exchange /\ Stored(m) /\ m.at <= second
  BY <1>1 DEF Typed, StoredMessage, Known
<1>4. CASE \E o \in messages : Kin(a, o)
  <2>1. PICK o \in messages : Kin(a, o)
    BY <1>4
  <2>2. o.turn = a.turn /\ o.sender = "answer" /\ o.at = a.at
    BY <2>1 DEF Kin
  <2>3. a.turn \in Exchange /\ ~Unanswered(a.turn)
    BY <1>3, <2>2 DEF Stored
  <2>4. exchange'[a.turn].same = exchange[a.turn].same
    BY <1>2, <2>3 DEF GoesOn
  <2>5. CASE \E p \in messages : Kin(q, p)
    <3>1. PICK p \in messages : p.turn = a.turn /\ p.sender = "user" /\ p.at = q.at
      BY <2>5 DEF Kin
    <3>2. p.at <= o.at /\ (p.at = o.at => exchange[o.turn].same)
      BY <2>2, <3>1 DEF Ordered
    <3> QED
      BY <2>2, <2>4, <3>1, <3>2
  <2>6. CASE \A p \in messages : ~Kin(q, p)
    <3>1. PICK new : Adds(new) /\ q \in new
      BY <1>1, <2>6, OldOrNew
    <3>2. Fresh(q)
      BY <3>1 DEF Adds
    <3>3. Unasked(a.turn)
      BY <3>2 DEF Fresh
    <3> QED
      BY <2>3, <3>3 DEF Unasked, Unanswered
  <2> QED
    BY <2>5, <2>6
<1>5. CASE \A o \in messages : ~Kin(a, o)
  <2>1. a.turn \in Exchange /\ Answer(a.turn) /\ a.at = second
    BY <1>1, <1>5, Answering
  <2>2. /\ exchange[a.turn].pc = "answering" /\ second' = second
        /\ ~exchange[a.turn].stream => exchange'[a.turn].same
        /\ (\E p \in Questions(a.turn) : p.at = second) => exchange'[a.turn].same
    BY <1>1, <2>1, AnswerChanges
  <2>3. CASE \E p \in messages : Kin(q, p)
    <3>1. PICK p \in messages : p.turn = a.turn /\ p.sender = "user" /\ p.at = q.at
      BY <2>3 DEF Kin
    <3>2. p.at <= second /\ p \in Questions(a.turn)
      BY <1>3, <3>1 DEF Questions
    <3> QED
      BY <2>1, <2>2, <3>1, <3>2
  <2>4. CASE \A p \in messages : ~Kin(q, p)
    <3>1. PICK new : Adds(new) /\ q \in new
      BY <1>1, <2>4, OldOrNew
    <3>2. Fresh(q) /\ q.at = second
      BY <3>1 DEF Adds
    <3>3. Unasked(a.turn)
      BY <3>2 DEF Fresh
    <3>4. ~exchange[a.turn].stream
      BY <2>2, <3>3 DEF Unasked
    <3> QED
      BY <1>2, <2>1, <2>2, <3>2, <3>4
  <2> QED
    BY <2>3, <2>4
<1> QED
  BY <1>4, <1>5

LEMMA AskedStep ==
  ASSUME ConversationAssumption, ConversationIInv, Asked, [ConversationNext]_conversationVars
  PROVE  Asked'
<1> SUFFICES ASSUME NEW t \in Exchange, Advances(t)' PROVE Questions(t)' # {} \/ exchange'[t].disturbed
  BY DEF Asked
<1>1. Typed /\ GoesOn(t)
  BY TurnsStep DEF ConversationIInv
<1>2. CASE Ask(t)
  <2>1. New(t, "user") \in messages' /\ New(t, "user").turn = t /\ New(t, "user").sender = "user"
    BY <1>2 DEF Ask, New
  <2> QED
    BY <2>1 DEF Questions
<1>3. CASE Advances(t)
  <2>1. CASE exchange[t].disturbed
    BY <1>1, <2>1 DEF GoesOn
  <2>2. CASE \E q \in messages : q.turn = t /\ q.sender = "user"
    <3>1. PICK q \in messages : q.turn = t /\ q.sender = "user"
      BY <2>2
    <3>2. CASE \E n \in messages' : Kin(n, q)
      BY <3>1, <3>2 DEF Kin, Questions
    <3>3. CASE \E r \in Requests : Commit(r)
      <4>1. t \in Active
        BY <1>3 DEF Advances, Active
      <4> QED
        BY <1>1, <3>3, <4>1, CommitTurns
    <3> QED
      BY <1>1, <3>2, <3>3, OldOrNew
  <2> QED
    BY <1>3, <2>1, <2>2 DEF Asked, Questions
<1> QED
  BY <1>1, <1>2, <1>3 DEF GoesOn

LEMMA WholeStep ==
  ASSUME ConversationAssumption, ConversationIInv, Ordered, Whole, [ConversationNext]_conversationVars
  PROVE  Whole'
<1> SUFFICES ASSUME NEW r \in Requests, request'[r].pc \in {"held", "removed"},
                    NEW q \in request'[r].doomed, NEW a \in messages',
                    q.sender = "user", a.sender = "answer", a.turn = q.turn
             PROVE  \/ \E n \in request'[r].doomed : n.turn = q.turn /\ n.sender = "answer"
                    \/ exchange'[a.turn].disturbed \/ exchange'[a.turn].same
  BY DEF Whole, Open
<1>1. Typed /\ Known /\ \A t \in Exchange : GoesOn(t)
  BY TurnsStep DEF ConversationIInv
<1>2. \A m \in messages : m.at \in Nat /\ m.turn \in Exchange /\ Stored(m)
  BY <1>1 DEF Typed, StoredMessage, Known
<1>3. GoesAhead(r) \/ Starts(r)
  BY <1>1, RequestsStep DEF RequestGoesOn
<1>4. CASE GoesAhead(r)
  <2>1. r \in Open /\ request'[r].doomed = request[r].doomed
    BY <1>4 DEF GoesAhead, Open
  <2>2. CASE \E o \in messages : Kin(a, o)
    <3>1. PICK o \in messages : o.turn = a.turn /\ o.sender = "answer"
      BY <2>2 DEF Kin
    <3>2. \/ \E n \in request[r].doomed : n.turn = q.turn /\ n.sender = "answer"
          \/ exchange[a.turn].disturbed \/ exchange[a.turn].same
      BY <2>1, <3>1 DEF Whole
    <3>3. a.turn \in Exchange /\ ~Unanswered(a.turn) /\ GoesOn(a.turn)
      BY <1>1, <1>2, <3>1 DEF Stored
    <3> QED
      BY <2>1, <3>2, <3>3 DEF GoesOn
  <2>3. CASE \A o \in messages : ~Kin(a, o)
    <3>1. a.turn \in Exchange /\ Answer(a.turn)
      BY <1>1, <2>3, Answering
    <3> QED
      BY <1>1, <2>1, <3>1, AnswerChanges
  <2> QED
    BY <2>2, <2>3
<1>5. CASE Starts(r)
  <2>1. /\ request'[r].doomed \subseteq messages /\ messages' = messages /\ exchange' = exchange
        /\ UpToEnd(request'[r].doomed) \/ LastTwo(request'[r].doomed)
    BY <1>5 DEF Starts
  <2>2. /\ q \in messages /\ a \in messages /\ q.at \in Nat /\ a.at \in Nat
        /\ q.at <= a.at /\ (q.at = a.at => exchange[a.turn].same)
    BY <1>2, <2>1 DEF Ordered
  <2>3. CASE q.at = a.at
    BY <2>1, <2>2, <2>3
  <2>4. CASE q.at # a.at /\ UpToEnd(request'[r].doomed)
    <3>1. a \in request'[r].doomed
      BY <2>2, <2>4 DEF UpToEnd
    <3> QED
      BY <3>1
  <2>5. CASE q.at # a.at /\ LastTwo(request'[r].doomed)
    <3>1. PICK m \in messages, prev \in messages :
            /\ prev \in Newest(messages \ {m}) /\ m.sender = "answer"
            /\ request'[r].doomed = {m, prev}
      BY <2>5 DEF LastTwo, Newest
    <3>2. q = prev
      BY <3>1
    <3>3. CASE a = m
      BY <3>1, <3>3
    <3>4. CASE a # m
      <4>1. a.at <= q.at
        BY <2>2, <3>1, <3>2, <3>4 DEF Newest
      <4> QED
        BY <2>2, <2>5, <4>1
    <3> QED
      BY <3>3, <3>4
  <2> QED
    BY <2>1, <2>3, <2>4, <2>5
<1> QED
  BY <1>3, <1>4, <1>5

LEMMA AnswersStep ==
  ASSUME ConversationAssumption, ConversationIInv, Asked, Whole, AnswersHaveQuestions,
         [ConversationNext]_conversationVars
  PROVE  AnswersHaveQuestions'
<1> SUFFICES ASSUME NEW a \in messages', a.sender = "answer"
             PROVE  \/ \E q \in messages' : q.turn = a.turn /\ q.sender = "user" /\ q.at <= a.at
                    \/ exchange'[a.turn].disturbed \/ exchange'[a.turn].same
  BY DEF AnswersHaveQuestions, Questions
<1>1. Typed /\ Known /\ Single /\ \A t \in Exchange : GoesOn(t)
  BY TurnsStep DEF ConversationIInv
<1>2. second \in Nat /\ \A m \in messages : m.at \in Nat /\ m.turn \in Exchange /\ Stored(m) /\ m.at <= second
  BY <1>1 DEF Typed, StoredMessage, Known
<1>3. CASE \A o \in messages : ~Kin(a, o)
  <2>1. a.turn \in Exchange /\ Answer(a.turn) /\ a.at = second
    BY <1>1, <1>3, Answering
  <2>2. /\ exchange[a.turn].pc = "answering" /\ \A o \in messages : o \in messages'
        /\ ~exchange[a.turn].stream => exchange'[a.turn].same
    BY <1>1, <2>1, AnswerChanges
  <2>3. CASE exchange[a.turn].stream
    <3>1. Advances(a.turn)
      BY <2>2, <2>3 DEF Advances
    <3>2. Questions(a.turn) # {} \/ exchange[a.turn].disturbed
      BY <2>1, <3>1 DEF Asked
    <3>3. CASE exchange[a.turn].disturbed
      BY <1>1, <2>1, <3>3 DEF GoesOn
    <3>4. CASE Questions(a.turn) # {}
      BY <1>2, <2>1, <2>2, <3>4 DEF Questions
    <3> QED
      BY <3>2, <3>3, <3>4
  <2> QED
    BY <2>2, <2>3
<1>4. CASE \E o \in messages : Kin(a, o)
  <2>1. PICK o \in messages : o.turn = a.turn /\ o.sender = "answer" /\ o.at = a.at
    BY <1>4 DEF Kin
  <2>2. a.turn \in Exchange /\ ~Unanswered(a.turn) /\ GoesOn(a.turn)
    BY <1>1, <1>2, <2>1 DEF Stored
  <2>3. CASE exchange[a.turn].disturbed \/ exchange[a.turn].same
    BY <2>2, <2>3 DEF GoesOn
  <2>4. CASE \E q \in messages : q.turn = a.turn /\ q.sender = "user" /\ q.at <= a.at
    <3>1. PICK q \in messages : q.turn = a.turn /\ q.sender = "user" /\ q.at <= a.at
      BY <2>4
    <3>2. CASE \E n \in messages' : Kin(n, q)
      BY <3>1, <3>2 DEF Kin
    <3>3. ASSUME NEW r \in Requests, Commit(r), q \in request[r].doomed
          PROVE  exchange'[a.turn].disturbed \/ exchange'[a.turn].same
      <4>1. Committable(r) /\ messages' = messages \ request[r].doomed
        BY <3>3 DEF Commit
      <4>2. r \in Open /\ request[r].doomed \subseteq messages
        BY <4>1 DEF Committable, Open
      <4>3. \/ \E n \in request[r].doomed : n.turn = a.turn /\ n.sender = "answer"
            \/ exchange[a.turn].disturbed \/ exchange[a.turn].same
        BY <2>1, <3>1, <3>3, <4>2 DEF Whole
      <4>4. CASE \E n \in request[r].doomed : n.turn = a.turn /\ n.sender = "answer"
        <5>1. PICK n \in request[r].doomed : n.turn = a.turn /\ n.sender = "answer"
          BY <4>4
        <5>2. n = a
          BY <1>1, <4>1, <4>2, <5>1 DEF Single
        <5> QED
          BY <4>1, <5>2
      <4> QED
        BY <2>2, <4>3, <4>4 DEF GoesOn
    <3> QED
      BY <1>1, <3>2, <3>3, OldOrNew
  <2> QED
    BY <2>1, <2>3, <2>4 DEF AnswersHaveQuestions, Questions
<1> QED
  BY <1>3, <1>4

\* "The conversation stays linear": however requests that delete, edit, patch and
\* regenerate run into turns and into one another, an answer has its question before
\* it, but for a turn that a request overtook, and for one of a single second.
THEOREM AnswersKeepQuestions == ConversationSpec => []AnswersHaveQuestions
<1> DEFINE Inv == ConversationIInv /\ Ordered /\ Asked /\ Whole /\ AnswersHaveQuestions
<1>1. ConversationInit => Inv
  <2> SUFFICES ASSUME ConversationInit PROVE Inv
    OBVIOUS
  <2>1. messages = {} /\ request = [r \in Requests |-> NoRequest]
    BY DEF ConversationInit
  <2>2. \A t \in Exchange : exchange[t].pc = "idle"
    BY DEF ConversationInit
  <2>3. Open = {}
    BY <2>1 DEF Open, NoRequest
  <2> QED
    BY <2>1, <2>2, <2>3, ConversationStarts, ConversationAssumption
       DEF Ordered, Asked, Advances, Whole, AnswersHaveQuestions
<1>2. Inv /\ [ConversationNext]_conversationVars => Inv'
  BY ConversationTypeStep, OrderedStep, AskedStep, WholeStep, AnswersStep, ConversationAssumption
<1> QED
  BY <1>1, <1>2, PTL DEF ConversationSpec

------------------------------------------------------------------------------
(* A file that is listed is there.                                          *)

\* What is about to be stored is in the object store.
Put == file.pc = "put" => file.object

\* A request that removes an object has a file to delete: one of its own kind, or of a
\* question that it deletes and that nobody has detached the file from.
Removing ==
  \A r \in Open :
    LET q == request[r] IN
    /\ q.pc = "removed" => Removes(r)
    /\ q.attached => file.pc = "stored"
    /\ q.attached /\ file.row =>
         \/ q.kind \in {"upload", "session", "purge"}
         \/ \E m \in q.doomed : /\ m.sender = "user" /\ ~Unasked(m.turn)
                                /\ m.turn = file.link \/ Questions(m.turn) = {}

\* What a step does to the file.
LEMMA FileGoesOn ==
  ASSUME Typed, [ConversationNext]_conversationVars
  PROVE  /\ file.pc = "stored" => file'.pc = "stored" /\ (file'.row => file.row)
         /\ file'.pc = "put" => file'.object \/ (file.pc = "put" /\ (file.object => \E r \in Requests : RemoveObject(r)))
         /\ file'.row => file.row \/ file.pc = "put"
         /\ file'.row /\ file.link # 0 =>
              \/ file'.link = file.link
              \/ \E k \in Requests : /\ Commit(k) /\ request[k].kind = "regenerate"
                                     /\ Attached(request[k].kind, request[k].doomed)
         /\ file.object => file'.object \/ \E r \in Requests : RemoveObject(r)
         /\ file.torn => file'.torn
<1> DEFINE Same == /\ file'.pc = file.pc /\ file'.row = file.row /\ file'.link = file.link
                   /\ file'.object = file.object /\ file'.torn = file.torn
           Goal == /\ file.pc = "stored" => file'.pc = "stored" /\ (file'.row => file.row)
                   /\ file'.pc = "put" => file'.object \/ (file.pc = "put" /\ (file.object => \E r \in Requests : RemoveObject(r)))
                   /\ file'.row => file.row \/ file.pc = "put"
                   /\ file'.row /\ file.link # 0 =>
                        \/ file'.link = file.link
                        \/ \E k \in Requests : /\ Commit(k) /\ request[k].kind = "regenerate"
                                               /\ Attached(request[k].kind, request[k].doomed)
                   /\ file.object => file'.object \/ \E r \in Requests : RemoveObject(r)
                   /\ file.torn => file'.torn
<1>1. file \in FileState
  BY DEF Typed
<1>2. Same => Goal
  OBVIOUS
<1>3. ASSUME NEW t \in Exchange, Link(t) PROVE Goal
  <2>1. file' = file \/ (file.link = 0 /\ file' = [file EXCEPT !.link = t])
    BY <1>3 DEF Link
  <2> QED
    BY <1>1, <2>1 DEF FileState
<1>4. ASSUME Reindex \/ DropChunks \/ Index \/ IndexFails PROVE Same
  BY <1>1, <1>4 DEF Reindex, DropChunks, Index, IndexFails, FileState
<1>5. ASSUME PutObject \/ UploadFails PROVE Goal
  BY <1>1, <1>5 DEF PutObject, UploadFails, FileState
<1>6. ASSUME NEW text \in BOOLEAN, StoreFile(text) PROVE Goal
  BY <1>1, <1>6 DEF StoreFile, FileState
<1>7. ASSUME NEW r \in Requests, DeleteUpload(r) PROVE Same
  BY <1>1, <1>7 DEF DeleteUpload, FileState
<1>8. ASSUME NEW r \in Requests, RemoveObject(r) PROVE Goal
  <2>1. file' = file \/ file' = [file EXCEPT !.object = FALSE]
    BY <1>8 DEF RemoveObject
  <2>2. file'.pc = file.pc /\ file'.row = file.row /\ file'.link = file.link /\ file'.torn = file.torn
    BY <1>1, <2>1 DEF FileState
  <2> QED
    BY <1>8, <2>2
<1>9. ASSUME NEW r \in Requests, Rollback(r) PROVE Goal
  <2> DEFINE b == file.torn \/ request[r].pc = "removed"
  <2>1. file' = [file EXCEPT !.torn = b]
    BY <1>9 DEF Rollback
  <2>2. b \in BOOLEAN /\ (file.torn => b)
    BY Zenon
  <2> HIDE DEF b
  <2>3. /\ file'.pc = file.pc /\ file'.row = file.row /\ file'.link = file.link
        /\ file'.object = file.object /\ file'.torn = b
    BY <1>1, <2>1, <2>2 DEF FileState
  <2> QED
    BY <2>2, <2>3
<1>10. ASSUME NEW r \in Requests, Commit(r) PROVE Goal
  <2>1. file' = Released(r)
    BY <1>10 DEF Commit
  <2>2. CASE file' = file
    BY <1>2, <2>2
  <2>3. CASE /\ Attached(request[r].kind, request[r].doomed) /\ request[r].kind = "regenerate"
             /\ file' = [file EXCEPT !.link = 0]
    <3>1. /\ file'.pc = file.pc /\ file'.row = file.row
          /\ file'.object = file.object /\ file'.torn = file.torn
      BY <1>1, <2>3 DEF FileState
    <3> QED
      BY <1>10, <2>3, <3>1
  <2>4. CASE file' = [file EXCEPT !.row = FALSE, !.link = 0]
    <3>1. /\ file'.pc = file.pc /\ ~file'.row
          /\ file'.object = file.object /\ file'.torn = file.torn
      BY <1>1, <2>4 DEF FileState
    <3> QED
      BY <3>1
  <2> QED
    BY <2>1, <2>2, <2>3, <2>4 DEF Released
<1>11. ASSUME NEW t \in Exchange,
              \/ Ask(t) \/ ShortEnough(t) \/ Summarize(t) \/ SummaryFails(t) \/ Mark(t)
              \/ StoreSummary(t) \/ Answer(t) \/ Stop(t) \/ Rate(t)
       PROVE  Same
  BY <1>11 DEF Ask, ShortEnough, Summarize, SummaryFails, Mark, StoreSummary, Answer, Stop, Rate
<1>12. ASSUME NEW r \in Requests, NEW m \in messages, Truncate(r, m) \/ Regenerate(r, m) \/ RefuseRegenerate(r, m)
       PROVE  Same
  BY <1>12 DEF Truncate, Regenerate, RefuseRegenerate
<1>13. ASSUME NEW r \in Requests, DeleteSession(r) PROVE Same
  BY <1>13 DEF DeleteSession
<1>14. Same \/ Goal
  BY <1>3, <1>4, <1>5, <1>6, <1>7, <1>8, <1>9, <1>10, <1>11, <1>12, <1>13
     DEF ConversationNext, conversationVars, Tick, Send
<1> HIDE DEF Same
<1>15. Goal
  BY <1>2, <1>14
<1> QED
  BY <1>15

LEMMA RemovingStep ==
  ASSUME ConversationAssumption, ConversationIInv, Removing, [ConversationNext]_conversationVars
  PROVE  Removing'
<1> SUFFICES ASSUME NEW r \in Requests, request'[r].pc \in {"held", "removed"}
             PROVE  LET q == request'[r] IN
                    /\ q.pc = "removed" => q.attached /\ q.kind # "regenerate"
                    /\ q.attached => file'.pc = "stored"
                    /\ q.attached /\ file'.row =>
                         \/ q.kind \in {"upload", "session", "purge"}
                         \/ \E m \in q.doomed : /\ m.sender = "user" /\ ~Unasked(m.turn)'
                                                /\ m.turn = file'.link \/ Questions(m.turn)' = {}
  BY DEF Removing, Open, Removes, ObjectsGo
<1>1. Typed /\ Single /\ Known /\ Filed /\ \A t \in Exchange : GoesOn(t)
  BY TurnsStep DEF ConversationIInv
<1>2. \A m \in messages : m \in StoredMessage /\ m.turn \in Exchange /\ Stored(m)
  BY <1>1 DEF Typed, StoredMessage, Known
<1>3. GoesAhead(r) \/ Starts(r)
  BY <1>1, RequestsStep DEF RequestGoesOn
<1>4. CASE GoesAhead(r)
  <2>1. /\ r \in Open /\ request'[r].kind = request[r].kind /\ request'[r].doomed = request[r].doomed
        /\ request'[r].attached = request[r].attached
        /\ request'[r].pc = "removed" => request[r].pc = "removed" \/ Removes(r)
    BY <1>4 DEF GoesAhead, Open
  <2>2. /\ request[r].pc = "removed" => request[r].attached /\ request[r].kind # "regenerate"
        /\ request[r].attached => file.pc = "stored"
        /\ request[r].attached /\ file.row =>
             \/ request[r].kind \in {"upload", "session", "purge"}
             \/ \E m \in request[r].doomed : /\ m.sender = "user" /\ ~Unasked(m.turn)
                                             /\ m.turn = file.link \/ Questions(m.turn) = {}
    BY <2>1 DEF Removing, Removes, ObjectsGo
  <2>3. request'[r].pc = "removed" => request[r].attached /\ request[r].kind # "regenerate"
    BY <2>1, <2>2 DEF Removes, ObjectsGo
  <2>4. request[r].attached => file'.pc = "stored" /\ (file'.row => file.row)
    BY <1>1, <2>2, FileGoesOn
  <2>5. ASSUME NEW m \in request[r].doomed, m.sender = "user", ~Unasked(m.turn), file'.row,
               m.turn = file.link \/ Questions(m.turn) = {}
        PROVE  ~Unasked(m.turn)' /\ (m.turn = file'.link \/ Questions(m.turn)' = {})
    <3>1. m.turn \in Exchange /\ m.turn # 0
      BY <1>1 DEF Typed, RequestState, StoredMessage, Exchange
    <3>2. ~Unasked(m.turn)'
      BY <1>1, <2>5, <3>1 DEF GoesOn
    <3>3. CASE Questions(m.turn) = {}
      <4>1. ASSUME NEW n \in messages', n.turn = m.turn, n.sender = "user" PROVE FALSE
        <5>1. CASE \E o \in messages : Kin(n, o)
          BY <3>3, <4>1, <5>1 DEF Kin, Questions
        <5>2. CASE \E new : Adds(new) /\ n \in new
          BY <2>5, <4>1, <5>2 DEF Adds, Fresh
        <5> QED
          BY <1>1, <5>1, <5>2, OldOrNew
      <4> QED
        BY <3>2, <4>1 DEF Questions
    <3>4. CASE m.turn = file.link
      <4>1. CASE file'.link = file.link
        BY <3>2, <3>4, <4>1
      <4>2. ASSUME NEW k \in Requests, Commit(k), request[k].kind = "regenerate",
                   Attached(request[k].kind, request[k].doomed)
            PROVE  Questions(m.turn)' = {}
        <5>1. PICK n \in request[k].doomed : n.sender = "user" /\ n.turn = file.link
          BY <4>2 DEF Attached
        <5>2. request[k].doomed \subseteq messages /\ messages' = messages \ request[k].doomed
          BY <4>2 DEF Commit, Committable
        <5>3. ASSUME NEW p \in messages', p.turn = m.turn, p.sender = "user" PROVE FALSE
          <6>1. p = n
            BY <1>1, <3>4, <5>1, <5>2, <5>3 DEF Single
          <6> QED
            BY <5>1, <5>2, <6>1
        <5> QED
          BY <5>3 DEF Questions
      <4>3. \/ file'.link = file.link
            \/ \E k \in Requests : /\ Commit(k) /\ request[k].kind = "regenerate"
                                   /\ Attached(request[k].kind, request[k].doomed)
        BY <1>1, <2>5, <3>1, <3>4, FileGoesOn
      <4> QED
        BY <3>2, <4>1, <4>2, <4>3
    <3> QED
      BY <2>5, <3>3, <3>4
  <2> QED
    BY <2>1, <2>2, <2>3, <2>4, <2>5
<1>5. CASE Starts(r)
  <2>1. /\ request'[r].pc = "held" /\ request'[r].doomed \subseteq messages
        /\ request'[r].attached <=> Attached(request'[r].kind, request'[r].doomed)
        /\ exchange' = exchange /\ file'.row = file.row /\ file'.link = file.link /\ file'.pc = file.pc
    BY <1>5 DEF Starts
  <2>2. request'[r].attached => file'.pc = "stored"
    BY <1>1, <2>1 DEF Attached, Filed
  <2>3. ASSUME NEW m \in request'[r].doomed, m.sender = "user" PROVE ~Unasked(m.turn)'
    <3>1. ~Unasked(m.turn)
      BY <1>2, <2>1, <2>3 DEF Stored
    <3> QED
      BY <2>1, <3>1 DEF Unasked
  <2>4. request'[r].attached =>
          \/ request'[r].kind \in {"upload", "session", "purge"}
          \/ \E m \in request'[r].doomed : m.sender = "user" /\ m.turn = file'.link
    BY <2>1 DEF Attached
  <2> QED
    BY <2>1, <2>2, <2>3, <2>4
<1> QED
  BY <1>3, <1>4, <1>5

\* A request that has removed the object ends only with its transaction.
LEMMA RemovedStays ==
  ASSUME Typed, [ConversationNext]_conversationVars, NEW k \in Requests, request[k].pc = "removed"
  PROVE  request'[k].pc = "removed" \/ Commit(k) \/ Rollback(k)
<1> DEFINE Goal == request'[k].pc = "removed" \/ Commit(k) \/ Rollback(k)
<1>1. request \in [Requests -> RequestState]
  BY DEF Typed
<1>2. request' = request => Goal
  OBVIOUS
<1>4. ASSUME NEW r \in Requests, NEW kind, NEW doomed, Hold(r, kind, doomed) PROVE Goal
  <2>1. request[r].pc = "idle" /\ \E q : request' = [request EXCEPT ![r] = q]
    BY <1>4 DEF Hold
  <2> QED
    BY <1>1, <2>1
<1>5. ASSUME NEW r \in Requests, NEW m \in messages, RefuseRegenerate(r, m) PROVE Goal
  <2>1. request[r].pc = "idle" /\ request' = [request EXCEPT ![r].pc = "refused"]
    BY <1>5 DEF RefuseRegenerate
  <2> QED
    BY <1>1, <2>1
<1>6. ASSUME NEW r \in Requests, RemoveObject(r) PROVE Goal
  <2>1. request[r].pc = "held" /\ request' = [request EXCEPT ![r].pc = "removed"]
    BY <1>6 DEF RemoveObject
  <2> QED
    BY <1>1, <2>1
<1>7. ASSUME NEW r \in Requests, Commit(r) \/ Rollback(r) PROVE Goal
  <2>1. CASE r = k
    BY <1>7, <2>1
  <2>2. CASE r # k
    <3>1. \E q : request' = [request EXCEPT ![r] = q]
      BY <1>7, Zenon DEF Commit, Rollback
    <3> QED
      BY <1>1, <2>2, <3>1
  <2> QED
    BY <2>1, <2>2
<1>8. ASSUME NEW r \in Requests,
             \/ \E m \in messages : Truncate(r, m) \/ Regenerate(r, m)
             \/ DeleteUpload(r) \/ DeleteSession(r)
      PROVE  Goal
  <2>1. \E kind, doomed : Hold(r, kind, doomed)
    BY <1>8, Zenon DEF Truncate, Regenerate, DeleteUpload, DeleteSession
  <2> QED
    BY <1>4, <2>1
<1>9. ASSUME NEW t \in Exchange,
             \/ Ask(t) \/ Link(t) \/ ShortEnough(t) \/ Summarize(t) \/ SummaryFails(t) \/ Mark(t)
             \/ StoreSummary(t) \/ Answer(t) \/ Stop(t) \/ Rate(t)
      PROVE  Goal
  BY <1>2, <1>9 DEF Ask, Link, ShortEnough, Summarize, SummaryFails, Mark, StoreSummary, Answer, Stop, Rate
<1>10. Goal
  BY <1>2, <1>5, <1>6, <1>7, <1>8, <1>9
     DEF ConversationNext, conversationVars, Tick, Send, PutObject, UploadFails, Reindex, DropChunks, Index,
         IndexFails, StoreFile
<1> QED
  BY <1>10

LEMMA FilesStep ==
  ASSUME ConversationAssumption, ConversationIInv, Put, Removing, FilesAreThere,
         [ConversationNext]_conversationVars
  PROVE  Put' /\ FilesAreThere'
<1>1. Typed /\ Filed /\ Single
  BY DEF ConversationIInv
<1>2. ASSUME NEW r \in Requests, RemoveObject(r)
      PROVE  /\ file.pc = "stored" /\ r \in Open' /\ request'[r].pc = "removed"
  <2>1. /\ r \in Open /\ request[r].attached
        /\ request' = [request EXCEPT ![r].pc = "removed"]
    BY <1>2 DEF RemoveObject, Open, Removes
  <2>2. request'[r].pc = "removed"
    BY <1>1, <2>1 DEF Typed, RequestState
  <2> QED
    BY <2>1, <2>2 DEF Removing, Open
<1>3. Put'
  BY <1>1, <1>2, FileGoesOn DEF Put
<1>4. ASSUME file'.row PROVE file'.object \/ file'.torn \/ \E r \in Open' : request'[r].pc = "removed"
  <2>1. CASE file.object
    BY <1>1, <1>2, <2>1, FileGoesOn
  <2>2. CASE file.torn
    BY <1>1, <2>2, FileGoesOn
  <2>3. CASE \E k \in Open : request[k].pc = "removed"
    <3>1. PICK k \in Requests : request[k].pc = "removed" /\ k \in Open
      BY <2>3 DEF Open
    <3>2. CASE request'[k].pc = "removed"
      BY <3>2 DEF Open
    <3>3. CASE Rollback(k)
      <4> DEFINE b == file.torn \/ request[k].pc = "removed"
      <4>1. file' = [file EXCEPT !.torn = b]
        BY <3>3 DEF Rollback
      <4>2. b
        BY <3>1
      <4> HIDE DEF b
      <4>3. file'.torn = b
        BY <1>1, <4>1 DEF Typed, FileState
      <4> QED
        BY <4>2, <4>3
    <3>4. CASE Commit(k)
      <4>1. /\ request[k].doomed \subseteq messages /\ file' = Released(k)
        BY <3>4 DEF Commit, Committable
      <4>2. file.row /\ request[k].attached /\ request[k].kind # "regenerate"
        <5>1. request[k].attached /\ request[k].kind # "regenerate" /\ file.pc = "stored"
          BY <3>1 DEF Removing, Removes, ObjectsGo
        <5> QED
          BY <1>1, <1>4, <5>1, FileGoesOn
      <4>3. Attached(request[k].kind, request[k].doomed)
        <5>1. \/ request[k].kind \in {"upload", "session", "purge"}
              \/ \E m \in request[k].doomed : /\ m.sender = "user"
                                              /\ m.turn = file.link \/ Questions(m.turn) = {}
          BY <3>1, <4>2 DEF Removing
        <5>2. \A m \in request[k].doomed : m.sender = "user" => Questions(m.turn) # {}
          BY <4>1 DEF Questions
        <5> QED
          BY <4>2, <5>1, <5>2 DEF Attached
      <4>4. file' = [file EXCEPT !.row = FALSE, !.link = 0]
        BY <4>1, <4>2, <4>3 DEF Released
      <4> QED
        BY <1>1, <1>4, <4>4 DEF Typed, FileState
    <3> QED
      BY <1>1, <3>1, <3>2, <3>3, <3>4, RemovedStays
  <2>4. file.row \/ file.pc = "put"
    BY <1>1, <1>4, FileGoesOn
  <2> QED
    BY <2>1, <2>2, <2>3, <2>4 DEF Put, FilesAreThere
<1> QED
  BY <1>3, <1>4 DEF FilesAreThere

\* A file that is listed can be fetched: of the requests that delete it, directly, with
\* its question, or with the session, one that is between the object store and the
\* database is about to delete the row too, whoever has detached it meanwhile; or it
\* has failed, which is what torn records.
THEOREM ListedFilesAreThere == ConversationSpec => []FilesAreThere
<1> DEFINE Inv == ConversationIInv /\ Put /\ Removing /\ FilesAreThere
<1>1. ConversationInit => Inv
  <2> SUFFICES ASSUME ConversationInit PROVE Inv
    OBVIOUS
  <2>1. request = [r \in Requests |-> NoRequest] /\ file.pc # "put" /\ ~file.row
    BY DEF ConversationInit
  <2>2. Open = {}
    BY <2>1 DEF Open, NoRequest
  <2> QED
    BY <2>1, <2>2, ConversationStarts, ConversationAssumption DEF Put, Removing, FilesAreThere
<1>2. Inv /\ [ConversationNext]_conversationVars => Inv'
  BY ConversationTypeStep, RemovingStep, FilesStep, ConversationAssumption
<1> QED
  BY <1>1, <1>2, PTL DEF ConversationSpec

------------------------------------------------------------------------------
(* The messages of a permanent session are a transcript.                    *)

\* What a summary is being made of was in none when it was read.
Unfolded ==
  \A t \in Exchange : exchange[t].pc = "thinking" =>
    \A m \in exchange[t].chosen : m.summarized = 0

LEMMA ThinkingStays ==
  ASSUME ConversationAssumption, Typed, [ConversationNext]_conversationVars,
         NEW t \in Exchange, exchange'[t].pc = "thinking"
  PROVE  \/ exchange[t].pc = "thinking" /\ exchange'[t].chosen = exchange[t].chosen
         \/ Summarize(t)
<1> DEFINE Goal == \/ exchange[t].pc = "thinking" /\ exchange'[t].chosen = exchange[t].chosen
                   \/ Summarize(t)
<1>1. exchange'[t] = exchange[t] => Goal
  OBVIOUS
<1>2. ASSUME NEW stream \in BOOLEAN, NEW files \in BOOLEAN, Send(stream, files) PROVE Goal
  <2>1. PICK u \in Exchange :
          /\ exchange[u].pc = "idle"
          /\ TurnSets(u, IF stream THEN "asking" ELSE "reading", stream, exchange[u].same, exchange[u].disturbed)
    BY <1>2, SendTurn
  <2>2. u # t
    BY <2>1 DEF TurnSets
  <2> QED
    BY <1>1, <2>1, <2>2 DEF TurnSets
<1>3. ASSUME NEW u \in Exchange, NEW to \in Pcs \ {"thinking"},
             exchange' = [exchange EXCEPT ![u] = At(u, to)]
      PROVE  Goal
  <2>1. PICK stream \in BOOLEAN : TurnSets(u, to, stream, exchange[u].same, exchange[u].disturbed)
    BY <1>3, GoIs
  <2>2. u # t
    BY <2>1 DEF TurnSets
  <2> QED
    BY <1>1, <2>1, <2>2 DEF TurnSets
<1>4. \A pc \in {"linking", "reading", "answering", "marked", "over"} : pc \in Pcs \ {"thinking"}
  BY DEF Pcs, Before
<1>5. ASSUME NEW u \in Exchange,
             \/ Ask(u) \/ Link(u) \/ ShortEnough(u) \/ SummaryFails(u) \/ Mark(u) \/ StoreSummary(u)
             \/ Stop(u)
      PROVE  Goal
  BY <1>3, <1>4, <1>5 DEF Ask, Link, ShortEnough, SummaryFails, Mark, StoreSummary, Stop, Go
<1>6. ASSUME NEW u \in Exchange, Summarize(u) PROVE Goal
  <2>1. CASE u = t
    BY <1>6, <2>1
  <2>2. CASE u # t
    <3>1. PICK c \in Summarizable : exchange' = [exchange EXCEPT ![u].pc = "thinking", ![u].chosen = c]
      BY <1>6 DEF Summarize
    <3>2. exchange'[t] = exchange[t]
      BY <2>2, <3>1 DEF Typed
    <3> QED
      BY <1>1, <3>2
  <2> QED
    BY <2>1, <2>2
<1>7. ASSUME NEW u \in Exchange, Answer(u) PROVE Goal
  <2>1. PICK to \in {"over", "linking"}, stream \in BOOLEAN, same \in BOOLEAN, disturbed \in BOOLEAN :
          TurnSets(u, to, stream, same, disturbed)
    BY <1>7, AnswerIs
  <2>2. u # t
    BY <2>1 DEF TurnSets
  <2> QED
    BY <1>1, <2>1, <2>2 DEF TurnSets
<1>8. ASSUME NEW r \in Requests, Commit(r) PROVE Goal
  <2>1. /\ Disturbed \in [Exchange -> ExchangeState]
        /\ \A u \in Exchange :
             Disturbed[u].pc = exchange[u].pc /\ Disturbed[u].chosen = exchange[u].chosen
    BY DisturbedIs
  <2>2. \/ exchange' = Disturbed
        \/ /\ Idle # {}
           /\ \E stream \in BOOLEAN, files \in BOOLEAN : exchange' = Begun(Disturbed, stream, files)
    BY <1>8, Zenon DEF Commit, Disturbed
  <2>3. CASE exchange' = Disturbed
    BY <2>1, <2>3
  <2>4. ASSUME Idle # {}, NEW stream \in BOOLEAN, NEW files \in BOOLEAN,
               exchange' = Begun(Disturbed, stream, files)
        PROVE  Goal
    <3>1. \E u \in Exchange : Disturbed[u].pc = "idle"
      BY <2>1, <2>4 DEF Idle
    <3>2. PICK u \in Exchange :
            /\ \A k \in Exchange \ {u} : exchange'[k] = Disturbed[k]
            /\ exchange'[u].pc = IF stream THEN "asking" ELSE "reading"
      BY <2>1, <2>4, <3>1, BegunIs
    <3>3. u # t
      BY <3>2
    <3> QED
      BY <2>1, <3>2, <3>3
  <2> QED
    BY <2>2, <2>3, <2>4
<1> QED
  BY <1>1, <1>2, <1>5, <1>6, <1>7, <1>8
     DEF ConversationNext, conversationVars, Tick, Rate, PutObject, UploadFails, Reindex, DropChunks, Index,
         IndexFails, StoreFile, Truncate, Hold, Regenerate, RefuseRegenerate, DeleteUpload, DeleteSession,
         RemoveObject, Rollback

LEMMA UnfoldedStep ==
  ASSUME ConversationAssumption, Typed, Unfolded, [ConversationNext]_conversationVars
  PROVE  Unfolded'
<1> SUFFICES ASSUME NEW t \in Exchange, exchange'[t].pc = "thinking", NEW m \in exchange'[t].chosen
             PROVE  m.summarized = 0
  BY DEF Unfolded
<1>1. CASE exchange[t].pc = "thinking" /\ exchange'[t].chosen = exchange[t].chosen
  BY <1>1 DEF Unfolded
<1>2. CASE Summarize(t)
  <2>1. PICK c \in Summarizable : exchange' = [exchange EXCEPT ![t].pc = "thinking", ![t].chosen = c]
    BY <1>2 DEF Summarize
  <2>2. exchange'[t].chosen = c
    BY <2>1 DEF Typed, ExchangeState
  <2>3. \A n \in c : n.summarized = 0
    BY <2>1 DEF Summarizable
  <2> QED
    BY <2>2, <2>3
<1> QED
  BY <1>1, <1>2, ThinkingStays

LEMMA OutstandingIs ==
  /\ \A t \in Exchange, s \in Senders :
       <<t, s>> \in Outstanding <=>
         /\ s = "user" => Unasked(t)
         /\ s = "summary" => Unsummed(t)
         /\ s = "answer" => Unanswered(t)
  /\ \A t \in Exchange, s \in Senders :
       <<t, s>> \in Outstanding' <=>
         /\ s = "user" => Unasked(t)'
         /\ s = "summary" => Unsummed(t)'
         /\ s = "answer" => Unanswered(t)'
  /\ \A k \in Outstanding' : \E t \in Exchange, s \in Senders : k = <<t, s>>
<1>1. \A t \in Exchange, s \in Senders : <<t, s>> \in Exchange \X Senders /\ <<t, s>>[1] = t /\ <<t, s>>[2] = s
  OBVIOUS
<1> QED
  BY <1>1 DEF Outstanding

LEMMA OutstandingShrinks ==
  ASSUME \A t \in Exchange : GoesOn(t)
  PROVE  Outstanding' \subseteq Outstanding
<1> SUFFICES ASSUME NEW k \in Outstanding' PROVE k \in Outstanding
  OBVIOUS
<1>1. PICK t \in Exchange, s \in Senders : k = <<t, s>>
  BY OutstandingIs
<1>2. /\ s = "user" => Unasked(t)'
      /\ s = "summary" => Unsummed(t)'
      /\ s = "answer" => Unanswered(t)'
  BY <1>1, OutstandingIs
<1>3. GoesOn(t)
  OBVIOUS
<1> QED
  BY <1>1, <1>2, <1>3, OutstandingIs DEF GoesOn

\* What a turn stores was outstanding, and is so no longer.
LEMMA StoredIs ==
  ASSUME NEW m \in StoredMessage, Fresh(m), Stored(m)'
  PROVE  Promised!Key(m) \in Outstanding /\ Promised!Key(m) \notin Outstanding'
<1>1. m.turn \in Exchange /\ m.sender \in Senders /\ Promised!Key(m) = <<m.turn, m.sender>>
  BY DEF StoredMessage, Promised!Key
<1>2. m.sender = "user" \/ m.sender = "summary" \/ m.sender = "answer"
  BY <1>1 DEF Senders
<1> QED
  BY <1>1, <1>2, OutstandingIs DEF Fresh, Stored

LEMMA AddsStores ==
  ASSUME ConversationAssumption, ConversationIInv, [ConversationNext]_conversationVars,
         session' = session, NEW new, Adds(new)
  PROVE  Promised!Store
<1>1. Typed /\ Single /\ Known /\ \A t \in Exchange : GoesOn(t)
  BY TurnsStep DEF ConversationIInv
<1>2. /\ messages' = messages \union new /\ session /\ Outstanding' \subseteq Outstanding
      /\ \A m \in new : /\ m \in StoredMessage /\ m.at = second /\ m.summarized = 0
                        /\ Fresh(m) /\ Stored(m)'
  BY <1>1, OutstandingShrinks DEF Adds
<1>3. \A m \in messages' \ messages : m \in new
  BY <1>2
<1>4. ASSUME NEW m \in new, NEW n \in messages' PROVE n.at <= m.at
  <2>1. m.at = second /\ second \in Nat
    BY <1>1, <1>2 DEF Typed
  <2>2. n \in messages \/ n.at = second
    BY <1>2
  <2> QED
    BY <1>1, <2>1, <2>2 DEF Known
<1>5. ASSUME NEW m \in new, NEW n \in messages', Promised!Key(n) = Promised!Key(m) PROVE n = m
  <2>1. n.turn = m.turn /\ n.sender = m.sender
    BY <1>5 DEF Promised!Key
  <2>2. Single'
    BY <1>1, KnownStep
  <2> QED
    BY <1>2, <2>1, <2>2 DEF Single
<1>6. \A m \in new : Promised!Key(m) \in Outstanding \ Outstanding' /\ m.summarized = 0
  BY <1>2, StoredIs
<1> HIDE DEF Promised!Key
<1>7. /\ messages \subseteq messages'
      /\ \A m \in messages' \ messages :
           /\ Promised!Key(m) \in Outstanding \ Outstanding' /\ m.summarized = 0
           /\ \A n \in messages' : n.at <= m.at /\ (Promised!Key(n) = Promised!Key(m) => n = m)
  BY <1>2, <1>3, <1>4, <1>5, <1>6
<1> QED
  BY <1>2, <1>7, Zenon DEF Promised!Store

LEMMA MarkFolds ==
  ASSUME ConversationAssumption, ConversationIInv, Unfolded, [ConversationNext]_conversationVars,
         session' = session, NEW t \in Exchange, NEW chosen, SumsUp(t, chosen)
  PROVE  Promised!Fold(t)
<1>1. Typed /\ \A u \in Exchange : GoesOn(u)
  BY TurnsStep DEF ConversationIInv
<1>2. /\ exchange[t].pc = "thinking" /\ exchange' = [exchange EXCEPT ![t] = At(t, "marked")]
      /\ chosen = exchange[t].chosen /\ chosen \subseteq messages
      /\ messages' = (messages \ chosen) \union {[m EXCEPT !.summarized = t] : m \in chosen}
  BY DEF SumsUp, Mark, Go
<1>3. exchange'[t].pc = "marked"
  <2>1. "marked" \in Pcs
    BY DEF Pcs, Before
  <2> QED
    BY <1>1, <1>2, <2>1, GoIs DEF TurnSets
<1>4. <<t, "summary">> \in Outstanding' /\ Outstanding' \subseteq Outstanding
  <2>1. Unsummed(t)' /\ "summary" \in Senders
    BY <1>3 DEF Unsummed, Senders
  <2> QED
    BY <1>1, <2>1, OutstandingIs, OutstandingShrinks
<1>5. \A m \in chosen : m.summarized = 0 /\ m \in StoredMessage
  BY <1>1, <1>2 DEF Unfolded, Typed
<1>6. \A m \in chosen : [m EXCEPT !.summarized = t].summarized = t
  BY <1>5 DEF StoredMessage
<1>7. t # 0
  BY DEF Exchange, ConversationAssumption
<1> DEFINE Changed(m) == [m EXCEPT !.summarized = t]
<1>8. messages' = (messages \ chosen) \union {Changed(m) : m \in chosen} /\ \A m \in chosen : Changed(m).summarized = t
  BY <1>2, <1>6
<1> HIDE DEF Changed
<1>9. messages \ messages' = chosen
  <2>1. \A m \in chosen : m \notin messages'
    BY <1>5, <1>7, <1>8
  <2> QED
    BY <1>2, <1>8, <2>1
<1>10. /\ messages' = (messages \ (messages \ messages')) \union {Changed(m) : m \in messages \ messages'}
       /\ \A m \in messages \ messages' : m.summarized = 0
  BY <1>5, <1>8, <1>9, Zenon
<1> QED
  BY <1>4, <1>10, Zenon DEF Promised!Fold, Changed

LEMMA CommitDrops ==
  ASSUME ConversationAssumption, ConversationIInv, [ConversationNext]_conversationVars,
         NEW r \in Requests, Commit(r)
  PROVE  Promised!Drop
<1>1. Outstanding' \subseteq Outstanding /\ Gone'
  BY TurnsStep, OutstandingShrinks, GoneStep DEF ConversationIInv
<1>2. /\ messages' = messages \ request[r].doomed
      /\ session' = (session /\ request[r].kind \notin {"session", "purge"})
  BY DEF Commit
<1>3. session \in BOOLEAN
  BY DEF ConversationIInv, Typed
<1>4. session' \in {session, FALSE}
  BY <1>2, <1>3, Zenon
<1>5. ~session' => messages' = {}
  BY <1>1 DEF Gone
<1> QED
  BY <1>1, <1>2, <1>4, <1>5 DEF Promised!Drop

\* However turns, summaries and requests overlap, the messages of a permanent session
\* are a transcript: a turn stores each of its messages at most once, behind all that is
\* there; a summary marks only what is in no other, and brings nothing back that was
\* deleted while it was written; a deleted session stays empty.
THEOREM IsTranscript == ConversationSpec => KeepsTranscript
<1> DEFINE Inv == ConversationIInv /\ Unfolded
<1>1. ConversationInit => Inv /\ Promised!Init
  <2> SUFFICES ASSUME ConversationInit PROVE Inv /\ Promised!Init
    OBVIOUS
  <2>1. \A t \in Exchange : exchange[t].pc = "idle"
    BY DEF ConversationInit
  <2>2. Unfolded
    BY <2>1 DEF Unfolded
  <2>3. Outstanding = Exchange \X Senders
    BY <2>1 DEF Outstanding, Unasked, Unsummed, Unanswered
  <2> QED
    BY <2>2, <2>3, ConversationStarts, ConversationAssumption DEF ConversationInit, Promised!Init
<1>2. Inv /\ [ConversationNext]_conversationVars => Inv' /\ [Promised!Next]_(Promised!vars)
  <2> SUFFICES ASSUME Inv, [ConversationNext]_conversationVars
               PROVE  Inv' /\ Promised!Next
    OBVIOUS
  <2>1. ConversationAssumption /\ Typed
    BY ConversationAssumption DEF ConversationIInv
  <2>2. Inv'
    BY <2>1, ConversationTypeStep, UnfoldedStep
  <2>3. ASSUME NEW r \in Requests, Commit(r) PROVE Promised!Next
    BY <2>1, <2>3, CommitDrops DEF Promised!Next
  <2>4. ASSUME \A r \in Requests : ~Commit(r) PROVE Promised!Next
    <3>1. session' = session
      BY <2>1, <2>4, RowStep
    <3>2. ASSUME NEW new, Adds(new) PROVE Promised!Next
      BY <2>1, <3>1, <3>2, AddsStores DEF Promised!Next
    <3>3. ASSUME NEW t \in Exchange, NEW chosen, SumsUp(t, chosen) PROVE Promised!Next
      BY <2>1, <3>1, <3>3, MarkFolds DEF Promised!Next
    <3>4. ASSUME messages' = messages PROVE Promised!Next
      <4>1. Outstanding' \subseteq Outstanding
        BY <2>1, TurnsStep, OutstandingShrinks
      <4>2. ~session => messages = {}
        BY DEF ConversationIInv, Gone
      <4> QED
        BY <2>1, <3>1, <3>4, <4>1, <4>2 DEF Typed, Promised!Drop, Promised!Next
    <3> QED
      BY <2>1, <2>4, <3>2, <3>3, <3>4, MessagesStep
  <2> QED
    BY <2>2, <2>3, <2>4
<1> QED
  BY <1>1, <1>2, PTL DEF ConversationSpec, Promised!Spec, KeepsTranscript
=============================================================================
