---------------------------- MODULE Conversation ----------------------------
(***************************************************************************)
(* A permanent session and what it owns: its messages, their feedback, a   *)
(* file with its object in the object store and its chunks in the search   *)
(* index.  Turns write messages (agents/runner.py); requests delete, edit, *)
(* patch or regenerate one of them, delete the file or the session         *)
(* (api/chat.py), or purge it when it is empty (session_service.py).       *)
(* Nothing keeps a request from a session whose turn is under way.         *)
(*                                                                         *)
(* MariaDB 11 isolates by snapshots: a transaction that changes a row that *)
(* another one has changed since its snapshot fails, as does one that      *)
(* leaves a foreign key behind.  created_at has whole seconds.             *)
(***************************************************************************)
EXTENDS Naturals, FiniteSets

CONSTANTS
  Exchanges,  \* bound: how many turns there are
  Requests,   \* bound: requests that commit a change of the conversation
  KeepPairs,  \* KEEP_RECENT_PAIRS: user messages that stay out of a summary
  MaxSecond   \* bound on the clock

ASSUME ConversationAssumption ==
  Exchanges \in Nat /\ KeepPairs \in Nat \ {0} /\ MaxSecond \in Nat

VARIABLES
  second,     \* the clock, in the unit of created_at
  session,    \* the row of the session exists; it is older than an hour
  messages,   \* its messages
  rated,      \* the turns whose answer has feedback
  file,       \* the file
  exchange,   \* the turns, in the order in which they begin
  request     \* the requests

conversationVars == <<second, session, messages, rated, file, exchange, request>>

Exchange == 1 .. Exchanges
Senders == {"user", "summary", "answer"}
StoredMessage == [turn: Exchange, sender: Senders, at: 0 .. MaxSecond,
            summarized: {0} \union Exchange]   \* history: which turn marked it
New(t, sender) == [turn |-> t, sender |-> sender, at |-> second, summarized |-> 0]

Questions(t) == {m \in messages : m.turn = t /\ m.sender = "user"}
Answers(t) == {m \in messages : m.turn = t /\ m.sender = "answer"}

Before == {"idle", "asking", "linking", "reading", "thinking", "marked", "answering"}
ExchangeState ==
  [pc: Before \union {"over"},
   stream: BOOLEAN,          \* it stores the question before its run, not after
   files: BOOLEAN,           \* the file comes with its question
   chosen: SUBSET StoredMessage,   \* messages_to_summarize
   same: BOOLEAN,            \* history: question and answer have one created_at
   disturbed: BOOLEAN]       \* history: a request changed messages meanwhile

RequestKinds == {"delete", "edit", "patch", "regenerate", "upload", "session", "purge"}
RequestState ==
  [pc: {"idle", "held", "removed", "done", "refused"},
   kind: RequestKinds,
   doomed: SUBSET StoredMessage,   \* what its transaction is to delete
   attached: BOOLEAN]        \* the file belongs to that

FileState ==
  [pc: {"none", "put", "stored", "refused"},
   object: BOOLEAN,          \* it is in the object store
   row: BOOLEAN,
   link: Exchange \union {0},    \* the question it is linked to
   indexing: {"no", "upload", "admin"},
   chunks: BOOLEAN,          \* its chunks are found
   torn: BOOLEAN]            \* history: its object went, and the transaction failed

NoRequest == [pc |-> "idle", kind |-> "delete", doomed |-> {}, attached |-> FALSE]

ConversationInit ==
  /\ second \in 0 .. MaxSecond /\ session = TRUE
  /\ messages = {} /\ rated = {}
  /\ \E pc \in {"none", "refused"} :
       file = [pc |-> pc, object |-> FALSE, row |-> FALSE, link |-> 0,
               indexing |-> "no", chunks |-> FALSE, torn |-> FALSE]
  /\ exchange = [t \in Exchange |-> [pc |-> "idle", stream |-> TRUE, files |-> FALSE,
                                     chosen |-> {}, same |-> FALSE, disturbed |-> FALSE]]
  /\ request = [r \in Requests |-> NoRequest]

Idle == {t \in Exchange : exchange[t].pc = "idle"}
Active == {t \in Exchange : exchange[t].pc \notin {"idle", "over"}}
Open == {r \in Requests : request[r].pc \in {"held", "removed"}}

Tick ==
  /\ second < MaxSecond /\ second' = second + 1
  /\ UNCHANGED <<session, messages, rated, file, exchange, request>>

------------------------------------------------------------------------------
(* Turns.                                                                   *)

\* The next turn, as it begins.
Begun(turns, stream, files) ==
  LET waiting == {n \in Exchange : turns[n].pc = "idle"}
      t == CHOOSE n \in waiting : \A k \in waiting : n <= k
  IN [turns EXCEPT ![t].pc = IF stream THEN "asking" ELSE "reading",
                   ![t].stream = stream, ![t].files = files]

\* send_message.
Send(stream, files) ==
  /\ session /\ Idle # {} /\ (files => file.row)
  /\ exchange' = Begun(exchange, stream, files)
  /\ UNCHANGED <<second, session, messages, rated, file, request>>

\* The turn goes on; what it knew is forgotten when it is over.
At(t, pc) ==
  [exchange[t] EXCEPT !.pc = pc, !.chosen = {},
                      !.stream = @ \/ pc = "over", !.files = @ /\ pc # "over"]
Go(t, from, to) == exchange[t].pc = from /\ exchange' = [exchange EXCEPT ![t] = At(t, to)]

\* _persist_user_message: a stream stores the question first.
Ask(t) ==
  /\ Go(t, "asking", "linking")
  /\ session
  /\ messages' = messages \union {New(t, "user")}
  /\ UNCHANGED <<second, session, rated, file, request>>

\* link_uploads_to_message, of a file that is linked to nothing; to a question that
\* was deleted it fails.
Link(t) ==
  LET links == exchange[t].files /\ file.row /\ file.link = 0 IN
  /\ Go(t, "linking", IF exchange[t].stream THEN "reading" ELSE "over")
  /\ links => Questions(t) # {}
  /\ file' = IF links THEN [file EXCEPT !.link = t] ELSE file
  /\ UNCHANGED <<second, session, messages, rated, request>>

\* The context is short enough.
ShortEnough(t) ==
  /\ Go(t, "reading", "answering")
  /\ UNCHANGED <<second, session, messages, rated, file, request>>

\* What can be summarized: all before the last Keep questions, or simply all when
\* there are fewer; messages of one second come in any order.
Summarizable ==
  LET open == {m \in messages : m.summarized = 0}
      asks == {m \in open : m.sender = "user"}
  IN IF Cardinality(asks) < KeepPairs THEN {open}
     ELSE {c \in SUBSET open :
             /\ Cardinality(asks \ c) = KeepPairs
             /\ \E first \in asks \ c : \A m \in open :
                  (m.at < first.at => m \in c) /\ (m.at > first.at => m \notin c)}

\* _generate_summary is called with the messages of a snapshot.
Summarize(t) ==
  /\ exchange[t].pc = "reading"
  /\ \E c \in Summarizable \ {{}} :
       exchange' = [exchange EXCEPT ![t].pc = "thinking", ![t].chosen = c]
  /\ UNCHANGED <<second, session, messages, rated, file, request>>

\* It has failed: the turn goes on without.
SummaryFails(t) ==
  /\ Go(t, "thinking", "answering")
  /\ UNCHANGED <<second, session, messages, rated, file, request>>

\* A plausible bug: the rows are merged into the session again, whatever became of them.
Merged(t) == TRUE

\* An UPDATE of the rows as they were read: one that is gone or changed fails.
Unchanged(t) == exchange[t].chosen \subseteq messages

\* The messages are marked, and committed; the summary is yet to be stored.
Mark(t) ==
  /\ Go(t, "thinking", "marked")
  /\ Unchanged(t)
  /\ messages' = (messages \ exchange[t].chosen)
                   \union {[m EXCEPT !.summarized = t] : m \in exchange[t].chosen}
  /\ UNCHANGED <<second, session, rated, file, request>>

\* _persist_system_message.
StoreSummary(t) ==
  /\ Go(t, "marked", "answering")
  /\ session
  /\ messages' = messages \union {New(t, "summary")}
  /\ UNCHANGED <<second, session, rated, file, request>>

\* _persist_assistant_message of a stream; _persist_messages of a plain turn stores
\* the question with the answer, and links the file after them.
Answer(t) ==
  LET stored == {New(t, "answer")} \union IF exchange[t].stream THEN {} ELSE {New(t, "user")} IN
  /\ exchange[t].pc = "answering" /\ session
  /\ messages' = messages \union stored
  /\ exchange' = [exchange EXCEPT ![t] =
       [At(t, IF exchange[t].stream THEN "over" ELSE "linking") EXCEPT
          !.same = ~exchange[t].stream \/ \E q \in Questions(t) : q.at = second,
          !.disturbed = @ \/ Open # {}]]
  /\ UNCHANGED <<second, session, rated, file, request>>

\* An error, a cancelled request, the end of the process, or no answer.
Stop(t) ==
  /\ t \in Active
  /\ exchange' = [exchange EXCEPT ![t] = At(t, "over")]
  /\ UNCHANGED <<second, session, messages, rated, file, request>>

\* submit_feedback.
Rate(t) ==
  /\ Answers(t) # {} /\ rated' = rated \union {t}
  /\ UNCHANGED <<second, session, messages, file, exchange, request>>

------------------------------------------------------------------------------
(* The file.                                                                *)

\* create_upload puts the object, then stores the row, and starts the indexing of a
\* file with text; nobody waits for that.
PutObject ==
  /\ session /\ file.pc = "none"
  /\ file' = [file EXCEPT !.pc = "put", !.object = TRUE]
  /\ UNCHANGED <<second, session, messages, rated, exchange, request>>

StoreFile(text) ==
  /\ session /\ file.pc = "put"
  /\ file' = [file EXCEPT !.pc = "stored", !.row = TRUE,
                          !.indexing = IF text THEN "upload" ELSE "no"]
  /\ UNCHANGED <<second, session, messages, rated, exchange, request>>

\* The row is not stored; the object stays.
UploadFails ==
  /\ file.pc = "put"
  /\ file' = [file EXCEPT !.pc = "refused"]
  /\ UNCHANGED <<second, session, messages, rated, exchange, request>>

\* An admin has the file indexed again, or its chunks deleted.
Reindex ==
  /\ file.row /\ file.indexing = "no"
  /\ file' = [file EXCEPT !.indexing = "admin"]
  /\ UNCHANGED <<second, session, messages, rated, exchange, request>>

DropChunks ==
  /\ file.row
  /\ file' = [file EXCEPT !.chunks = FALSE]
  /\ UNCHANGED <<second, session, messages, rated, exchange, request>>

\* index_document replaces the chunks in one transaction; they refer to the row.
Index ==
  /\ file.indexing # "no" /\ file.row
  /\ file' = [file EXCEPT !.indexing = "no", !.chunks = TRUE]
  /\ UNCHANGED <<second, session, messages, rated, exchange, request>>

\* It fails; when there is no embedding, the admin's audit entry commits what has
\* happened so far, that the old chunks are deleted.
IndexFails ==
  /\ file.indexing # "no"
  /\ file' \in {[file EXCEPT !.indexing = "no", !.chunks = c] :
                  c \in {file.chunks} \union IF file.indexing = "admin" THEN {FALSE} ELSE {}}
  /\ UNCHANGED <<second, session, messages, rated, exchange, request>>

------------------------------------------------------------------------------
(* Requests.                                                                *)

\* A plausible bug: what was summarized is not shown, and not truncated.
LaterShown(m) == {n \in messages : n.at > m.at /\ n.summarized = 0}

\* _truncate_after_message.
Later(m) == {n \in messages : n.at > m.at}

\* A plausible bug: only the files of messages are looked for.
AttachedToMessage(kind, doomed) ==
  file.row /\ \E m \in doomed : m.sender = "user" /\ m.turn = file.link

\* The file belongs to one of the doomed messages, or to the session.
Attached(kind, doomed) ==
  /\ file.row
  /\ \/ kind \in {"upload", "session", "purge"}
     \/ \E m \in doomed : m.sender = "user" /\ m.turn = file.link

Hold(r, kind, doomed) ==
  /\ request[r].pc = "idle" /\ session
  /\ request' = [request EXCEPT ![r] =
       [pc |-> "held", kind |-> kind, doomed |-> doomed,
        attached |-> Attached(kind, doomed)]]

\* delete_message, edit_user_message of a question, update_assistant_message of an answer.
Truncate(r, m) ==
  /\ \/ Hold(r, "delete", Later(m) \union {m})
     \/ m.sender = "user" /\ Hold(r, "edit", Later(m) \union {m})
     \/ m.sender = "answer" /\ Hold(r, "patch", Later(m))
  /\ UNCHANGED <<second, session, messages, rated, file, exchange>>

\* regenerate_assistant_message, of the last message; messages of one second come
\* in any order, but always the same.
Newest(among) == {m \in among : \A n \in among : n.at <= m.at}

Regenerate(r, m) ==
  /\ m.sender = "answer" /\ m \in Newest(messages)
  /\ \E prev \in Newest(messages \ {m}) :
       prev.sender = "user" /\ Hold(r, "regenerate", {m, prev})
  /\ UNCHANGED <<second, session, messages, rated, file, exchange>>

\* "Cannot regenerate": what comes before is no question.
RefuseRegenerate(r, m) ==
  /\ request[r].pc = "idle" /\ session
  /\ m.sender = "answer" /\ m \in Newest(messages)
  /\ \A prev \in Newest(messages \ {m}) : prev.sender # "user"
  /\ request' = [request EXCEPT ![r].pc = "refused"]
  /\ UNCHANGED <<second, session, messages, rated, file, exchange>>

\* delete_upload: the chunks go first, and are committed, unless that fails.
DeleteUpload(r) ==
  /\ file.row
  /\ Hold(r, "upload", {})
  /\ file' \in {file, [file EXCEPT !.chunks = FALSE]}
  /\ UNCHANGED <<second, session, messages, rated, exchange>>

\* delete_session; _purge_empty_sessions, of every request for the list of sessions.
DeleteSession(r) ==
  /\ \/ Hold(r, "session", messages)
     \/ messages = {} /\ Hold(r, "purge", {})
  /\ UNCHANGED <<second, session, messages, rated, file, exchange>>

\* A plausible bug: a regeneration deletes the files of the question too.
AllObjectsGo(kind) == TRUE

\* A regeneration keeps the files of the question.
ObjectsGo(kind) == kind # "regenerate"

Removes(r) == request[r].attached /\ ObjectsGo(request[r].kind)

\* delete_object, before the rows are deleted: when it fails, delete_upload gives
\* up, and the others go on.
RemoveObject(r) ==
  /\ request[r].pc = "held" /\ Removes(r)
  /\ file' \in {[file EXCEPT !.object = FALSE]}
                 \union IF request[r].kind = "upload" THEN {} ELSE {file}
  /\ request' = [request EXCEPT ![r].pc = "removed"]
  /\ UNCHANGED <<second, session, messages, rated, exchange>>

\* The rows are as they were read, and nothing refers to what is deleted.
Committable(r) ==
  LET q == request[r] IN
  /\ q.pc = IF Removes(r) THEN "removed" ELSE "held"
  /\ q.doomed \subseteq messages
  /\ Attached(q.kind, q.doomed) => q.attached
  /\ q.kind \in {"session", "purge"} => session /\ messages = q.doomed
  /\ q.kind = "regenerate" => \A m \in q.doomed : m.sender = "answer" => m.turn \notin rated

\* The file after the commit: its row is deleted, or it is unlinked.  Its chunks
\* stay, without a file.
Released(r) ==
  IF ~Attached(request[r].kind, request[r].doomed) THEN file
  ELSE IF request[r].kind = "regenerate" THEN [file EXCEPT !.link = 0]
  ELSE [file EXCEPT !.row = FALSE, !.link = 0]

\* An edit and a regeneration go on with a new turn, unless the process ends first.
Commit(r) ==
  LET q == request[r]
      left == [t \in Exchange |-> [exchange[t] EXCEPT !.disturbed = @ \/ t \in Active]]
  IN /\ Committable(r)
     /\ messages' = messages \ q.doomed
     /\ rated' = rated \ {m.turn : m \in {n \in q.doomed : n.sender = "answer"}}
     /\ session' = (session /\ q.kind \notin {"session", "purge"})
     /\ file' = Released(r)
     /\ request' = [request EXCEPT ![r] = [NoRequest EXCEPT !.pc = "done"]]
     /\ \/ exchange' = left
        \/ /\ q.kind \in {"edit", "regenerate"} /\ Idle # {}
           /\ \E stream \in BOOLEAN, files \in BOOLEAN :
                /\ q.kind = "regenerate" => files = q.attached
                /\ q.kind = "edit" /\ files => stream /\ file'.row
                /\ exchange' = Begun(left, stream, files)
     /\ UNCHANGED second

\* The transaction fails, or its request is cancelled: it may be tried again.
Rollback(r) ==
  /\ r \in Open
  /\ request' = [request EXCEPT ![r] = NoRequest]
  /\ file' = [file EXCEPT !.torn = @ \/ request[r].pc = "removed"]
  /\ UNCHANGED <<second, session, messages, rated, exchange>>

ConversationNext ==
  \/ Tick
  \/ \E stream \in BOOLEAN, files \in BOOLEAN : Send(stream, files)
  \/ \E t \in Exchange :
       \/ Ask(t) \/ Link(t) \/ ShortEnough(t) \/ Summarize(t) \/ SummaryFails(t) \/ Mark(t)
       \/ StoreSummary(t) \/ Answer(t) \/ Stop(t) \/ Rate(t)
  \/ PutObject \/ UploadFails \/ Reindex \/ DropChunks \/ Index \/ IndexFails
  \/ \E text \in BOOLEAN : StoreFile(text)
  \/ \E r \in Requests :
       \/ \E m \in messages : Truncate(r, m) \/ Regenerate(r, m) \/ RefuseRegenerate(r, m)
       \/ DeleteUpload(r) \/ DeleteSession(r)
       \/ RemoveObject(r) \/ Commit(r) \/ Rollback(r)

ConversationSpec == ConversationInit /\ [][ConversationNext]_conversationVars

------------------------------------------------------------------------------
(* Correctness.                                                             *)

\* Everything has its type, a turn has one message of a kind, and nothing is in a
\* session that is gone.
ConversationTypeOK ==
  /\ second \in 0 .. MaxSecond /\ session \in BOOLEAN
  /\ messages \subseteq StoredMessage
  /\ \A m, n \in messages : m.turn = n.turn /\ m.sender = n.sender => m = n
  /\ rated \subseteq {m.turn : m \in {n \in messages : n.sender = "answer"}}
  /\ file \in FileState /\ exchange \in [Exchange -> ExchangeState]
  /\ request \in [Requests -> RequestState]
  /\ file.row \/ file.chunks => file.pc = "stored"
  /\ ~session => messages = {} /\ ~file.row

\* What a turn that is not over may yet store.
Unasked(t) ==
  \/ exchange[t].pc \in {"idle", "asking"}
  \/ ~exchange[t].stream /\ exchange[t].pc \in {"reading", "thinking", "marked", "answering"}

Unsummed(t) ==
  \/ exchange[t].pc \in {"idle", "asking", "reading", "thinking", "marked"}
  \/ exchange[t].stream /\ exchange[t].pc = "linking"

Unanswered(t) ==
  \/ exchange[t].pc \in {"idle", "asking", "reading", "thinking", "marked", "answering"}
  \/ exchange[t].stream /\ exchange[t].pc = "linking"

Outstanding ==
  {k \in Exchange \X Senders :
     /\ k[2] = "user" => Unasked(k[1])
     /\ k[2] = "summary" => Unsummed(k[1])
     /\ k[2] = "answer" => Unanswered(k[1])}

\* However turns, summaries and requests overlap, the messages are a transcript: one
\* that a request has deleted while a summary of it was written does not come back, nor
\* is a message in two summaries, and what is stored is stored once and at the end.
Promised == INSTANCE Transcript WITH
  Turns <- Exchange, alive <- session, shown <- messages, due <- Outstanding

KeepsTranscript == Promised!Spec

\* "The conversation stays linear": whatever is deleted, edited and regenerated, an
\* answer has its question before it, but for a turn that a request overtook, and
\* for one whose question and answer are of one second.
AnswersHaveQuestions ==
  \A m \in messages : m.sender = "answer" =>
    \/ \E q \in Questions(m.turn) : q.at <= m.at
    \/ exchange[m.turn].disturbed \/ exchange[m.turn].same

\* A file that is listed can be fetched, unless a request that removes it is about
\* to commit, or has removed its object and failed.
FilesAreThere ==
  file.row => file.object \/ file.torn \/ \E r \in Open : request[r].pc = "removed"
==============================================================================
