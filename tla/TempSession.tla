----------------------------- MODULE TempSession -----------------------------
(***************************************************************************)
(* A temporary session: a blob in Redis, and beside it the list of its     *)
(* messages, which is always read, changed in the process and written back *)
(* (core/redis.py).  Turns append to it and summarize it                   *)
(* (agents/runner.py), requests summarize, rename, finalize, promote and   *)
(* delete it (api/chat.py), and both keys expire.                          *)
(***************************************************************************)
EXTENDS Naturals, SequencesExt

CONSTANTS
  Writers,      \* turns and requests, each with the messages it writes
  Keep,         \* KEEP_RECENT_PAIRS: user messages that stay out of a summary
  MinList       \* the least number of messages that a request summarizes

ASSUME TempAssumption == Keep \in Nat \ {0} /\ MinList \in Nat

VARIABLES
  blob,     \* the session's key exists
  row,      \* a permanent session with its id exists
  list,     \* the messages in Redis
  saved,    \* the ids of the messages of the permanent session
  writer,   \* the turns and requests
  written,  \* history: ids of the messages that were appended
  exposed,  \* history: ids that somebody's write may have left out
  gone,     \* history: ids that were deleted, or expired
  ghosts    \* history: ids that somebody could still bring back when they went

tempVars == <<blob, row, list, saved, writer, written, exposed, gone, ghosts>>
traces == <<written, exposed, gone, ghosts>>

Identifier == Writers \X {"user", "answer", "summary"}
Message == [id: Identifier, summarized: BOOLEAN]
Ids(messages) == {m.id : m \in Range(messages)}

\* What each kind does, in its order: a stream persists the user's message before
\* it summarizes, a plain turn after its run.
Plan(kind) ==
  CASE kind = "stream"    -> <<"user", "fold", "answer">>
    [] kind = "plain"     -> <<"fold", "user", "answer">>
    [] kind = "summarize" -> <<"fold">>
    [] kind = "finalize"  -> <<"move", "wipe">>
    [] kind = "upload"    -> <<"move", "wipe", "commit">>
    [] kind = "rename"    -> <<"title">>

Tasks == {"user", "fold", "summary", "answer", "move", "wipe", "commit", "title"}
Kinds == {"stream", "plain", "summarize", "finalize", "upload", "rename"}

WriterState ==
  [todo: Seq(Tasks),
   asked: BOOLEAN,             \* a request to summarize
   step: {"new", "ready", "open", "thinking"},
   copy: Seq(Message),         \* the list as it was read
   chosen: SUBSET Identifier,  \* messages_to_summarize
   moved: SUBSET Identifier]   \* the messages that an upload has taken along

Absent == [todo |-> <<>>, asked |-> FALSE, step |-> "new", copy |-> <<>>, chosen |-> {}, moved |-> {}]

TempInit ==
  /\ blob = TRUE /\ row = FALSE
  /\ list = <<>> /\ saved = {}
  /\ writer = [w \in Writers |-> Absent]
  /\ written = {} /\ exposed = {} /\ gone = {} /\ ghosts = {}

------------------------------------------------------------------------------
\* The permanent session is looked for first.
Temporary == blob /\ ~row

Start(w, kind) ==
  /\ writer[w].step = "new" /\ Temporary
  /\ writer' = [writer EXCEPT ![w].todo = Plan(kind), ![w].step = "ready",
                              ![w].asked = (kind = "summarize")]
  /\ UNCHANGED <<blob, row, list, saved, traces>>

Ready(w, tasks) ==
  writer[w].todo # <<>> /\ Head(writer[w].todo) \in tasks /\ writer[w].step = "ready"

\* Those whose copy of the list is going to be written somewhere.
Windows == {w \in Writers : writer[w].step = "open" /\ Head(writer[w].todo) # "title"}

\* Those whose transaction has the messages, and is not committed.
Uploads == {w \in Writers : writer[w].moved # {} /\ writer[w].todo # <<>>}
Pending == UNION {writer[w].moved : w \in Uploads}

Opened == (UNION {Ids(writer[w].copy) : w \in Windows}) \union Pending

\* The record of a writer whose task is done.
Done(w) == [writer[w] EXCEPT !.todo = Tail(@), !.step = "ready", !.copy = <<>>]

Appends == {"user", "answer", "summary"}

\* append_temp_message, and finalize_temp_session: the list is read; a rename
\* reads the session.
ReadList(w) ==
  /\ Ready(w, Appends \union {"move", "title"})
  /\ writer' = [writer EXCEPT ![w].step = "open", ![w].copy = list]
  /\ UNCHANGED <<blob, row, list, saved, traces>>

\* append_temp_message: the list is written.
Store(w) ==
  LET id == <<w, Head(writer[w].todo)>> IN
  /\ writer[w].step = "open" /\ Head(writer[w].todo) \in Appends
  /\ list' = Append(writer[w].copy, [id |-> id, summarized |-> FALSE])
  /\ writer' = [writer EXCEPT ![w] = Done(w)]
  /\ written' = written \union {id}
  /\ exposed' = IF Temporary /\ Windows \subseteq {w} THEN exposed ELSE exposed \union {id}
  /\ UNCHANGED <<blob, row, saved, gone, ghosts>>

------------------------------------------------------------------------------
(* Summaries.                                                               *)

\* Everything before the last Keep messages of the user, and simply everything
\* when there are fewer.
ToSummarize(messages) ==
  LET open == {i \in DOMAIN messages : ~messages[i].summarized}
      asks == {i \in open : messages[i].id[2] = "user"}
      before == {i \in open : Cardinality({k \in asks : k > i}) >= Keep}
  IN {messages[i].id : i \in IF Cardinality(asks) < Keep THEN open ELSE before}

\* The context is short enough, or there is nothing to summarize.
Skip(w) ==
  /\ Ready(w, {"fold"})
  /\ writer' = [writer EXCEPT ![w] = Done(w)]
  /\ UNCHANGED <<blob, row, list, saved, traces>>

\* _generate_summary is called with what is to be summarized.
Think(w) ==
  /\ Ready(w, {"fold"})
  /\ writer[w].asked => Len(list) >= MinList
  /\ ToSummarize(list) # {}
  /\ writer' = [writer EXCEPT ![w].step = "thinking", ![w].copy = list, ![w].chosen = ToSummarize(list)]
  /\ UNCHANGED <<blob, row, list, saved, traces>>

\* It has failed: a turn goes on without.
NoSummary(w) ==
  /\ writer[w].step = "thinking"
  /\ writer' = [writer EXCEPT ![w] = [Done(w) EXCEPT !.chosen = {}]]
  /\ UNCHANGED <<blob, row, list, saved, traces>>

\* A plausible bug: the messages from before the call are marked and stored.
RereadNot(w) == writer[w].copy

\* The messages are read again.
Reread(w) == list

Collect(w) ==
  /\ writer[w].step = "thinking"
  /\ writer' = [writer EXCEPT ![w].step = "open", ![w].copy = Reread(w)]
  /\ UNCHANGED <<blob, row, list, saved, traces>>

\* A plausible bug: all that is there is marked.
MarkedAll(w) == Ids(writer[w].copy)

Marked(w) == writer[w].chosen

\* They are marked and stored; the summary itself is yet to be appended.
MarkMessages(w) ==
  /\ writer[w].step = "open" /\ Head(writer[w].todo) = "fold"
  /\ list' = [i \in DOMAIN writer[w].copy |->
       [writer[w].copy[i] EXCEPT !.summarized = @ \/ writer[w].copy[i].id \in Marked(w)]]
  /\ writer' = [writer EXCEPT ![w].todo = <<"summary">> \o Tail(@), ![w].step = "ready", ![w].copy = <<>>]
  /\ UNCHANGED <<blob, row, saved, traces>>

------------------------------------------------------------------------------
(* The session.                                                             *)

\* store_temp_session after get_temp_session, of a title, a model or settings:
\* it brings a blob back that was deleted in between.
Rename(w) ==
  /\ writer[w].step = "open" /\ Head(writer[w].todo) = "title"
  /\ blob' = TRUE
  /\ writer' = [writer EXCEPT ![w] = Done(w)]
  /\ UNCHANGED <<row, list, saved, traces>>

Moves(w) == writer[w].step = "open" /\ Head(writer[w].todo) = "move"
IsUpload(w) == Len(writer[w].todo) = 3

\* finalize_session: the copied messages become those of the permanent session,
\* without their marks; two sessions cannot have one id.
Migrate(w) ==
  /\ Moves(w) /\ ~IsUpload(w) /\ ~row
  /\ row' = TRUE /\ saved' = Ids(writer[w].copy)
  /\ writer' = [writer EXCEPT ![w].todo = Tail(@), ![w].copy = <<>>]
  /\ UNCHANGED <<blob, list, traces>>

\* The promotion of an upload: _lazy_create_session commits the permanent session,
\* and the messages are added to the next transaction, which locks its row.
Adopt(w) ==
  /\ Moves(w) /\ IsUpload(w) /\ ~row
  /\ row' = TRUE /\ saved' = {}
  /\ writer' = [writer EXCEPT ![w].todo = Tail(@), ![w].copy = <<>>, ![w].moved = Ids(writer[w].copy)]
  /\ UNCHANGED <<blob, list, traces>>

\* create_upload commits them with the file.
CommitUpload(w) ==
  /\ writer[w].todo = <<"commit">>
  /\ saved' = saved \union writer[w].moved
  /\ writer' = [writer EXCEPT ![w] = Done(w)]
  /\ UNCHANGED <<blob, row, list, traces>>

\* It refuses the file, or its database deadlocks: the transaction is given up.
RefuseUpload(w) ==
  /\ writer[w].todo = <<"commit">>
  /\ writer' = [writer EXCEPT ![w] = Done(w)]
  /\ exposed' = exposed \union writer[w].moved
  /\ UNCHANGED <<blob, row, list, saved, written, gone, ghosts>>

\* A plausible bug: only the key of the session is deleted.
WipedBlob == list

\* delete_temp_session deletes both keys.
Wiped == <<>>

Wipe(w) ==
  /\ writer[w].todo # <<>> /\ Head(writer[w].todo) = "wipe"
  /\ blob' = FALSE /\ list' = Wiped
  /\ writer' = [writer EXCEPT ![w] = Done(w)]
  /\ UNCHANGED <<row, saved, traces>>

\* send_message with session_data creates the permanent session and deletes the
\* temporary one; its messages are not copied.
Promote ==
  /\ Temporary
  /\ row' = TRUE /\ saved' = {}
  /\ blob' = FALSE /\ list' = Wiped
  /\ exposed' = exposed \union Ids(list)
  /\ UNCHANGED <<writer, written, gone, ghosts>>

\* delete_session of a temporary session.
Delete ==
  /\ Temporary
  /\ blob' = FALSE /\ list' = Wiped
  /\ gone' = gone \union Ids(list)
  /\ ghosts' = ghosts \union Opened
  /\ UNCHANGED <<row, saved, writer, written, exposed>>

\* delete_session of a permanent one looks for nothing in Redis.
DeletePermanent ==
  /\ row /\ Uploads = {}
  /\ row' = FALSE /\ saved' = {}
  /\ gone' = gone \union saved
  /\ ghosts' = ghosts \union Opened \union Ids(list)
  /\ UNCHANGED <<blob, list, writer, written, exposed>>

\* The list expires: with its session, before it when only the session was
\* stored again since, and alone when that has been deleted.
Expire ==
  /\ list # <<>> /\ list' = <<>>
  /\ blob' \in {blob, FALSE}
  /\ gone' = gone \union (Ids(list) \ saved)
  /\ ghosts' = ghosts \union Opened
  /\ UNCHANGED <<row, saved, writer, written, exposed>>

\* An error, a cancelled request or the end of the process.
Fail(w) ==
  /\ writer[w].todo # <<>>
  /\ writer' = [writer EXCEPT ![w].todo = <<>>, ![w].step = "ready", ![w].copy = <<>>, ![w].moved = {}]
  /\ exposed' = exposed \union writer[w].moved
  /\ UNCHANGED <<blob, row, list, saved, written, gone, ghosts>>

TempNext ==
  \/ \E w \in Writers :
       \/ \E kind \in Kinds : Start(w, kind)
       \/ ReadList(w) \/ Store(w)
       \/ Skip(w) \/ Think(w) \/ NoSummary(w) \/ Collect(w) \/ MarkMessages(w)
       \/ Rename(w) \/ Migrate(w) \/ Wipe(w) \/ Fail(w)
       \/ Adopt(w) \/ CommitUpload(w) \/ RefuseUpload(w)
  \/ Promote \/ Delete \/ DeletePermanent \/ Expire

TempSpec == TempInit /\ [][TempNext]_tempVars

------------------------------------------------------------------------------
(* Correctness.                                                             *)

\* The messages of the session as its user sees it.
Shown == IF row THEN saved ELSE Ids(list)

\* Everything has its type, and no message is twice in the list.
TempTypeOK ==
  /\ blob \in BOOLEAN /\ row \in BOOLEAN
  /\ list \in Seq(Message) /\ IsInjective(list)
  /\ saved \subseteq Identifier
  /\ writer \in [Writers -> WriterState]
  /\ written \subseteq Identifier /\ exposed \subseteq written
  /\ gone \subseteq written /\ ghosts \subseteq written

\* "Atomically append": a message that was appended stays, unless it was deleted,
\* expired, or appended while somebody else was between the read and the write of
\* the list, or taken along by an upload that failed.  A summary, whose model call
\* takes seconds, is no such window.
MessagesKept == written \subseteq Shown \union Pending \union gone \union exposed

\* "Must migrate them to MariaDB or they are lost with the Redis keys" (api/chat.py,
\* of an upload to a temporary session): once the request is answered the messages
\* that it took along are in the permanent session, or deleted with it.  They are
\* not when create_upload refuses the file: their transaction is given up, and the
\* keys are deleted before.
UploadKeepsMessages ==
  \A w \in Writers : writer[w].todo = <<>> => writer[w].moved \subseteq Shown \union gone

\* A message that is marked as summarized, and so left out of the context, is in
\* the content of a summary; that summary is stored, about to be, or lost with a
\* writer that stopped or with a write that was left out.
MarkedIsSummarized ==
  \A m \in Range(list) : m.summarized =>
    \E w \in Writers : m.id \in writer[w].chosen /\
      \/ <<w, "summary">> \in Ids(list) \union gone \union exposed
      \/ writer[w].todo = <<>> /\ <<w, "summary">> \notin written
      \/ writer[w].todo # <<>> /\ Head(writer[w].todo) = "summary"

\* What was deleted is not shown again, but for what somebody held in hand when
\* it was deleted, or what a finalized session had left in Redis.
DeletedStayDeleted == Shown \intersect gone \subseteq ghosts
==============================================================================
