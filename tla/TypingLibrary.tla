---------------------------- MODULE TypingLibrary ----------------------------
(***************************************************************************)
(* The practice sessions of the FM domain service (src/fm-domain/app.py)   *)
(* of one person in one chat: an article, single characters, a contest     *)
(* text, each a row of its own; the segments that were numbered, the       *)
(* scores that use them up, and the bot, which posts a segment, tells the  *)
(* service its message and recalls messages.                               *)
(*                                                                         *)
(* Requests are served by threads with a connection each.  A step is a     *)
(* read before the first write of a request, or a transaction: SQLite      *)
(* opens one at the first write and locks out the other writers until it   *)
(* is committed.                                                           *)
(***************************************************************************)
EXTENDS Naturals, Sequences, SequencesExt, TLC

CONSTANTS
  Requests,   \* requests; a message that is posted has the name of its request
  NoMessage,  \* NULL: no message
  Operations, \* what the requests ask for
  Parts       \* segments of an article, or of a set of characters

Kinds == {"article", "single", "contest"}

TypingLibraryAssumption ==
  /\ NoMessage \notin Requests /\ Parts \in Nat \ {0}
  /\ Operations \subseteq {"start", "continue", "same", "previous", "score", "single", "contest", "stop"}

VARIABLES
  row,        \* library_sessions, single_sessions, contest_sessions: the text, how much of it was sent, the last message
  order,      \* the kinds by updated_at: pairs of an earlier one and a later one
  aged,       \* the kinds not updated for LIBRARY_SESSION_IDLE_SECONDS
  previous,   \* library_previous_sessions: a text and how much of it was sent, or NoText
  segments,   \* library_segment_sessions: the kind of each numbered segment
  open,       \* the segments that are not consumed
  numbered,   \* library_segment_ids: the kinds that took numbers
  texts,      \* texts begun; a text is known by when it was begun
  req,        \* requests
  posts,      \* messages in the order they were posted
  stale       \* ghost: requests that recall a message other than the last one acknowledged

tables == <<row, order, aged, previous, segments, open, numbered, texts>>
vars   == <<tables, req, posts, stale>>

NoText == [text |-> 0, sent |-> 0]

Init ==
  /\ row = [k \in Kinds |-> [status |-> "none", text |-> 0, sent |-> 0, last |-> NoMessage]]
  /\ order = {<<"article", "single">>, <<"article", "contest">>, <<"single", "contest">>} /\ aged = {} /\ previous = NoText
  /\ segments = <<>> /\ open = {} /\ numbered = {} /\ texts = 0
  /\ req = [r \in Requests |-> [op |-> "none", pc |-> "idle", kind |-> "article", text |-> 0, sent |-> 0, segment |-> 0,
                                uses |-> 0, recall |-> NoMessage]]
  /\ posts = <<>> /\ stale = {}

Active(k) == row[k].status = "active"
At(r, pc) == req[r].pc = pc
Over(r)   == req[r].pc \in {"idle", "done", "failed"}

\* A request of this operation begins.
Begin(r, op) == At(r, "idle") /\ op \in Operations

\* It goes on, with what it has read of a text, or with a segment.
Go(r, pc)               == req' = [req EXCEPT ![r].pc = pc]
GoWith(r, op, k, pc, t) == req' = [req EXCEPT ![r] = [@ EXCEPT !.op = op, !.kind = k, !.pc = pc, !.text = t.text, !.sent = t.sent]]
Answer(r, op, k, pc, t) ==
  req' = [req EXCEPT ![r] = [@ EXCEPT !.op = op, !.kind = k, !.pc = pc, !.text = t.text, !.sent = t.sent, !.segment = Len(segments) + 1]]

Of(x) == [text |-> x.text, sent |-> x.sent]

Reads == UNCHANGED <<tables, posts, stale>>

\* The text of a session goes on.
More(k) == row[k].sent < Parts

\* A row is updated: updated_at is now.
Touch(k) == order' = {p \in order : p[1] # k} \cup {<<j, k>> : j \in Kinds \ {k}} /\ aged' = aged \ {k}

\* Mutant: the segment is not entered.
MutEntered(k) == {s \in open : segments[s] # k}

\* A segment gets a number: every open one of the session is consumed.
Opened(k) == {s \in open : segments[s] # k} \cup {Len(segments) + 1}
Number(k) == segments' = Append(segments, k) /\ open' = Opened(k) /\ numbered' = numbered \cup {k}

\* A session of another kind is stopped.
Stopped(k) == IF Active(k) THEN [row[k] EXCEPT !.status = "stopped"] ELSE row[k]

New(t)  == [status |-> "active", text |-> t, sent |-> 1, last |-> NoMessage]
Begun(t) == [text |-> t, sent |-> 1]
------------------------------------------------------------------------------
(* Articles.                                                               *)

Start(r) == Begin(r, "start") /\ GoWith(r, "start", "article", "saves", NoText) /\ Reads

\* The next article instead of the next segment; without a session the answer is "idle".
Continue(r) ==
  /\ Begin(r, "continue") /\ GoWith(r, "continue", "article", IF Active("article") THEN "saves" ELSE "done", NoText) /\ Reads

\* save_previous_library_session reads the row; no text may be found before.
ReadSaved(r) ==
  /\ At(r, "saves") /\ Reads
  /\ \/ GoWith(r, req[r].op, "article", "opens", IF Active("article") THEN Of(row["article"]) ELSE NoText)
     \/ Go(r, "done")

\* The first transaction of start_library_session: what was read is saved.
OpenArticle(r) ==
  /\ At(r, "opens")
  /\ previous' = IF req[r].text = 0 THEN previous ELSE Of(req[r])
  /\ row' = [row EXCEPT !["article"] = New(texts + 1), !["single"] = Stopped("single")]
  /\ Touch("article") /\ texts' = texts + 1
  /\ GoWith(r, req[r].op, "article", "numbers", Begun(texts + 1))
  /\ UNCHANGED <<segments, open, numbered, posts, stale>>

\* The second one: format_library_segment.
NumberArticle(r) ==
  /\ At(r, "numbers") /\ Number("article") /\ Answer(r, req[r].op, "article", "sends", Of(req[r]))
  /\ UNCHANGED <<row, order, aged, previous, texts, posts, stale>>

\* continue_same_library_session reads the row.
Same(r) ==
  /\ Begin(r, "same") /\ Reads
  /\ GoWith(r, "same", "article", IF Active("article") /\ More("article") THEN "cuts" ELSE "done", Of(row["article"]))

\* The next segment of the text that was read: the offset is written whatever the
\* row has become.
Cut(r) ==
  /\ At(r, "cuts")
  /\ row' = [row EXCEPT !["article"].sent = req[r].sent + 1] /\ Touch("article") /\ Number("article")
  /\ Answer(r, req[r].op, "article", IF req[r].recall # NoMessage THEN "recalls" ELSE "sends",
            [text |-> req[r].text, sent |-> req[r].sent + 1])
  /\ UNCHANGED <<previous, texts, posts, stale>>

\* continue_previous_library_session reads both rows.
Previous(r) ==
  /\ Begin(r, "previous") /\ Reads
  /\ IF Active("article") /\ previous # NoText /\ previous.sent < Parts
       THEN req' = [req EXCEPT ![r] = [@ EXCEPT !.op = "previous", !.kind = "article", !.pc = "restores", !.text = previous.text, !.sent = previous.sent,
                                        !.recall = row["article"].last]]
       ELSE GoWith(r, "previous", "article", "done", NoText)

Restore(r) ==
  /\ At(r, "restores")
  /\ row' = [row EXCEPT !["article"] = [status |-> "active", text |-> req[r].text, sent |-> req[r].sent, last |-> NoMessage]]
  /\ previous' = NoText /\ Touch("article") /\ Go(r, "rereads")
  /\ UNCHANGED <<segments, open, numbered, texts, posts, stale>>

\* It goes on as continue_same_library_session does.
Reread(r) ==
  /\ At(r, "rereads") /\ Reads
  /\ GoWith(r, "previous", "article", IF Active("article") /\ More("article") THEN "cuts" ELSE "done", Of(row["article"]))
------------------------------------------------------------------------------
(* Single characters and contest texts.                                    *)

OpenSingle(r) ==
  /\ Begin(r, "single")
  /\ row' = [row EXCEPT !["single"] = New(texts + 1), !["article"] = Stopped("article")]
  /\ Touch("single") /\ texts' = texts + 1 /\ GoWith(r, "single", "single", "registers", Begun(texts + 1))
  /\ UNCHANGED <<previous, segments, open, numbered, posts, stale>>

\* The second transaction: format_single_segment takes a number it does not use.
Register(r) ==
  /\ At(r, "registers") /\ numbered' = numbered \cup {"single"} /\ Go(r, "sends")
  /\ UNCHANGED <<row, order, aged, previous, segments, open, texts, posts, stale>>

OpenContest(r) ==
  /\ Begin(r, "contest")
  /\ \/ /\ row' = [row EXCEPT !["contest"] = New(texts + 1)] /\ texts' = texts + 1
        /\ Touch("contest") /\ Number("contest") /\ Answer(r, "contest", "contest", "sends", Begun(texts + 1))
        /\ UNCHANGED <<previous, posts, stale>>
     \/ GoWith(r, "contest", "contest", "done", NoText) /\ Reads
------------------------------------------------------------------------------
(* Scores.                                                                 *)

\* A score names a segment that was posted, and may come again.
Score(r, p) ==
  /\ Begin(r, "score") /\ p \in ToSet(posts) /\ req[p].segment # 0 /\ Reads
  /\ LET s == req[p].segment IN
     req' = [req EXCEPT ![r] = IF s \in open /\ Active(segments[s])
                                 THEN [@ EXCEPT !.op = "score", !.kind = segments[s], !.uses = s, !.pc = "takes"]
                                 ELSE [@ EXCEPT !.op = "score", !.pc = "done"]]

\* Mutant: no look at changes().
MutUnused(s) == TRUE

\* "consumed_at IS NULL", again, in the transaction.
Unused(s) == s \in open

Takes(r, k) == At(r, "takes") /\ req[r].kind = k /\ Unused(req[r].uses) /\ Active(k)

\* An article: consumption and the new session are one transaction, the new segment another.
TakeArticle(r) ==
  /\ Takes(r, "article")
  /\ open' = open \ {req[r].uses} /\ previous' = Of(row["article"])
  /\ row' = [row EXCEPT !["article"] = New(texts + 1), !["single"] = Stopped("single")]
  /\ Touch("article") /\ texts' = texts + 1
  /\ GoWith(r, "score", "article", "numbers", Begun(texts + 1))
  /\ UNCHANGED <<segments, numbered, posts, stale>>

\* A contest text: all is one transaction; the last message is not reset.
TakeContest(r) ==
  /\ Takes(r, "contest")
  /\ row' = [row EXCEPT !["contest"].text = texts + 1] /\ Touch("contest") /\ texts' = texts + 1
  /\ Number("contest")
  /\ Answer(r, "score", "contest", "sends", Begun(texts + 1))
  /\ UNCHANGED <<previous, posts, stale>>

\* Used by another score, stopped, or no text found: nothing is committed.
Ignored(r) == At(r, "takes") /\ req' = [req EXCEPT ![r].pc = "done", ![r].uses = 0] /\ Reads

\* Characters: the score names the progress, and no segment is used up.
ScoreSingle(r) ==
  /\ Begin(r, "score") /\ Reads
  /\ \E n \in 1..Parts : GoWith(r, "score", "single", IF Active("single") /\ row["single"].sent = n THEN "practices" ELSE "done", NoText)

ReadSingle(r) ==
  /\ At(r, "practices") /\ Reads
  /\ GoWith(r, "score", "single", IF Active("single") /\ More("single") THEN "steps" ELSE "done", Of(row["single"]))

StepSingle(r) ==
  /\ At(r, "steps")
  /\ row' = [row EXCEPT !["single"].sent = req[r].sent + 1] /\ Touch("single") /\ numbered' = numbered \cup {"single"}
  /\ GoWith(r, "score", "single", "sends", [text |-> req[r].text, sent |-> req[r].sent + 1])
  /\ UNCHANGED <<previous, segments, open, texts, posts, stale>>
------------------------------------------------------------------------------
(* The bot posts what it was answered, and tells the message.              *)

Post(r) ==
  /\ At(r, "sends") /\ posts' = Append(posts, r) /\ Go(r, "acks") /\ UNCHANGED <<tables, stale>>

\* acknowledge_library_message: the row may be of another text by now.
Acknowledge(r) ==
  /\ At(r, "acks") /\ row' = [row EXCEPT ![req[r].kind].last = r] /\ Touch(req[r].kind) /\ Go(r, "done")
  /\ UNCHANGED <<previous, segments, open, numbered, texts, posts, stale>>

\* stop_library_session: of the active sessions the one that was updated last.
Latest == {k \in Kinds : Active(k) /\ \A j \in Kinds \ {k} : Active(j) => <<j, k>> \in order}

\* The messages of a kind that the service was told, in the order they were posted.
Told(k) == SelectSeq(posts, LAMBDA p : req[p].kind = k /\ At(p, "done"))

ReadStop(r) ==
  /\ Begin(r, "stop") /\ UNCHANGED <<tables, posts>>
  /\ IF Latest = {} THEN GoWith(r, "stop", "article", "done", NoText) /\ UNCHANGED stale
     ELSE \E k \in Latest :
       /\ req' = [req EXCEPT ![r] = [@ EXCEPT !.op = "stop", !.kind = k, !.pc = "stops", !.recall = row[k].last]]
       /\ stale' = IF row[k].last # NoMessage /\ row[k].last # Last(Told(k)) THEN stale \cup {r} ELSE stale

Stop(r) ==
  /\ At(r, "stops") /\ row' = [row EXCEPT ![req[r].kind].status = "stopped"] /\ Touch(req[r].kind)
  /\ Go(r, IF req[r].recall # NoMessage THEN "recalls" ELSE "done")
  /\ UNCHANGED <<previous, segments, open, numbered, texts, posts, stale>>

\* The message is deleted from the chat, or it cannot be.
Recall(r) == At(r, "recalls") /\ Go(r, IF req[r].op = "stop" THEN "done" ELSE "sends") /\ Reads
------------------------------------------------------------------------------
\* A request fails: the database stays locked, the service or the bot stops, the
\* answer or the message is lost.  What it has not committed is rolled back.
Fail(r) ==
  /\ ~Over(r)
  /\ req' = [req EXCEPT ![r].pc = "failed", ![r].uses = IF At(r, "takes") THEN 0 ELSE @] /\ Reads

\* Half an hour passes without a request.
Age ==
  /\ \A r \in Requests : Over(r)
  /\ \E k \in Kinds : Active(k) /\ aged' = Kinds
  /\ UNCHANGED <<row, order, previous, segments, open, numbered, texts, req, posts, stale>>

\* expire_idle_library_sessions, sweep_idle_library_sessions: contests are left out.
Expire ==
  /\ LET idle == {k \in aged \cap {"article", "single"} : Active(k)} IN
     /\ idle # {} /\ row' = [k \in Kinds |-> IF k \in idle THEN [row[k] EXCEPT !.status = "stopped"] ELSE row[k]]
     /\ aged' = aged \ idle
  /\ UNCHANGED <<order, previous, segments, open, numbered, texts, req, posts, stale>>

OfRequest(r) ==
  \/ Start(r) \/ Continue(r) \/ ReadSaved(r) \/ OpenArticle(r) \/ NumberArticle(r)
  \/ Same(r) \/ Cut(r) \/ Previous(r) \/ Restore(r) \/ Reread(r)
  \/ OpenSingle(r) \/ Register(r) \/ OpenContest(r)
  \/ (\E p \in Requests : Score(r, p)) \/ TakeArticle(r) \/ TakeContest(r) \/ Ignored(r)
  \/ ScoreSingle(r) \/ ReadSingle(r) \/ StepSingle(r)
  \/ Post(r) \/ Acknowledge(r) \/ ReadStop(r) \/ Stop(r) \/ Recall(r) \/ Fail(r)

Next == (\E r \in Requests : OfRequest(r)) \/ Age \/ Expire

Spec == Init /\ [][Next]_vars
------------------------------------------------------------------------------
Texts == [text : Nat, sent : 0..Parts]
RequestType ==
  [op : Operations \cup {"none"},
   pc : {"idle", "saves", "opens", "numbers", "cuts", "restores", "rereads", "registers", "takes", "practices", "steps",
         "sends", "acks", "stops", "recalls", "done", "failed"},
   kind : Kinds, text : Nat, sent : 0..Parts, segment : Nat, uses : Nat, recall : Requests \cup {NoMessage}]

\* The state is well-formed; a text is not sent beyond its end.
TypeOK ==
  /\ row \in [Kinds -> [status : {"none", "active", "stopped"}, text : Nat, sent : 0..Parts, last : Requests \cup {NoMessage}]]
  /\ order \subseteq Kinds \X Kinds /\ aged \subseteq Kinds /\ previous \in Texts
  /\ segments \in Seq(Kinds) /\ open \subseteq DOMAIN segments /\ numbered \subseteq Kinds /\ texts \in Nat
  /\ req \in [Requests -> RequestType] /\ posts \in Seq(Requests) /\ stale \subseteq Requests

\* Only the segment of a session that was numbered last can be scored, whatever
\* requests run side by side and fail (format_library_segment consumes the others).
OnlyLatestIsOpen ==
  \A s \in open : \A t \in DOMAIN segments : t > s => segments[t] # segments[s]

\* A score that comes twice, or in two requests at once, goes on once (the
\* second look at consumed_at).
ScoreGoesOnOnce ==
  \A q, r \in Requests : q # r /\ req[q].uses # 0 /\ req[q].uses = req[r].uses => "takes" \in {req[q].pc, req[r].pc}

\* A segment moves its session on at most once, and only the last one does; with
\* the types of the variables.
SegmentsScoreOnce == TypeOK /\ OnlyLatestIsOpen /\ ScoreGoesOnOnce

\* A contest segment that was used up is followed by another one, even if the
\* request fails: both are one transaction.
ContestGoesOn ==
  \A s \in DOMAIN segments : segments[s] = "contest" /\ s \notin open =>
    \E t \in DOMAIN segments : t > s /\ segments[t] = "contest"

\* "继续发送当前文章的下一段" (docs/FM_TOOLS.md:62): continuing an article sends
\* the segment after the one that was sent.
NextSegment ==
  \A q, r \in Requests : q # r /\ req[q].op = "same" /\ req[r].op = "same" /\ req[q].segment # 0 /\ req[r].segment # 0 =>
    Of(req[q]) # Of(req[r])

\* "停止当前发文会话并尝试撤回最近一段" (docs/FM_TOOLS.md:65): a stop recalls the
\* segment that was posted last, of those the service was told of.
StopRecallsLast == stale = {}

\* "Restore and continue the article from before the current newly generated
\* article" (cosmobot/lib/Bot/Agent/Tools/FMDomain.hs): what is kept is the article before.
PreviousIsBefore ==
  [][\A r \in Requests : ReadSaved(r) /\ req'[r].pc = "opens" /\ row["article"].text # 0 => Of(req'[r]) = Of(row["article"])]_vars

\* "It intentionally does not consume the article six-digit segment registry."
\* (app.py:2076)
SinglesTakeNoNumbers == "single" \notin numbered

Interchangeable == Permutations(Requests)
=============================================================================
