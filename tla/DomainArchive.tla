---------------------------- MODULE DomainArchive ----------------------------
(***************************************************************************)
(* The archive of the FM domain service (src/fm-domain/app.py): messages,  *)
(* the scores among them, recalls, what is computed of them and kept for a *)
(* while, and the imports that replace them.                               *)
(*                                                                         *)
(* Requests are served by threads, with a connection each; SQLite gives    *)
(* the write lock to one at a time, from its first write to its commit.    *)
(* An event is stored by its request and once more by the one thread that  *)
(* works through the queue.                                                *)
(***************************************************************************)
EXTENDS Naturals, Sequences, FiniteSets, TLC

CONSTANTS
  Threads,   \* threads of the server; each serves one request after the other
  Messages,
  Scores,    \* those that parse_typing_score reads a score in
  Snapshot,  \* the scores of the file that is imported
  Results,   \* what is computed and kept
  TTL,       \* for how long
  Slow,      \* how long computing takes at most
  Nobody, MaxTime, MaxRequests

\* score_agg_cache and "speed" of stats_advanced, emptied by every event; stats_cache
\* and "heat", which nothing empties.
ArchiveAssumption ==
  /\ Threads # {} /\ IsFiniteSet(Threads) /\ Nobody \notin Threads
  /\ Scores \subseteq Messages /\ Snapshot \subseteq Scores
  /\ Results \subseteq {"scores", "speed", "heat", "stats"}
  /\ TTL \in Nat \ {0} /\ {Slow, MaxTime, MaxRequests} \subseteq Nat

VARIABLES
  group,     \* groups: whether the group is registered
  people,    \* known_senders: the message_count of the sender, 0 if unknown
  archive,   \* message_archive
  scores,    \* score_records, ai_contest_scores
  recalls,   \* recall_records
  version,   \* ghost: how often what results are computed of has changed
  changed,   \* ghost: when each version was superseded
  cache,     \* SCORE_AGG_CACHE, STATS_CACHE, STATS_ADVANCED_CACHE
  queue,     \* the queue of messages to be stored again
  writer,    \* who has the write lock
  now,
  req,       \* what each thread is doing; the worker is Nobody
  served,    \* requests begun
  events,    \* ghost: events stored
  told,      \* ghost: requests that were told they had archived the score, by message
  stored,    \* ghost: messages whose events were answered
  imported,  \* ghost: an import has replaced the scores
  late       \* ghost: answers older than promised

tables == <<group, people, archive, scores, recalls, version, changed>>
ghosts == <<events, told, stored, imported, late>>
vars   == <<tables, cache, queue, writer, now, req, served, ghosts>>

NoEntry == [at |-> 0, version |-> 0]
Idle    == [pc |-> "idle", since |-> 0]

Init ==
  /\ group \in BOOLEAN /\ people = 0 /\ events = 0 /\ archive = {} /\ scores = {} /\ recalls = {} /\ version = 1 /\ changed = <<>>
  /\ cache = [c \in Results |-> NoEntry] /\ queue = <<>> /\ writer = Nobody /\ now = 0
  /\ req = [t \in Threads \cup {Nobody} |-> Idle] /\ served = 0
  /\ told = [m \in Messages |-> 0] /\ stored = {} /\ imported = FALSE /\ late = {}

At(t, pc) == t \in Threads /\ req[t].pc = pc
Begin(t)  == At(t, "idle") /\ served < MaxRequests /\ served' = served + 1
Go(t, q)  == req' = [req EXCEPT ![t] = q]
On(t, pc) == req' = [req EXCEPT ![t].pc = pc]
End(t)    == Go(t, Idle)

\* The first write takes the lock, the commit gives it back.
Lock(t)  == writer = Nobody /\ writer' = t
Unlock(t) == writer = t /\ writer' = Nobody

\* The tables become these.
Commit(a, s) ==
  /\ archive' = a /\ scores' = s
  /\ IF <<a, s>> = <<archive, scores>> THEN UNCHANGED <<version, changed>>
     ELSE version' = version + 1 /\ changed' = Append(changed, now)
------------------------------------------------------------------------------
(* A message.                                                              *)

\* ensure_group_registered: of a new group the first write is its registration, else
\* the group is only read.
Receive(t) ==
  /\ Begin(t) /\ UNCHANGED <<tables, cache, queue, writer, now, ghosts>>
  /\ \E m \in Messages : Go(t, [pc |-> IF group THEN "asks" ELSE "locks", message |-> m, asked |-> group, seen |-> FALSE, since |-> now])

\* ensure_sender_known, before the lock is taken.
Ask(t) ==
  /\ At(t, "asks") /\ Go(t, [req[t] EXCEPT !.pc = "locks", !.seen = people > 0])
  /\ UNCHANGED <<tables, cache, queue, writer, now, served, ghosts>>

\* The first write; of a new group the sender is read after it.
Begins(t) ==
  /\ At(t, "locks") /\ Lock(t)
  /\ Go(t, [req[t] EXCEPT !.pc = "clears", !.seen = IF req[t].asked THEN @ ELSE people > 0])
  /\ UNCHANGED <<tables, cache, queue, now, served, ghosts>>

\* score_agg_invalidate, stats_advanced_invalidate("speed"): before the commit, whatever the message.
Clear(t) ==
  /\ At(t, "clears") /\ cache' = [c \in Results |-> IF c \in {"scores", "speed"} THEN NoEntry ELSE cache[c]]
  /\ On(t, "commits") /\ UNCHANGED <<tables, queue, writer, now, served, ghosts>>

\* Mutant: the message is left to the worker.
MutArchived(m) == archive

Archived(m) == archive \cup {m}

\* Mutant: a row that is there is taken for one that was inserted.
MutInserted(m) == m \in Scores

\* "SELECT changes()" after "ON CONFLICT DO NOTHING"
Inserted(m) == m \in Scores \ scores

\* Mutant: a row that is there is not counted up.
MutCounted(seen) == IF people = 0 THEN 1 ELSE people

\* The counter of somebody who is known goes up; else there is a row now, whoever inserted it.
Counted(seen) == IF seen THEN people + 1 ELSE IF people = 0 THEN 1 ELSE people

Store(t) ==
  /\ At(t, "commits") /\ Unlock(t)
  /\ LET m == req[t].message IN
     /\ group' = TRUE /\ people' = Counted(req[t].seen) /\ events' = events + 1
     /\ Commit(Archived(m), IF Inserted(m) THEN scores \cup {m} ELSE scores)
     /\ Go(t, [pc |-> "queues", message |-> m, inserted |-> Inserted(m), since |-> now])
  /\ UNCHANGED <<recalls, cache, queue, now, served, told, stored, imported, late>>

\* It is queued, and the request is answered.
Enqueue(t) ==
  /\ At(t, "queues") /\ End(t)
  /\ LET m == req[t].message IN
     /\ queue' = Append(queue, m) /\ stored' = stored \cup {m}
     /\ told' = [told EXCEPT ![m] = IF req[t].inserted THEN @ + 1 ELSE @]
  /\ UNCHANGED <<tables, cache, writer, now, served, events, imported, late>>

\* archive_message_worker stores the next message again, or prints why it cannot.
Work ==
  /\ queue # <<>> /\ queue' = Tail(queue) /\ writer = Nobody
  /\ \/ Commit(archive \cup {Head(queue)}, scores) /\ UNCHANGED <<group, people, recalls>>
     \/ UNCHANGED tables
  /\ UNCHANGED <<cache, writer, now, req, served, ghosts>>
------------------------------------------------------------------------------
(* A recall.                                                               *)

\* record_recall_event: what was not archived cannot be kept.
ReadOriginal(t) ==
  /\ Begin(t) /\ UNCHANGED <<tables, cache, queue, writer, now, ghosts>>
  /\ \E m \in Messages : Go(t, IF m \in archive THEN [pc |-> "recalls", message |-> m, since |-> now] ELSE Idle)

Recall(t) ==
  /\ At(t, "recalls") /\ writer = Nobody /\ recalls' = recalls \cup {req[t].message} /\ End(t)
  /\ UNCHANGED <<group, people, archive, scores, version, changed, cache, queue, writer, now, served, ghosts>>
------------------------------------------------------------------------------
(* Results.                                                                *)

\* Mutant: one second longer.
MutFresh(e, n) == e # NoEntry /\ n <= e.at + TTL

Fresh(e, n) == e # NoEntry /\ n < e.at + TTL

\* An answer of this version is older than the promise when the version was
\* superseded before the last TTL + Slow.
TooOld(v) == v < version /\ changed[v] + TTL + Slow <= now

Answer(c, v) == late' = IF TooOld(v) THEN late \cup {c} ELSE late

Look(t) ==
  /\ Begin(t) /\ UNCHANGED <<tables, cache, queue, writer, now, events, told, stored, imported>>
  /\ \E c \in Results :
       IF Fresh(cache[c], now) THEN End(t) /\ Answer(c, cache[c].version)
       ELSE Go(t, [pc |-> "computes", result |-> c, since |-> now]) /\ UNCHANGED late

\* The tables as they are now.
Compute(t) ==
  /\ At(t, "computes") /\ Go(t, [pc |-> "keeps", result |-> req[t].result, version |-> version, since |-> now])
  /\ UNCHANGED <<tables, cache, queue, writer, now, served, ghosts>>

\* Whatever has been emptied or kept since.
Keep(t) ==
  /\ At(t, "keeps") /\ End(t) /\ Answer(req[t].result, req[t].version)
  /\ cache' = [cache EXCEPT ![req[t].result] = [at |-> now, version |-> req[t].version]]
  /\ UNCHANGED <<tables, queue, writer, now, served, events, told, stored, imported>>
------------------------------------------------------------------------------
(* Imports: a program of their own, one transaction.                       *)

Import(t) ==
  /\ Begin(t) /\ Lock(t) /\ Go(t, [pc |-> "imports", since |-> now])
  /\ UNCHANGED <<tables, cache, queue, now, ghosts>>

\* import_snapshot deletes the scores first; import_retained_snapshot those of the daily text.
Replace(t) ==
  /\ At(t, "imports") /\ Unlock(t) /\ Commit(archive, Snapshot) /\ imported' = TRUE /\ End(t)
  /\ UNCHANGED <<group, people, recalls, cache, queue, now, served, events, told, stored, late>>
------------------------------------------------------------------------------
\* The lock is not to be had, a record of the file cannot be read, the client
\* is gone: nothing is committed.
Fail(t) ==
  /\ t \in Threads /\ req[t] # Idle /\ End(t) /\ writer' = IF writer = t THEN Nobody ELSE writer
  /\ UNCHANGED <<tables, cache, queue, now, served, ghosts>>

\* The service stops and is started again: what is not in the database is gone.
Restart ==
  /\ cache' = [c \in Results |-> NoEntry] /\ queue' = <<>> /\ req' = [t \in DOMAIN req |-> Idle] /\ writer' = Nobody
  /\ <<cache, queue, req>>' # <<cache, queue, req>> /\ UNCHANGED <<tables, now, served, ghosts>>

\* Computing is done in time.
Tick ==
  /\ now < MaxTime /\ now' = now + 1 /\ \A t \in Threads : At(t, "keeps") => now < req[t].since + Slow
  /\ UNCHANGED <<tables, cache, queue, writer, req, served, ghosts>>

Next ==
  \/ \E t \in Threads :
       \/ Receive(t) \/ Ask(t) \/ Begins(t) \/ Clear(t) \/ Store(t) \/ Enqueue(t) \/ ReadOriginal(t) \/ Recall(t)
       \/ Look(t) \/ Compute(t) \/ Keep(t) \/ Import(t) \/ Replace(t) \/ Fail(t)
  \/ Work \/ Restart \/ Tick

Spec == Init /\ [][Next]_vars
------------------------------------------------------------------------------
\* An event that was answered is kept, its score as well, though the worker fails
\* and the queue is lost; only an import takes scores away.  Of the requests that
\* bring the same score one at most is told it was archived, and what is
\* recalled was archived.  The count of a sender lags by the requests that looked for
\* the sender while the first one was being stored, and no further.
EventsAreKept ==
  /\ stored \subseteq archive /\ recalls \subseteq archive
  /\ people <= events /\ events < people + Cardinality(Threads)
  /\ ~imported => stored \cap Scores \subseteq scores /\ \A m \in Messages : told[m] <= 1

\* An answer shows the tables as they were less than TTL and the time of one
\* computation ago, whatever is emptied, kept and committed meanwhile.
AnswersAreRecent == late = {}

Interchangeable == Permutations(Threads)
=============================================================================
