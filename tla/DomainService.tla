---------------------------- MODULE DomainService ----------------------------
(***************************************************************************)
(* The FM domain service (src/fm-domain/app.py) put together of its parts. *)
(* The parts share no table, no lock of their own and no kept result: what *)
(* one does is neither seen nor hindered by another, but for the time a    *)
(* transaction waits, which each part allows for.  A property of one part  *)
(* therefore holds in every behaviour of the service if it holds in those  *)
(* in which that part alone is asked; a behaviour here is one of these.    *)
(***************************************************************************)
EXTENDS Naturals, Sequences, TLC

CONSTANTS
  Calls, NoMessage, Operations, Parts,                                             \* TypingLibrary
  Threads,                                                                         \* the others
  Groups, Senders, Dates, Titles, Lengths, Window, Wait, Cooldown, Forget, Mixes,  \* DomainSettings
  Messages, Scores, Snapshot, Results, Nobody,                                     \* DomainArchive
  Ids, Names, Segments, Speeds, MaxSpeed, MaxRecords,                              \* ScoreBoards
  PageSize, MaxPlaces, MaxBoard,                                                   \* PublicCompetition
  TTL, Slow, MaxTime, MaxRequests, MaxEvents, MaxQueries

VARIABLES
  part,  \* the part of the service that is asked
  row, order, aged, previous, segments, open, numbered, texts, request, posts, stale,
  features, repeat, bots, refused, policy, defaults, daily, recent, cooling, setTime, setting, settingsServed, mix, off, said, known, tangled,
  group, people, archive, scores, recalls, version, changed, kept, queue, writer, storeTime, storing, eventsServed, events,
  told, stored, imported, late,
  records,
  board, entries, kind, moved, cache, askTime, asking, queriesServed

sessions    == <<row, order, aged, previous, segments, open, numbered, texts, request, posts, stale>>
settings    == <<features, repeat, bots, refused, policy, defaults, daily, recent, cooling, setTime, setting, settingsServed, mix, off,
                 said, known, tangled>>
archives    == <<group, people, archive, scores, recalls, version, changed, kept, queue, writer, storeTime, storing,
                 eventsServed, events, told, stored, imported, late>>
competition == <<board, entries, kind, moved, cache, askTime, asking, queriesServed>>
serviceVars == <<part, sessions, settings, archives, records, competition>>

Library == INSTANCE TypingLibrary WITH req <- request, Requests <- Calls
Switches == INSTANCE DomainSettings WITH texts <- daily, now <- setTime, req <- setting, served <- settingsServed
Archive == INSTANCE DomainArchive WITH cache <- kept, now <- storeTime, req <- storing, served <- eventsServed, MaxRequests <- MaxEvents
Boards  == INSTANCE ScoreBoards
Public  == INSTANCE PublicCompetition WITH now <- askTime, req <- asking, served <- queriesServed, Limit <- MaxPlaces, MaxRequests <- MaxQueries

ASSUME ServiceAssumption ==
  /\ Library!TypingLibraryAssumption /\ Switches!SettingsAssumption /\ Archive!ArchiveAssumption
  /\ Boards!BoardsAssumption /\ Public!CompetitionAssumption

\* A part that is not asked begins in one way.
ServiceInit ==
  /\ part \in {"sessions", "settings", "archive", "boards", "competition"}
  /\ Library!Init /\ Switches!Init /\ Archive!Init /\ Boards!Init /\ Public!Init
  /\ part # "settings" => mix = CHOOSE m \in Mixes : TRUE
  /\ part # "archive" => group
  /\ part # "competition" => entries = 0 /\ kind = "group"

Sessions    == part = "sessions" /\ Library!Next /\ UNCHANGED <<part, settings, archives, records, competition>>
Settings    == part = "settings" /\ Switches!Next /\ UNCHANGED <<part, sessions, archives, records, competition>>
Archives    == part = "archive" /\ Archive!Next /\ UNCHANGED <<part, sessions, settings, records, competition>>
Scoring     == part = "boards" /\ Boards!Next /\ UNCHANGED <<part, sessions, settings, archives, competition>>
Competition == part = "competition" /\ Public!Next /\ UNCHANGED <<part, sessions, settings, archives, records>>

ServiceNext == Sessions \/ Settings \/ Archives \/ Scoring \/ Competition

ServiceSpec == ServiceInit /\ [][ServiceNext]_serviceVars
------------------------------------------------------------------------------
\* A segment moves its session on at most once, whichever requests bring its score,
\* and a contest text that was used up is followed by another.
SessionsGoOn == Library!SegmentsScoreOnce /\ Library!ContestGoesOn

\* A group that was switched off stays off, a text is repeated once in a cooldown,
\* and the texts of the day keep the rules, whichever requests overlap.
SettingsHold == Switches!RepeatStaysOff /\ Switches!RepeatsAreRare /\ Switches!ContestRulesHold

\* Events that were answered are kept and counted, through failures, imports and
\* restarts.
EventsAreKept == Archive!EventsAreKept

\* An answer is not older than the time results are kept and computed in.
AnswersAreRecent == Archive!AnswersAreRecent

\* The boards, each of which goes through the archive by itself, agree on it.
BoardsAgree == Boards!BoardsAgree

\* A ranking that did not change while its pages were fetched is given whole, and
\* one that changed leaves out nobody who was in it before.
RankingsAreWhole == Public!RankingsAreWhole

Interchangeable == Permutations(Calls) \cup Permutations(Threads)
=============================================================================
