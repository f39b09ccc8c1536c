-------------------------------- MODULE Stores --------------------------------
(***************************************************************************)
(* What the bot keeps in its database besides the scheduler's messages and *)
(* the resources: stored threads, chat sessions, media.  They share the    *)
(* connection pool and no table, but for the attachments of messages,      *)
(* which the media cache reads and never writes; each store is therefore   *)
(* checked by itself, for all that the others may do.                      *)
(***************************************************************************)
EXTENDS Naturals

CONSTANTS
  N, MaxCachedThreads, MaxFaults, MaxReopens,      \* ThreadStore
  MaxSessions, MaxCreated, MaxMessages, Forks,     \* SessionStore
  Jobs, Contents, Refs, MaxIds, MaxAge, Kinds, None  \* MediaCache

VARIABLES
  part,  \* the store that is used
  run, threadRows, threadCache, faults, reopens,
  sessions, fork, created, appended,
  files, row, fresh, link, history, next, ages, job, exposed

threads == <<run, threadRows, threadCache, faults, reopens>>
chats   == <<sessions, fork, created, appended>>
media   == <<files, row, fresh, link, history, next, ages, job, exposed>>
storesVars == <<part, threads, chats, media>>

Threads == INSTANCE ThreadStore WITH rows <- threadRows, cache <- threadCache, restarts <- reopens, MaxRestarts <- MaxReopens
Chats   == INSTANCE SessionStore
Media   == INSTANCE MediaCache

ASSUME StoresAssumption ==
  Threads!ThreadStoreAssumption /\ Chats!SessionStoreAssumption /\ Media!MediaAssumption

StoresInit == part \in {"threads", "chats", "media"} /\ Threads!Init /\ Chats!Init /\ Media!Init

StoredThreads == part = "threads" /\ Threads!Next /\ UNCHANGED <<part, chats, media>>
StoredChats   == part = "chats" /\ Chats!Next /\ UNCHANGED <<part, threads, media>>
StoredMedia   == part = "media" /\ Media!Next /\ UNCHANGED <<part, threads, chats>>

StoresNext == StoredThreads \/ StoredChats \/ StoredMedia

StoresSpec == StoresInit /\ [][StoresNext]_storesVars
------------------------------------------------------------------------------
\* A stored thread reads back as the transcript its run had, in whatever order runs
\* that continue each other finish, through the cache and from the rows alone.
StoredThreadsReadBack == Threads!StoredThreadsReadBack

\* A session and its forks read their own histories, each message is found by its
\* id, and a deletion takes along what depends on it.
HistoriesAreSound == Chats!HistoriesAreSound

\* The media that rows and messages refer to keep their files, whatever is
\* collected, deleted and stored again meanwhile.
MediaStay == Media!MediaStay
=============================================================================
