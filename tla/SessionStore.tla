---------------------------- MODULE SessionStore ----------------------------
(***************************************************************************)
(* The durable chat sessions of the RPC and ACP servers                    *)
(* (src/cosmobot/lib/Bot/Storage/Session.hs).  A fork keeps a link to a    *)
(* message of its source and reads the history up to it through the link;  *)
(* deleting a session deletes its forks.  Session and message ids are one  *)
(* more than the largest in use, so ids of deleted rows come back.         *)
(*                                                                         *)
(* Creating, appending and deleting are transactions.  Forking is not: the *)
(* source is read first, and the fork is inserted afterwards.              *)
(***************************************************************************)
EXTENDS Naturals, Sequences, SequencesExt

CONSTANTS
  MaxSessions,  \* bound of the model: sessions with rows at one time
  MaxCreated,   \* bound of the model: sessions ever created
  MaxMessages,  \* bound of the model: messages ever appended
  Forks         \* fork requests

SessionStoreAssumption ==
  MaxSessions \in Nat /\ MaxCreated \in Nat /\ MaxMessages \in Nat

SessionIds == 1..MaxSessions   \* "session-1", "session-2", ... of one label
NoId       == 0

VARIABLES
  sessions,  \* the sessions table by session id, with the messages of each
  fork,      \* what a fork request read
  created,   \* ghost: number of sessions created, the identity of a session
  appended   \* ghost: number of messages appended, the identity of a message

vars == <<sessions, fork, created, appended>>

(* own: the rows of session_messages in the order of insertion.  The ghost *)
(* fields say which creation a row stems from, what a fork was to inherit  *)
(* and whether its source was deleted while it was being made.             *)
NoSession == [made |-> 0, parent |-> NoId, through |-> NoId, own |-> <<>>,
              inherits |-> <<>>, late |-> FALSE]
NoFork    == [at |-> "idle", source |-> NoId, through |-> NoId, made |-> 0, inherits |-> <<>>]

Init ==
  /\ sessions = [s \in SessionIds |-> NoSession]
  /\ fork = [f \in Forks |-> NoFork]
  /\ created = 0 /\ appended = 0

-----------------------------------------------------------------------------
Exists(s) == sessions[s].made # 0

LargestIn(S) == CHOOSE n \in S \cup {0} : \A m \in S : m <= n

MessageIdsOf(s) == {sessions[s].own[i].id : i \in DOMAIN sessions[s].own}

MessageIds(s) == UNION {MessageIdsOf(t) : t \in SessionIds}

nextSessionId    == LargestIn({s \in SessionIds : Exists(s)}) + 1
nextMessageId(s) == LargestIn(MessageIds(s)) + 1

\* The message itself is left out.
MutTakeThrough(m, history) ==
  LET at == {i \in DOMAIN history : history[i].id = m}
  IN IF at = {} THEN history ELSE SubSeq(history, 1, (CHOOSE i \in at : \A j \in at : i <= j) - 1)

\* Up to and with the first message of that id; all of it when there is none.
takeThrough(m, history) ==
  LET at == {i \in DOMAIN history : history[i].id = m}
  IN IF at = {} THEN history ELSE SubSeq(history, 1, CHOOSE i \in at : \A j \in at : i <= j)

\* loadSessionHistory, through at most as many parents as there are sessions.
History(s) ==
  LET upTo[depth \in 0..MaxSessions] == [t \in SessionIds |->
        LET parent == sessions[t].parent IN
        IF ~ Exists(t) \/ depth = 0 THEN <<>>
        ELSE IF parent = NoId THEN sessions[t].own
        ELSE takeThrough(sessions[t].through, upTo[depth - 1][parent]) \o sessions[t].own]
  IN upTo[MaxSessions][s]

Identities(history) == [i \in DOMAIN history |-> history[i].made]

\* The session alone.
MutDescendants(s) == {s}

\* descendantSessionIds: the session, its forks, their forks and so on.
Descendants(s) ==
  LET below[depth \in 0..MaxSessions] ==
        IF depth = 0 THEN {s}
        ELSE below[depth - 1] \cup {t \in SessionIds : Exists(t) /\ sessions[t].parent \in below[depth - 1]}
  IN below[MaxSessions]

-----------------------------------------------------------------------------
Insert(session) ==
  /\ nextSessionId \in SessionIds /\ created < MaxCreated
  /\ sessions' = [sessions EXCEPT ![nextSessionId] = [session EXCEPT !.made = created + 1]]
  /\ created' = created + 1

createSession == Insert(NoSession) /\ UNCHANGED <<fork, appended>>

appendMessage(s) ==
  /\ Exists(s) /\ appended < MaxMessages
  /\ sessions' = [sessions EXCEPT ![s].own = Append(@, [id |-> nextMessageId(s), made |-> appended + 1])]
  /\ appended' = appended + 1
  /\ UNCHANGED <<fork, created>>

deleteSession(s) ==
  /\ Exists(s)
  /\ sessions' = [t \in SessionIds |-> IF t \in Descendants(s) THEN NoSession ELSE sessions[t]]
  /\ UNCHANGED <<fork, created, appended>>

\* forkSession finds the message in the history of the source ...
ForkReads(f, s) ==
  /\ fork[f].at = "idle" /\ Exists(s)
  /\ \E i \in DOMAIN History(s) :
       fork' = [fork EXCEPT ![f] = [at |-> "found", source |-> s, through |-> History(s)[i].id,
                  made |-> sessions[s].made, inherits |-> SubSeq(Identities(History(s)), 1, i)]]
  /\ UNCHANGED <<sessions, created, appended>>

\* ... and inserts the fork in a transaction of its own.
ForkInserts(f) ==
  /\ fork[f].at = "found"
  /\ Insert([NoSession EXCEPT !.parent = fork[f].source, !.through = fork[f].through,
               !.inherits = fork[f].inherits,
               !.late = sessions[fork[f].source].made # fork[f].made])
  /\ fork' = [fork EXCEPT ![f] = NoFork]
  /\ UNCHANGED appended

Next ==
  \/ createSession
  \/ \E s \in SessionIds : appendMessage(s) \/ deleteSession(s) \/ \E f \in Forks : ForkReads(f, s)
  \/ \E f \in Forks : ForkInserts(f)

Spec == Init /\ [][Next]_vars

-----------------------------------------------------------------------------
Message == [id : 1..MaxMessages, made : 1..MaxMessages]
Ids     == SessionIds \cup {NoId}

TypeOK ==
  /\ sessions \in [SessionIds ->
       [made : 0..MaxCreated, parent : Ids, through : 0..MaxMessages, own : Seq(Message),
        inherits : Seq(1..MaxMessages), late : BOOLEAN]]
  /\ fork \in [Forks -> [at : {"idle", "found"}, source : Ids, through : 0..MaxMessages,
                         made : 0..MaxCreated, inherits : Seq(1..MaxMessages)]]
  /\ created \in 0..MaxCreated /\ appended \in 0..MaxMessages

ReadsItsHistory(s) ==
  Exists(s) => Identities(History(s)) = sessions[s].inherits \o Identities(sessions[s].own)

(* A fork, and a fork of a fork, reads the messages it was forked from and *)
(* then its own, nothing the source was told later and nothing of another  *)
(* session that has its ids today, unless the source was deleted while the *)
(* fork was being made.                                                    *)
Late(s) ==
  LET late[depth \in 0..MaxSessions] == [t \in Ids |->
        t # NoId /\ (sessions[t].late \/ (depth > 0 /\ late[depth - 1][sessions[t].parent]))]
  IN late[MaxSessions][s]

ForksReadTheirHistory == \A s \in SessionIds : ~ Late(s) => ReadsItsHistory(s)

(* A message is found by its id alone: no id is in two sessions or twice   *)
(* in one, however many were deleted in between.                           *)
MessageIdsAreUnique ==
  \A s, t \in SessionIds : \A i \in DOMAIN sessions[s].own, j \in DOMAIN sessions[t].own :
    sessions[s].own[i].id = sessions[t].own[j].id => s = t /\ i = j

(* A deletion leaves no fork behind that depends on the deleted history:   *)
(* every fork has the session it was made from.                            *)
DeletionTakesTheForks ==
  \A s \in SessionIds : Exists(s) /\ ~ Late(s) /\ sessions[s].parent # NoId =>
    /\ Exists(sessions[s].parent)
    /\ sessions[s].through \in {History(sessions[s].parent)[i].id : i \in DOMAIN History(sessions[s].parent)}

(* All of it, with the types of the variables: what is read is that        *)
(* session's, each message of it is found by its id, and a deletion takes  *)
(* what depends on it.                                                     *)
HistoriesAreSound == TypeOK /\ ForksReadTheirHistory /\ MessageIdsAreUnique /\ DeletionTakesTheForks

(* What the documentation says of every fork: it reads the history of its  *)
(* parent through the message, and a deletion of the parent takes it along.*)
EveryForkReadsItsHistory == \A s \in SessionIds : ReadsItsHistory(s)
=============================================================================
