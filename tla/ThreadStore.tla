----------------------------- MODULE ThreadStore -----------------------------
(***************************************************************************)
(* The stored transcripts of threads (the threads table and the cache of   *)
(* src/cosmobot/lib/Bot/Storage/Thread.hs).  A thread node is kept as a    *)
(* link to its parent and the messages that follow the parent's            *)
(* transcript; reading it back walks the parents, through a cache of the   *)
(* few nodes used last.  Runs that continue a node save theirs when they   *)
(* finish, in any order.                                                   *)
(***************************************************************************)
EXTENDS Integers, Sequences, SequencesExt

CONSTANTS
  N,                \* bound of the model: nodes, numbered in the order their runs begin
  MaxCachedThreads, \* maxCachedThreads, 4 in the code
  MaxFaults,        \* bound of the model: saves that fail
  MaxRestarts       \* bound of the model: restarts of the process

ThreadStoreAssumption ==
  /\ N \in Nat /\ MaxCachedThreads \in Nat
  /\ MaxFaults \in Nat /\ MaxRestarts \in Nat

Keys     == 1..N
NoParent == 0

(* A transcript is the sequence of the exchanges in it: k is the exchange  *)
(* of the run of node k, -k the same exchange with the answer half given.  *)
Exchange == Keys \cup {- k : k \in Keys}

VARIABLES
  run,     \* what a node's run is doing, whom it continues, from what transcript,
           \* and the row it is about to save
  rows,    \* the threads table, by message key
  cache,   \* recentThreadIds with threadTree, the newest first
  faults, restarts

vars == <<run, rows, cache, faults, restarts>>

NoRow == [there |-> FALSE, parent |-> NoParent, messages |-> <<>>, tree |-> 0]
NoRun == [at |-> "none", parent |-> NoParent, base |-> <<>>, row |-> NoRow]

Init ==
  /\ run = [k \in Keys |-> NoRun]
  /\ rows = [k \in Keys |-> NoRow]
  /\ cache = <<>>
  /\ faults = 0 /\ restarts = 0

-----------------------------------------------------------------------------
(* Reading.                                                                *)

CachedKeys(c) == {c[i].key : i \in DOMAIN c}
Cached(c, k)  == c[CHOOSE i \in DOMAIN c : c[i].key = k].transcript

Retained(c) == SubSeq(c, 1, IF Len(c) < MaxCachedThreads THEN Len(c) ELSE MaxCachedThreads)

\* filter (/= k): a key is in the order once, so at most one is left out.
Without(c, k) ==
  IF k \in CachedKeys(c) THEN RemoveAt(c, CHOOSE i \in DOMAIN c : c[i].key = k) ELSE c

cacheThreadNode(c, k, t) == Retained(<<[key |-> k, transcript |-> t]>> \o Without(c, k))

Decoded(parent, messages) == parent \o messages

(* lookupStoredThreadNode for every key: whether it is found, its          *)
(* transcript, and the cache after the nodes on the way to it were loaded. *)
Loads(stored, c) ==
  LET load[k \in Keys] ==
        IF k \in CachedKeys(c) THEN [found |-> TRUE, transcript |-> Cached(c, k), cache |-> c]
        ELSE IF ~ stored[k].there THEN [found |-> FALSE, transcript |-> <<>>, cache |-> c]
        ELSE LET p == stored[k].parent
                 parent == IF p = NoParent THEN [found |-> FALSE, transcript |-> <<>>, cache |-> c]
                           ELSE load[p]
                 t == IF parent.found THEN Decoded(parent.transcript, stored[k].messages)
                      ELSE stored[k].messages
             IN [found |-> TRUE, transcript |-> t, cache |-> cacheThreadNode(parent.cache, k, t)]
  IN load

Lookup(k) == Loads(rows, cache)[k]

ReadThread(k) ==
  /\ Lookup(k).found
  /\ cache' = Lookup(k).cache
  /\ UNCHANGED <<run, rows, faults, restarts>>

-----------------------------------------------------------------------------
(* Runs.                                                                   *)

Transcript(k) == Append(run[k].base, k)

\* The transcripts a message that continues p starts from: the stored one, the one the
\* recent thread of the user remembers, or, while p runs, what p has reached.
Continues(p) ==
  IF run[p].at = "over" THEN {IF Lookup(p).found THEN Lookup(p).transcript ELSE Transcript(p)}
  ELSE {run[p].base, Append(run[p].base, - p)}

Begin(k) ==
  /\ run[k].at = "none" /\ (k > 1 => run[k - 1].at # "none")
  /\ \/ /\ run' = [run EXCEPT ![k].at = "active"]
        /\ UNCHANGED cache
     \/ \E p \in 1..(k - 1) :
          /\ run[p].at \in {"over", "active", "saving"}
          /\ \E t \in Continues(p) :
               run' = [run EXCEPT ![k].at = "active", ![k].parent = p, ![k].base = t]
          /\ cache' = IF run[p].at = "over" THEN Lookup(p).cache ELSE cache
  /\ UNCHANGED <<rows, faults, restarts>>

\* A suffix taken without comparing the prefix.
MutIsPrefixOf(s, t) == Len(s) <= Len(t)

IsPrefixOf(s, t) == IsPrefix(s, t)

\* The id of the parent's tree; a node without one starts a tree named after its own row.
TreeOf(k, p) == IF p # NoParent /\ Lookup(p).found THEN rows[p].tree ELSE k

(* transcriptMessagesForStorage: the parent to link to and the messages to *)
(* keep.  A parent that is not stored is linked to all the same, with the  *)
(* whole transcript.                                                       *)
RowOf(k) ==
  LET p == run[k].parent
      t == Transcript(k)
      NewRow(parent, messages) ==
        [there |-> TRUE, parent |-> parent, messages |-> messages, tree |-> TreeOf(k, p)]
  IN IF p = NoParent \/ ~ Lookup(p).found THEN NewRow(p, t)
     ELSE IF IsPrefixOf(Lookup(p).transcript, t)
     THEN NewRow(p, SubSeq(t, Len(Lookup(p).transcript) + 1, Len(t)))
     ELSE NewRow(NoParent, t)

\* rememberThreadTranscriptFrom reads the parent ...
FinishLookup(k) ==
  /\ run[k].at = "active"
  /\ run' = [run EXCEPT ![k].at = "saving", ![k].row = RowOf(k)]
  /\ cache' = IF run[k].parent = NoParent THEN cache ELSE Lookup(run[k].parent).cache
  /\ UNCHANGED <<rows, faults, restarts>>

Over(k) == run' = [run EXCEPT ![k].at = "over", ![k].row = NoRow]

\* ... and saves the row; a save that fails is logged and the node is not cached.
FinishSave(k) ==
  /\ run[k].at = "saving"
  /\ rows' = [rows EXCEPT ![k] = run[k].row]
  /\ cache' = cacheThreadNode(cache, k, Transcript(k))
  /\ Over(k)
  /\ UNCHANGED <<faults, restarts>>

SaveFails(k) ==
  /\ run[k].at = "saving" /\ faults < MaxFaults
  /\ faults' = faults + 1
  /\ Over(k)
  /\ UNCHANGED <<rows, cache, restarts>>

\* The cache and the runs are gone; the rows stay.
Restart ==
  /\ restarts < MaxRestarts
  /\ restarts' = restarts + 1
  /\ cache' = <<>>
  /\ run' = [k \in Keys |-> IF ~ rows[k].there /\ run[k].at # "none"
                            THEN [run[k] EXCEPT !.at = "lost", !.row = NoRow]
                            ELSE run[k]]
  /\ UNCHANGED <<rows, faults>>

Next ==
  \/ \E k \in Keys : ReadThread(k) \/ Begin(k) \/ FinishLookup(k) \/ FinishSave(k) \/ SaveFails(k)
  \/ Restart

Spec == Init /\ [][Next]_vars

-----------------------------------------------------------------------------
Row == [there : BOOLEAN, parent : Keys \cup {NoParent}, messages : Seq(Exchange),
        tree : Keys \cup {0}]

TypeOK ==
  /\ run \in [Keys -> [at : {"none", "active", "saving", "over", "lost"},
                       parent : Keys \cup {NoParent}, base : Seq(Exchange), row : Row]]
  /\ rows \in [Keys -> Row]
  /\ cache \in Seq([key : Keys, transcript : Seq(Exchange)])
  /\ Len(cache) <= MaxCachedThreads
  /\ faults \in 0..MaxFaults /\ restarts \in 0..MaxRestarts

(* A node that was saved, whole, before the parent it is linked to.        *)
LinkedWhole(k) == rows[k].parent # NoParent /\ rows[k].messages = Transcript(k)

InOrder(k) ==
  LET inOrder[i \in Keys] ==
        LET p == rows[i].parent IN
          p = NoParent \/ ~ rows[p].there \/ (~ LinkedWhole(i) /\ inOrder[p])
  IN inOrder[k]

ReadsBack(k) == Lookup(k).found => Lookup(k).transcript = Transcript(k)

(* Whatever was evicted, loaded or restarted since, and whether or not a   *)
(* run continued one that was still going, a thread reads back as the      *)
(* transcript its run had when it was saved, nothing missing and nothing   *)
(* twice, through the cache and from the rows alone, if no node on the way *)
(* to it was saved before its parent; and what the cache knows is saved.   *)
ReadsBackInOrder ==
  \A k \in Keys :
    /\ InOrder(k) => /\ ReadsBack(k)
                     /\ rows[k].there => Loads(rows, <<>>)[k].transcript = Transcript(k)
    /\ k \in CachedKeys(cache) => rows[k].there

(* The nodes of a tree carry one thread id, that of the root's row, so the *)
(* statistics of a thread count every branch of it.                        *)
TreesKeepTheirId ==
  \A k \in Keys : LET p == rows[k].parent IN
    p # NoParent /\ rows[p].there /\ ~ LinkedWhole(k) => rows[k].tree = rows[p].tree

(* Both, with the types of the variables.                                  *)
StoredThreadsReadBack == TypeOK /\ ReadsBackInOrder /\ TreesKeepTheirId

(* What the tests say of a reload: every branch reads back as it was       *)
(* saved, in whatever order the runs finished.                             *)
ReadsBackWhatWasSaved == \A k \in Keys : ReadsBack(k)
=============================================================================
