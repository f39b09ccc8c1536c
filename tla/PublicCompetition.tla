-------------------------- MODULE PublicCompetition --------------------------
(***************************************************************************)
(* The rankings of public competitions in the FM domain service            *)
(* (src/fm-domain/app.py): fetched page by page from a site whose ranking  *)
(* goes on changing, and kept for a while.  Requests are served by threads *)
(* and share only the kept results.                                        *)
(***************************************************************************)
EXTENDS Naturals, Sequences, SequencesExt, FiniteSetsExt, TLC

CONSTANTS
  Threads,  \* threads of the server; each serves one request after the other
  PageSize, \* 100
  Limit,    \* 500
  TTL,      \* PUBLIC_COMPETITION_CACHE_TTL
  Slow,     \* how long one call of the site takes at most (15 s)
  MaxBoard, MaxTime, MaxRequests

CompetitionAssumption ==
  {PageSize, Limit, TTL, Slow, MaxBoard, MaxTime, MaxRequests} \subseteq Nat \ {0} /\ Limit % PageSize = 0

VARIABLES
  board,    \* the site: the scores by rank
  entries,  \* scores that were handed in
  kind,     \* what is asked: a group whose ranking comes in pages, "counted" if the
            \* site says how many there are, or one that comes in one answer
  moved,    \* ghost: when the ranking last changed
  cache,    \* _PUBLIC_COMPETITION_CACHE: one competition on one day
  now, req,
  served    \* requests begun

site == <<board, entries, kind, moved>>
vars == <<site, cache, now, req, served>>

Idle == [pc |-> "idle"]
None == [at |-> 0, had |-> 0, rows |-> <<>>, kept |-> FALSE]

Init ==
  /\ entries \in 0..MaxBoard /\ board = [i \in 1..entries |-> i] /\ kind \in {"group", "counted", "tiger", "page"} /\ moved = 0
  /\ cache = None /\ now = 0 /\ req = [t \in Threads |-> Idle] /\ served = 0

At(t, pc) == req[t].pc = pc
Go(t, q)  == req' = [req EXCEPT ![t] = q]
Quiet     == UNCHANGED <<site, now>>

Fresh(e) == e.kept /\ now < e.at + TTL

\* get_public_competition: what is kept is taken, unless it is to be refreshed.
Look(t, refresh) ==
  /\ At(t, "idle") /\ served < MaxRequests /\ served' = served + 1 /\ Quiet /\ UNCHANGED cache
  /\ IF ~refresh /\ Fresh(cache) THEN UNCHANGED req
     ELSE Go(t, [pc |-> "pages", at |-> now, had |-> entries, rows |-> <<>>, total |-> 0, since |-> now])

\* Some ranks.
Ranks(from, to) == SubSeq(board, from, Min({to, Len(board)}))

\* One call: a page of a group from a position on, Limit rows of the tiger's board, or
\* all there are.
Page(pos) ==
  CASE kind \in {"group", "counted"} -> Ranks(pos + 1, pos + PageSize)
    [] kind = "tiger"                -> Ranks(1, Limit)
    [] OTHER                         -> board

\* The pages go on while they are full and there are more, at most Limit rows.
GoesOn(rows, n, total) ==
  kind \in {"group", "counted"} /\ n = PageSize /\ Len(rows) < Min({IF total = 0 THEN Limit ELSE total, Limit})

\* fetch_public_group_competition: one page, of the ranking as it is now; the first
\* one may say how many there are.  The others are fetched at once.
Fetch(t) ==
  /\ At(t, "pages") /\ Quiet /\ UNCHANGED <<cache, served>>
  /\ LET q == req[t]
         page == Page(Len(q.rows))
         rows == q.rows \o page
         total == IF q.rows = <<>> THEN IF kind = "counted" THEN Len(board) ELSE 0 ELSE q.total
     IN Go(t, [q EXCEPT !.rows = rows, !.total = total, !.since = now,
                        !.pc = IF GoesOn(rows, Len(page), total) THEN "pages" ELSE "keeps"])

\* Mutant: with the time it is kept.
MutKept(q) == [at |-> now, had |-> q.had, rows |-> q.rows, kept |-> TRUE]

\* With the time the request began.
Kept(q) == [at |-> q.at, had |-> q.had, rows |-> q.rows, kept |-> TRUE]

\* A request that began later may have been faster.
Keep(t) ==
  /\ At(t, "keeps") /\ Go(t, Idle) /\ Quiet /\ UNCHANGED served
  /\ cache' = Kept(req[t])

\* PublicCompetitionError: nothing is kept.
Fail(t) == At(t, "pages") /\ Go(t, Idle) /\ Quiet /\ UNCHANGED <<cache, served>>

\* Somebody hands in a score; all below move down.
Submit ==
  /\ entries < MaxBoard /\ entries' = entries + 1 /\ moved' = now
  /\ \E i \in 1..(Len(board) + 1) : board' = InsertAt(board, i, entries')
  /\ UNCHANGED <<kind, cache, now, req, served>>

\* A call is answered or given up in time.
Tick ==
  /\ now < MaxTime /\ now' = now + 1
  /\ \A t \in Threads : ~At(t, "idle") => now < req[t].since + Slow
  /\ UNCHANGED <<site, cache, req, served>>

Next ==
  \/ \E t \in Threads : (\E refresh \in BOOLEAN : Look(t, refresh)) \/ Fetch(t) \/ Keep(t) \/ Fail(t)
  \/ Submit \/ Tick

Spec == Init /\ [][Next]_vars
------------------------------------------------------------------------------
\* The ranking as far as it is shown.
Shown == IF kind = "page" THEN board ELSE Ranks(1, Limit)

\* The ranks of a score; the old ones of an answer are those the site had before.
Ahead(x, y) == \E i, j \in DOMAIN board : i < j /\ board[i] = x /\ board[j] = y

\* A ranking that did not change while it was fetched is given whole, as far as
\* Limit goes, and what was kept misses no change of TTL ago, however long it took.
\* Of one that changed a row may come twice, but none is left out: whoever was in
\* it before and is ahead of a row of then is in the answer.
RankingsAreWhole ==
  /\ Fresh(cache) /\ moved + TTL <= now => cache.rows = Shown
  /\ \A a \in {cache} \cup {req[t] : t \in {u \in Threads : At(u, "keeps")}} :
       /\ a.at > moved => a.rows = Shown
       /\ \A x, y \in 1..a.had : y \in ToSet(a.rows) /\ Ahead(x, y) => x \in ToSet(a.rows)
       /\ kind # "page" => Len(a.rows) <= Limit

Interchangeable == Permutations(Threads)
=============================================================================
