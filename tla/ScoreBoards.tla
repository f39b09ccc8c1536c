----------------------------- MODULE ScoreBoards -----------------------------
(***************************************************************************)
(* What the FM domain service computes of its score archive                *)
(* (src/fm-domain/app.py): the ranking of persons, the profile of one, the *)
(* duel of two, the comparison of groups.  Each of them goes through the   *)
(* same records by itself, with a key of its own.                          *)
(***************************************************************************)
EXTENDS Integers, Sequences, SequencesExt, FiniteSets, FiniteSetsExt

CONSTANTS
  Ids, Names,  \* of persons; a name may be somebody else's id
  Groups, Segments,
  Speeds,
  MaxSpeed,    \* SCORE_MAX_SPEED, or that of the query; the other limits are like it
  MaxRecords

BoardsAssumption == Speeds \subseteq Nat \ {0} /\ MaxSpeed \in Nat /\ MaxRecords \in Nat

None == 0
NoId == "none"

\* A record as score_row makes it: no sender and no segment are empty, no speed is
\* none; one that cannot be parsed has nothing.
Readable ==
  [readable : {TRUE}, id : Ids \cup {NoId}, name : Names \cup {NoId}, group : Groups,
   segment : Segments \cup {NoId}, speed : Speeds \cup {None}]
Records == Readable \cup {[readable |-> FALSE]}

VARIABLE records  \* score_records, by occurred_at

Init == records = <<>>
Next == Len(records) < MaxRecords /\ \E r \in Records : records' = Append(records, r)
Spec == Init /\ [][Next]_records
------------------------------------------------------------------------------
\* score_quality_ok: what is missing is no reason to drop a record.
QualityOk(r) == r.speed <= MaxSpeed

\* load_scores: the rows, how many were dropped and how many could not be read.
Rows       == SelectSeq(records, LAMBDA r : r.readable /\ QualityOk(r))
Unreadable == Len(SelectSeq(records, LAMBDA r : ~r.readable))
Dropped    == Len(SelectSeq(records, LAMBDA r : r.readable /\ ~QualityOk(r)))

\* The fastest of some rows, if one has a speed.
SpeedsOf(rows) == {r.speed : r \in ToSet(rows)} \ {None}
Best(rows)     == IF SpeedsOf(rows) = {} THEN None ELSE Max(SpeedsOf(rows))

\* Mutant: a person without an id is nobody.
MutKey(r) == r.id

\* scores_leaderboard: a person is an id, or a name if there is none.
Key(r)    == IF r.id # NoId THEN r.id ELSE r.name
Of(p)     == SelectSeq(Rows, LAMBDA r : Key(r) = p)
People    == {Key(r) : r \in ToSet(Rows)} \ {NoId}
Entry(p)  == [who |-> p, attempts |-> Len(Of(p)), best |-> Best(Of(p)), segments |-> {r.segment : r \in ToSet(Of(p))} \ {NoId}]

\* By the best speed, those without one at the end; the ones who came first come
\* first among equals.
First(p) == CHOOSE i \in DOMAIN Rows : Key(Rows[i]) = p /\ \A j \in 1..(i - 1) : Key(Rows[j]) # p
Leaderboard(min) ==
  SetToSortSeq({Entry(p) : p \in {q \in People : Len(Of(q)) >= min}},
               LAMBDA x, y : x.best > y.best \/ (x.best = y.best /\ First(x.who) < First(y.who)))

\* scores_player: the rows of an id, or of a name.
Mine(id, name) == SelectSeq(Rows, LAMBDA r : (id # NoId /\ r.id = id) \/ (name # NoId /\ r.name = name))

\* The best of each segment, and how many rows it has.
Timed(rows) == SelectSeq(rows, LAMBDA r : r.segment # NoId /\ r.speed # None)
BySegment(rows) ==
  [s \in {r.segment : r \in ToSet(Timed(rows))} |->
     LET of == SelectSeq(Timed(rows), LAMBDA r : r.segment = s) IN [best |-> Best(of), attempts |-> Len(of)]]

\* scores_duel: somebody is found by the id first.
Pick(who) ==
  LET exact == SelectSeq(Rows, LAMBDA r : r.id = who) IN
  IF exact # <<>> THEN exact ELSE SelectSeq(Rows, LAMBDA r : r.name = who)

\* Mutant: a tie is won.
MutWins(x, y) == x >= y

Wins(x, y) == x > y

Duel(a, b) ==
  LET left == BySegment(Pick(a))
      right == BySegment(Pick(b))
      shared == DOMAIN left \cap DOMAIN right
      a_wins == Cardinality({s \in shared : Wins(left[s].best, right[s].best)})
      b_wins == Cardinality({s \in shared : Wins(right[s].best, left[s].best)})
  IN [shared |-> Cardinality(shared), a_wins |-> a_wins, b_wins |-> b_wins, ties |-> Cardinality(shared) - a_wins - b_wins]

\* scores_group_compare
GroupRows(g) == SelectSeq(Rows, LAMBDA r : r.group = g)
GroupCompare ==
  [g \in {r.group : r \in ToSet(Rows)} |->
     [attempts |-> Len(GroupRows(g)), best |-> Best(GroupRows(g)), people |-> {r.id : r \in ToSet(GroupRows(g))} \ {NoId}]]
------------------------------------------------------------------------------
\* Somebody whose rows all have the id, and whose id is no name of one who has none.
Certain(p) == p \in Ids /\ \A r \in ToSet(Rows) : r.name = p => r.id # NoId

\* Every record is in the ranking, or has no sender, was dropped or could not be read.
RankingIsWhole ==
  LET board == Leaderboard(1) IN
  /\ MapThenSumSet(LAMBDA i : board[i].attempts, DOMAIN board)
       + Len(SelectSeq(Rows, LAMBDA r : r.id = NoId /\ r.name = NoId)) + Dropped + Unreadable = Len(records)
  /\ \A i, j \in DOMAIN board : i < j => board[i].who # board[j].who /\ board[i].best >= board[j].best

\* The profile of a person says what the ranking says.
ProfilesAgree ==
  \A p \in People : Certain(p) =>
    /\ Len(Mine(p, NoId)) = Entry(p).attempts /\ Best(Mine(p, NoId)) = Entry(p).best
    /\ DOMAIN BySegment(Mine(p, NoId)) \subseteq Entry(p).segments

\* A duel is the same from both sides, and whoever is found by the id competes with
\* the bests of the profile; nobody wins a tie.
DuelsAgree ==
  \A a, b \in Ids :
    LET d == Duel(a, b)
        e == Duel(b, a)
    IN /\ d.a_wins = e.b_wins /\ d.ties = e.ties /\ d.ties >= 0
       /\ a = b => d.ties = d.shared
       /\ Mine(a, NoId) # <<>> => d.shared <= Cardinality(DOMAIN BySegment(Mine(a, NoId)))

\* No row is in two groups, and the fastest group has the fastest row.
GroupsAgree ==
  LET g == GroupCompare IN
  /\ MapThenSumSet(LAMBDA x : g[x].attempts, DOMAIN g) = Len(Rows)
  /\ DOMAIN g # {} => Max({g[x].best : x \in DOMAIN g}) = Best(Rows)

\* The four of them, each of which goes through the archive by itself, agree on
\* what is in it.
BoardsAgree == RankingIsWhole /\ ProfilesAgree /\ DuelsAgree /\ GroupsAgree
=============================================================================
