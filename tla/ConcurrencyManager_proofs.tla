---------------------- MODULE ConcurrencyManager_proofs ----------------------
(***************************************************************************)
(* What ConcurrencyManager guarantees for every number of threads and      *)
(* every cap on the finished entries.                                      *)
(***************************************************************************)
EXTENDS ConcurrencyManager, FiniteSetTheorems, WellFoundedInduction, TLAPS

(***************************************************************************)
(* Pruning.                                                                *)
(***************************************************************************)

\* A nonempty set of thread ids has an oldest member.
LEMMA OldestExists ==
  ASSUME NEW S, S \subseteq Ids, S # {}
  PROVE  \E m \in S : \A j \in S : m <= j
<1>1. S \subseteq Nat
  BY BoundsAssumption DEF Ids
<1>2. PICK m \in S : \A j \in S : ~(<<j, m>> \in OpToRel(<, Nat))
  BY <1>1, NatLessThanWellFounded, WFMin
<1>3. ASSUME NEW j \in S, j < m
      PROVE  <<j, m>> \in OpToRel(<, Nat)
  <2>1. <<j, m>> \in Nat \X Nat /\ <<j, m>>[1] < <<j, m>>[2]
    BY <1>1, <1>3
  <2> QED BY <2>1, Zenon DEF OpToRel
<1>4. \A j \in S : ~(j < m)
  BY <1>2, <1>3, Zenon
<1>5. \A j \in S : m <= j
  BY <1>1, <1>4
<1> QED BY <1>5

LEMMA IdsFinite == IsFiniteSet(Ids)
BY FS_Interval, BoundsAssumption DEF Ids

\* pruneFinished leaves at most MaxFinished finished entries.
LEMMA NewestBounded ==
  ASSUME NEW S, S \subseteq Ids
  PROVE  Cardinality(Newest(S)) <= MaxFinished
<1> DEFINE N == Newest(S)
<1>1. N \subseteq S /\ N \subseteq Ids
  BY DEF Newest
<1>2. IsFiniteSet(S) /\ IsFiniteSet(N)
  BY <1>1, IdsFinite, FS_Subset
<1>3. CASE N = {}
  BY <1>3, FS_EmptySet, BoundsAssumption
<1>4. CASE N # {}
  <2>1. PICK m \in N : \A j \in N : m <= j
    BY <1>1, <1>4, OldestExists
  <2> DEFINE Above == {j \in S : j > m}
  <2>2. Cardinality(Above) < MaxFinished
    BY <2>1 DEF Newest
  <2>3. N \ {m} \subseteq Above
    BY <1>1, <2>1, BoundsAssumption DEF Ids
  <2>4. IsFiniteSet(Above) /\ Cardinality(Above) \in Nat
    BY <1>2, FS_Subset, FS_CardinalityType
  <2>5. Cardinality(N \ {m}) <= Cardinality(Above)
    BY <2>3, <2>4, FS_Subset
  <2>6. Cardinality(N \ {m}) = Cardinality(N) - 1
    BY <1>2, <2>1, FS_RemoveElement
  <2>7. Cardinality(N) \in Nat
    BY <1>2, FS_CardinalityType
  <2> QED BY <2>2, <2>4, <2>5, <2>6, <2>7, BoundsAssumption
<1> QED BY <1>3, <1>4

\* Of at most MaxFinished + 1 finished entries, pruning drops at most the oldest.
LEMMA NewestKeeps ==
  ASSUME NEW S, S \subseteq Ids, Cardinality(S) <= MaxFinished + 1
  PROVE  /\ Cardinality(S) <= MaxFinished => Newest(S) = S
         /\ Cardinality(S) > MaxFinished => Cardinality(Newest(S)) >= MaxFinished
<1>1. IsFiniteSet(S) /\ Cardinality(S) \in Nat
  BY IdsFinite, FS_Subset, FS_CardinalityType
<1>2. ASSUME NEW x \in S, x \notin Newest(S)
      PROVE  Cardinality(S) = MaxFinished + 1 /\ \A y \in S \ {x} : y > x
  <2> DEFINE Above == {j \in S : j > x}
             Others == S \ {x}
  <2>1. Above \subseteq Others
    BY BoundsAssumption DEF Ids
  <2>2. IsFiniteSet(Others) /\ Cardinality(Others) = Cardinality(S) - 1
    BY <1>1, <1>2, FS_RemoveElement
  <2>3. IsFiniteSet(Above) /\ Cardinality(Above) \in Nat /\ Cardinality(Others) \in Nat
    BY <2>1, <2>2, FS_Subset, FS_CardinalityType
  <2>4. Cardinality(Above) <= Cardinality(Others)
        /\ (Cardinality(Others) = Cardinality(Above) => Others = Above)
    BY <2>1, <2>2, FS_Subset
  <2>5. Cardinality(Above) >= MaxFinished
    BY <1>2, <2>3, BoundsAssumption DEF Newest
  <2>6. Cardinality(S) = MaxFinished + 1 /\ Cardinality(Others) = Cardinality(Above)
    BY <1>1, <2>2, <2>3, <2>4, <2>5, BoundsAssumption
  <2> HIDE DEF Others
  <2>7. Others = Above
    BY <2>4, <2>6
  <2> QED BY <2>6, <2>7 DEF Others
<1>3. Cardinality(S) <= MaxFinished => Newest(S) = S
  BY <1>1, <1>2, BoundsAssumption DEF Newest
<1>4. ASSUME Cardinality(S) > MaxFinished
      PROVE  Cardinality(Newest(S)) >= MaxFinished
  <2>1. Newest(S) \subseteq S /\ IsFiniteSet(Newest(S))
    BY <1>1, FS_Subset DEF Newest
  <2>2. CASE Newest(S) = S
    BY <2>2, <1>1, <1>4, BoundsAssumption
  <2>3. CASE Newest(S) # S
    <3>1. PICK x \in S : x \notin Newest(S)
      BY <2>1, <2>3
    <3>2. S \ {x} \subseteq Newest(S)
      <4> SUFFICES ASSUME NEW y \in S \ {x}, y \notin Newest(S) PROVE FALSE
        OBVIOUS
      <4>1. y > x /\ x > y
        BY <1>2, <3>1
      <4> QED BY <4>1, BoundsAssumption DEF Ids
    <3>3. Cardinality(S \ {x}) = Cardinality(S) - 1
      BY <1>1, <3>1, FS_RemoveElement
    <3>4. Cardinality(S \ {x}) <= Cardinality(Newest(S)) /\ Cardinality(Newest(S)) \in Nat
      BY <2>1, <3>2, FS_Subset, FS_CardinalityType
    <3> QED BY <1>1, <1>4, <3>3, <3>4, BoundsAssumption
  <2> QED BY <2>2, <2>3
<1> QED BY <1>3, <1>4

(***************************************************************************)
(* Type correctness.                                                       *)
(***************************************************************************)

\* finishEntry records an outcome for one running entry and only removes keys.
LEMMA FinishEntryEffect ==
  ASSUME TypeOK, NEW i \in Ids, NEW s \in Finished, FinishEntry(i, s)
  PROVE  /\ registered' \subseteq registered
         /\ status' \in [Ids -> Finished \cup {"none", "running"}]
         /\ \A j \in Ids : status'[j] # status[j] =>
                j = i /\ status'[j] = s /\ status[j] \notin Finished /\ j \in registered
         /\ \A j \in registered : status'[j] \notin Finished => j \in registered'
         /\ FinishedIn(registered', status') = Newest(FinishedIn(registered, status'))
BY DEF TypeOK, FinishEntry, FinishStatus, Prune, Newest, FinishedIn, Finished

LEMMA ActorFacts == Main \in Actor /\ Main \notin Ids /\ Ids \subseteq Actor
BY BoundsAssumption DEF Actor, Ids, Main

LEMMA InitType == Init => TypeOK
BY BoundsAssumption DEF Init, TypeOK, FirstId, Idle, OpKind, Ids

LEMMA NextType == TypeOK /\ [Next]_vars => TypeOK'
<1> SUFFICES ASSUME TypeOK, [Next]_vars PROVE TypeOK'
  OBVIOUS
<1> USE ActorFacts
<1> USE DEF TypeOK, regVars, mainVars, ghosts, OpKind, Live, Idle, On
<1>1. ASSUME NEW a \in Actor, ForkAllocate(a) PROVE TypeOK'
  BY <1>1, BoundsAssumption DEF ForkAllocate, Ids
<1>2. ASSUME NEW a \in Actor, ForkInsert(a) PROVE TypeOK'
  BY <1>2 DEF ForkInsert
<1>3. ASSUME NEW a \in Actor, ForkOpen(a) PROVE TypeOK'
  BY <1>3 DEF ForkOpen
<1>4. ASSUME NEW a \in Actor, NEW i \in Ids, CancelLookup(a, i) PROVE TypeOK'
  BY <1>4 DEF CancelLookup
<1>5. ASSUME NEW a \in Actor, CancelMark(a) PROVE TypeOK'
  <2>1. PICK i \in Ids : FinishEntry(i, "cancelled") /\ op' = [op EXCEPT ![a] = On("throwing", i)]
    BY <1>5 DEF CancelMark
  <2>2. registered' \subseteq Ids /\ status' \in [Ids -> Finished \cup {"none", "running"}]
    BY <2>1, FinishEntryEffect DEF Finished
  <2> QED BY <1>5, <2>1, <2>2 DEF CancelMark
<1>6. ASSUME NEW a \in Actor, CancelThrow(a) PROVE TypeOK'
  <2>1. PICK i \in op[a].on :
          /\ thread' = [thread EXCEPT ![i] = Hit(@)]
          /\ op' = IF thread[i] = "stopped"
                   THEN [op EXCEPT ![a] = On("joining", i)]
                   ELSE [op EXCEPT ![a] = On("joining", i), ![i] = Idle]
    BY <1>6 DEF CancelThrow
  <2>2. i \in Ids
    BY <2>1
  <2>3. Hit(thread[i]) \in Live \cup {"absent", "stopped"}
    BY <2>2 DEF Hit
  <2>4. thread' \in [Ids -> Live \cup {"absent", "stopped"}]
    BY <2>1, <2>3
  <2>5. op' \in [Actor -> [kind : OpKind, on : SUBSET Ids]]
    BY <2>1, <2>2
  <2> QED BY <1>6, <2>4, <2>5 DEF CancelThrow
<1>7. ASSUME NEW a \in Actor, CancelReturn(a) PROVE TypeOK'
  BY <1>7 DEF CancelReturn
<1>8. ASSUME NEW a \in Actor, NEW S \in SUBSET Ids, BeginWait(a, S) PROVE TypeOK'
  BY <1>8 DEF BeginWait
<1>9. ASSUME NEW a \in Actor, AwaitReturn(a) PROVE TypeOK'
  BY <1>9 DEF AwaitReturn
<1>10. ASSUME NEW i \in Ids, EndAction(i) PROVE TypeOK'
  BY <1>10 DEF EndAction
<1>11. ASSUME NEW i \in Ids, FinishSelf(i) PROVE TypeOK'
  <2>1. PICK s \in Finished : FinishEntry(i, s)
    BY <1>11 DEF FinishSelf, Finished
  <2>2. registered' \subseteq Ids /\ status' \in [Ids -> Finished \cup {"none", "running"}]
    BY <2>1, FinishEntryEffect
  <2> QED BY <1>11, <2>2 DEF FinishSelf
<1>12. ASSUME NEW i \in Ids, Rethrow(i) \/ UnwindEnd(i) PROVE TypeOK'
  BY <1>12 DEF Rethrow, UnwindEnd
<1>13. ASSUME ShutdownSnapshot PROVE TypeOK'
  BY <1>13 DEF ShutdownSnapshot
<1>14. ASSUME DrainNext PROVE TypeOK'
  BY <1>14 DEF DrainNext, DrainOp
<1>15. ASSUME DrainDone PROVE TypeOK'
  BY <1>15 DEF DrainDone
<1>16. CASE UNCHANGED vars
  BY <1>16 DEF vars
<1> QED
  BY <1>1, <1>2, <1>3, <1>4, <1>5, <1>6, <1>7, <1>8, <1>9, <1>10, <1>11, <1>12,
     <1>13, <1>14, <1>15, <1>16
     DEF Next, Fork, Cancel, Wait, Await, AwaitAny, Run, Shutdown

\* Every variable keeps its type.
THEOREM TypeCorrect == Spec => []TypeOK
BY InitType, NextType, PTL DEF Spec

(***************************************************************************)
(* The pruned entries.                                                     *)
(***************************************************************************)

Pruned(p) == status[p] \in Finished /\ p \notin registered

\* Something was pruned only if the finished entries fill their quota.
QuotaFull ==
  (\E p \in Ids : Pruned(p)) =>
    Cardinality(FinishedIn(registered, status)) >= MaxFinished

PruneInv == FinishedBounded /\ NewestAreKept /\ QuotaFull

LEMMA FinishEntryPrune ==
  ASSUME TypeOK, PruneInv, NEW i \in Ids, NEW s \in Finished, FinishEntry(i, s)
  PROVE  PruneInv'
<1> DEFINE D  == FinishedIn(registered, status)
           D2 == FinishedIn(registered, status')
<1>1. FinishedIn(registered', status') = Newest(D2)
  BY FinishEntryEffect
<1>2. D \subseteq D2 /\ D2 \subseteq D \cup {i} /\ D2 \subseteq Ids /\ D \subseteq Ids
  BY FinishEntryEffect DEF TypeOK, FinishedIn
<1>3. IsFiniteSet(D) /\ IsFiniteSet(D2) /\ Cardinality(D) \in Nat /\ Cardinality(D2) \in Nat
  BY <1>2, IdsFinite, FS_Subset, FS_CardinalityType
<1>4. Cardinality(D) <= Cardinality(D2) /\ Cardinality(D2) <= MaxFinished + 1
  <2>0. Cardinality(D) <= MaxFinished
    BY DEF PruneInv, FinishedBounded
  <2>1. Cardinality(D \cup {i}) <= MaxFinished + 1 /\ IsFiniteSet(D \cup {i})
        /\ Cardinality(D \cup {i}) \in Nat
    <3> HIDE DEF D
    <3>1. IsFiniteSet(D \cup {i})
          /\ Cardinality(D \cup {i}) = IF i \in D THEN Cardinality(D) ELSE Cardinality(D) + 1
      BY <1>3, FS_AddElement
    <3> QED BY <1>3, <2>0, <3>1, BoundsAssumption
  <2>2. Cardinality(D2) <= Cardinality(D \cup {i}) /\ Cardinality(D) <= Cardinality(D2)
    BY <1>2, <1>3, <2>1, FS_Subset
  <2> QED BY <1>3, <2>1, <2>2, BoundsAssumption
<1>5. FinishedBounded'
  BY <1>1, <1>2, NewestBounded DEF FinishedBounded
\* What Pruned(p)' means: pruned before, or dropped by this very step.
<1>6. ASSUME NEW p \in Ids, Pruned(p)'
      PROVE  \/ Pruned(p)
             \/ p \in D2 \ Newest(D2)
  <2>1. CASE p \notin registered
    BY <1>6, <2>1, FinishEntryEffect DEF Pruned
  <2>2. CASE p \in registered
    BY <1>1, <1>6, <2>2 DEF Pruned, FinishedIn
  <2> QED BY <2>1, <2>2
<1>7. NewestAreKept'
  <2> SUFFICES ASSUME NEW p \in Ids, NEW k \in Ids, Pruned(p)',
                      status'[k] \in Finished, k \in registered'
               PROVE  p < k
    BY DEF NewestAreKept, Pruned
  <2> DEFINE AboveK == {j \in D2 : j > k}
  <2>1. k \in Newest(D2) /\ k \in D2 /\ Cardinality(AboveK) < MaxFinished
    BY <1>1 DEF FinishedIn, Newest
  <2>2. IsFiniteSet(AboveK) /\ Cardinality(AboveK) \in Nat
    BY <1>3, FS_Subset, FS_CardinalityType
  <2>3. CASE Pruned(p)
    <3>1. \A j \in D : p < j
      BY <2>3 DEF TypeOK, PruneInv, NewestAreKept, Pruned, FinishedIn
    <3>2. CASE k \in D
      BY <3>1, <3>2
    <3>3. CASE k = i
      <4> SUFFICES ASSUME k < p PROVE FALSE
        BY <2>1, <2>3, <3>3, BoundsAssumption DEF Ids, Pruned, FinishedIn
      <4>1. D \subseteq AboveK
        BY <1>2, <3>1, BoundsAssumption DEF Ids
      <4>2. Cardinality(D) <= Cardinality(AboveK)
        BY <2>2, <4>1, FS_Subset
      <4>3. Cardinality(D) >= MaxFinished
        BY <2>3 DEF PruneInv, QuotaFull
      <4> QED BY <1>3, <2>1, <2>2, <4>2, <4>3, BoundsAssumption
    <3> QED BY <1>2, <2>1, <3>2, <3>3
  <2>4. CASE p \in D2 \ Newest(D2)
    <3> SUFFICES ASSUME k < p PROVE FALSE
      BY <2>1, <2>4, BoundsAssumption DEF Ids
    <3> DEFINE AboveP == {j \in D2 : j > p}
    <3>1. AboveP \subseteq AboveK
      BY <1>2, BoundsAssumption DEF Ids
    <3>2. Cardinality(AboveP) <= Cardinality(AboveK)
      BY <2>2, <3>1, FS_Subset
    <3>3. ~(Cardinality(AboveP) < MaxFinished)
      BY <2>4 DEF Newest
    <3>4. IsFiniteSet(AboveP) /\ Cardinality(AboveP) \in Nat
      BY <1>3, FS_Subset, FS_CardinalityType
    <3> QED BY <2>1, <2>2, <3>2, <3>3, <3>4, BoundsAssumption
  <2> QED BY <1>6, <2>3, <2>4
<1>8. QuotaFull'
  <2> SUFFICES ASSUME NEW p \in Ids, Pruned(p)'
               PROVE  Cardinality(Newest(D2)) >= MaxFinished
    BY <1>1 DEF QuotaFull
  <2>1. CASE Pruned(p)
    <3>1. Cardinality(D2) >= MaxFinished
      BY <1>3, <1>4, <2>1, BoundsAssumption DEF PruneInv, QuotaFull
    <3> QED BY <1>2, <1>3, <1>4, <3>1, NewestKeeps, BoundsAssumption
  <2>2. CASE p \in D2 \ Newest(D2)
    <3>1. ~(Cardinality(D2) <= MaxFinished)
      BY <1>2, <1>4, <2>2, NewestKeeps
    <3> QED BY <1>2, <1>3, <1>4, <3>1, NewestKeeps, BoundsAssumption
  <2> QED BY <1>6, <2>1, <2>2
<1> QED BY <1>5, <1>7, <1>8 DEF PruneInv

(***************************************************************************)
(* Ids are used once: the id a fork is about to insert has no entry yet.   *)
(***************************************************************************)

Forking(a, i) == op[a].kind = "forking" /\ i \in op[a].on

FreshInv ==
  /\ \A i \in Ids : i >= nextId => thread[i] = "absent" /\ status[i] = "none"
  /\ \A i \in registered : status[i] # "none"
  /\ \A i \in drain : i < nextId
  /\ \A a \in Actor : \A i \in op[a].on : i < nextId
  /\ \A a \in Actor : \A i \in Ids : Forking(a, i) => status[i] = "none"
  /\ \A a, b \in Actor : \A i \in Ids : Forking(a, i) /\ Forking(b, i) => a = b

LEMMA InitFresh == Init => FreshInv
BY DEF Init, FreshInv, Forking, Idle

LEMMA NextFresh == TypeOK /\ FreshInv /\ [Next]_vars => FreshInv'
<1> SUFFICES ASSUME TypeOK, FreshInv, [Next]_vars PROVE FreshInv'
  OBVIOUS
<1> USE ActorFacts
<1> USE DEF TypeOK, FreshInv, Forking, regVars, mainVars, ghosts, Idle, On
<1>1. ASSUME NEW a \in Actor, ForkAllocate(a) PROVE FreshInv'
  <2>1. \A i \in op'[a].on : i = nextId
    BY <1>1 DEF ForkAllocate
  <2>2. \A b \in Actor : b # a => op'[b] = op[b]
    BY <1>1 DEF ForkAllocate
  <2> QED BY <1>1, <2>1, <2>2, BoundsAssumption DEF ForkAllocate, Ids
<1>2. ASSUME NEW a \in Actor, ForkInsert(a) PROVE FreshInv'
  <2>1. PICK i \in Ids : /\ Forking(a, i)
                         /\ status' = [status EXCEPT ![i] = "running"]
                         /\ op' = [op EXCEPT ![a] = On("opening", i)]
    BY <1>2 DEF ForkInsert
  <2>2. \A b \in Actor : b # a => op'[b] = op[b] /\ ~Forking(b, i)
    BY <2>1
  <2>3. op'[a].kind = "opening" /\ op'[a].on = {i}
    BY <2>1
  <2> QED BY <1>2, <2>1, <2>2, <2>3, BoundsAssumption DEF ForkInsert, Ids
<1>3. ASSUME NEW a \in Actor, ForkOpen(a) PROVE FreshInv'
  <2>1. PICK i \in op[a].on :
           thread' = [thread EXCEPT ![i] = IF @ = "gated" THEN "running" ELSE @]
    BY <1>3 DEF ForkOpen
  <2> QED BY <1>3, <2>1, BoundsAssumption DEF ForkOpen, Ids
<1>4. ASSUME NEW a \in Actor, NEW i \in Ids, CancelLookup(a, i) PROVE FreshInv'
  <2>1. i < nextId
    BY <1>4, BoundsAssumption DEF CancelLookup, Ids
  <2> QED BY <1>4, <2>1 DEF CancelLookup
<1>5. ASSUME NEW a \in Actor, CancelMark(a) PROVE FreshInv'
  <2>1. PICK i \in op[a].on : FinishEntry(i, "cancelled") /\ op' = [op EXCEPT ![a] = On("throwing", i)]
    BY <1>5 DEF CancelMark
  <2>2. i \in Ids /\ i < nextId
    BY <2>1
  <2>3. /\ registered' \subseteq registered
        /\ \A j \in Ids : status'[j] # status[j] => status'[j] = "cancelled" /\ j \in registered
    BY <2>1, <2>2, FinishEntryEffect DEF Finished
  <2> QED BY <1>5, <2>1, <2>2, <2>3 DEF CancelMark
<1>6. ASSUME NEW a \in Actor, CancelThrow(a) PROVE FreshInv'
  <2>1. PICK i \in op[a].on :
          /\ thread' = [thread EXCEPT ![i] = Hit(@)]
          /\ op' = IF thread[i] = "stopped"
                   THEN [op EXCEPT ![a] = On("joining", i)]
                   ELSE [op EXCEPT ![a] = On("joining", i), ![i] = Idle]
    BY <1>6 DEF CancelThrow
  <2>2. i \in Ids /\ i < nextId
    BY <2>1
  <2>3. \A j \in Ids : j >= nextId => thread'[j] = thread[j]
    BY <2>1, <2>2, BoundsAssumption DEF Ids
  <2>4. \A b \in Actor : op'[b] = op[b] \/ op'[b] = Idle \/ op'[b] = On("joining", i)
    BY <2>1, <2>2
  <2> QED BY <1>6, <2>2, <2>3, <2>4 DEF CancelThrow
<1>7. ASSUME NEW a \in Actor, CancelReturn(a) PROVE FreshInv'
  BY <1>7 DEF CancelReturn
<1>8. ASSUME NEW a \in Actor, NEW S \in SUBSET Ids, BeginWait(a, S) PROVE FreshInv'
  <2>1. \A i \in registered : i < nextId
    BY BoundsAssumption DEF Ids
  <2>2. op' = op \/ (S \subseteq registered /\ op' = [op EXCEPT ![a] = [kind |-> "awaiting", on |-> S]])
    BY <1>8 DEF BeginWait
  <2>3. \A b \in Actor :
          \/ op'[b] = op[b]
          \/ op'[b].kind = "awaiting" /\ op'[b].on \subseteq registered
    BY <2>2
  <2>4. UNCHANGED <<nextId, registered, status, thread, drain>>
    BY <1>8 DEF BeginWait
  <2> QED BY <2>1, <2>3, <2>4
<1>9. ASSUME NEW a \in Actor, AwaitReturn(a) PROVE FreshInv'
  BY <1>9 DEF AwaitReturn
<1>10. ASSUME NEW i \in Ids, EndAction(i) \/ Rethrow(i) \/ UnwindEnd(i) PROVE FreshInv'
  BY <1>10 DEF EndAction, Rethrow, UnwindEnd
<1>11. ASSUME NEW i \in Ids, FinishSelf(i) PROVE FreshInv'
  <2>1. PICK s \in Finished : FinishEntry(i, s)
    BY <1>11 DEF FinishSelf, Finished
  <2>2. /\ registered' \subseteq registered
        /\ \A j \in Ids : status'[j] # status[j] => status'[j] \in Finished /\ j \in registered
    BY <2>1, FinishEntryEffect
  <2> QED BY <1>11, <2>2 DEF FinishSelf, Finished
<1>12. ASSUME ShutdownSnapshot PROVE FreshInv'
  <2>1. \A i \in registered : i < nextId
    BY BoundsAssumption DEF Ids
  <2> QED BY <1>12, <2>1 DEF ShutdownSnapshot
<1>13. ASSUME DrainNext PROVE FreshInv'
  BY <1>13 DEF DrainNext, DrainOp
<1>14. ASSUME DrainDone PROVE FreshInv'
  BY <1>14 DEF DrainDone
<1>15. CASE UNCHANGED vars
  BY <1>15 DEF vars
<1> QED
  BY <1>1, <1>2, <1>3, <1>4, <1>5, <1>6, <1>7, <1>8, <1>9, <1>10, <1>11, <1>12,
     <1>13, <1>14, <1>15
     DEF Next, Fork, Cancel, Wait, Await, AwaitAny, Run, Shutdown

(***************************************************************************)
(* Safety of cancel, await, pruning and shutdown.                          *)
(***************************************************************************)

\* A thread records its own outcome in its last step.
OutcomeInv == \A i \in Ids : status[i] = "ended" => thread[i] = "stopped"

\* Every thread of the snapshot is still to be visited, has stopped, or is the
\* one Main is cancelling or waiting for.
DrainInv ==
  /\ main # "inner" =>
       \A i \in DOMAIN snapshot :
         \/ i \in drain
         \/ thread[i] = "stopped"
         \/ i \in op[Main].on /\ op[Main].kind \in {"marking", "throwing", "joining"}
  /\ main # "inner" => op[Main].kind \in {"idle", "marking", "throwing", "joining"}
  /\ main # "inner" => \A i, j \in op[Main].on : i = j
  /\ main = "exited" => drain = {} /\ op[Main] = Idle

SafetyInv ==
  /\ TypeOK
  /\ FreshInv
  /\ PruneInv
  /\ OutcomeInv
  /\ RunningIsKept
  /\ AwaitedStopped
  /\ CancelReturnsAfterStop
  /\ DrainInv

LEMMA InitSafety == Init => SafetyInv
<1> SUFFICES ASSUME Init PROVE SafetyInv
  OBVIOUS
<1>1. TypeOK /\ FreshInv
  BY InitType, InitFresh
<1>2. FinishedIn(registered, status) = {}
  BY DEF Init, FinishedIn
<1>3. FinishedBounded
  BY <1>2, FS_EmptySet, BoundsAssumption DEF FinishedBounded
<1>4. NewestAreKept /\ QuotaFull
  BY DEF Init, NewestAreKept, QuotaFull, Pruned, Finished
<1> QED
  BY <1>1, <1>3, <1>4, ActorFacts
     DEF Init, SafetyInv, PruneInv, OutcomeInv, RunningIsKept, AwaitedStopped,
         CancelReturnsAfterStop, DrainInv

\* A stopped thread stays stopped.
LEMMA StoppedForever ==
  ASSUME TypeOK, FreshInv, [Next]_vars
  PROVE  \A i \in Ids : thread[i] = "stopped" => thread'[i] = "stopped"
<1> SUFFICES ASSUME NEW i \in Ids, thread[i] = "stopped" PROVE thread'[i] = "stopped"
  OBVIOUS
<1> USE DEF TypeOK, Idle
<1>1. ASSUME NEW a \in Actor, ForkAllocate(a) PROVE thread'[i] = "stopped"
  <2>1. i # nextId
    BY BoundsAssumption DEF FreshInv, Ids
  <2> QED BY <1>1, <2>1 DEF ForkAllocate
<1>2. ASSUME NEW a \in Actor, ForkOpen(a) PROVE thread'[i] = "stopped"
  BY <1>2 DEF ForkOpen
<1>3. ASSUME NEW a \in Actor, CancelThrow(a) PROVE thread'[i] = "stopped"
  BY <1>3 DEF CancelThrow, Hit
<1>4. ASSUME NEW j \in Ids, Run(j) PROVE thread'[i] = "stopped"
  BY <1>4 DEF Run, EndAction, FinishSelf, Rethrow, UnwindEnd
<1>5. ASSUME NEW a \in Actor, Fork(a) \/ Cancel(a) \/ Wait(a) PROVE thread'[i] = "stopped"
  BY <1>1, <1>2, <1>3, <1>5
     DEF Fork, ForkInsert, Cancel, CancelLookup, CancelMark, CancelReturn,
         Wait, Await, AwaitAny, BeginWait, AwaitReturn
<1>6. ASSUME Shutdown PROVE thread'[i] = "stopped"
  BY <1>6 DEF Shutdown, ShutdownSnapshot, DrainNext, DrainDone
<1> QED BY <1>4, <1>5, <1>6 DEF Next, vars

LEMMA NextPrune == TypeOK /\ FreshInv /\ PruneInv /\ [Next]_vars => PruneInv'
<1> SUFFICES ASSUME TypeOK, FreshInv, PruneInv, [Next]_vars PROVE PruneInv'
  OBVIOUS
<1>1. ASSUME NEW a \in Actor, ForkInsert(a) PROVE PruneInv'
  <2>1. PICK i \in Ids : /\ status[i] = "none"
                         /\ status' = [status EXCEPT ![i] = "running"]
                         /\ registered' = registered \cup {i}
    BY <1>1 DEF ForkInsert, FreshInv, Forking, TypeOK
  <2>2. \A j \in Ids : \/ status'[j] = status[j] /\ (j \in registered' <=> j \in registered)
                       \/ status[j] \notin Finished /\ status'[j] \notin Finished
    BY <2>1 DEF TypeOK, Finished
  <2>3. FinishedIn(registered', status') = FinishedIn(registered, status)
    BY <2>1, <2>2 DEF FinishedIn, TypeOK
  <2> QED
    BY <2>2, <2>3 DEF PruneInv, FinishedBounded, NewestAreKept, QuotaFull, Pruned
<1>2. ASSUME NEW i \in Ids, NEW s \in Finished, FinishEntry(i, s) PROVE PruneInv'
  BY <1>2, FinishEntryPrune
<1>3. ASSUME NEW a \in Actor, CancelMark(a) PROVE PruneInv'
  BY <1>2, <1>3 DEF CancelMark, TypeOK, Finished
<1>4. ASSUME NEW i \in Ids, FinishSelf(i) PROVE PruneInv'
  BY <1>2, <1>4 DEF FinishSelf, Finished
<1>5. ASSUME UNCHANGED regVars PROVE PruneInv'
  BY <1>5 DEF regVars, PruneInv, FinishedBounded, NewestAreKept, QuotaFull, Pruned
<1>6. ASSUME NEW a \in Actor, Fork(a) \/ Cancel(a) \/ Wait(a) PROVE PruneInv'
  BY <1>1, <1>3, <1>5, <1>6
     DEF Fork, ForkAllocate, ForkOpen, Cancel, CancelLookup, CancelThrow, CancelReturn,
         Wait, Await, AwaitAny, BeginWait, AwaitReturn
<1>7. ASSUME NEW i \in Ids, Run(i) PROVE PruneInv'
  BY <1>4, <1>5, <1>7 DEF Run, EndAction, Rethrow, UnwindEnd
<1>8. ASSUME Shutdown \/ UNCHANGED vars PROVE PruneInv'
  BY <1>5, <1>8 DEF Shutdown, ShutdownSnapshot, DrainNext, DrainDone, vars, regVars
<1> QED BY <1>6, <1>7, <1>8 DEF Next

\* How one step may change the entry of a thread.
LEMMA EntryStep ==
  ASSUME TypeOK, FreshInv, OutcomeInv, RunningIsKept, [Next]_vars, NEW i \in Ids
  PROVE  /\ status[i] \in Finished => status'[i] = status[i]
         /\ status'[i] = "running" => i \in registered'
         /\ status'[i] = "ended" => thread'[i] = "stopped"
         /\ status[i] \in Finished /\ i \notin registered => i \notin registered'
<1> DEFINE Goal == /\ status[i] \in Finished => status'[i] = status[i]
                   /\ status'[i] = "running" => i \in registered'
                   /\ status'[i] = "ended" => thread'[i] = "stopped"
                   /\ status[i] \in Finished /\ i \notin registered => i \notin registered'
<1>0. thread[i] = "stopped" => thread'[i] = "stopped"
  BY StoppedForever
<1>1. ASSUME UNCHANGED regVars PROVE Goal
  BY <1>0, <1>1 DEF regVars, OutcomeInv, RunningIsKept
<1>2. ASSUME NEW a \in Actor, ForkInsert(a) PROVE Goal
  <2>1. PICK j \in Ids : /\ status[j] = "none"
                         /\ status' = [status EXCEPT ![j] = "running"]
                         /\ registered' = registered \cup {j}
    BY <1>2 DEF ForkInsert, FreshInv, Forking, TypeOK
  <2> QED BY <1>0, <2>1 DEF TypeOK, OutcomeInv, RunningIsKept, Finished
<1>3. ASSUME NEW j \in Ids, NEW s \in Finished, FinishEntry(j, s),
             s = "cancelled" \/ thread'[j] = "stopped"
      PROVE  Goal
  BY <1>0, <1>3, FinishEntryEffect DEF TypeOK, OutcomeInv, RunningIsKept, Finished
<1>4. ASSUME NEW a \in Actor, CancelMark(a) PROVE Goal
  BY <1>3, <1>4 DEF CancelMark, TypeOK, Finished
<1>5. ASSUME NEW j \in Ids, FinishSelf(j) PROVE Goal
  BY <1>3, <1>5 DEF FinishSelf, TypeOK, Finished
<1>6. ASSUME NEW a \in Actor, Fork(a) \/ Cancel(a) \/ Wait(a) PROVE Goal
  BY <1>1, <1>2, <1>4, <1>6
     DEF Fork, ForkAllocate, ForkOpen, Cancel, CancelLookup, CancelThrow, CancelReturn,
         Wait, Await, AwaitAny, BeginWait, AwaitReturn
<1>7. ASSUME NEW j \in Ids, Run(j) PROVE Goal
  BY <1>1, <1>5, <1>7 DEF Run, EndAction, Rethrow, UnwindEnd
<1>8. ASSUME Shutdown \/ UNCHANGED vars PROVE Goal
  BY <1>1, <1>8 DEF Shutdown, ShutdownSnapshot, DrainNext, DrainDone, vars, regVars
<1> QED BY <1>6, <1>7, <1>8 DEF Next

\* What await and cancel may report.
PrunedEarly(i) == status[i] = "cancelled" /\ i \notin registered

LEMMA ReportStep ==
  ASSUME TypeOK, FreshInv, OutcomeInv, RunningIsKept, [Next]_vars
  PROVE  /\ \A i \in awaited' : i \in awaited \/ thread'[i] = "stopped" \/ PrunedEarly(i)'
         /\ \A i \in killed' : i \in killed \/ thread'[i] = "stopped"
<1> DEFINE Goal ==
      /\ \A i \in awaited' : i \in awaited \/ thread'[i] = "stopped" \/ PrunedEarly(i)'
      /\ \A i \in killed' : i \in killed \/ thread'[i] = "stopped"
<1>1. ASSUME UNCHANGED ghosts PROVE Goal
  BY <1>1 DEF ghosts
<1>2. ASSUME NEW a \in Actor, CancelReturn(a) PROVE Goal
  BY <1>2 DEF CancelReturn, Done, TypeOK
<1>3. ASSUME NEW a \in Actor, AwaitReturn(a) PROVE Goal
  BY <1>3 DEF AwaitReturn, Done, TypeOK
<1>4. ASSUME NEW a \in Actor, NEW S \in SUBSET Ids, S \subseteq Handles, BeginWait(a, S)
      PROVE  Goal
  <2>1. \A i \in S \ registered : status[i] = "cancelled" \/ thread[i] = "stopped"
    BY <1>4 DEF Handles, TypeOK, OutcomeInv, RunningIsKept, Finished
  <2>2. UNCHANGED <<registered, status, thread, killed>>
        /\ (UNCHANGED awaited \/ \E i \in S \ registered : awaited' = awaited \cup {i})
    BY <1>4 DEF BeginWait, regVars
  <2> QED BY <2>1, <2>2 DEF PrunedEarly
<1>5. ASSUME NEW a \in Actor, Fork(a) \/ Cancel(a) PROVE Goal
  BY <1>1, <1>2, <1>5
     DEF Fork, ForkAllocate, ForkInsert, ForkOpen, Cancel, CancelLookup, CancelMark, CancelThrow
<1>6. ASSUME NEW a \in Actor, Wait(a) PROVE Goal
  BY <1>3, <1>4, <1>6 DEF Wait, Await, AwaitAny
<1>7. ASSUME NEW i \in Ids, Run(i) PROVE Goal
  BY <1>1, <1>7 DEF Run, EndAction, FinishSelf, Rethrow, UnwindEnd
<1>8. ASSUME Shutdown \/ UNCHANGED vars PROVE Goal
  BY <1>1, <1>8 DEF Shutdown, ShutdownSnapshot, DrainNext, DrainDone, vars, ghosts
<1> QED BY <1>5, <1>6, <1>7, <1>8 DEF Next

LEMMA NextDrain == TypeOK /\ FreshInv /\ DrainInv /\ [Next]_vars => DrainInv'
<1> SUFFICES ASSUME TypeOK, FreshInv, DrainInv, [Next]_vars PROVE DrainInv'
  OBVIOUS
<1> USE ActorFacts
<1> USE DEF TypeOK, DrainInv, Idle, On, mainVars
<1>1. \A i \in Ids : thread[i] = "stopped" => thread'[i] = "stopped"
  BY StoppedForever
<1>2. ASSUME UNCHANGED mainVars, UNCHANGED op[Main] PROVE DrainInv'
  BY <1>1, <1>2
<1>3. ASSUME UNCHANGED mainVars, main = "inner" PROVE DrainInv'
  BY <1>3
<1>4. ASSUME NEW a \in Actor, Fork(a) PROVE DrainInv'
  BY <1>2, <1>3, <1>4
     DEF Fork, ForkAllocate, ForkInsert, ForkOpen, Callable
<1>5. ASSUME NEW a \in Actor, Wait(a) PROVE DrainInv'
  <2>1. ASSUME NEW S \in SUBSET Ids, BeginWait(a, S) PROVE DrainInv'
    <3>1. UNCHANGED mainVars /\ (a = Main => main = "inner")
      BY <2>1 DEF BeginWait, Callable
    <3>2. a # Main => UNCHANGED op[Main]
      BY <2>1 DEF BeginWait
    <3> QED BY <1>2, <1>3, <3>1, <3>2
  <2>2. ASSUME AwaitReturn(a) PROVE DrainInv'
    <3>1. UNCHANGED mainVars /\ (a = Main => main = "inner")
      BY <2>2 DEF AwaitReturn
    <3>2. a # Main => UNCHANGED op[Main]
      BY <2>2 DEF AwaitReturn
    <3> QED BY <1>2, <1>3, <3>1, <3>2
  <2> QED BY <1>5, <2>1, <2>2 DEF Wait, Await, AwaitAny
<1>6. ASSUME NEW a \in Actor, NEW i \in Ids, CancelLookup(a, i) PROVE DrainInv'
  BY <1>2, <1>3, <1>6 DEF CancelLookup, Callable
<1>7. ASSUME NEW a \in Actor, CancelMark(a) PROVE DrainInv'
  <2>1. UNCHANGED mainVars
        /\ \E i \in op[a].on : op' = [op EXCEPT ![a] = On("throwing", i)]
    BY <1>7 DEF CancelMark
  <2>2. CASE a # Main
    BY <1>2, <2>1, <2>2
  <2>3. CASE a = Main
    <3>1. op'[Main].kind = "throwing" /\ op'[Main].on \subseteq op[Main].on
          /\ op[Main].kind = "marking" /\ \E i \in op[a].on : op'[Main].on = {i}
      BY <1>7, <2>1, <2>3 DEF CancelMark
    <3>2. thread' = thread
      BY <1>7 DEF CancelMark
    <3> QED BY <2>1, <3>1, <3>2
  <2> QED BY <2>2, <2>3
<1>8. ASSUME NEW a \in Actor, CancelThrow(a) PROVE DrainInv'
  <2>1. PICK i \in op[a].on :
           op' = IF thread[i] = "stopped"
                 THEN [op EXCEPT ![a] = On("joining", i)]
                 ELSE [op EXCEPT ![a] = On("joining", i), ![i] = Idle]
    BY <1>8 DEF CancelThrow
  <2>2. i \in Ids /\ UNCHANGED mainVars
    BY <1>8, <2>1 DEF CancelThrow
  <2>3. CASE a # Main
    BY <1>2, <2>1, <2>2, <2>3
  <2>4. CASE a = Main
    <3>1. op'[Main] = On("joining", i) /\ op[Main].kind = "throwing"
      BY <1>8, <2>1, <2>2, <2>4 DEF CancelThrow
    <3> QED BY <1>1, <2>1, <2>2, <2>4, <3>1
  <2> QED BY <2>3, <2>4
<1>9. ASSUME NEW a \in Actor, CancelReturn(a) PROVE DrainInv'
  <2>1. UNCHANGED <<mainVars, thread>> /\ op' = [op EXCEPT ![a] = Idle]
        /\ op[a].kind = "joining" /\ \E i \in op[a].on : thread[i] = "stopped"
    BY <1>9 DEF CancelReturn, Done
  <2>2. CASE a # Main
    BY <1>2, <2>1, <2>2
  <2>3. CASE a = Main
    BY <2>1, <2>3
  <2> QED BY <2>2, <2>3
<1>10. ASSUME NEW i \in Ids, Run(i) PROVE DrainInv'
  BY <1>2, <1>10 DEF Run, EndAction, FinishSelf, Rethrow, UnwindEnd
<1>11. ASSUME ShutdownSnapshot PROVE DrainInv'
  BY <1>11 DEF ShutdownSnapshot
<1>12. ASSUME DrainNext PROVE DrainInv'
  <2>1. PICK i \in drain : drain' = drain \ {i} /\ op' = [op EXCEPT ![Main] = DrainOp(i)]
    BY <1>12 DEF DrainNext
  <2>2. op'[Main].on = {i} /\ op'[Main].kind \in {"joining", "marking"}
    BY <2>1 DEF DrainOp
  <2> QED BY <1>12, <2>1, <2>2 DEF DrainNext
<1>13. ASSUME DrainDone PROVE DrainInv'
  BY <1>13 DEF DrainDone
<1>14. CASE UNCHANGED vars
  BY <1>2, <1>14 DEF vars
<1> QED
  BY <1>4, <1>5, <1>6, <1>7, <1>8, <1>9, <1>10, <1>11, <1>12, <1>13, <1>14
     DEF Next, Cancel, Shutdown

LEMMA NextSafety == SafetyInv /\ [Next]_vars => SafetyInv'
<1> SUFFICES ASSUME SafetyInv, [Next]_vars PROVE SafetyInv'
  OBVIOUS
<1>1. TypeOK' /\ FreshInv' /\ PruneInv' /\ DrainInv'
  BY NextType, NextFresh, NextPrune, NextDrain DEF SafetyInv
<1>2. OutcomeInv' /\ RunningIsKept'
  BY EntryStep DEF SafetyInv, OutcomeInv, RunningIsKept
<1>3. CancelReturnsAfterStop'
  BY ReportStep, StoppedForever DEF SafetyInv, CancelReturnsAfterStop, TypeOK
<1>4. AwaitedStopped'
  BY EntryStep, ReportStep, StoppedForever DEF SafetyInv, AwaitedStopped, PrunedEarly, TypeOK, Finished
<1> QED BY <1>1, <1>2, <1>3, <1>4 DEF SafetyInv

THEOREM Safety == Spec => []SafetyInv
BY InitSafety, NextSafety, PTL DEF Spec

\* An await that returned found a stopped thread, unless the entry was cancelled
\* and pruned first; a cancel that answered True did; and so did the manager, of
\* every thread of its snapshot, when it returned (awaitIn, awaitAnyIn, cancelIn,
\* cancelAndAwaitAll).
THEOREM WaitingIsSafe == Spec => []WaitersSeeTheEnd
<1>1. SafetyInv => WaitersSeeTheEnd
  <2> SUFFICES ASSUME SafetyInv PROVE WaitersSeeTheEnd
    OBVIOUS
  <2>1. AwaitedStopped /\ CancelReturnsAfterStop
    BY DEF SafetyInv
  <2>2. ExitAwaitsSnapshot
    BY DEF SafetyInv, DrainInv, ExitAwaitsSnapshot, Idle
  <2> QED BY <2>1, <2>2 DEF WaitersSeeTheEnd
<1> QED BY <1>1, Safety, PTL

\* Running threads are never dropped, and what is dropped is the oldest excess of
\* the finished ones, for every cap (finishEntry, pruneFinished).
THEOREM PruningSafe == Spec => []PruningKeepsTheNewest
<1>1. SafetyInv => PruningKeepsTheNewest
  BY DEF SafetyInv, PruneInv, PruningKeepsTheNewest
<1> QED BY <1>1, Safety, PTL

\* A recorded outcome is never overwritten (finishEntry).
THEOREM OutcomeFinal == Spec => OutcomeIsFinal
<1>1. SafetyInv /\ [Next]_vars =>
        [\A i \in Ids : status[i] \in Finished => status'[i] = status[i]]_status
  BY EntryStep DEF SafetyInv
<1> QED BY <1>1, Safety, PTL DEF Spec, OutcomeIsFinal
=============================================================================
