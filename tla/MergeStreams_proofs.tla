------------------------- MODULE MergeStreams_proofs -------------------------
(***************************************************************************)
(* Nothing is lost between the inputs and the consumer of a merged stream, *)
(* its end comes after all inputs, and no pump outlives the reader, for    *)
(* any number of inputs and items, and a queue of any capacity.            *)
(***************************************************************************)
EXTENDS MergeStreams, FiniteSetTheorems, TLAPS

(***************************************************************************)
(* Items of one input in a queue.                                          *)
(***************************************************************************)

\* The places of the items of a pump in a queue, and those up to one of them.
ItemsOf(q, p) == {i \in DOMAIN q : q[i].kind = "item" /\ q[i].pump = p}
UpTo(S, i)    == {j \in S : j <= i}

LEMMA ItemsAreFinite ==
  ASSUME NEW q \in Seq(Events), NEW p
  PROVE  /\ ItemsOf(q, p) \subseteq 1..Len(q) /\ IsFiniteSet(ItemsOf(q, p)) /\ Cardinality(ItemsOf(q, p)) \in Nat
         /\ \A i : IsFiniteSet(UpTo(ItemsOf(q, p), i)) /\ Cardinality(UpTo(ItemsOf(q, p), i)) \in Nat
<1>1. ItemsOf(q, p) \subseteq 1..Len(q) /\ Len(q) \in Nat
  BY DEF ItemsOf
<1>2. IsFiniteSet(ItemsOf(q, p))
  <2>1. IsFiniteSet(1..Len(q))
    BY <1>1, FS_Interval
  <2> QED BY <1>1, <2>1, FS_Subset
<1>3. ASSUME NEW i PROVE IsFiniteSet(UpTo(ItemsOf(q, p), i))
  <2>1. UpTo(ItemsOf(q, p), i) \subseteq ItemsOf(q, p)
    BY DEF UpTo
  <2> QED BY <1>2, <2>1, FS_Subset
<1> QED BY <1>1, <1>2, <1>3, FS_CardinalityType

\* What is appended to a queue comes after all that is in it.
LEMMA AppendItems ==
  ASSUME NEW q \in Seq(Events), NEW e \in Events, NEW p
  PROVE  /\ e.kind = "item" /\ e.pump = p =>
              /\ ItemsOf(Append(q, e), p) = ItemsOf(q, p) \cup {Len(q) + 1}
              /\ Cardinality(ItemsOf(Append(q, e), p)) = Cardinality(ItemsOf(q, p)) + 1
              /\ UpTo(ItemsOf(Append(q, e), p), Len(q) + 1) = ItemsOf(Append(q, e), p)
         /\ ~(e.kind = "item" /\ e.pump = p) => ItemsOf(Append(q, e), p) = ItemsOf(q, p)
         /\ \A i \in ItemsOf(q, p) : UpTo(ItemsOf(Append(q, e), p), i) = UpTo(ItemsOf(q, p), i)
<1> DEFINE t == Append(q, e)
<1>1. Len(q) \in Nat /\ DOMAIN q = 1..Len(q) /\ DOMAIN t = 1..(Len(q) + 1)
  OBVIOUS
<1>2. \A k \in 1..Len(q) : t[k] = q[k]
  OBVIOUS
<1>3. t[Len(q) + 1] = e
  OBVIOUS
<1> HIDE DEF t
<1>4. ItemsOf(q, p) \subseteq 1..Len(q)
  BY <1>1 DEF ItemsOf
<1>5. CASE e.kind = "item" /\ e.pump = p
  <2>1. ItemsOf(t, p) = ItemsOf(q, p) \cup {Len(q) + 1}
    BY <1>1, <1>2, <1>3, <1>5 DEF ItemsOf
  <2>2. Cardinality(ItemsOf(t, p)) = Cardinality(ItemsOf(q, p)) + 1
    <3>1. Len(q) + 1 \notin ItemsOf(q, p)
      BY <1>1, <1>4
    <3> QED BY <2>1, <3>1, ItemsAreFinite, FS_AddElement
  <2>3. UpTo(ItemsOf(t, p), Len(q) + 1) = ItemsOf(t, p)
    BY <1>1, <1>4, <2>1 DEF UpTo
  <2>4. \A i \in ItemsOf(q, p) : UpTo(ItemsOf(t, p), i) = UpTo(ItemsOf(q, p), i)
    BY <1>1, <1>4, <2>1 DEF UpTo
  <2> QED BY <1>5, <2>1, <2>2, <2>3, <2>4 DEF t
<1>6. CASE ~(e.kind = "item" /\ e.pump = p)
  <2>1. ItemsOf(t, p) = ItemsOf(q, p)
    BY <1>1, <1>2, <1>3, <1>6 DEF ItemsOf
  <2> QED BY <1>6, <2>1 DEF t
<1> QED BY <1>5, <1>6

\* Moving a set of places down by one keeps their number, but for the first place.
LEMMA Shifted ==
  ASSUME NEW n \in Nat, NEW S \in SUBSET (1..n), NEW T, T = {i \in 1..n : i + 1 \in S}
  PROVE  Cardinality(T) = IF 1 \in S THEN Cardinality(S) - 1 ELSE Cardinality(S)
<1> DEFINE f == [i \in T |-> i + 1]
<1>1. IsFiniteSet(S)
  <2>1. IsFiniteSet(1..n)
    BY FS_Interval
  <2> QED BY <2>1, FS_Subset
<1>2. f \in Bijection(T, S \ {1})
  <2>1. f \in [T -> S \ {1}]
    OBVIOUS
  <2>2. \A i, j \in T : f[i] = f[j] => i = j
    OBVIOUS
  <2>3. ASSUME NEW s \in S \ {1} PROVE \E i \in T : f[i] = s
    <3>1. s - 1 \in T /\ f[s - 1] = s
      OBVIOUS
    <3> QED BY <3>1
  <2> QED BY <2>1, <2>2, <2>3 DEF Bijection, Injection, Surjection, IsInjective
<1>3. IsFiniteSet(T)
  <2>1. IsFiniteSet(1..n)
    BY FS_Interval
  <2> QED BY <2>1, FS_Subset
<1>4. Cardinality(S \ {1}) = Cardinality(T)
  BY <1>2, <1>3, FS_Bijection DEF ExistsBijection
<1>5. Cardinality(S) \in Nat
  BY <1>1, FS_CardinalityType
<1> QED BY <1>1, <1>4, <1>5, FS_RemoveElement

\* Taking the head moves what is left down by one.
LEMMA TailItems ==
  ASSUME NEW q \in Seq(Events), q # <<>>, NEW p
  PROVE  /\ \A i \in ItemsOf(Tail(q), p) : i + 1 \in ItemsOf(q, p) /\ Tail(q)[i] = q[i + 1]
         /\ Head(q).kind = "item" /\ Head(q).pump = p =>
              /\ 1 \in ItemsOf(q, p) /\ Cardinality(UpTo(ItemsOf(q, p), 1)) = 1
              /\ Cardinality(ItemsOf(Tail(q), p)) = Cardinality(ItemsOf(q, p)) - 1
              /\ \A i \in ItemsOf(Tail(q), p) :
                   Cardinality(UpTo(ItemsOf(Tail(q), p), i)) = Cardinality(UpTo(ItemsOf(q, p), i + 1)) - 1
         /\ ~(Head(q).kind = "item" /\ Head(q).pump = p) =>
              /\ Cardinality(ItemsOf(Tail(q), p)) = Cardinality(ItemsOf(q, p))
              /\ \A i \in ItemsOf(Tail(q), p) :
                   Cardinality(UpTo(ItemsOf(Tail(q), p), i)) = Cardinality(UpTo(ItemsOf(q, p), i + 1))
<1> DEFINE t == Tail(q)
<1>1. Len(q) \in Nat \ {0} /\ DOMAIN q = 1..Len(q) /\ Head(q) = q[1] /\ DOMAIN t = 1..(Len(q) - 1)
  OBVIOUS
<1>2. \A k \in 1..(Len(q) - 1) : t[k] = q[k + 1]
  OBVIOUS
<1> HIDE DEF t
<1> DEFINE S == ItemsOf(q, p)
           T == ItemsOf(t, p)
<1>3. S \subseteq 1..Len(q) /\ T = {i \in 1..Len(q) : i + 1 \in S}
  BY <1>1, <1>2 DEF ItemsOf
<1>4. 1 \in S <=> Head(q).kind = "item" /\ Head(q).pump = p
  BY <1>1 DEF ItemsOf
<1>5. \A i \in T : i + 1 \in S /\ t[i] = q[i + 1]
  BY <1>1, <1>2 DEF ItemsOf
<1> HIDE DEF S, T
<1>6. Cardinality(T) = IF 1 \in S THEN Cardinality(S) - 1 ELSE Cardinality(S)
  BY <1>1, <1>3, Shifted
<1>7. ASSUME NEW i \in T
      PROVE  Cardinality(UpTo(T, i)) = IF 1 \in S THEN Cardinality(UpTo(S, i + 1)) - 1 ELSE Cardinality(UpTo(S, i + 1))
  <2>1. i \in 1..Len(q) /\ UpTo(S, i + 1) \in SUBSET (1..Len(q))
    BY <1>3 DEF UpTo
  <2>2. UpTo(T, i) = {j \in 1..Len(q) : j + 1 \in UpTo(S, i + 1)}
    BY <1>3, <2>1 DEF UpTo
  <2>3. 1 \in UpTo(S, i + 1) <=> 1 \in S
    BY <2>1 DEF UpTo
  <2> QED BY <1>1, <2>1, <2>2, <2>3, Shifted
<1>8. ASSUME 1 \in S PROVE Cardinality(UpTo(S, 1)) = 1
  <2>1. \A x \in S : x <= 1 <=> x = 1
    BY <1>1, <1>3
  <2>2. UpTo(S, 1) = {1}
    BY <1>8, <2>1 DEF UpTo
  <2> QED BY <2>2, FS_Singleton
<1> QED BY <1>4, <1>5, <1>6, <1>7, <1>8 DEF S, T, t

(***************************************************************************)
(* The inductive invariant.                                                *)
(***************************************************************************)

Held(p) == IF offered[p].kind = "item" THEN 1 ELSE 0
Queued(p) == Cardinality(ItemsOf(queue, p))

\* What a pump writes is its own, and it writes as long as it runs.
OfferInv ==
  \A p \in Pumps : offered[p] # None => pump[p] = "running" /\ offered[p].pump = p /\ (offered[p].kind # "item" => offered[p].n = 0)

\* What is queued follows on what was handed on, and what is being written on that.
OrderInv ==
  \A p \in Pumps :
    /\ \A i \in ItemsOf(queue, p) : queue[i].n = got[p] + Cardinality(UpTo(ItemsOf(queue, p), i))
    /\ Held(p) = 1 => offered[p].n = got[p] + Queued(p) + 1
    /\ pump[p] \in {"none", "running", "ended", "failed"} => sent[p] = got[p] + Queued(p) + Held(p)

\* Pumps that came to an end which the reader has seen.
Seen == {p \in Pumps : pump[p] \in {"ended", "failed"} /\ \A i \in DOMAIN queue : queue[i].kind = "item" \/ queue[i].pump # p}
SeenFail == {p \in Seen : pump[p] = "failed"}

\* An end in the queue is that of its pump and the last that comes of it; the reader
\* counts the ends it has seen, after which nothing of the pump is left.
EndInv ==
  /\ \A i \in DOMAIN queue : queue[i].kind # "item" => pump[queue[i].pump] = AfterWrite(queue[i])
  /\ \A i, j \in DOMAIN queue : queue[i].kind # "item" /\ queue[j].pump = queue[i].pump => j <= i
  /\ \A p \in Seen, i \in DOMAIN queue : queue[i].pump # p
  /\ remaining + Cardinality(Seen) = Inputs
  /\ failures = Cardinality(SeenFail)

\* The reader cleans up in the order of the pumps, once there is a result.
CleanInv ==
  /\ \A p \in 1..cleaned : Over(p)
  /\ reader = "returned" => cleaned = Inputs
  /\ result # "none" => reader \in {"cleaning", "returned", "gone"}

IInv == TypeOK /\ OfferInv /\ OrderInv /\ EndInv /\ EndsAfterAllInputs /\ CleanInv

LEMMA InitInv == Init => IInv
<1> SUFFICES ASSUME Init PROVE IInv
  OBVIOUS
<1> USE MergeAssumption DEF Init, Pumps, None
<1>1. TypeOK
  BY DEF TypeOK, Events
<1>2. OfferInv
  BY DEF OfferInv
<1>3. \A p : ItemsOf(queue, p) = {}
  BY DEF ItemsOf
<1>4. OrderInv
  <2>1. ASSUME NEW p \in Pumps PROVE Queued(p) = 0 /\ Held(p) = 0
    BY <1>3, FS_EmptySet DEF Queued, Held
  <2> QED BY <1>3, <2>1 DEF OrderInv
<1>5. EndInv
  <2>1. Seen = {} /\ SeenFail = {}
    BY DEF Seen, SeenFail
  <2> QED BY <2>1, FS_EmptySet DEF EndInv
<1>6. EndsAfterAllInputs /\ CleanInv
  BY DEF EndsAfterAllInputs, CleanInv
<1> QED BY <1>1, <1>2, <1>4, <1>5, <1>6 DEF IInv

LEMMA SeenIsFinite ==
  /\ IsFiniteSet(Pumps) /\ Cardinality(Pumps) = Inputs
  /\ IsFiniteSet(Seen) /\ Cardinality(Seen) \in Nat
  /\ IsFiniteSet(SeenFail) /\ Cardinality(SeenFail) \in Nat /\ Cardinality(SeenFail) <= Cardinality(Seen)
<1> USE MergeAssumption
<1>1. IsFiniteSet(Pumps) /\ Cardinality(Pumps) = Inputs
  BY FS_Interval DEF Pumps
<1>2. IsFiniteSet(Seen)
  BY <1>1, FS_Subset DEF Seen
<1>3. IsFiniteSet(SeenFail) /\ Cardinality(SeenFail) <= Cardinality(Seen)
  BY <1>2, FS_Subset DEF SeenFail
<1> QED BY <1>1, <1>2, <1>3, FS_CardinalityType

\* The steps of one pump, and those of the reader.
LEMMA NextType == TypeOK /\ EndInv /\ [Next]_vars => TypeOK'
<1> SUFFICES ASSUME TypeOK, EndInv, [Next]_vars PROVE TypeOK'
  OBVIOUS
<1> USE MergeAssumption DEF TypeOK, Pumps
<1>1. ASSUME NEW p \in Pumps, Fork(p) PROVE TypeOK'
  BY <1>1 DEF Fork
<1>2. ASSUME NEW p \in Pumps, Yield(p) PROVE TypeOK'
  <2>1. Item(p, sent[p] + 1) \in Events /\ sent[p] + 1 \in 0..Items
    BY <1>2 DEF Yield, Item, Events
  <2> QED BY <1>2, <2>1 DEF Yield
<1>3. ASSUME NEW p \in Pumps, End(p) PROVE TypeOK'
  <2>1. MergeDone(p) \in Events /\ MergeFailed(p) \in Events
    BY DEF MergeDone, MergeFailed, Events
  <2> QED BY <1>3, <2>1 DEF End
<1>4. ASSUME NEW p \in Pumps, Write(p) PROVE TypeOK'
  <2>1. offered[p] \in Events /\ AfterWrite(offered[p]) \in {"running", "ended", "failed"}
    BY <1>4 DEF Write, AfterWrite
  <2>2. queue' \in Seq(Events) /\ Len(queue') = Len(queue) + 1
    BY <1>4, <2>1 DEF Write, Written
  <2> QED BY <1>4, <2>1, <2>2 DEF Write, HasRoom
<1>5. ASSUME NEW p \in Pumps, CancelOutside(p) \/ CleanCancel(p) PROVE TypeOK'
  BY <1>5 DEF CancelOutside, CleanCancel, Cancel
<1>6. ASSUME NEW p \in Pumps, Stop(p) PROVE TypeOK'
  BY <1>6 DEF Stop
<1>7. ASSUME NEW p \in Pumps, CleanAwait(p) PROVE TypeOK'
  BY <1>7 DEF CleanAwait, pumps
<1>8. ASSUME queue # <<>> PROVE Head(queue) \in Events /\ Tail(queue) \in Seq(Events) /\ Len(Tail(queue)) <= Capacity
  BY <1>8
<1>9. CASE ReadItem
  <2>1. Head(queue).pump \in Pumps /\ Head(queue).n \in 0..Items
    BY <1>8, <1>9 DEF ReadItem, Events
  <2> QED BY <1>8, <1>9, <2>1 DEF ReadItem, pumps
<1>10. CASE ReadEnd
  <2>1. failures < Inputs
    BY <1>10, SeenIsFinite DEF ReadEnd, EndInv
  <2> QED BY <1>8, <1>10, <2>1 DEF ReadEnd, StillOpen, Failed, pumps
<1>11. CASE FinishMerged
  BY <1>11 DEF FinishMerged, Outcome, pumps
<1>12. CASE Resume \/ Kill \/ Abandon
  BY <1>12 DEF Resume, Kill, Abandon, pumps
<1>13. CASE UNCHANGED vars
  BY <1>13 DEF vars, pumps
<1> QED BY <1>1, <1>2, <1>3, <1>4, <1>5, <1>6, <1>7, <1>9, <1>10, <1>11, <1>12, <1>13 DEF Next

LEMMA NextOffer == TypeOK /\ OfferInv /\ [Next]_vars => OfferInv'
<1> SUFFICES ASSUME TypeOK, OfferInv, [Next]_vars PROVE OfferInv'
  OBVIOUS
<1> USE DEF TypeOK, OfferInv
<1>1. ASSUME NEW p \in Pumps, Fork(p) PROVE OfferInv'
  BY <1>1 DEF Fork
<1>2. ASSUME NEW p \in Pumps, Yield(p) PROVE OfferInv'
  BY <1>2 DEF Yield, Idle, Item
<1>3. ASSUME NEW p \in Pumps, End(p) PROVE OfferInv'
  BY <1>3 DEF End, Idle, MergeDone, MergeFailed
<1>4. ASSUME NEW p \in Pumps, Write(p) PROVE OfferInv'
  BY <1>4 DEF Write
<1>5. ASSUME NEW p \in Pumps, CancelOutside(p) \/ CleanCancel(p) PROVE OfferInv'
  BY <1>5 DEF CancelOutside, CleanCancel, Cancel
<1>6. ASSUME NEW p \in Pumps, Stop(p) PROVE OfferInv'
  BY <1>6 DEF Stop
<1>7. ASSUME UNCHANGED <<pump, offered>> PROVE OfferInv'
  BY <1>7
<1> QED BY <1>1, <1>2, <1>3, <1>4, <1>5, <1>6, <1>7 DEF Next, CleanAwait, ReadItem, ReadEnd, FinishMerged, Resume, Kill, Abandon, pumps, vars

(***************************************************************************)
(* The order of the items.                                                 *)
(***************************************************************************)

\* For one pump, with what it offers, has sent, and has been handed on.
InOrder(q, p, o, s, g, c) ==
  /\ \A i \in ItemsOf(q, p) : q[i].n = g + Cardinality(UpTo(ItemsOf(q, p), i))
  /\ o.kind = "item" => o.n = g + Cardinality(ItemsOf(q, p)) + 1
  /\ c \in {"none", "running", "ended", "failed"} => s = g + Cardinality(ItemsOf(q, p)) + IF o.kind = "item" THEN 1 ELSE 0

LEMMA OrderIs == OrderInv <=> \A p \in Pumps : InOrder(queue, p, offered[p], sent[p], got[p], pump[p])
BY DEF OrderInv, InOrder, Held, Queued

LEMMA NextOrder == TypeOK /\ OfferInv /\ OrderInv /\ [Next]_vars => OrderInv'
<1> SUFFICES ASSUME TypeOK, OfferInv, OrderInv, [Next]_vars PROVE OrderInv'
  OBVIOUS
<1>0. \A p \in Pumps : InOrder(queue, p, offered[p], sent[p], got[p], pump[p])
  BY OrderIs
<1> SUFFICES ASSUME NEW r \in Pumps PROVE InOrder(queue, r, offered[r], sent[r], got[r], pump[r])'
  BY OrderIs DEF OrderInv, InOrder, Held, Queued
<1> DEFINE S == ItemsOf(queue, r)
<1> USE DEF TypeOK
<1>a. Cardinality(S) \in Nat /\ InOrder(queue, r, offered[r], sent[r], got[r], pump[r]) /\ got[r] \in Nat /\ sent[r] \in Nat
  <2>1. Cardinality(S) \in Nat
    BY ItemsAreFinite
  <2>2. got[r] \in Nat /\ sent[r] \in Nat
    BY MergeAssumption
  <2> QED BY <1>0, <2>1, <2>2
<1>1. ASSUME NEW p \in Pumps, Fork(p) PROVE InOrder(queue, r, offered[r], sent[r], got[r], pump[r])'
  BY <1>1, <1>a DEF Fork, InOrder
<1>2. ASSUME NEW p \in Pumps, Yield(p) PROVE InOrder(queue, r, offered[r], sent[r], got[r], pump[r])'
  BY <1>2, <1>a DEF Yield, Idle, InOrder, Item, None
<1>3. ASSUME NEW p \in Pumps, End(p) PROVE InOrder(queue, r, offered[r], sent[r], got[r], pump[r])'
  BY <1>3, <1>a DEF End, Idle, InOrder, MergeDone, MergeFailed, None
<1>4. ASSUME NEW p \in Pumps, Write(p) PROVE InOrder(queue, r, offered[r], sent[r], got[r], pump[r])'
  <2> DEFINE e == offered[p]
             t == Append(queue, e)
  <2>1. e \in Events /\ e.pump = p /\ pump[p] = "running"
    BY <1>4 DEF Write, OfferInv
  <2>2. queue' = t /\ offered' = [offered EXCEPT ![p] = None] /\ pump' = [pump EXCEPT ![p] = AfterWrite(e)] /\ UNCHANGED <<sent, got>>
    BY <1>4 DEF Write, Written
  <2>3. t[Len(queue) + 1] = e /\ (\A i \in 1..Len(queue) : t[i] = queue[i]) /\ S \subseteq 1..Len(queue)
    BY <2>1, ItemsAreFinite
  <2> HIDE DEF t, e
  <2>4. CASE r = p /\ e.kind = "item"
    <3>1. /\ ItemsOf(t, r) = S \cup {Len(queue) + 1} /\ Cardinality(ItemsOf(t, r)) = Cardinality(S) + 1
          /\ UpTo(ItemsOf(t, r), Len(queue) + 1) = ItemsOf(t, r)
          /\ \A i \in S : UpTo(ItemsOf(t, r), i) = UpTo(S, i)
      BY <2>1, <2>4, AppendItems DEF t
    <3>2. e.n = got[r] + Cardinality(S) + 1 /\ sent[r] = got[r] + Cardinality(S) + 1
      BY <1>a, <2>1, <2>4 DEF InOrder, e
    <3>3. \A i \in ItemsOf(t, r) : t[i].n = got[r] + Cardinality(UpTo(ItemsOf(t, r), i))
      <4>1. t[Len(queue) + 1].n = got[r] + Cardinality(UpTo(ItemsOf(t, r), Len(queue) + 1))
        <5>1. Cardinality(UpTo(ItemsOf(t, r), Len(queue) + 1)) = Cardinality(S) + 1
          BY <3>1
        <5>2. t[Len(queue) + 1].n = e.n
          BY <2>3
        <5> HIDE DEF S, TypeOK
        <5> QED BY <3>2, <5>1, <5>2, <1>a
      <4>2. \A i \in S : t[i].n = got[r] + Cardinality(UpTo(ItemsOf(t, r), i))
        BY <2>3, <3>1, <1>a DEF InOrder
      <4> QED BY <3>1, <4>1, <4>2
    <3>4. offered'[r] = None /\ sent'[r] = sent[r] /\ got'[r] = got[r] /\ queue' = t
      BY <2>2, <2>4
    <3>5. None.kind # "item"
      BY DEF None
    <3>6. sent[r] = got[r] + Cardinality(ItemsOf(t, r)) + 0
      BY <3>1, <3>2, <1>a
    <3> HIDE DEF S, TypeOK
    <3> QED BY <3>3, <3>4, <3>5, <3>6 DEF InOrder
  <2>5. CASE ~(r = p /\ e.kind = "item")
    <3>1. ItemsOf(t, r) = S
      BY <2>1, <2>5, AppendItems DEF t
    <3>2. \A i \in S : t[i] = queue[i]
      BY <2>3
    <3>3. CASE r # p
      <4>1. offered'[r] = offered[r] /\ pump'[r] = pump[r] /\ sent'[r] = sent[r] /\ got'[r] = got[r]
        BY <2>2, <3>3
      <4> QED BY <2>2, <3>1, <3>2, <4>1, <1>a DEF InOrder
    <3>4. CASE r = p /\ e.kind # "item"
      <4>1. offered'[r] = None /\ sent'[r] = sent[r] /\ got'[r] = got[r] /\ sent[r] = got[r] + Cardinality(S)
        BY <2>1, <2>2, <3>4, <1>a DEF InOrder, e
      <4> QED BY <2>2, <3>1, <3>2, <4>1, <1>a DEF InOrder, None
    <3> QED BY <2>5, <3>3, <3>4
  <2> QED BY <2>4, <2>5
<1>5. ASSUME NEW p \in Pumps, CancelOutside(p) \/ CleanCancel(p) PROVE InOrder(queue, r, offered[r], sent[r], got[r], pump[r])'
  BY <1>5, <1>a DEF CancelOutside, CleanCancel, Cancel, InOrder, None
<1>6. ASSUME NEW p \in Pumps, Stop(p) PROVE InOrder(queue, r, offered[r], sent[r], got[r], pump[r])'
  BY <1>6, <1>a DEF Stop, InOrder
<1>7. CASE ReadItem
  <2> DEFINE t == Tail(queue)
  <2>1. /\ queue # <<>> /\ Head(queue).kind = "item" /\ queue' = t /\ got' = [got EXCEPT ![Head(queue).pump] = Head(queue).n]
        /\ UNCHANGED <<pump, offered, sent>> /\ Head(queue) = queue[1]
    BY <1>7 DEF ReadItem, pumps
  <2>2. Cardinality(ItemsOf(t, r)) \in Nat /\ \A i : Cardinality(UpTo(S, i)) \in Nat /\ Cardinality(UpTo(ItemsOf(t, r), i)) \in Nat
    <3>1. t \in Seq(Events)
      BY <2>1
    <3> QED BY <3>1, ItemsAreFinite
  <2>3. \A i \in ItemsOf(t, r) : i + 1 \in S /\ t[i] = queue[i + 1]
    BY <2>1, TailItems
  <2>4. CASE Head(queue).pump = r
    <3>1. /\ 1 \in S /\ Cardinality(UpTo(S, 1)) = 1 /\ Cardinality(ItemsOf(t, r)) = Cardinality(S) - 1
          /\ \A i \in ItemsOf(t, r) : Cardinality(UpTo(ItemsOf(t, r), i)) = Cardinality(UpTo(S, i + 1)) - 1
      BY <2>1, <2>4, TailItems
    <3> HIDE DEF t, S
    <3>2. got'[r] = got[r] + 1
      BY <2>1, <2>4, <3>1, <1>a DEF InOrder, S
    <3>3. ASSUME NEW i \in ItemsOf(t, r) PROVE t[i].n = got'[r] + Cardinality(UpTo(ItemsOf(t, r), i))
      <4>1. i + 1 \in S /\ t[i].n = queue[i + 1].n
        BY <2>3
      <4>2. queue[i + 1].n = got[r] + Cardinality(UpTo(S, i + 1))
        BY <4>1, <1>a DEF InOrder, S
      <4>3. Cardinality(UpTo(ItemsOf(t, r), i)) = Cardinality(UpTo(S, i + 1)) - 1
        BY <3>1
      <4>4. Cardinality(UpTo(S, i + 1)) \in Nat
        BY <2>2
      <4> QED BY <3>2, <4>1, <4>2, <4>3, <4>4, <1>a
    <3>4. got'[r] + Cardinality(ItemsOf(t, r)) = got[r] + Cardinality(S)
      <4>1. Cardinality(ItemsOf(t, r)) = Cardinality(S) - 1
        BY <3>1
      <4>2. Cardinality(S) \in Nat /\ got[r] \in Nat
        BY <1>a
      <4> QED BY <3>2, <4>1, <4>2
    <3>5. offered'[r] = offered[r] /\ pump'[r] = pump[r] /\ sent'[r] = sent[r] /\ queue' = t
      BY <2>1
    <3> HIDE DEF TypeOK
    <3> QED BY <3>3, <3>4, <3>5, <1>a DEF InOrder, S
  <2>5. CASE Head(queue).pump # r
    <3>1. /\ Cardinality(ItemsOf(t, r)) = Cardinality(S)
          /\ \A i \in ItemsOf(t, r) : Cardinality(UpTo(ItemsOf(t, r), i)) = Cardinality(UpTo(S, i + 1))
      BY <2>1, <2>5, TailItems
    <3> HIDE DEF t, S
    <3>2. got'[r] = got[r]
      BY <2>1, <2>5
    <3>3. ASSUME NEW i \in ItemsOf(t, r) PROVE t[i].n = got'[r] + Cardinality(UpTo(ItemsOf(t, r), i))
      <4>1. i + 1 \in S /\ t[i].n = queue[i + 1].n
        BY <2>3
      <4>2. queue[i + 1].n = got[r] + Cardinality(UpTo(S, i + 1))
        BY <4>1, <1>a DEF InOrder, S
      <4>3. Cardinality(UpTo(ItemsOf(t, r), i)) = Cardinality(UpTo(S, i + 1))
        BY <3>1
      <4>4. Cardinality(UpTo(S, i + 1)) \in Nat
        BY <2>2
      <4> QED BY <3>2, <4>1, <4>2, <4>3, <4>4, <1>a
    <3> QED BY <2>1, <2>2, <3>1, <3>2, <3>3, <1>a DEF InOrder, S
  <2> QED BY <2>4, <2>5
<1>8. CASE ReadEnd
  <2> DEFINE t == Tail(queue)
  <2>1. queue # <<>> /\ Head(queue).kind # "item" /\ queue' = t /\ UNCHANGED <<pump, offered, sent, got>>
    BY <1>8 DEF ReadEnd, pumps
  <2>2. \A i \in ItemsOf(t, r) : i + 1 \in S /\ t[i] = queue[i + 1]
    BY <2>1, TailItems
  <2>3. /\ Cardinality(ItemsOf(t, r)) = Cardinality(S)
        /\ \A i \in ItemsOf(t, r) : Cardinality(UpTo(ItemsOf(t, r), i)) = Cardinality(UpTo(S, i + 1))
    BY <2>1, TailItems
  <2> HIDE DEF t, S
  <2> QED BY <2>1, <2>2, <2>3, <1>a DEF InOrder, S
<1>9. ASSUME UNCHANGED <<pump, offered, sent, queue, got>> PROVE InOrder(queue, r, offered[r], sent[r], got[r], pump[r])'
  BY <1>9, <1>a DEF InOrder
<1> QED BY <1>1, <1>2, <1>3, <1>4, <1>5, <1>6, <1>7, <1>8, <1>9 DEF Next, CleanAwait, FinishMerged, Resume, Kill, Abandon, pumps, vars

(***************************************************************************)
(* The ends of the inputs.                                                 *)
(***************************************************************************)

LEMMA EventsOf ==
  ASSUME TypeOK
  PROVE  /\ Len(queue) \in Nat /\ DOMAIN queue = 1..Len(queue)
         /\ \A i \in 1..Len(queue) : queue[i] \in Events /\ queue[i].pump \in Pumps /\ queue[i].kind \in {"item", "done", "failed"}
<1>1. Len(queue) \in Nat /\ DOMAIN queue = 1..Len(queue) /\ \A i \in 1..Len(queue) : queue[i] \in Events
  BY DEF TypeOK
<1>2. \A e \in Events : e.pump \in Pumps /\ e.kind \in {"item", "done", "failed"}
  BY DEF Events
<1> QED BY <1>1, <1>2

\* A pump that starts or is cancelled has no end in the queue.
LEMMA StillOpenPumps ==
  ASSUME TypeOK, EndInv, NEW p \in Pumps, NEW c, pump[p] \notin {"ended", "failed"}, c \notin {"ended", "failed"},
         pump' = [pump EXCEPT ![p] = c], UNCHANGED <<queue, remaining, failures>>
  PROVE  EndInv'
<1>1. \A i \in DOMAIN queue : queue[i] \in Events /\ queue[i].pump \in Pumps /\ queue[i].kind \in {"item", "done", "failed"}
  BY EventsOf
<1>2. \A i \in DOMAIN queue : queue[i].kind # "item" => queue[i].pump # p
  BY <1>1 DEF EndInv, AfterWrite
<1>3. \A q \in Pumps : q # p => pump'[q] = pump[q]
  BY DEF TypeOK
<1>4. pump'[p] = c
  BY DEF TypeOK
<1>5. Seen' = Seen
  BY <1>3, <1>4 DEF Seen
<1>6. SeenFail' = SeenFail
  BY <1>3, <1>4, <1>5 DEF SeenFail, Seen
<1> QED BY <1>1, <1>2, <1>3, <1>5, <1>6 DEF EndInv

LEMMA WriteEnd ==
  ASSUME TypeOK, OfferInv, EndInv, NEW p \in Pumps, Write(p)
  PROVE  EndInv'
<1> DEFINE e == offered[p]
           t == Append(queue, e)
<1>1. e \in Events /\ e.pump = p /\ pump[p] = "running" /\ e.kind \in {"item", "done", "failed"}
  BY DEF Write, TypeOK, OfferInv, Events
<1>2. queue' = t /\ pump' = [pump EXCEPT ![p] = AfterWrite(e)] /\ UNCHANGED <<remaining, failures>>
  BY DEF Write, Written
<1>3. /\ Len(queue) \in Nat /\ DOMAIN queue = 1..Len(queue) /\ DOMAIN t = 1..(Len(queue) + 1)
      /\ t[Len(queue) + 1] = e /\ \A i \in 1..Len(queue) : t[i] = queue[i]
  BY <1>1 DEF TypeOK
<1>4. \A i \in 1..Len(queue) : queue[i] \in Events /\ queue[i].pump \in Pumps /\ queue[i].kind \in {"item", "done", "failed"}
  BY EventsOf
<1> HIDE DEF t, e
<1>5. \A q \in Pumps : q # p => pump'[q] = pump[q]
  BY <1>2 DEF TypeOK
<1>6. pump'[p] = AfterWrite(e)
  BY <1>2 DEF TypeOK
<1>7. \A i \in 1..Len(queue) : queue[i].kind # "item" => queue[i].pump # p
  BY <1>1, <1>3, <1>4 DEF EndInv, AfterWrite
<1>8. \A k \in 1..(Len(queue) + 1) : k \in 1..Len(queue) \/ k = Len(queue) + 1
  BY <1>3
<1>9. Seen' = Seen
  <2>1. p \notin Seen
    BY <1>1 DEF Seen
  <2>2. p \notin Seen'
    <3>1. CASE e.kind = "item"
      BY <1>6, <3>1 DEF Seen, AfterWrite
    <3>2. CASE e.kind # "item"
      BY <1>1, <1>2, <1>3, <3>2 DEF Seen
    <3> QED BY <3>1, <3>2
  <2>3. ASSUME NEW q \in Pumps, q # p PROVE q \in Seen <=> q \in Seen'
    BY <1>1, <1>2, <1>3, <1>5, <1>8, <2>3 DEF Seen
  <2> QED BY <2>1, <2>2, <2>3 DEF Seen
<1>10. SeenFail' = SeenFail
  <2>1. \A q \in Seen : q # p /\ q \in Pumps
    BY <1>1 DEF Seen
  <2> QED BY <1>5, <1>9, <2>1 DEF SeenFail
<1>11. \A i \in DOMAIN queue' : queue'[i].kind # "item" => pump'[queue'[i].pump] = AfterWrite(queue'[i])
  <2>1. ASSUME NEW i \in 1..Len(queue), queue[i].kind # "item" PROVE pump'[queue[i].pump] = AfterWrite(queue[i])
    BY <1>3, <1>4, <1>5, <1>7, <2>1 DEF EndInv
  <2> QED BY <1>1, <1>2, <1>3, <1>6, <1>8, <2>1
<1>12. \A i, j \in DOMAIN queue' : queue'[i].kind # "item" /\ queue'[j].pump = queue'[i].pump => j <= i
  <2> SUFFICES ASSUME NEW i \in 1..(Len(queue) + 1), NEW j \in 1..(Len(queue) + 1), t[i].kind # "item", t[j].pump = t[i].pump
               PROVE  j <= i
    BY <1>2, <1>3
  <2>1. CASE i = Len(queue) + 1
    BY <1>3, <2>1
  <2>2. CASE i \in 1..Len(queue) /\ j \in 1..Len(queue)
    BY <1>3, <2>2 DEF EndInv
  <2>3. CASE i \in 1..Len(queue) /\ j = Len(queue) + 1
    BY <1>1, <1>3, <1>7, <2>3
  <2> QED BY <1>8, <2>1, <2>2, <2>3
<1>13. \A q \in Seen, i \in DOMAIN queue' : queue'[i].pump # q
  <2>1. \A q \in Seen : q # p
    BY <1>1 DEF Seen
  <2> QED BY <1>1, <1>2, <1>3, <1>8, <2>1 DEF EndInv
<1> QED BY <1>2, <1>9, <1>10, <1>11, <1>12, <1>13 DEF EndInv

\* Of what is taken from the queue, the rest keeps its order and its ends.
LEMMA TailEnds ==
  ASSUME TypeOK, EndInv, queue # <<>>, queue' = Tail(queue), pump' = pump
  PROVE  /\ \A i \in DOMAIN queue' : queue'[i].kind # "item" => pump'[queue'[i].pump] = AfterWrite(queue'[i])
         /\ \A i, j \in DOMAIN queue' : queue'[i].kind # "item" /\ queue'[j].pump = queue'[i].pump => j <= i
         /\ Head(queue).kind = "item" => Seen' = Seen
         /\ Head(queue).kind # "item" => Seen' = Seen \cup {Head(queue).pump} /\ \A i \in DOMAIN queue' : queue'[i].pump # Head(queue).pump
         /\ \A p \in Seen, i \in DOMAIN queue' : queue'[i].pump # p
<1>1. Len(queue) \in Nat \ {0} /\ DOMAIN queue = 1..Len(queue) /\ Head(queue) = queue[1] /\ DOMAIN queue' = 1..(Len(queue) - 1)
  BY DEF TypeOK
<1>2. \A k \in 1..(Len(queue) - 1) : queue'[k] = queue[k + 1] /\ k + 1 \in 1..Len(queue)
  BY DEF TypeOK
<1>3. \A k \in 1..Len(queue) : k # 1 => k - 1 \in 1..(Len(queue) - 1) /\ queue[k] = queue'[k - 1]
  BY <1>1, <1>2
<1>4. 1 \in 1..Len(queue)
  BY <1>1
<1>5. \A i \in DOMAIN queue' : queue'[i].kind # "item" => pump'[queue'[i].pump] = AfterWrite(queue'[i])
  BY <1>1, <1>2 DEF EndInv
<1>6. \A i, j \in DOMAIN queue' : queue'[i].kind # "item" /\ queue'[j].pump = queue'[i].pump => j <= i
  <2>1. ASSUME NEW i \in DOMAIN queue', NEW j \in DOMAIN queue', queue'[i].kind # "item", queue'[j].pump = queue'[i].pump PROVE j <= i
    <3>1. j + 1 <= i + 1
      BY <1>1, <1>2, <2>1 DEF EndInv
    <3> QED BY <1>1, <3>1
  <2> QED BY <2>1
<1>7. \A p \in Seen, i \in DOMAIN queue' : queue'[i].pump # p
  BY <1>1, <1>2 DEF EndInv
<1>8. ASSUME NEW q \in Pumps
      PROVE (\A i \in DOMAIN queue : queue[i].kind = "item" \/ queue[i].pump # q) <=>
            (queue[1].kind = "item" \/ queue[1].pump # q) /\ (\A i \in DOMAIN queue' : queue'[i].kind = "item" \/ queue'[i].pump # q)
  <2>1. ASSUME \A i \in DOMAIN queue : queue[i].kind = "item" \/ queue[i].pump # q
        PROVE  (queue[1].kind = "item" \/ queue[1].pump # q) /\ (\A i \in DOMAIN queue' : queue'[i].kind = "item" \/ queue'[i].pump # q)
    BY <1>1, <1>2, <1>4, <2>1
  <2>2. ASSUME queue[1].kind = "item" \/ queue[1].pump # q, \A i \in DOMAIN queue' : queue'[i].kind = "item" \/ queue'[i].pump # q
        PROVE  \A i \in DOMAIN queue : queue[i].kind = "item" \/ queue[i].pump # q
    <3>1. ASSUME NEW i \in 1..Len(queue) PROVE queue[i].kind = "item" \/ queue[i].pump # q
      <4>1. CASE i = 1
        BY <2>2, <4>1
      <4>2. CASE i # 1
        BY <1>1, <1>3, <2>2, <4>2
      <4> QED BY <4>1, <4>2
    <3> QED BY <1>1, <3>1
  <2> QED BY <2>1, <2>2
<1>9. CASE Head(queue).kind = "item"
  <2>1. Seen' = Seen
    BY <1>1, <1>8, <1>9 DEF Seen
  <2> QED BY <1>5, <1>6, <1>7, <1>9, <2>1
<1>10. CASE Head(queue).kind # "item"
  <2> DEFINE p == Head(queue).pump
  <2>1. p \in Pumps /\ pump[p] \in {"ended", "failed"}
    <3>1. Head(queue) \in Events
      BY DEF TypeOK
    <3>2. pump[p] = AfterWrite(Head(queue)) /\ p \in Pumps /\ Head(queue).kind \in {"done", "failed"}
      BY <1>1, <1>4, <1>10, <3>1 DEF EndInv, Events
    <3> QED BY <3>2 DEF AfterWrite
  <2>2. \A i \in DOMAIN queue' : queue'[i].pump # p
    <3>1. ASSUME NEW i \in DOMAIN queue', queue'[i].pump = p PROVE FALSE
      <4>1. i + 1 \in DOMAIN queue /\ queue[i + 1].pump = queue[1].pump
        BY <1>1, <1>2, <3>1
      <4>2. i + 1 <= 1
        BY <1>1, <1>4, <1>10, <4>1 DEF EndInv
      <4> QED BY <1>1, <4>2
    <3> QED BY <3>1
  <2>3. ASSUME NEW q \in Pumps PROVE q \in Seen' <=> q \in Seen \/ q = p
    BY <1>1, <1>8, <1>10, <2>1, <2>2 DEF Seen
  <2>4. Seen' = Seen \cup {p}
    BY <2>1, <2>3 DEF Seen
  <2> QED BY <1>5, <1>6, <1>7, <1>10, <2>2, <2>4
<1> QED BY <1>9, <1>10

LEMMA NextEnd == TypeOK /\ OfferInv /\ EndInv /\ [Next]_vars => EndInv'
<1> SUFFICES ASSUME TypeOK, OfferInv, EndInv, [Next]_vars PROVE EndInv'
  OBVIOUS
<1>1. ASSUME NEW p \in Pumps, Fork(p) PROVE EndInv'
  BY <1>1, StillOpenPumps DEF Fork
<1>2. ASSUME NEW p \in Pumps, Write(p) PROVE EndInv'
  BY <1>2, WriteEnd
<1>3. ASSUME NEW p \in Pumps, CancelOutside(p) \/ CleanCancel(p) PROVE EndInv'
  BY <1>3, StillOpenPumps DEF CancelOutside, CleanCancel, Cancel
<1>4. ASSUME NEW p \in Pumps, Stop(p) PROVE EndInv'
  BY <1>4, StillOpenPumps DEF Stop
<1>5. CASE ReadItem
  <2>1. queue # <<>> /\ queue' = Tail(queue) /\ Head(queue).kind = "item" /\ UNCHANGED <<pump, remaining, failures>>
    BY <1>5 DEF ReadItem, pumps
  <2>2. Seen' = Seen
    BY <2>1, TailEnds
  <2>3. SeenFail' = SeenFail
    BY <2>1, <2>2 DEF SeenFail
  <2> QED BY <2>1, <2>2, <2>3, TailEnds DEF EndInv
<1>6. CASE ReadEnd
  <2> DEFINE e == Head(queue)
  <2>1. queue # <<>> /\ queue' = Tail(queue) /\ e.kind # "item" /\ remaining' = remaining - 1 /\ failures' = Failed(e) /\ pump' = pump
    BY <1>6 DEF ReadEnd, StillOpen, pumps
  <2>2. e \in Events /\ e.pump \in Pumps /\ e.kind \in {"done", "failed"} /\ 1 \in DOMAIN queue /\ e = queue[1]
    <3>1. Len(queue) # 0 /\ e = queue[1]
      BY <2>1 DEF TypeOK
    <3> QED BY <2>1, <3>1, EventsOf
  <2>3. Seen' = Seen \cup {e.pump} /\ \A p \in Seen \cup {e.pump}, i \in DOMAIN queue' : queue'[i].pump # p
    BY <2>1, TailEnds
  <2>4. e.pump \notin Seen
    BY <2>1, <2>2 DEF Seen
  <2>5. Cardinality(Seen') = Cardinality(Seen) + 1
    BY <2>3, <2>4, SeenIsFinite, FS_AddElement
  <2>6. failures' = Cardinality(SeenFail')
    <3>1. pump[e.pump] = AfterWrite(e)
      BY <2>1, <2>2 DEF EndInv
    <3>2. CASE e.kind = "failed"
      <4>1. SeenFail' = SeenFail \cup {e.pump}
        BY <2>1, <2>3, <3>1, <3>2 DEF SeenFail, AfterWrite
      <4>2. e.pump \notin SeenFail
        BY <2>4 DEF SeenFail
      <4>3. Cardinality(SeenFail') = Cardinality(SeenFail) + 1
        BY <4>1, <4>2, SeenIsFinite, FS_AddElement
      <4> QED BY <2>1, <3>2, <4>3 DEF Failed, EndInv
    <3>3. CASE e.kind = "done"
      <4>1. SeenFail' = SeenFail
        BY <2>1, <2>3, <3>1, <3>3 DEF SeenFail, AfterWrite
      <4> QED BY <2>1, <3>3, <4>1 DEF Failed, EndInv
    <3> QED BY <2>2, <3>2, <3>3
  <2>7. remaining' + Cardinality(Seen') = Inputs
    BY <2>1, <2>5, SeenIsFinite, MergeAssumption DEF EndInv, TypeOK
  <2> HIDE DEF e
  <2> QED BY <2>1, <2>3, <2>6, <2>7, TailEnds DEF EndInv
<1>7. ASSUME UNCHANGED <<pump, queue, remaining, failures>> PROVE EndInv'
  BY <1>7 DEF EndInv, Seen, SeenFail
<1> QED BY <1>1, <1>2, <1>3, <1>4, <1>5, <1>6, <1>7 DEF Next, Yield, End, CleanAwait, FinishMerged, Resume, Kill, Abandon, pumps, vars

\* When no input remains, all have ended and everything was handed on.
LEMMA AllSeen ==
  ASSUME TypeOK, OfferInv, OrderInv, EndInv, remaining = 0
  PROVE  /\ \A p \in Pumps : pump[p] \in {"ended", "failed"} /\ got[p] = sent[p]
         /\ failures = Inputs <=> \A p \in Pumps : pump[p] = "failed"
<1>1. Seen = Pumps
  <2>1. Seen \subseteq Pumps /\ Cardinality(Seen) = Cardinality(Pumps)
    BY SeenIsFinite, MergeAssumption DEF EndInv, Seen
  <2> QED BY <2>1, SeenIsFinite, FS_Subset
<1>2. ASSUME NEW p \in Pumps PROVE pump[p] \in {"ended", "failed"} /\ got[p] = sent[p]
  <2>1. p \in Seen
    BY <1>1
  <2>2. pump[p] \in {"ended", "failed"}
    BY <2>1 DEF Seen
  <2>3. ItemsOf(queue, p) = {}
    BY <2>1 DEF EndInv, ItemsOf
  <2>4. Queued(p) = 0
    BY <2>3, FS_EmptySet DEF Queued
  <2>5. Held(p) = 0
    <3>1. offered[p] = None
      BY <2>2 DEF OfferInv
    <3> QED BY <3>1 DEF Held, None
  <2>6. sent[p] = got[p] + 0 + 0
    BY <2>2, <2>4, <2>5 DEF OrderInv
  <2>7. got[p] \in Nat
    BY MergeAssumption DEF TypeOK
  <2> QED BY <2>2, <2>6, <2>7
<1>3. failures = Inputs <=> \A p \in Pumps : pump[p] = "failed"
  <2>1. ASSUME failures = Inputs PROVE \A p \in Pumps : pump[p] = "failed"
    <3>1. SeenFail \subseteq Pumps /\ Cardinality(SeenFail) = Cardinality(Pumps)
      BY <2>1, <1>1, SeenIsFinite DEF EndInv, SeenFail
    <3>2. SeenFail = Pumps
      BY <3>1, SeenIsFinite, FS_Subset
    <3> QED BY <3>2 DEF SeenFail
  <2>2. ASSUME \A p \in Pumps : pump[p] = "failed" PROVE failures = Inputs
    <3>1. SeenFail = Pumps
      BY <2>2, <1>1 DEF SeenFail
    <3> QED BY <3>1, SeenIsFinite DEF EndInv
  <2> QED BY <2>1, <2>2
<1> QED BY <1>2, <1>3

LEMMA NextEnds == IInv /\ [Next]_vars => EndsAfterAllInputs'
<1> SUFFICES ASSUME IInv, [Next]_vars PROVE EndsAfterAllInputs'
  OBVIOUS
<1> USE DEF IInv
<1>1. CASE FinishMerged
  <2>1. remaining = 0 /\ result' = (IF failures = Inputs THEN "threw" ELSE "ended") /\ UNCHANGED <<pump, sent, got>>
    BY <1>1 DEF FinishMerged, Outcome, pumps
  <2> QED BY <2>1, AllSeen DEF EndsAfterAllInputs
<1>2. CASE Kill
  BY <1>2 DEF Kill, EndsAfterAllInputs
<1>3. ASSUME result' = result, result \notin {"ended", "threw"} PROVE EndsAfterAllInputs'
  BY <1>3 DEF EndsAfterAllInputs
<1>4. ASSUME result \in {"ended", "threw"}, ~FinishMerged, ~Kill PROVE EndsAfterAllInputs'
  <2>1. reader \in {"cleaning", "returned", "gone"} /\ \A p \in Pumps : pump[p] \in {"ended", "failed"} /\ offered[p] = None
    BY <1>4 DEF CleanInv, EndsAfterAllInputs, OfferInv
  <2>2. UNCHANGED <<pump, sent, got, result>>
    BY <1>4, <2>1 DEF Next, Fork, Yield, End, Idle, Write, CancelOutside, Cancel, Stop, CleanCancel, CleanAwait, ReadItem, ReadEnd, Resume, Abandon, pumps, vars
  <2> QED BY <2>2 DEF EndsAfterAllInputs
<1>5. ~FinishMerged /\ ~Kill => result' = result
  BY DEF Next, Fork, Yield, End, Write, CancelOutside, Stop, CleanCancel, CleanAwait, ReadItem, ReadEnd, Resume, Abandon, vars
<1> QED BY <1>1, <1>2, <1>3, <1>4, <1>5

(***************************************************************************)
(* The cleanup.                                                            *)
(***************************************************************************)

LEMMA NextClean == TypeOK /\ CleanInv /\ [Next]_vars => CleanInv'
<1> SUFFICES ASSUME TypeOK, CleanInv, [Next]_vars PROVE CleanInv'
  OBVIOUS
<1> USE MergeAssumption DEF TypeOK, CleanInv, Over, Pumps
<1>1. ASSUME NEW p \in Pumps, Fork(p) PROVE CleanInv'
  <2>1. cleaned' = cleaned /\ cleaned \in 0..Inputs /\ result' = result
    BY <1>1 DEF Fork
  <2>2. \A q \in Pumps : Over(q) => pump'[q] = pump[q]
    BY <1>1 DEF Fork
  <2>3. \A q \in 1..cleaned : q \in Pumps
    BY <2>1
  <2>4. reader' = reader \/ (reader = "forking" /\ reader' = "reading")
    BY <1>1 DEF Fork
  <2> QED BY <2>1, <2>2, <2>3, <2>4
<1>2. ASSUME NEW p \in Pumps, Write(p) PROVE CleanInv'
  <2>1. cleaned' = cleaned /\ cleaned \in 0..Inputs /\ result' = result
    BY <1>2 DEF Write
  <2>2. \A q \in Pumps : Over(q) => pump'[q] = pump[q]
    BY <1>2 DEF Write
  <2>3. \A q \in 1..cleaned : q \in Pumps
    BY <2>1
  <2>4. reader' = reader \/ (reader = "forking" /\ reader' = "reading")
    BY <1>2 DEF Write
  <2> QED BY <2>1, <2>2, <2>3, <2>4
<1>3. ASSUME NEW p \in Pumps, CancelOutside(p) \/ CleanCancel(p) PROVE CleanInv'
  <2>1. cleaned' = cleaned /\ cleaned \in 0..Inputs /\ result' = result
    BY <1>3 DEF CancelOutside, CleanCancel, Cancel
  <2>2. \A q \in Pumps : Over(q) => pump'[q] = pump[q]
    BY <1>3 DEF CancelOutside, CleanCancel, Cancel
  <2>3. \A q \in 1..cleaned : q \in Pumps
    BY <2>1
  <2>4. reader' = reader \/ (reader = "forking" /\ reader' = "reading")
    BY <1>3 DEF CancelOutside, CleanCancel, Cancel
  <2> QED BY <2>1, <2>2, <2>3, <2>4
<1>4. ASSUME NEW p \in Pumps, Stop(p) PROVE CleanInv'
  BY <1>4 DEF Stop
<1>5. ASSUME NEW p \in Pumps, CleanAwait(p) PROVE CleanInv'
  <2>1. Over(p) /\ cleaned = p - 1 /\ cleaned' = p /\ UNCHANGED <<pump, result>> /\ reader = "cleaning" /\ reader' = IF p = Inputs THEN "returned" ELSE reader
    BY <1>5 DEF CleanAwait, Awaited, pumps
  <2>2. \A q \in 1..p : q \in 1..cleaned \/ q = p
    BY <2>1
  <2> QED BY <2>1, <2>2
<1>6. CASE FinishMerged \/ Resume \/ Kill \/ Abandon
  BY <1>6 DEF FinishMerged, Resume, Kill, Abandon, pumps
<1>7. CASE ReadItem \/ ReadEnd
  BY <1>7 DEF ReadItem, ReadEnd, pumps
<1>8. ASSUME UNCHANGED <<pump, reader, result, cleaned>> PROVE CleanInv'
  BY <1>8
<1> QED BY <1>1, <1>2, <1>3, <1>4, <1>5, <1>6, <1>7, <1>8 DEF Next, Yield, End, vars

(***************************************************************************)
(* The theorems.                                                           *)
(***************************************************************************)

LEMMA Inductive == Spec => []IInv
<1>1. IInv /\ [Next]_vars => IInv'
  BY NextType, NextOffer, NextOrder, NextEnd, NextEnds, NextClean DEF IInv
<1> QED BY InitInv, <1>1, PTL DEF Spec

\* In every reachable state what an input yielded has been handed on, waits in the
\* queue, or is being written, in its order and once, and the merged stream has ended
\* only after all inputs did (mergeStreams, readMerged).
THEOREM InOrderAndWhole == Spec => []ItemsStayInOrder
<1>1. ASSUME IInv PROVE ItemsStayInOrder
  <2>1. ASSUME NEW p PROVE Waiting(p) = ItemsOf(queue, p) /\ \A i : {j \in Waiting(p) : j <= i} = UpTo(ItemsOf(queue, p), i)
    BY DEF Waiting, ItemsOf, UpTo
  <2>2. ASSUME NEW p \in Pumps, offered[p].kind = "item" PROVE pump[p] = "running"
    BY <1>1, <2>2 DEF IInv, OfferInv, None
  <2>3. NothingIsLost
    BY <1>1, <2>1, <2>2 DEF NothingIsLost, IInv, OrderInv, Held, Queued
  <2> QED BY <1>1, <2>3 DEF ItemsStayInOrder, IInv
<1> QED BY <1>1, Inductive, PTL

\* When the reader has returned, every pump is over (cleanupPumps).
THEOREM NoPumpIsLeft == Spec => []NoPumpOutlivesTheReader
<1>1. IInv => NoPumpOutlivesTheReader
  BY DEF IInv, CleanInv, NoPumpOutlivesTheReader, Pumps
<1> QED BY <1>1, Inductive, PTL
=============================================================================
