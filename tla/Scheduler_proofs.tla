-------------------------- MODULE Scheduler_proofs --------------------------
(***************************************************************************)
(* What the bot keeps across restarts: the scheduler, for any number of    *)
(* clients, owners and messages, any queue capacity and any delays, and    *)
(* then the media, the sessions and the threads of the stores, for any     *)
(* jobs, contents, references, forks, sessions, messages and nodes.        *)
(***************************************************************************)
EXTENDS Scheduler, Stores, SequenceTheorems, FiniteSetTheorems, WellFoundedInduction, TLAPS

(***************************************************************************)
(* Queues that are held in sequences.                                      *)
(***************************************************************************)

LEMMA EmptyQueue == ASSUME NEW S PROVE <<>> \in Seq(S) /\ ToSet(<<>>) = {} /\ IsInjective(<<>>)
BY DEF ToSet, IsInjective

LEMMA ElementsType == ASSUME NEW S, NEW s \in Seq(S) PROVE ToSet(s) \subseteq S
BY DEF ToSet

\* Appending adds one element, and keeps a queue of distinct elements distinct
\* when the element is new.
LEMMA AppendElements ==
  ASSUME NEW S, NEW s \in Seq(S), NEW e \in S
  PROVE  /\ Append(s, e) \in Seq(S) /\ Len(Append(s, e)) = Len(s) + 1
         /\ ToSet(Append(s, e)) = ToSet(s) \cup {e}
         /\ IsInjective(s) /\ e \notin ToSet(s) => IsInjective(Append(s, e))
<1> DEFINE t == Append(s, e)
<1>1. t \in Seq(S) /\ Len(t) = Len(s) + 1 /\ Len(s) \in Nat /\ DOMAIN s = 1..Len(s)
  OBVIOUS
<1>2. DOMAIN t = 1..(Len(s) + 1)
  OBVIOUS
<1>3. \A k \in 1..Len(s) : t[k] = s[k]
  OBVIOUS
<1>4. t[Len(s) + 1] = e
  OBVIOUS
<1>5. \A k \in 1..(Len(s) + 1) : k \in 1..Len(s) \/ k = Len(s) + 1
  BY <1>1
<1>6. Len(s) + 1 \in 1..(Len(s) + 1) /\ 1..Len(s) \subseteq 1..(Len(s) + 1)
  BY <1>1
<1> HIDE DEF t
<1>7. ASSUME NEW x PROVE x \in ToSet(t) <=> x \in ToSet(s) \cup {e}
  BY <1>1, <1>2, <1>3, <1>4, <1>5, <1>6, Zenon DEF ToSet
<1>8. ToSet(t) = ToSet(s) \cup {e}
  BY <1>7
<1>9. ASSUME IsInjective(s), e \notin ToSet(s) PROVE IsInjective(t)
  BY <1>9, <1>1, <1>2, <1>3, <1>4, <1>5 DEF IsInjective, ToSet
<1> QED BY <1>1, <1>8, <1>9 DEF t

\* Taking the head leaves the other elements of a queue of distinct elements.
LEMMA TailElements ==
  ASSUME NEW S, NEW s \in Seq(S), s # <<>>
  PROVE  /\ Tail(s) \in Seq(S) /\ Head(s) \in ToSet(s)
         /\ ToSet(s) = ToSet(Tail(s)) \cup {Head(s)}
         /\ IsInjective(s) => IsInjective(Tail(s)) /\ Head(s) \notin ToSet(Tail(s))
<1> DEFINE t == Tail(s)
<1>1. t \in Seq(S) /\ Len(s) \in Nat \ {0} /\ DOMAIN s = 1..Len(s) /\ Head(s) = s[1]
  OBVIOUS
<1>2. DOMAIN t = 1..(Len(s) - 1)
  OBVIOUS
<1>3. \A k \in 1..(Len(s) - 1) : t[k] = s[k + 1] /\ k + 1 \in 1..Len(s) /\ k + 1 # 1
  OBVIOUS
<1>4. \A k \in 1..Len(s) : k # 1 => k - 1 \in 1..(Len(s) - 1) /\ k = (k - 1) + 1
  BY <1>1
<1>5. 1 \in 1..Len(s)
  BY <1>1
<1>6. \A k, m \in 1..(Len(s) - 1) : k + 1 = m + 1 => k = m
  BY <1>1
<1> HIDE DEF t
<1>7. \A k \in 1..Len(s) : k # 1 => s[k] = t[k - 1] /\ k - 1 \in 1..(Len(s) - 1)
  BY <1>3, <1>4
<1>8. ASSUME NEW x PROVE x \in ToSet(s) <=> x \in ToSet(t) \cup {Head(s)}
  <2>1. ASSUME x \in ToSet(s) PROVE x \in ToSet(t) \cup {Head(s)}
    <3>1. PICK k \in 1..Len(s) : s[k] = x
      BY <2>1, <1>1 DEF ToSet
    <3> QED BY <3>1, <1>1, <1>2, <1>7 DEF ToSet
  <2>2. ASSUME x \in ToSet(t) PROVE x \in ToSet(s)
    <3>1. PICK k \in 1..(Len(s) - 1) : t[k] = x
      BY <2>2, <1>2 DEF ToSet
    <3> QED BY <3>1, <1>1, <1>3 DEF ToSet
  <2>3. Head(s) \in ToSet(s)
    BY <1>1, <1>5 DEF ToSet
  <2> QED BY <2>1, <2>2, <2>3
<1>9. ToSet(s) = ToSet(t) \cup {Head(s)}
  BY <1>8
<1>10. ASSUME IsInjective(s) PROVE IsInjective(t)
  BY <1>10, <1>1, <1>2, <1>3, <1>6 DEF IsInjective
<1>11. ASSUME IsInjective(s) PROVE Head(s) \notin ToSet(t)
  BY <1>11, <1>1, <1>2, <1>3, <1>5 DEF IsInjective, ToSet
<1> QED BY <1>1, <1>5, <1>9, <1>10, <1>11 DEF t, ToSet

(***************************************************************************)
(* Type correctness.                                                       *)
(***************************************************************************)

\* A wrapped due time is an integer.
LEMMA AsColumnType == ASSUME NEW n \in Int PROVE AsColumn(n) \in Int
<1>1. MaxInt \in Nat
  BY SchedulerAssumption
<1>2. (n + MaxInt + 1) \in Int /\ 2 * (MaxInt + 1) \in Nat \ {0}
  BY <1>1
<1> DEFINE a == n + MaxInt + 1
           b == 2 * (MaxInt + 1)
<1>3. a % b \in Int
  <2> HIDE DEF a, b
  <2> QED BY <1>2 DEF a, b
<1> QED BY <1>1, <1>3 DEF AsColumn

LEMMA InitType == Init => TypeOK
<1> SUFFICES ASSUME Init PROVE TypeOK
  OBVIOUS
<1>1. queue \in Seq(Ids) /\ delivered \in Seq(Ids)
  BY EmptyQueue DEF Init
<1>2. client \in [Clients -> {Idle, [kind |-> "signal"]} \cup
                               [kind : {"store"}, due : Int, owner : Owners]]
  BY DEF Init
<1>3. clock \in 0..MaxTime /\ now \in 0..MaxTime /\ nextRow \in 1..(MaxId + 1)
      /\ restarts \in 0..MaxRestarts
  BY SchedulerAssumption DEF Init, FirstRow
<1>4. wake \in BOOLEAN /\ missed \in BOOLEAN
  BY Zenon DEF Init
<1>5. /\ due \in [Ids -> Int] /\ memDue \in [Ids -> Int]
      /\ owner \in [Ids -> Owners \cup {NoOwner}]
  BY DEF Init
<1>6. /\ rows \subseteq Ids /\ pending \subseteq Ids /\ batch \subseteq Ids
      /\ hand \subseteq Ids /\ removed \subseteq Ids
      /\ sleep \in Nat /\ late \in Int
      /\ worker \in {"read", "pop", "push", "idle", "sleeping", "drain"}
      /\ consumer \in {"idle", "deleting", "returning", "dead"}
  BY DEF Init
<1> QED BY <1>1, <1>2, <1>3, <1>4, <1>5, <1>6, Zenon DEF TypeOK, Idle

LEMMA NextType == TypeOK /\ [Next]_vars => TypeOK'
<1> SUFFICES ASSUME TypeOK, [Next]_vars PROVE TypeOK'
  OBVIOUS
<1> USE SchedulerAssumption
<1> USE DEF TypeOK, store, memory, workerVar, outVars, Idle
<1>1. CASE Tick
  BY <1>1 DEF Tick
<1>2. ASSUME NEW c \in Clients, ScheduleBegin(c) PROVE TypeOK'
  <2>1. PICK o \in Owners, d \in Delays :
          client' = [client EXCEPT ![c] =
            [kind |-> "store", due |-> clock + (IF d < 0 THEN 0 ELSE d), owner |-> o]]
    BY <1>2 DEF ScheduleBegin
  <2>2. clock + (IF d < 0 THEN 0 ELSE d) \in Int
    OBVIOUS
  <2> QED BY <1>2, <2>1, <2>2 DEF ScheduleBegin
<1>3. ASSUME NEW c \in Clients, ScheduleStore(c) PROVE TypeOK'
  <2>1. client[c] \in [kind : {"store"}, due : Int, owner : Owners]
    BY <1>3 DEF ScheduleStore
  <2>2. nextRow \in Ids /\ client[c].due \in Int /\ client[c].owner \in Owners
    BY <1>3, <2>1 DEF ScheduleStore, CreatedRow, Ids
  <2>3. nextRow' \in 1..(MaxId + 1) /\ rows' \subseteq Ids
        /\ due' \in [Ids -> Int] /\ owner' \in [Ids -> Owners \cup {NoOwner}]
    BY <1>3, <2>2 DEF ScheduleStore, CreatedRow
  <2>4. pending' \subseteq Ids /\ memDue' \in [Ids -> Int]
    BY <1>3, <2>2 DEF ScheduleStore
  <2> QED BY <1>3, <2>3, <2>4 DEF ScheduleStore
<1>4. ASSUME NEW c \in Clients, Signal(c) \/ ClientFails(c) PROVE TypeOK'
  BY <1>4 DEF Signal, signalSchedulerWake, ClientFails
<1>5. ASSUME NEW c \in Clients, NEW o \in Owners, NEW i \in Ids, DeleteScheduledMessage(c, o, i)
      PROVE  TypeOK'
  BY <1>5 DEF DeleteScheduledMessage
<1>6. CASE ReadClock
  BY <1>6 DEF ReadClock
<1>7. CASE PopDue
  BY <1>7 DEF PopDue, NotPopped
<1>8. CASE Push
  <2>1. PICK i \in batch : batch' = batch \ {i} /\ queue' = Append(queue, i)
    BY <1>8 DEF Push
  <2>2. queue' \in Seq(Ids)
    BY <2>1
  <2> QED BY <1>8, <2>1, <2>2 DEF Push
<1>9. CASE Look
  <2>1. sleep' \in Nat
    <3>1. ASSUME NEW i \in pending PROVE TimeLeft(memDue[i]) \in Nat
      <4>1. memDue[i] \in Int /\ now \in Int
        OBVIOUS
      <4> QED BY <4>1 DEF TimeLeft
    <3> QED BY <1>9, <3>1 DEF Look
  <2>2. now' \in 0..MaxTime /\ late' \in Int
    <3>1. clock \in Int /\ now \in Int /\ 0 \in 0..MaxTime
      OBVIOUS
    <3> QED BY <1>9, <3>1 DEF Look
  <2>3. worker' \in {"idle", "sleeping"} /\ missed' = FALSE
    BY <1>9 DEF Look
  <2> QED BY <1>9, <2>1, <2>2, <2>3 DEF Look
<1>10. CASE Woken
  <2>1. wake' \in BOOLEAN
    BY <1>10, Zenon DEF Woken
  <2>2. worker' = "drain" /\ sleep' = 0 /\ late' = 0
        /\ UNCHANGED <<clock, store, memory, client, now, batch, missed,
                       queue, outVars, removed, restarts>>
    BY <1>10 DEF Woken
  <2>3. sleep' \in Nat /\ late' \in Int
    BY <2>2
  <2>4. (clock \in 0..MaxTime /\ now \in 0..MaxTime)'
    BY <2>2
  <2>5. (client \in [Clients -> {Idle, [kind |-> "signal"]} \cup
                                [kind : {"store"}, due : Int, owner : Owners]])'
    BY <2>2
  <2>6. (queue \in Seq(Ids) /\ delivered \in Seq(Ids))'
    BY <2>2
  <2>7. (missed \in BOOLEAN)'
    BY <2>2, Zenon
  <2>8. (/\ nextRow \in 1..(MaxId + 1) /\ rows \subseteq Ids /\ pending \subseteq Ids
         /\ batch \subseteq Ids /\ hand \subseteq Ids /\ removed \subseteq Ids)'
    BY <2>2
  <2>9. (/\ due \in [Ids -> Int] /\ memDue \in [Ids -> Int]
         /\ owner \in [Ids -> Owners \cup {NoOwner}])'
    BY <2>2
  <2>10. (/\ worker \in {"read", "pop", "push", "idle", "sleeping", "drain"}
          /\ consumer \in {"idle", "deleting", "returning", "dead"}
          /\ restarts \in 0..MaxRestarts)'
    BY <2>2
  <2> QED BY <2>1, <2>3, <2>4, <2>5, <2>6, <2>7, <2>8, <2>9, <2>10, Zenon
<1>11. CASE DrainSchedulerWake
  BY <1>11 DEF DrainSchedulerWake
<1>12. CASE ReadQueue
  <2>1. queue' \in Seq(Ids) /\ hand' \subseteq Ids
    BY <1>12 DEF ReadQueue
  <2> QED BY <1>12, <2>1 DEF ReadQueue
<1>13. CASE DeleteRow
  BY <1>13 DEF DeleteRow, DeletedRows
<1>14. CASE PumpFails
  BY <1>14 DEF PumpFails
<1>15. CASE Return
  BY <1>15 DEF Return
<1>16. CASE Restart
  <2>1. memDue' \in [Ids -> Int]
    BY <1>16, AsColumnType DEF Restart
  <2>2. restarts' \in 0..MaxRestarts /\ pending' \subseteq Ids
        /\ queue' \in Seq(Ids) /\ now' \in 0..MaxTime
        /\ client' \in [Clients -> {Idle, [kind |-> "signal"]} \cup
                                  [kind : {"store"}, due : Int, owner : Owners]]
    BY <1>16, EmptyQueue DEF Restart, Reloaded
  <2>3. sleep' \in Nat /\ late' \in Int /\ worker' = "read" /\ consumer' = "idle"
        /\ batch' = {} /\ hand' = {} /\ wake' = FALSE /\ missed' = FALSE
        /\ UNCHANGED <<clock, nextRow, rows, due, owner, delivered, removed>>
    BY <1>16 DEF Restart
  <2> QED BY <2>1, <2>2, <2>3
<1>17. CASE UNCHANGED vars
  BY <1>17 DEF vars
<1> QED
  BY <1>1, <1>2, <1>3, <1>4, <1>5, <1>6, <1>7, <1>8, <1>9, <1>10, <1>11, <1>12,
     <1>13, <1>14, <1>15, <1>16, <1>17
     DEF Next, Client, Worker, Consumer

\* Every reachable state is well typed.
THEOREM TypeCorrect == Spec => []TypeOK
BY InitType, NextType, PTL DEF Spec

(***************************************************************************)
(* Every message is in one place.                                          *)
(***************************************************************************)

\* HeldOnce and NothingForgotten are preserved because rows get fresh ids, the
\* consumer has at most one message in hand, and the worker pops a batch only
\* when the last one is queued.
IInv ==
  /\ TypeOK /\ HeldOnce /\ NothingForgotten
  /\ \A i \in rows \cup hand : i < nextRow
  /\ \A i, j \in hand : i = j
  /\ consumer \in {"idle", "dead"} => hand = {}
  /\ worker # "push" => batch = {}

LEMMA InitHeld == Init => IInv
<1> SUFFICES ASSUME Init PROVE IInv
  OBVIOUS
<1>1. TypeOK
  BY InitType
<1>2. ToSet(queue) = {} /\ IsInjective(queue)
  BY EmptyQueue DEF Init
<1> QED BY <1>1, <1>2 DEF Init, IInv, HeldOnce, NothingForgotten, Held

LEMMA NextHeld == IInv /\ [Next]_vars => IInv'
<1> SUFFICES ASSUME IInv, [Next]_vars PROVE IInv'
  OBVIOUS
<1> USE DEF store, memory, workerVar, outVars
<1>0. TypeOK /\ TypeOK'
  BY NextType DEF IInv
<1>q. queue \in Seq(Ids) /\ ToSet(queue) \subseteq Ids
  BY <1>0, ElementsType DEF TypeOK
<1> DEFINE Places ==
      /\ pending \cap batch = {} /\ (pending \cup batch) \cap (ToSet(queue) \cup hand) = {}
      /\ ToSet(queue) \cap hand = {}
      /\ pending \cup batch \cup ToSet(queue) \subseteq rows
      /\ consumer = "returning" => hand \cap rows = {}
      /\ IF consumer = "dead"
         THEN \A i, j \in rows \ (pending \cup batch \cup ToSet(queue) \cup hand) : i = j
         ELSE rows \subseteq pending \cup batch \cup ToSet(queue) \cup hand
      /\ \A i \in rows \cup hand : i < nextRow
      /\ \A i, j \in hand : i = j
      /\ consumer \in {"idle", "dead"} => hand = {}
<1>p. Places /\ IsInjective(queue)
  BY DEF IInv, HeldOnce, NothingForgotten, Held
<1>b. worker # "push" => batch = {}
  BY DEF IInv
<1>g. ASSUME Places', IsInjective(queue)', (worker # "push" => batch = {})' PROVE IInv'
  BY <1>0, <1>g DEF IInv, HeldOnce, NothingForgotten, Held
<1>1. ASSUME UNCHANGED <<nextRow, rows, pending, batch, queue, consumer, hand>>,
             (worker # "push" => batch = {})'
      PROVE  IInv'
  <2>1. IsInjective(queue)' /\ Places'
    BY <1>1, <1>p
  <2> QED BY <2>1, <1>1, <1>g
<1>2. ASSUME NEW c \in Clients, ScheduleStore(c) PROVE IInv'
  <2>1. nextRow \in Nat /\ nextRow \notin rows \cup hand
    BY SMTT(30), <1>0, <1>p DEF TypeOK
  <2>2. \A i \in rows \cup hand : i < nextRow + 1
    BY SMTT(30), <1>0, <1>p DEF TypeOK, Ids
  <2>3. UNCHANGED <<queue, batch, consumer, hand, worker>> /\ nextRow' = nextRow + 1
        /\ rows' = rows \cup {nextRow} /\ pending' = pending \cup {nextRow}
    BY <1>2 DEF ScheduleStore, CreatedRow
  <2>4. Places'
    BY <2>1, <2>2, <2>3, <1>p
  <2> QED BY <2>3, <2>4, <1>g, <1>p, <1>b
<1>3. ASSUME NEW c \in Clients, NEW o \in Owners, NEW i \in Ids, DeleteScheduledMessage(c, o, i)
      PROVE  IInv'
  <2>1. UNCHANGED <<nextRow, queue, batch, consumer, hand, worker>> /\ i \in pending
        /\ rows' = rows \ {i} /\ pending' = pending \ {i}
    BY <1>3 DEF DeleteScheduledMessage, Deletable
  <2>2. Places'
    BY <2>1, <1>p
  <2> QED BY <2>1, <2>2, <1>g, <1>p, <1>b
<1>4. CASE PopDue
  <2>1. UNCHANGED <<nextRow, rows, queue, consumer, hand>> /\ worker' = "push"
        /\ pending' = pending \ batch' /\ batch' \subseteq pending
        /\ batch = {}
    BY <1>4, <1>b DEF PopDue, NotPopped
  <2>2. Places'
    BY <2>1, <1>p
  <2> QED BY <2>1, <2>2, <1>g, <1>p
<1>5. CASE Push
  <2>1. PICK i \in batch : batch' = batch \ {i} /\ queue' = Append(queue, i)
    BY <1>5 DEF Push
  <2>2. UNCHANGED <<nextRow, rows, pending, consumer, hand>> /\ worker' = "push"
    BY <1>5 DEF Push
  <2>3. i \in Ids /\ i \notin ToSet(queue)
    BY <2>1, <1>0, <1>p DEF TypeOK
  <2>4. ToSet(queue') = ToSet(queue) \cup {i} /\ IsInjective(queue')
    BY <2>1, <2>3, <1>q, <1>p, AppendElements
  <2>5. Places'
    BY <2>1, <2>2, <2>4, <1>p
  <2> QED BY <2>2, <2>4, <2>5, <1>g
<1>6. CASE ReadQueue
  <2>1. ToSet(queue) = ToSet(queue') \cup hand' /\ ToSet(queue') \cap hand' = {}
        /\ IsInjective(queue') /\ \A i, j \in hand' : i = j
    BY <1>6, <1>q, <1>p, TailElements DEF ReadQueue
  <2>2. UNCHANGED <<nextRow, rows, pending, batch, worker>>
        /\ consumer = "idle" /\ consumer' = "deleting"
    BY <1>6 DEF ReadQueue
  <2>3. Places'
    BY <2>1, <2>2, <1>p
  <2> QED BY <2>1, <2>2, <2>3, <1>g, <1>b
<1>7. CASE DeleteRow
  <2>1. UNCHANGED <<nextRow, pending, batch, queue, hand, worker>> /\ rows' = rows \ hand
        /\ consumer = "deleting" /\ consumer' = "returning"
    BY <1>7 DEF DeleteRow, DeletedRows
  <2>2. Places'
    BY <2>1, <1>p
  <2> QED BY <2>1, <2>2, <1>g, <1>p, <1>b
<1>8. CASE PumpFails
  <2>1. UNCHANGED <<nextRow, rows, pending, batch, queue, worker>> /\ hand' = {}
        /\ consumer = "deleting" /\ consumer' = "dead"
    BY <1>8 DEF PumpFails
  <2>2. Places'
    BY <2>1, <1>p
  <2> QED BY <2>1, <2>2, <1>g, <1>p, <1>b
<1>9. CASE Return
  <2>1. UNCHANGED <<nextRow, rows, pending, batch, queue, worker>> /\ hand' = {}
        /\ consumer = "returning" /\ consumer' = "idle"
    BY <1>9 DEF Return
  <2>2. Places'
    BY <2>1, <1>p
  <2> QED BY <2>1, <2>2, <1>g, <1>p, <1>b
<1>10. CASE Restart
  <2>1. UNCHANGED <<nextRow, rows>> /\ hand' = {} /\ batch' = {} /\ pending' = rows
        /\ consumer' = "idle" /\ queue' = <<>>
    BY <1>10 DEF Restart, Reloaded
  <2>2. ToSet(queue') = {} /\ IsInjective(queue')
    BY <2>1, EmptyQueue
  <2>3. \A i \in rows : i < nextRow
    BY <1>p
  <2>4. Places'
    BY <2>1, <2>2, <2>3
  <2> QED BY <2>1, <2>2, <2>4, <1>g
<1>11. CASE Tick
  BY <1>11, <1>1, <1>b DEF Tick
<1>12. ASSUME NEW c \in Clients, ScheduleBegin(c) \/ Signal(c) \/ ClientFails(c) PROVE IInv'
  BY <1>12, <1>1, <1>b DEF ScheduleBegin, Signal, ClientFails
<1>13. ASSUME ReadClock \/ Look \/ Woken \/ DrainSchedulerWake PROVE IInv'
  BY <1>13, <1>1, <1>b DEF ReadClock, Look, Woken, DrainSchedulerWake
<1>14. CASE UNCHANGED vars
  BY <1>14, <1>1, <1>b DEF vars
<1> QED
  BY <1>2, <1>3, <1>4, <1>5, <1>6, <1>7, <1>8, <1>9, <1>10, <1>11, <1>12, <1>13, <1>14
     DEF Next, Client, Worker, Consumer

\* A stored message is in one place, with its row, whatever fails or restarts, and
\* no row is forgotten but the one whose deletion failed.
THEOREM RowsHeldOnce == Spec => []EveryRowHeldOnce
<1>1. IInv => EveryRowHeldOnce
  BY DEF IInv, EveryRowHeldOnce
<1> QED BY <1>1, InitHeld, NextHeld, PTL DEF Spec

(***************************************************************************)
(* No wake-up is lost.                                                     *)
(***************************************************************************)

\* The promise is inductive with the types: the worker begins to wait with a look at
\* all that is pending, and whoever changes that owes it a signal until it is given
\* or missed.
LEMMA NextWakes == TypeOK /\ WakesInTime /\ [Next]_vars => WakesInTime'
<1> SUFFICES ASSUME TypeOK, WakesInTime, [Next]_vars PROVE WakesInTime'
  OBVIOUS
<1> USE DEF store, memory, workerVar, outVars
<1> DEFINE Quiet == ~wake /\ ~missed /\ \A c \in Clients : client[c].kind # "signal"
           Waits == worker \in {"idle", "sleeping"}
           InTime == \A i \in pending : worker = "sleeping" /\ (sleep = 0 \/ clock + sleep <= memDue[i] + late)
<1>0. Waits /\ Quiet => InTime
  BY DEF WakesInTime
<1>g. ASSUME ~Waits' \/ ~Quiet' \/ InTime' PROVE WakesInTime'
  BY <1>g DEF WakesInTime
<1>t. /\ clock \in Int /\ now \in Int /\ sleep \in Nat /\ late \in Int /\ memDue \in [Ids -> Int] /\ pending \subseteq Ids
      /\ wake \in BOOLEAN /\ missed \in BOOLEAN
      /\ client \in [Clients -> {Idle, [kind |-> "signal"]} \cup [kind : {"store"}, due : Int, owner : Owners]]
  BY SchedulerAssumption DEF TypeOK
<1> HIDE DEF Quiet, Waits, InTime
<1>1. CASE Tick
  <2>1. UNCHANGED <<wake, missed, client, worker, pending, memDue, late>>
    BY <1>1 DEF Tick
  <2>2. (Waits' <=> Waits) /\ (Quiet' <=> Quiet)
    BY <2>1, Zenon DEF Waits, Quiet
  <2>3. sleep' = 0 \/ clock' + sleep' <= clock + sleep
    BY <1>1, <1>t DEF Tick
  <2>4. InTime => InTime'
    <3>1. ASSUME NEW i \in pending, sleep = 0 \/ clock + sleep <= memDue[i] + late
          PROVE  sleep' = 0 \/ clock' + sleep' <= memDue[i] + late
      <4>1. memDue[i] \in Int /\ clock' \in Int /\ sleep' \in Int
        BY <1>1, <1>t DEF Tick
      <4> QED BY <1>1, <1>t, <2>3, <3>1, <4>1 DEF Tick
    <3> QED BY <2>1, <3>1 DEF InTime
  <2> QED BY <1>0, <1>g, <2>2, <2>4
<1>2. ASSUME NEW c \in Clients, ScheduleBegin(c) PROVE WakesInTime'
  <2>1. UNCHANGED <<clock, wake, missed, worker, pending, memDue, sleep, late>>
    BY <1>2 DEF ScheduleBegin
  <2>2. \A d \in Clients : client'[d].kind # "signal" => client[d].kind # "signal"
    BY <1>2, <1>t DEF ScheduleBegin, Idle
  <2>3. (Waits' <=> Waits) /\ (Quiet' => Quiet) /\ (InTime' <=> InTime)
    BY <2>1, <2>2, Zenon DEF Waits, Quiet, InTime
  <2> QED BY <1>0, <1>g, <2>3
<1>3. ASSUME NEW c \in Clients, ScheduleStore(c) \/ \E o \in Owners, i \in Ids : DeleteScheduledMessage(c, o, i) PROVE WakesInTime'
  <2>1. client' = [client EXCEPT ![c] = [kind |-> "signal"]]
    BY <1>3 DEF ScheduleStore, DeleteScheduledMessage
  <2>2. client'[c].kind = "signal"
    BY <2>1, <1>t
  <2> QED BY <1>g, <2>2 DEF Quiet
<1>4. ASSUME NEW c \in Clients, Signal(c) PROVE WakesInTime'
  <2>1. wake'
    BY <1>4 DEF Signal, signalSchedulerWake
  <2> QED BY <1>g, <2>1 DEF Quiet
<1>5. ASSUME NEW c \in Clients, ClientFails(c) PROVE WakesInTime'
  <2>1. UNCHANGED <<clock, wake, worker, pending, memDue, sleep, late>> /\ (missed' <=> missed \/ client[c].kind = "signal")
    BY <1>5 DEF ClientFails
  <2>2. \A d \in Clients : d # c => client'[d] = client[d]
    BY <1>5, <1>t DEF ClientFails
  <2>3. (Waits' <=> Waits) /\ (Quiet' => Quiet) /\ (InTime' <=> InTime)
    BY <2>1, <2>2, Zenon DEF Waits, Quiet, InTime
  <2> QED BY <1>0, <1>g, <2>3
<1>6. CASE Look
  <2>1. CASE pending = {}
    <3>1. pending' = {}
      BY <1>6, <2>1 DEF Look
    <3> QED BY <1>g, <3>1 DEF InTime
  <2>2. CASE pending # {}
    <3>1. PICK i \in pending : (\A j \in pending : memDue[i] <= memDue[j]) /\ sleep' = TimeLeft(memDue[i])
      BY <1>6, <2>2 DEF Look
    <3>2. worker' = "sleeping" /\ late' = clock - now /\ UNCHANGED <<clock, pending, memDue>>
      BY <1>6, <2>2 DEF Look
    <3>3. ASSUME NEW j \in pending PROVE sleep' = 0 \/ clock + sleep' <= memDue[j] + (clock - now)
      <4>1. memDue[i] \in Int /\ memDue[j] \in Int /\ memDue[i] <= memDue[j]
        BY <1>t, <3>1
      <4> QED BY <1>t, <3>1, <4>1 DEF TimeLeft
    <3>4. InTime'
      BY <3>2, <3>3 DEF InTime
    <3> QED BY <1>g, <3>4
  <2> QED BY <2>1, <2>2
<1>7. ASSUME ReadClock \/ PopDue \/ Push \/ Woken \/ DrainSchedulerWake \/ Restart PROVE WakesInTime'
  <2>1. worker' \notin {"idle", "sleeping"}
    BY <1>7 DEF ReadClock, PopDue, Push, Woken, DrainSchedulerWake, Restart
  <2> QED BY <1>g, <2>1 DEF Waits
<1>8. ASSUME UNCHANGED <<clock, wake, missed, client, worker, pending, memDue, sleep, late>> PROVE WakesInTime'
  <2>1. (Waits' <=> Waits) /\ (Quiet' <=> Quiet) /\ (InTime' <=> InTime)
    BY <1>8, Zenon DEF Waits, Quiet, InTime
  <2> QED BY <1>0, <1>g, <2>1
<1> QED
  BY <1>1, <1>2, <1>3, <1>4, <1>5, <1>6, <1>7, <1>8
     DEF Next, Client, Worker, Consumer, ReadQueue, DeleteRow, PumpFails, Return, vars

\* The worker never sleeps past the due time of a pending message unless somebody
\* still owes it a signal or died owing it (schedulerWorker, signalSchedulerWake).
THEOREM NoWakeUpIsLost == Spec => []WakesInTime
<1>1. Init => WakesInTime
  BY DEF Init, WakesInTime
<1> QED BY <1>1, InitType, NextType, NextWakes, PTL DEF Spec

(***************************************************************************)
(* The scheduler implements DelayedMessages, provided that no due time is  *)
(* too large for its column: then the times in memory are those that were  *)
(* asked for, before and after a restart.  What has left the pending map   *)
(* is due and is handed over in order; ids are given out in order, so what *)
(* is scheduled later never precedes it.                                   *)
(***************************************************************************)

DelaysFit == MaxTime <= MaxInt /\ \A d \in Delays : MaxTime + d <= MaxInt

\* Due times are those that were asked for.
Exact ==
  /\ \A i \in Ids : due[i] \in 0..MaxInt /\ memDue[i] = due[i]
  /\ \A c \in Clients : client[c].kind = "store" => client[c].due \in 0..MaxInt

\* What is on its way out is due.
Popped   == batch \cup ToSet(queue) \cup hand
NotEarly == now <= clock /\ \A i \in Popped : due[i] <= clock

\* It comes in the order of due times, before all that is behind it.
Precedes(i, j) == j < i => due[j] > due[i]
InOrder ==
  /\ \A i \in Popped, j \in pending : Precedes(i, j)
  /\ \A i \in ToSet(queue) \cup hand, j \in batch : Precedes(i, j)
  /\ \A i \in hand, j \in ToSet(queue) : Precedes(i, j)
  /\ \A m, n \in 1..Len(queue) : m < n => Precedes(queue[m], queue[n])

\* What was delivered or deleted is neither kept nor in hand.
Apart ==
  /\ \A i \in removed \cup ToSet(delivered) : i < nextRow /\ i \notin rows /\ i \notin hand
  /\ consumer = "deleting" => hand \subseteq rows
  /\ removed \cap ToSet(delivered) = {}

PromiseInv == IInv /\ Exact /\ NotEarly /\ InOrder /\ Apart

\* A due time that fits its column is kept as it is.
LEMMA AsColumnIsExact == ASSUME NEW n \in 0..MaxInt PROVE AsColumn(n) = n
<1>1. MaxInt \in Nat
  BY SchedulerAssumption
<1>2. ASSUME NEW a \in Nat, NEW b \in Nat, a < b PROVE a % b = a
  BY <1>2
<1>3. n + MaxInt + 1 \in Nat /\ 2 * (MaxInt + 1) \in Nat /\ n + MaxInt + 1 < 2 * (MaxInt + 1)
  BY <1>1
<1>4. (n + MaxInt + 1) % (2 * (MaxInt + 1)) = n + MaxInt + 1
  BY <1>2, <1>3
<1> QED BY <1>1, <1>4 DEF AsColumn

LEMMA InitPromised == Init => PromiseInv
<1> SUFFICES ASSUME Init PROVE PromiseInv
  OBVIOUS
<1>1. ToSet(queue) = {} /\ ToSet(delivered) = {} /\ Len(queue) = 0
  BY EmptyQueue DEF Init
<1>2. Exact
  BY SchedulerAssumption DEF Init, Exact, Idle
<1>3. NotEarly /\ InOrder /\ Apart
  BY <1>1 DEF Init, NotEarly, Popped, InOrder, Apart
<1> QED BY <1>2, <1>3, InitHeld DEF PromiseInv

\* Due times stay what was asked for.
LEMMA NextExact == DelaysFit /\ TypeOK /\ Exact /\ [Next]_vars => Exact'
<1> SUFFICES ASSUME DelaysFit, TypeOK, Exact, [Next]_vars PROVE Exact'
  OBVIOUS
<1> USE DEF store, memory, workerVar, outVars
<1>t. /\ clock \in 0..MaxTime /\ due \in [Ids -> Int] /\ memDue \in [Ids -> Int] /\ nextRow \in Int
      /\ client \in [Clients -> {Idle, [kind |-> "signal"]} \cup [kind : {"store"}, due : Int, owner : Owners]]
  BY DEF TypeOK
<1>m. MaxTime \in Nat /\ MaxInt \in Nat /\ Delays \subseteq Int
  BY SchedulerAssumption
<1>1. ASSUME NEW c \in Clients, ScheduleBegin(c) PROVE Exact'
  <2>1. PICK o \in Owners, d \in Delays :
          client' = [client EXCEPT ![c] = [kind |-> "store", due |-> clock + (IF d < 0 THEN 0 ELSE d), owner |-> o]]
    BY <1>1 DEF ScheduleBegin
  <2>2. clock + (IF d < 0 THEN 0 ELSE d) \in 0..MaxInt
    BY <1>t, <1>m DEF DelaysFit
  <2>3. \A e \in Clients : client'[e].kind = "store" => client'[e].due \in 0..MaxInt
    BY <1>t, <2>1, <2>2 DEF Exact
  <2> QED BY <1>1, <2>3 DEF ScheduleBegin, Exact
<1>2. ASSUME NEW c \in Clients, ScheduleStore(c) PROVE Exact'
  <2>1. client[c].due \in 0..MaxInt
    BY <1>2 DEF ScheduleStore, Exact
  <2>2. /\ due' = [due EXCEPT ![nextRow] = client[c].due] /\ memDue' = [memDue EXCEPT ![nextRow] = client[c].due]
        /\ client' = [client EXCEPT ![c] = [kind |-> "signal"]]
    BY <1>2 DEF ScheduleStore, CreatedRow
  <2>3. \A i \in Ids : due'[i] \in 0..MaxInt /\ memDue'[i] = due'[i]
    BY <1>t, <2>1, <2>2 DEF Exact
  <2>4. \A e \in Clients : client'[e].kind = "store" => client'[e].due \in 0..MaxInt
    BY <1>t, <2>2 DEF Exact
  <2> QED BY <2>3, <2>4 DEF Exact
<1>3. ASSUME NEW c \in Clients,
             Signal(c) \/ ClientFails(c) \/ \E o \in Owners, i \in Ids : DeleteScheduledMessage(c, o, i)
      PROVE  Exact'
  <2>1. /\ UNCHANGED <<due, memDue>>
        /\ \/ client' = [client EXCEPT ![c] = Idle]
           \/ client' = [client EXCEPT ![c] = [kind |-> "signal"]]
    BY <1>3 DEF Signal, ClientFails, DeleteScheduledMessage
  <2>2. \A e \in Clients : client'[e].kind = "store" => client'[e].due \in 0..MaxInt
    BY <1>t, <2>1 DEF Exact, Idle
  <2> QED BY <2>1, <2>2 DEF Exact
<1>4. CASE Restart
  <2>1. /\ UNCHANGED due /\ memDue' = [i \in Ids |-> AsColumn(due[i])]
        /\ client' = [c \in Clients |-> Idle]
    BY <1>4 DEF Restart
  <2>2. \A i \in Ids : AsColumn(due[i]) = due[i]
    BY AsColumnIsExact DEF Exact
  <2> QED BY <2>1, <2>2 DEF Exact, Idle
<1>5. ASSUME UNCHANGED <<due, memDue, client>> PROVE Exact'
  BY <1>5 DEF Exact
<1>6. ASSUME Tick \/ Worker \/ Consumer PROVE Exact'
  BY <1>5, <1>6 DEF Tick, Worker, Consumer, ReadClock, PopDue, Push, Look, Woken, DrainSchedulerWake,
     ReadQueue, DeleteRow, PumpFails, Return
<1> QED BY <1>1, <1>2, <1>3, <1>4, <1>5, <1>6 DEF Next, Client, vars

\* Only what is due is popped, and time does not run back.
LEMMA NextNotEarly == IInv /\ Exact /\ NotEarly /\ [Next]_vars => NotEarly'
<1> SUFFICES ASSUME IInv, Exact, NotEarly, [Next]_vars PROVE NotEarly'
  OBVIOUS
<1> USE DEF store, memory, workerVar, outVars
<1>0. TypeOK /\ TypeOK'
  BY NextType DEF IInv
<1>t. /\ clock \in Int /\ now \in Int /\ nextRow \in Int /\ due \in [Ids -> Int] /\ memDue \in [Ids -> Int]
      /\ pending \subseteq Ids /\ batch \subseteq Ids /\ hand \subseteq Ids /\ queue \in Seq(Ids)
  BY <1>0 DEF TypeOK
<1>q. ToSet(queue) \subseteq Ids
  BY <1>t, ElementsType
<1>h. Popped \subseteq Ids /\ nextRow \notin Popped
  <2>1. batch \cup ToSet(queue) \subseteq rows /\ \A i \in rows \cup hand : i < nextRow
    BY DEF IInv, HeldOnce
  <2> QED BY <1>t, <1>q, <2>1 DEF Popped
<1>p. now <= clock /\ \A i \in Popped : due[i] <= clock
  BY DEF NotEarly
<1>1. ASSUME Popped' \subseteq Popped, UNCHANGED due, clock' \in Int, clock <= clock', now' = now PROVE NotEarly'
  <2>1. ASSUME NEW i \in Popped' PROVE due'[i] <= clock'
    <3>1. due[i] \in Int /\ due[i] <= clock
      BY <1>1, <1>h, <1>t, <1>p
    <3> QED BY <1>1, <1>t, <3>1
  <2> QED BY <1>1, <1>t, <1>p, <2>1 DEF NotEarly
<1>2. ASSUME UNCHANGED <<clock, now, due, batch, queue, hand>> PROVE NotEarly'
  BY <1>1, <1>2, <1>t DEF Popped
<1>3. CASE Tick
  <2>1. UNCHANGED <<now, due, batch, queue, hand>> /\ clock' \in Int /\ clock <= clock'
    BY <1>3, <1>t DEF Tick
  <2> QED BY <1>1, <2>1 DEF Popped
<1>4. ASSUME NEW c \in Clients, ScheduleStore(c) PROVE NotEarly'
  <2>1. UNCHANGED <<clock, now, batch, queue, hand>> /\ due' = [due EXCEPT ![nextRow] = client[c].due]
    BY <1>4 DEF ScheduleStore, CreatedRow
  <2>2. \A i \in Popped : due'[i] = due[i]
    BY <1>h, <1>t, <2>1
  <2> QED BY <1>p, <2>1, <2>2 DEF NotEarly, Popped
<1>5. ASSUME NEW c \in Clients, Client(c), ~ScheduleStore(c) PROVE NotEarly'
  BY <1>2, <1>5 DEF Client, ScheduleBegin, Signal, ClientFails, DeleteScheduledMessage
<1>6. CASE ReadClock
  <2>1. now' = clock /\ UNCHANGED <<clock, due, batch, queue, hand>>
    BY <1>6 DEF ReadClock
  <2> QED BY <1>p, <1>t, <2>1 DEF NotEarly, Popped
<1>7. CASE PopDue
  <2>1. batch' = {i \in pending : memDue[i] <= now} /\ UNCHANGED <<clock, now, due, queue, hand>>
    BY <1>7 DEF PopDue, IsDue
  <2>2. ASSUME NEW i \in batch' PROVE due[i] <= clock
    <3>1. memDue[i] = due[i] /\ due[i] \in Int /\ memDue[i] <= now
      BY <1>t, <2>1 DEF Exact
    <3> QED BY <1>t, <1>p, <3>1
  <2> QED BY <1>p, <2>1, <2>2 DEF NotEarly, Popped
<1>8. CASE Push
  <2>1. PICK i \in batch : batch' = batch \ {i} /\ queue' = Append(queue, i)
    BY <1>8 DEF Push
  <2>2. ToSet(queue') = ToSet(queue) \cup {i}
    <3>1. i \in Ids
      BY <2>1, <1>t
    <3> QED BY <2>1, <3>1, <1>t, AppendElements
  <2>3. UNCHANGED <<clock, now, due, hand>>
    BY <1>8 DEF Push
  <2> QED BY <1>1, <1>t, <2>1, <2>2, <2>3 DEF Popped
<1>9. CASE Look
  <2>1. now' = 0 /\ 0 <= clock /\ UNCHANGED <<clock, due, batch, queue, hand>>
    BY <1>9, <1>0 DEF Look, TypeOK
  <2> QED BY <1>p, <2>1 DEF NotEarly, Popped
<1>10. CASE ReadQueue
  <2>1. queue # <<>> /\ hand' = {Head(queue)} /\ queue' = Tail(queue) /\ UNCHANGED <<clock, now, due, batch>>
    BY <1>10 DEF ReadQueue
  <2>2. ToSet(queue) = ToSet(queue') \cup hand'
    BY <2>1, <1>t, TailElements
  <2> QED BY <1>1, <1>t, <2>1, <2>2 DEF Popped
<1>11. ASSUME PumpFails \/ Return PROVE NotEarly'
  <2>1. hand' = {} /\ UNCHANGED <<clock, now, due, batch, queue>>
    BY <1>11 DEF PumpFails, Return
  <2> QED BY <1>1, <1>t, <2>1 DEF Popped
<1>12. CASE Restart
  <2>1. now' = 0 /\ batch' = {} /\ queue' = <<>> /\ hand' = {} /\ UNCHANGED clock /\ 0 <= clock
    BY <1>12, <1>0 DEF Restart, TypeOK
  <2>2. ToSet(queue') = {}
    BY <2>1, EmptyQueue
  <2> QED BY <2>1, <2>2 DEF NotEarly, Popped
<1>13. ASSUME Woken \/ DrainSchedulerWake \/ DeleteRow \/ UNCHANGED vars PROVE NotEarly'
  BY <1>2, <1>13 DEF Woken, DrainSchedulerWake, DeleteRow, vars
<1> QED
  BY <1>3, <1>4, <1>5, <1>6, <1>7, <1>8, <1>9, <1>10, <1>11, <1>12, <1>13 DEF Next, Worker, Consumer

\* A message moves from the map to the batch, the queue and the hand only when what
\* should come first has moved before it.
LEMMA NextInOrder == IInv /\ Exact /\ NotEarly /\ InOrder /\ [Next]_vars => InOrder'
<1> SUFFICES ASSUME IInv, Exact, NotEarly, InOrder, [Next]_vars PROVE InOrder'
  OBVIOUS
<1> USE DEF store, memory, workerVar, outVars
<1>0. TypeOK
  BY DEF IInv
<1>t. /\ clock \in Int /\ now \in Int /\ nextRow \in Int /\ due \in [Ids -> Int] /\ memDue \in [Ids -> Int]
      /\ pending \subseteq Ids /\ batch \subseteq Ids /\ hand \subseteq Ids /\ queue \in Seq(Ids)
      /\ Ids \subseteq Int
  BY <1>0 DEF TypeOK, Ids
<1>q. ToSet(queue) \subseteq Ids /\ Len(queue) \in Nat /\ \A m \in 1..Len(queue) : queue[m] \in ToSet(queue)
  BY <1>t, ElementsType DEF ToSet
<1>e. \A i \in Ids : memDue[i] = due[i]
  BY DEF Exact
<1>f. pending \cup Popped \subseteq Ids /\ \A i \in pending \cup Popped : i < nextRow
  <2>1. pending \cup batch \cup ToSet(queue) \subseteq rows /\ \A i \in rows \cup hand : i < nextRow
    BY DEF IInv, HeldOnce
  <2> QED BY <1>t, <1>q, <2>1 DEF Popped
<1>o. /\ \A i \in Popped, j \in pending : Precedes(i, j)
      /\ \A i \in ToSet(queue) \cup hand, j \in batch : Precedes(i, j)
      /\ \A i \in hand, j \in ToSet(queue) : Precedes(i, j)
      /\ \A m, n \in 1..Len(queue) : m < n => Precedes(queue[m], queue[n])
  BY DEF InOrder
<1>1. ASSUME UNCHANGED <<due, batch, queue>>, pending' \subseteq pending, hand' \subseteq hand PROVE InOrder'
  BY <1>1, <1>o DEF InOrder, Popped, Precedes
<1>2. ASSUME NEW c \in Clients, ScheduleStore(c) PROVE InOrder'
  <2>1. /\ UNCHANGED <<batch, queue, hand>> /\ pending' = pending \cup {nextRow}
        /\ due' = [due EXCEPT ![nextRow] = client[c].due]
    BY <1>2 DEF ScheduleStore, CreatedRow
  <2>2. \A i \in pending \cup Popped : due'[i] = due[i]
    BY <1>t, <1>f, <2>1
  <2> DEFINE Ahead(i, j) == j < i => due'[j] > due'[i]
  <2>3. \A i, j \in pending \cup Popped : Precedes(i, j) => Ahead(i, j)
    BY <2>2 DEF Precedes
  <2>4. \A i \in Popped : Ahead(i, nextRow)
    <3>1. ASSUME NEW i \in Popped PROVE ~(nextRow < i)
      <4>1. i \in Int /\ i < nextRow
        BY <1>f, <1>t
      <4> QED BY <1>t, <4>1
    <3> QED BY <3>1
  <2>5. /\ \A i \in Popped, j \in pending : Ahead(i, j)
        /\ \A i \in ToSet(queue) \cup hand, j \in batch : Ahead(i, j)
        /\ \A i \in hand, j \in ToSet(queue) : Ahead(i, j)
    BY <1>o, <2>3 DEF Popped
  <2>6. \A m, n \in 1..Len(queue) : m < n => Ahead(queue[m], queue[n])
    BY <1>o, <1>q, <2>3 DEF Popped
  <2> QED BY <2>1, <2>4, <2>5, <2>6 DEF InOrder, Popped, Precedes
<1>3. ASSUME NEW c \in Clients, Client(c), ~ScheduleStore(c) PROVE InOrder'
  BY <1>1, <1>3 DEF Client, ScheduleBegin, Signal, ClientFails, DeleteScheduledMessage
<1>4. CASE PopDue
  <2>1. /\ batch' = {i \in pending : memDue[i] <= now} /\ pending' = {i \in pending : ~(memDue[i] <= now)}
        /\ UNCHANGED <<due, queue, hand>> /\ batch = {}
    BY <1>4 DEF PopDue, IsDue, NotPopped, IInv
  <2>2. \A i \in batch', j \in pending' : due[j] > due[i]
    BY <1>t, <1>e, <2>1
  <2>3. \A i \in batch', j \in pending' : Precedes(i, j)
    BY <2>2 DEF Precedes
  <2>4. \A i \in ToSet(queue) \cup hand, j \in batch' \cup pending' : Precedes(i, j)
    BY <1>o, <2>1 DEF Popped
  <2> QED BY <1>o, <2>1, <2>3, <2>4 DEF InOrder, Popped, Precedes
<1>5. CASE Push
  <2>1. PICK i \in batch : /\ \A j \in batch \ {i} : Before(i, j)
                           /\ batch' = batch \ {i} /\ queue' = Append(queue, i)
    BY <1>5 DEF Push
  <2>2. UNCHANGED <<due, pending, hand>>
    BY <1>5 DEF Push
  <2>3. i \in Ids
    BY <1>t, <2>1
  <2>4. /\ ToSet(queue') = ToSet(queue) \cup {i} /\ Len(queue') = Len(queue) + 1
        /\ queue'[Len(queue) + 1] = i /\ \A m \in 1..Len(queue) : queue'[m] = queue[m]
    BY <1>t, <2>1, <2>3, AppendElements
  <2>5. \A j \in batch' : Precedes(i, j)
    <3>1. ASSUME NEW j \in batch', j < i PROVE due[j] > due[i]
      <4>1. Before(i, j) /\ j \in Ids
        BY <1>t, <2>1
      <4> QED BY <1>t, <1>e, <2>3, <3>1, <4>1 DEF Before
    <3> QED BY <3>1 DEF Precedes
  <2>6. \A m \in 1..Len(queue) : Precedes(queue[m], i)
    BY <1>q, <1>o, <2>1
  <2>7. \A m, n \in 1..Len(queue') : m < n => Precedes(queue'[m], queue'[n])
    <3>1. ASSUME NEW m \in 1..(Len(queue) + 1), NEW n \in 1..(Len(queue) + 1), m < n
          PROVE  m \in 1..Len(queue) /\ (n \in 1..Len(queue) \/ n = Len(queue) + 1)
      BY <1>q, <3>1
    <3> QED BY <1>o, <2>4, <2>6, <3>1
  <2>8. /\ \A j \in ToSet(queue') \cup hand, k \in pending : Precedes(j, k)
        /\ \A j \in batch', k \in pending : Precedes(j, k)
        /\ \A j \in ToSet(queue') \cup hand, k \in batch' : Precedes(j, k)
        /\ \A j \in hand, k \in ToSet(queue') : Precedes(j, k)
    BY <1>o, <2>1, <2>4, <2>5 DEF Popped
  <2> QED BY <2>2, <2>7, <2>8 DEF InOrder, Popped, Precedes
<1>6. CASE ReadQueue
  <2>1. queue # <<>> /\ hand' = {Head(queue)} /\ queue' = Tail(queue) /\ UNCHANGED <<due, pending, batch>>
    BY <1>6 DEF ReadQueue
  <2>2. ToSet(queue) = ToSet(queue') \cup hand'
    BY <2>1, <1>t, TailElements
  <2>3. /\ Len(queue') = Len(queue) - 1 /\ Len(queue) >= 1 /\ Head(queue) = queue[1]
        /\ \A m \in 1..Len(queue') : queue'[m] = queue[m + 1]
    BY <1>t, <2>1
  <2>4. \A m \in 1..Len(queue') : m + 1 \in 1..Len(queue) /\ 1 < m + 1 /\ 1 \in 1..Len(queue)
    BY <1>q, <2>3
  <2>5. \A j \in ToSet(queue') : \E m \in 1..Len(queue') : queue'[m] = j
    BY <1>t, <2>1 DEF ToSet
  <2>6. \A j \in ToSet(queue') : Precedes(Head(queue), j)
    BY <1>o, <2>3, <2>4, <2>5
  <2>7. \A m, n \in 1..Len(queue') : m < n => Precedes(queue'[m], queue'[n])
    <3>1. ASSUME NEW m \in 1..Len(queue'), NEW n \in 1..Len(queue'), m < n PROVE m + 1 < n + 1
      BY <3>1
    <3> QED BY <1>o, <2>3, <2>4, <3>1
  <2>8. /\ \A j \in batch \cup ToSet(queue') \cup hand', k \in pending : Precedes(j, k)
        /\ \A j \in ToSet(queue') \cup hand', k \in batch : Precedes(j, k)
        /\ \A j \in hand', k \in ToSet(queue') : Precedes(j, k)
    BY <1>o, <2>1, <2>2, <2>6 DEF Popped
  <2> QED BY <2>1, <2>7, <2>8 DEF InOrder, Popped, Precedes
<1>7. CASE Restart
  <2>1. batch' = {} /\ queue' = <<>> /\ hand' = {}
    BY <1>7 DEF Restart
  <2>2. ToSet(queue') = {} /\ Len(queue') = 0
    BY <2>1, EmptyQueue
  <2> QED BY <2>1, <2>2 DEF InOrder, Popped
<1>8. ASSUME PumpFails \/ Return \/ Tick \/ ReadClock \/ Look \/ Woken \/ DrainSchedulerWake
             \/ DeleteRow \/ UNCHANGED vars
      PROVE  InOrder'
  BY <1>1, <1>8 DEF PumpFails, Return, Tick, ReadClock, Look, Woken, DrainSchedulerWake, DeleteRow, vars
<1> QED
  BY <1>2, <1>3, <1>4, <1>5, <1>6, <1>7, <1>8 DEF Next, Worker, Consumer

\* A message that left the table never returns to it, and the consumer deletes the
\* row of the very message it holds.
LEMMA NextApart == IInv /\ Apart /\ [Next]_vars => Apart'
<1> SUFFICES ASSUME IInv, Apart, [Next]_vars PROVE Apart'
  OBVIOUS
<1> USE DEF store, memory, workerVar, outVars
<1>0. TypeOK
  BY DEF IInv
<1>t. /\ nextRow \in Int /\ rows \subseteq Ids /\ hand \subseteq Ids /\ Ids \subseteq Int
      /\ queue \in Seq(Ids) /\ delivered \in Seq(Ids)
  BY <1>0 DEF TypeOK, Ids
<1>a. /\ \A i \in removed \cup ToSet(delivered) : i < nextRow /\ i \notin rows /\ i \notin hand
      /\ consumer = "deleting" => hand \subseteq rows
      /\ removed \cap ToSet(delivered) = {}
  BY DEF Apart
<1>h. /\ ToSet(queue) \subseteq rows /\ pending \subseteq rows /\ (pending \cup ToSet(queue)) \cap hand = {}
      /\ \A i \in rows \cup hand : i < nextRow
      /\ \A i, j \in hand : i = j
      /\ consumer = "returning" => hand \cap rows = {}
  BY DEF IInv, HeldOnce
<1>d. removed \subseteq Ids /\ ToSet(delivered) \subseteq Ids
  BY <1>0, <1>t, ElementsType DEF TypeOK
<1>1. ASSUME UNCHANGED <<nextRow, removed, delivered, rows>>, hand' \subseteq hand,
             consumer' = "deleting" => consumer = "deleting"
      PROVE  Apart'
  BY <1>1, <1>a DEF Apart
<1>2. ASSUME NEW c \in Clients, ScheduleStore(c) PROVE Apart'
  <2>1. nextRow' = nextRow + 1 /\ rows' = rows \cup {nextRow} /\ UNCHANGED <<removed, delivered, hand, consumer>>
    BY <1>2 DEF ScheduleStore, CreatedRow
  <2>2. \A i \in removed \cup ToSet(delivered) : i < nextRow + 1 /\ i # nextRow
    BY <1>a, <1>d, <1>t
  <2> QED BY <1>a, <2>1, <2>2 DEF Apart
<1>3. ASSUME NEW c \in Clients, NEW o \in Owners, NEW i \in Ids, DeleteScheduledMessage(c, o, i) PROVE Apart'
  <2>1. /\ i \in pending /\ rows' = rows \ {i} /\ removed' = removed \cup {i}
        /\ UNCHANGED <<nextRow, delivered, hand, consumer>>
    BY <1>3 DEF DeleteScheduledMessage, Deletable
  <2> QED BY <1>a, <1>h, <2>1 DEF Apart
<1>4. ASSUME NEW c \in Clients, ScheduleBegin(c) \/ Signal(c) \/ ClientFails(c) PROVE Apart'
  BY <1>1, <1>4 DEF ScheduleBegin, Signal, ClientFails
<1>5. CASE ReadQueue
  <2>1. queue # <<>> /\ hand' = {Head(queue)} /\ UNCHANGED <<nextRow, rows, removed, delivered>>
    BY <1>5 DEF ReadQueue
  <2>2. Head(queue) \in ToSet(queue)
    BY <1>t, <2>1, TailElements
  <2> QED BY <1>a, <1>h, <2>1, <2>2 DEF Apart
<1>6. CASE DeleteRow
  <2>1. rows' = rows \ hand /\ consumer' = "returning" /\ UNCHANGED <<nextRow, hand, removed, delivered>>
    BY <1>6 DEF DeleteRow, DeletedRows
  <2> QED BY <1>a, <2>1 DEF Apart
<1>7. CASE PumpFails
  BY <1>1, <1>7 DEF PumpFails
<1>8. CASE Return
  <2>1. PICK i \in hand : delivered' = Append(delivered, i)
    BY <1>8 DEF Return
  <2>2. /\ hand' = {} /\ consumer = "returning" /\ consumer' = "idle" /\ UNCHANGED <<nextRow, rows, removed>>
    BY <1>8 DEF Return
  <2>3. ToSet(delivered') = ToSet(delivered) \cup {i}
    <3>1. i \in Ids
      BY <1>t, <2>1
    <3> QED BY <1>t, <2>1, <3>1, AppendElements
  <2> QED BY <1>a, <1>h, <2>1, <2>2, <2>3 DEF Apart
<1>9. CASE Restart
  BY <1>1, <1>9 DEF Restart
<1>10. ASSUME Tick \/ Worker \/ UNCHANGED vars PROVE Apart'
  BY <1>1, <1>10 DEF Tick, Worker, ReadClock, PopDue, Push, Look, Woken, DrainSchedulerWake, vars
<1> QED
  BY <1>2, <1>3, <1>4, <1>5, <1>6, <1>7, <1>8, <1>9, <1>10 DEF Next, Client, Consumer

-----------------------------------------------------------------------------
\* The message has a row, or had it until the consumer deleted it to return it.
Stored(i) == i \in rows \/ (consumer = "returning" /\ i \in hand)

\* The phase of every message: no two of the guards of Phase hold at once.
PhasesAreTold ==
  \A i \in Ids :
    /\ i \in removed <=> Phase(i) = "deleted"
    /\ i \in ToSet(delivered) <=> Phase(i) = "delivered"
    /\ i >= nextRow <=> Phase(i) = "none"
    /\ Stored(i) <=> Phase(i) = "scheduled"
    /\ i \notin removed /\ i \notin ToSet(delivered) /\ i < nextRow /\ ~Stored(i) <=> Phase(i) = "lost"

LEMMA PhaseIs == PromiseInv => PhasesAreTold
<1> SUFFICES ASSUME PromiseInv, NEW i \in Ids
             PROVE  /\ i \in removed <=> Phase(i) = "deleted"
                    /\ i \in ToSet(delivered) <=> Phase(i) = "delivered"
                    /\ i >= nextRow <=> Phase(i) = "none"
                    /\ Stored(i) <=> Phase(i) = "scheduled"
                    /\ i \notin removed /\ i \notin ToSet(delivered) /\ i < nextRow /\ ~Stored(i) <=> Phase(i) = "lost"
  BY DEF PhasesAreTold
<1>1. /\ i \in Int /\ nextRow \in Int
      /\ \A j \in removed \cup ToSet(delivered) : j < nextRow /\ j \notin rows /\ j \notin hand
      /\ removed \cap ToSet(delivered) = {}
      /\ \A j \in rows \cup hand : j < nextRow
  BY DEF PromiseInv, Apart, IInv, TypeOK, Ids
<1>2. /\ Stored(i) => i \notin removed /\ i \notin ToSet(delivered) /\ i < nextRow
      /\ i \in removed \cup ToSet(delivered) => ~(i >= nextRow)
      /\ Stored(i) \/ i < nextRow => ~(i >= nextRow)
      /\ i \in removed => i \notin ToSet(delivered)
      /\ i < nextRow \/ i >= nextRow
  BY <1>1 DEF Stored
<1>3. /\ i \in removed => Phase(i) = "deleted"
      /\ i \in ToSet(delivered) => Phase(i) = "delivered"
      /\ i >= nextRow => Phase(i) = "none"
      /\ Stored(i) => Phase(i) = "scheduled"
      /\ i \notin removed /\ i \notin ToSet(delivered) /\ i < nextRow /\ ~Stored(i) => Phase(i) = "lost"
  BY <1>1, <1>2 DEF Phase, Stored
<1> QED BY <1>1, <1>2, <1>3

LEMMA NextPromised == DelaysFit /\ PromiseInv /\ [Next]_vars => PromiseInv'
BY NextHeld, NextExact, NextNotEarly, NextInOrder, NextApart DEF PromiseInv, IInv

\* A step of the scheduler is a step of DelayedMessages or changes nothing there.
LEMMA StepRefines ==
  PromiseInv /\ PromiseInv' /\ [Next]_vars => [Promise!Next]_<<[i \in Ids |-> Phase(i)], due, clock>>
<1> SUFFICES ASSUME PromiseInv, PromiseInv', [Next]_vars
             PROVE  Promise!Next \/ UNCHANGED <<[i \in Ids |-> Phase(i)], due, clock>>
  OBVIOUS
<1> USE DEF store, memory, workerVar, outVars
<1> DEFINE ph == [i \in Ids |-> Phase(i)]
<1>0. TypeOK /\ TypeOK'
  BY DEF PromiseInv, IInv
<1>t. /\ nextRow \in Int /\ Ids \subseteq Int /\ rows \subseteq Ids /\ hand \subseteq Ids /\ pending \subseteq rows
      /\ batch \cup ToSet(queue) \subseteq rows
      /\ due \in [Ids -> Int] /\ due' \in [Ids -> Int] /\ clock \in Int /\ delivered \in Seq(Ids)
      /\ \A i, j \in hand : i = j
      /\ consumer = "returning" => hand \cap rows = {}
      /\ \A i \in rows \cup hand : i < nextRow
  BY <1>0 DEF TypeOK, Ids, PromiseInv, IInv, HeldOnce
<1>p. PhasesAreTold /\ PhasesAreTold'
  BY PhaseIs, PTL
<1>s. ASSUME UNCHANGED <<nextRow, removed, delivered>>, \A i \in Ids : Stored(i)' <=> Stored(i)
      PROVE  UNCHANGED ph
  <2>1. ASSUME NEW i \in Ids PROVE Phase(i)' = Phase(i)
    BY <1>s, <1>p, <2>1 DEF PhasesAreTold, Phase, Stored
  <2> QED BY <2>1
<1>1. CASE Tick
  <2>1. UNCHANGED <<nextRow, rows, consumer, hand, removed, delivered, due>> /\ (clock' > clock \/ clock' = clock)
    BY <1>1, <1>t DEF Tick
  <2>2. UNCHANGED ph
    BY <1>s, <2>1 DEF Stored
  <2>3. CASE clock' > clock
    <3>1. Promise!Pass
      BY <2>1, <2>2, <2>3 DEF Promise!Pass
    <3> QED BY <3>1 DEF Promise!Next
  <2> QED BY <2>1, <2>2, <2>3
<1>2. ASSUME NEW c \in Clients, ScheduleStore(c) PROVE Promise!Next
  <2>1. /\ nextRow \in Ids /\ nextRow' = nextRow + 1 /\ rows' = rows \cup {nextRow}
        /\ due' = [due EXCEPT ![nextRow] = client[c].due]
        /\ UNCHANGED <<clock, consumer, hand, removed, delivered>>
    BY <1>2, <1>0 DEF ScheduleStore, CreatedRow, TypeOK, Ids
  <2>2. Phase(nextRow) = "none" /\ \A j \in Ids : Phase(j) = "none" => nextRow <= j
    <3>1. \A j \in Ids : j >= nextRow <=> nextRow <= j
      BY <1>t
    <3> QED BY <1>t, <1>p, <2>1, <3>1 DEF PhasesAreTold
  <2>3. ASSUME NEW j \in Ids PROVE Phase(j)' = IF j = nextRow THEN "scheduled" ELSE Phase(j)
    <3>1. CASE j = nextRow
      BY <1>p, <2>1, <3>1 DEF PhasesAreTold, Stored
    <3>2. CASE j # nextRow
      <4>1. /\ j >= nextRow' <=> j >= nextRow
            /\ j \in rows' <=> j \in rows
        BY <1>t, <2>1, <3>2
      <4> QED BY <2>1, <3>2, <4>1 DEF Phase
    <3> QED BY <3>1, <3>2
  <2>4. ph' = [ph EXCEPT ![nextRow] = "scheduled"]
    BY <2>1, <2>3
  <2>5. \A j \in Ids \ {nextRow} : due'[j] = due[j]
    BY <1>t, <2>1
  <2>6. Promise!Schedule(nextRow)
    BY <1>t, <2>1, <2>2, <2>4, <2>5 DEF Promise!Schedule
  <2> QED BY <2>1, <2>6 DEF Promise!Next
<1>3. ASSUME NEW c \in Clients, NEW o \in Owners, NEW i \in Ids, DeleteScheduledMessage(c, o, i) PROVE Promise!Next
  <2>1. /\ i \in pending /\ rows' = rows \ {i} /\ removed' = removed \cup {i}
        /\ UNCHANGED <<clock, due, nextRow, consumer, hand, delivered>>
    BY <1>3 DEF DeleteScheduledMessage, Deletable
  <2>2. Phase(i) = "scheduled"
    BY <1>t, <1>p, <2>1 DEF PhasesAreTold, Stored
  <2>3. ASSUME NEW j \in Ids PROVE Phase(j)' = IF j = i THEN "deleted" ELSE Phase(j)
    <3>1. CASE j = i
      BY <1>p, <2>1, <3>1 DEF PhasesAreTold
    <3>2. CASE j # i
      BY <1>p, <2>1, <3>2 DEF PhasesAreTold, Stored, Phase
    <3> QED BY <3>1, <3>2
  <2>4. ph' = [ph EXCEPT ![i] = "deleted"]
    BY <2>3
  <2>5. Promise!Delete(i)
    BY <2>1, <2>2, <2>4 DEF Promise!Delete
  <2> QED BY <2>5 DEF Promise!Next
<1>4. CASE Return
  <2>1. PICK i \in hand : delivered' = Append(delivered, i)
    BY <1>4 DEF Return
  <2>2. /\ hand' = {} /\ consumer = "returning" /\ consumer' = "idle"
        /\ UNCHANGED <<clock, due, nextRow, rows, removed>>
    BY <1>4 DEF Return
  <2>3. i \in Ids /\ ToSet(delivered') = ToSet(delivered) \cup {i} /\ i \notin rows
    <3>1. i \in Ids
      BY <1>t, <2>1
    <3> QED BY <1>t, <2>1, <2>2, <3>1, AppendElements
  <2>4. Phase(i) = "scheduled" /\ due[i] <= clock
    BY <1>p, <2>1, <2>2, <2>3 DEF PhasesAreTold, Stored, PromiseInv, NotEarly, Popped
  <2>5. \A j \in Ids : Phase(j) = "scheduled" /\ j < i => due[j] > due[i]
    <3>1. ASSUME NEW j \in Ids, Phase(j) = "scheduled", j < i PROVE due[j] > due[i]
      <4>1. Stored(j) /\ j # i
        BY <1>t, <1>p, <2>3, <3>1 DEF PhasesAreTold
      <4>2. j \in rows /\ j \notin hand
        BY <1>t, <2>1, <4>1 DEF Stored
      <4>3. j \in pending \cup batch \cup ToSet(queue)
        BY <2>2, <4>2 DEF PromiseInv, IInv, NothingForgotten, Held
      <4>4. Precedes(i, j)
        BY <2>1, <4>3 DEF PromiseInv, InOrder, Popped
      <4> QED BY <3>1, <4>4 DEF Precedes
    <3> QED BY <3>1
  <2>6. ASSUME NEW j \in Ids PROVE Phase(j)' = IF j = i THEN "delivered" ELSE Phase(j)
    <3>1. CASE j = i
      BY <1>p, <2>3, <3>1 DEF PhasesAreTold
    <3>2. CASE j # i
      <4>1. Stored(j)' <=> Stored(j)
        BY <1>t, <2>1, <2>2, <3>2 DEF Stored
      <4> QED BY <1>p, <2>2, <2>3, <3>2, <4>1 DEF PhasesAreTold, Stored, Phase
    <3> QED BY <3>1, <3>2
  <2>7. ph' = [ph EXCEPT ![i] = "delivered"]
    BY <2>6
  <2>8. Promise!Deliver(i)
    BY <2>2, <2>3, <2>4, <2>5, <2>7 DEF Promise!Deliver
  <2> QED BY <2>3, <2>8 DEF Promise!Next
<1>5. CASE Restart
  <2>1. hand' = {} /\ consumer' = "idle" /\ UNCHANGED <<clock, due, nextRow, rows, removed, delivered>>
    BY <1>5 DEF Restart
  <2>2. CASE consumer = "returning" /\ hand # {}
    <3>1. PICK i \in hand : TRUE
      BY <2>2
    <3>2. i \in Ids /\ i \notin rows /\ hand = {i}
      BY <1>t, <2>2, <3>1
    <3>3. Phase(i) = "scheduled" /\ due[i] <= clock
      BY <1>p, <2>2, <3>2 DEF PhasesAreTold, Stored, PromiseInv, NotEarly, Popped
    <3>4. ASSUME NEW j \in Ids PROVE Phase(j)' = IF j = i THEN "lost" ELSE Phase(j)
      <4>1. CASE j = i
        <5>1. j \notin removed /\ j \notin ToSet(delivered) /\ j < nextRow
          BY <1>t, <3>2, <4>1 DEF PromiseInv, Apart
        <5>2. ~Stored(j)'
          BY <2>1, <3>2, <4>1 DEF Stored
        <5> QED BY <1>p, <2>1, <4>1, <5>1, <5>2 DEF PhasesAreTold
      <4>2. CASE j # i
        <5>1. Stored(j)' <=> Stored(j)
          BY <2>1, <2>2, <3>2, <4>2 DEF Stored
        <5> QED BY <1>p, <2>1, <4>2, <5>1 DEF PhasesAreTold, Stored, Phase
      <4> QED BY <4>1, <4>2
    <3>5. ph' = [ph EXCEPT ![i] = "lost"]
      BY <3>4
    <3>6. Promise!Lose(i)
      BY <2>1, <3>2, <3>3, <3>5 DEF Promise!Lose
    <3> QED BY <3>2, <3>6 DEF Promise!Next
  <2>3. CASE ~(consumer = "returning" /\ hand # {})
    <3>1. \A j \in Ids : Stored(j)' <=> Stored(j)
      BY <2>1, <2>3 DEF Stored
    <3> QED BY <1>s, <2>1, <3>1
  <2> QED BY <2>2, <2>3
<1>6. CASE DeleteRow
  <2>1. /\ consumer = "deleting" /\ consumer' = "returning" /\ rows' = rows \ hand
        /\ UNCHANGED <<clock, due, nextRow, hand, removed, delivered>>
    BY <1>6 DEF DeleteRow, DeletedRows
  <2>2. hand \subseteq rows
    BY <2>1 DEF PromiseInv, Apart
  <2>3. \A j \in Ids : Stored(j)' <=> Stored(j)
    BY <2>1, <2>2 DEF Stored
  <2> QED BY <1>s, <2>1, <2>3
<1>7. ASSUME ReadQueue \/ PumpFails PROVE UNCHANGED <<ph, due, clock>>
  <2>1. /\ consumer # "returning" /\ consumer' # "returning"
        /\ UNCHANGED <<clock, due, nextRow, rows, removed, delivered>>
    BY <1>7 DEF ReadQueue, PumpFails
  <2>2. \A j \in Ids : Stored(j)' <=> Stored(j)
    BY <2>1 DEF Stored
  <2> QED BY <1>s, <2>1, <2>2
<1>8. ASSUME UNCHANGED <<clock, due, nextRow, rows, consumer, hand, removed, delivered>>
      PROVE  UNCHANGED <<ph, due, clock>>
  <2>1. \A j \in Ids : Stored(j)' <=> Stored(j)
    BY <1>8 DEF Stored
  <2> QED BY <1>s, <1>8, <2>1
<1>9. ASSUME NEW c \in Clients, ScheduleBegin(c) \/ Signal(c) \/ ClientFails(c)
      PROVE  UNCHANGED <<ph, due, clock>>
  BY <1>8, <1>9 DEF ScheduleBegin, Signal, ClientFails
<1>10. ASSUME Worker \/ UNCHANGED vars PROVE UNCHANGED <<ph, due, clock>>
  BY <1>8, <1>10 DEF Worker, ReadClock, PopDue, Push, Look, Woken, DrainSchedulerWake, vars
<1> QED
  BY <1>1, <1>2, <1>3, <1>4, <1>5, <1>6, <1>7, <1>9, <1>10 DEF Next, Client, Consumer

LEMMA InitRefines == Init => Promise!Init
<1> SUFFICES ASSUME Init PROVE Promise!Init
  OBVIOUS
<1>1. ToSet(delivered) = {}
  BY EmptyQueue DEF Init
<1>2. ASSUME NEW i \in Ids PROVE Phase(i) = "none"
  <2>1. i >= nextRow
    BY DEF Init, FirstRow, Ids
  <2>2. i \notin removed /\ i \notin ToSet(delivered) /\ ~(i \in rows \/ (consumer = "returning" /\ i \in hand))
    BY <1>1 DEF Init
  <2> QED BY <2>1, <2>2 DEF Phase
<1>3. [i \in Ids |-> Phase(i)] = [i \in Ids |-> "none"]
  BY <1>2
<1> QED BY <1>3 DEF Init, Promise!Init

\* As long as no due time overflows its column the scheduler implements
\* DelayedMessages: a message comes back once, not early, in the order of due times,
\* and is lost only from the consumer's hand (schedulerWorker, scheduleMessage,
\* ReceiveScheduledMessage, loadScheduledMessages).
THEOREM Refines == DelaysFit => (Spec => KeepsPromise)
<1> SUFFICES ASSUME DelaysFit PROVE Spec => KeepsPromise
  OBVIOUS
<1>1. PromiseInv /\ [Next]_vars => PromiseInv'
  BY NextPromised
<1> QED BY <1>1, InitPromised, InitRefines, StepRefines, PTL DEF Spec, KeepsPromise, Promise!Spec

(***************************************************************************)
(* The media: the files of what rows and messages refer to stay.           *)
(***************************************************************************)

JobRecords == [kind : Kinds \cup {"none"}, at : Media!Stages, content : Contents \cup {None},
         ref : Refs \cup {None}, id : Media!Ids \cup {None},
         retained : SUBSET Media!Ids, doomed : SUBSET Media!Ids, removing : SUBSET Contents]

\* What a job remembers at a stage.
JobShaped(q) ==
  /\ q.at \in {"source", "digest", "file"} => q.content \in Contents
  /\ q.at \in {"touch", "attach", "append", "shared"} => q.id \in Media!Ids
  /\ q.at \notin {"remove", "forget"} => q.doomed = {} /\ q.removing = {}

MediaShape == \A j \in Jobs : JobShaped(job[j])

\* A file that is about to be removed is that of doomed rows only.
OnlyTheDoomed == \A j \in Jobs : \A i \in Media!Rows \ exposed : row[i] \in job[j].removing => i \in job[j].doomed

\* What the history refers to is not doomed, and known to a collector.
RetainedAreSafe ==
  \A j \in Jobs : \A i \in history \ exposed :
    /\ i \notin job[j].doomed
    /\ Media!At(j, "expire") => i \in job[j].retained

MediaInv == Media!TypeOK /\ MediaShape /\ OnlyTheDoomed /\ RetainedAreSafe /\ Media!RowsKeepTheirFile /\ Media!AttachmentsStay

LEMMA MediaBegins == Media!MediaAssumption /\ Media!Init => MediaInv
<1> SUFFICES ASSUME Media!MediaAssumption, Media!Init PROVE MediaInv
  OBVIOUS
<1> USE DEF Media!Init
<1>1. Media!Idle \in JobRecords
  BY DEF Media!Idle, Media!Job, JobRecords, Media!Stages
<1>2. Media!TypeOK
  BY <1>1 DEF Media!TypeOK, Media!MediaAssumption, Media!Ids, JobRecords
<1> QED BY <1>2 DEF MediaInv, MediaShape, JobShaped, OnlyTheDoomed, RetainedAreSafe, Media!RowsKeepTheirFile, Media!AttachmentsStay, Media!Rows, Media!Idle, Media!Job, Media!At

\* One job moves to another record.
LEMMA JobMoves ==
  ASSUME MediaInv, NEW j \in Jobs, NEW q \in JobRecords, job' = [job EXCEPT ![j] = q], JobShaped(q),
         files' \subseteq Contents, row' \in [Media!Ids -> Contents \cup {None}],
         fresh' \subseteq Media!Ids, history' \subseteq Media!Ids, exposed' \subseteq Media!Ids,
         link' \in [Refs -> Media!Ids \cup {None}], next' \in 1..(MaxIds + 1), ages' \in 0..MaxAge,
         \A i \in Media!Ids : i >= next' => row'[i] = None
  PROVE  Media!TypeOK' /\ MediaShape' /\ job'[j] = q /\ \A k \in Jobs \ {j} : job'[k] = job[k]
<1>1. job \in [Jobs -> JobRecords]
  BY DEF MediaInv, Media!TypeOK, JobRecords
<1>2. job' \in [Jobs -> JobRecords] /\ job'[j] = q /\ \A k \in Jobs \ {j} : job'[k] = job[k]
  BY <1>1
<1>3. Media!TypeOK'
  BY <1>2 DEF Media!TypeOK, JobRecords
<1>4. MediaShape'
  BY <1>2 DEF MediaInv, MediaShape, JobShaped
<1> QED BY <1>2, <1>3, <1>4

\* A step of one job that removes nothing, and whose job, when it was removing, goes on.
LEMMA HarmlessStep ==
  ASSUME Media!MediaAssumption, MediaInv, NEW j \in Jobs, NEW q \in JobRecords, job' = [job EXCEPT ![j] = q], JobShaped(q),
         job[j].at \notin {"remove", "forget"}, q.at \notin {"remove", "forget", "expire"},
         UNCHANGED <<row, history, next, ages, exposed>>, files \subseteq files', files' \subseteq Contents,
         fresh' \subseteq Media!Ids, link' \in [Refs -> Media!Ids \cup {None}]
  PROVE  MediaInv'
<1>1. Media!TypeOK /\ job \in [Jobs -> JobRecords]
  BY DEF MediaInv, Media!TypeOK, JobRecords
<1>2. Media!TypeOK' /\ MediaShape' /\ job'[j] = q /\ \A k \in Jobs \ {j} : job'[k] = job[k]
  BY <1>1, JobMoves DEF Media!TypeOK
<1>3. q.doomed = {} /\ q.removing = {} /\ job[j].doomed = {} /\ job[j].removing = {}
  BY DEF JobShaped, MediaInv, MediaShape
<1>4. OnlyTheDoomed'
  BY <1>2, <1>3 DEF OnlyTheDoomed, MediaInv, Media!Rows
<1>5. RetainedAreSafe'
  BY <1>2, <1>3 DEF RetainedAreSafe, MediaInv, Media!At
<1>6. Media!RowsKeepTheirFile'
  BY <1>2, <1>3 DEF Media!RowsKeepTheirFile, MediaInv, Media!Rows
<1>7. Media!AttachmentsStay'
  BY DEF Media!AttachmentsStay, MediaInv, Media!Whole, Media!Rows
<1> QED BY <1>2, <1>4, <1>5, <1>6, <1>7 DEF MediaInv

LEMMA JobTypes ==
  ASSUME MediaInv, NEW j \in Jobs
  PROVE  /\ job \in [Jobs -> JobRecords] /\ job[j] \in JobRecords /\ Media!Idle \in JobRecords /\ JobShaped(Media!Idle)
         /\ Media!Idle.at = "idle"
         /\ files \subseteq Contents /\ row \in [Media!Ids -> Contents \cup {None}]
         /\ fresh \subseteq Media!Ids /\ history \subseteq Media!Ids /\ exposed \subseteq Media!Ids
         /\ link \in [Refs -> Media!Ids \cup {None}] /\ next \in 1..(MaxIds + 1) /\ ages \in 0..MaxAge
         /\ \A i \in Media!Ids : i >= next => row[i] = None
         /\ Media!Rows \subseteq Media!Ids
<1>1. Media!Idle \in JobRecords /\ JobShaped(Media!Idle) /\ Media!Idle.at = "idle"
  BY DEF Media!Idle, Media!Job, JobRecords, Media!Stages, JobShaped
<1> QED BY <1>1 DEF MediaInv, Media!TypeOK, JobRecords, Media!Rows

LEMMA MediaKeeps == ASSUME Media!MediaAssumption, MediaInv, Media!Next PROVE MediaInv'
<1>i. MediaInv /\ Media!MediaAssumption
  OBVIOUS
<1>1. ASSUME NEW j \in Jobs, Media!Store(j) \/ Media!Send(j) \/ Media!Collect(j) \/ Media!Delete(j) PROVE MediaInv'
  <2>1. PICK q \in JobRecords : /\ job' = [job EXCEPT ![j] = q] /\ JobShaped(q) /\ q.at \in {"digest", "source", "attach", "retain", "shared"}
                                /\ Media!At(j, "idle") /\ UNCHANGED Media!stores
    <3>1. CASE Media!Store(j)
      <4>1. PICK x \in Contents, r \in Refs \cup {None} :
               Media!Begin(j, "store", IF r = None THEN "digest" ELSE "source", x, r, None)
        BY <3>1 DEF Media!Store
      <4> DEFINE q == Media!Job("store", IF r = None THEN "digest" ELSE "source", x, r, None)
      <4>2. q \in JobRecords /\ JobShaped(q) /\ q.at \in {"digest", "source"}
        BY <4>1 DEF Media!Begin, Media!Job, JobRecords, Media!Stages, JobShaped
      <4> QED BY <4>1, <4>2 DEF Media!Begin
    <3>2. CASE Media!Send(j)
      <4>1. PICK i \in Media!Ids : Media!Begin(j, "send", "attach", None, None, i)
        BY <3>2 DEF Media!Send
      <4> DEFINE q == Media!Job("send", "attach", None, None, i)
      <4>2. q \in JobRecords /\ JobShaped(q) /\ q.at = "attach"
        BY <4>1 DEF Media!Begin, Media!Job, JobRecords, Media!Stages, JobShaped
      <4> QED BY <4>1, <4>2 DEF Media!Begin
    <3>3. CASE Media!Collect(j)
      <4> DEFINE q == Media!Job("gc", "retain", None, None, None)
      <4>2. q \in JobRecords /\ JobShaped(q) /\ q.at = "retain"
        BY <3>3 DEF Media!Collect, Media!Begin, Media!Job, JobRecords, Media!Stages, JobShaped
      <4> QED BY <3>3, <4>2 DEF Media!Begin, Media!Collect
    <3>4. CASE Media!Delete(j)
      <4>1. PICK i \in Media!Ids : Media!Begin(j, "delete", "shared", None, None, i)
        BY <3>4 DEF Media!Delete
      <4> DEFINE q == Media!Job("delete", "shared", None, None, i)
      <4>2. q \in JobRecords /\ JobShaped(q) /\ q.at = "shared"
        BY <4>1 DEF Media!Begin, Media!Job, JobRecords, Media!Stages, JobShaped
      <4> QED BY <4>1, <4>2 DEF Media!Begin
    <3> QED BY <1>1, <3>1, <3>2, <3>3, <3>4
  <2> QED BY <1>i, <2>1, JobTypes, HarmlessStep DEF Media!At, Media!stores
<1>2. ASSUME NEW j \in Jobs, Media!Look(j) \/ Media!Touch(j) \/ Media!Rename(j) \/ Media!Size(j) \/ Media!Unlink(j) \/ Media!Link(j) \/ Media!Attach(j) PROVE MediaInv'
  <2> DEFINE to(s) == [job[j] EXCEPT !.at = s]
  <2>1. \A s \in Media!Stages : to(s) \in JobRecords
    BY <1>i, JobTypes DEF JobRecords
  <2>2. job[j] \in JobRecords /\ JobShaped(job[j])
    BY <1>i, JobTypes DEF MediaInv, MediaShape
  <2>3. ASSUME NEW s \in Media!Stages, JobShaped(to(s)), s \notin {"remove", "forget", "expire"}, Media!Go(j, s),
               Media!At(j, "source") \/ Media!At(j, "digest") \/ Media!At(j, "touch") \/ Media!At(j, "file") \/ Media!At(j, "size") \/ Media!At(j, "unlink") \/ Media!At(j, "attach"),
               UNCHANGED <<row, history, next, ages, exposed>>, files \subseteq files', files' \subseteq Contents,
               fresh' \subseteq Media!Ids, link' \in [Refs -> Media!Ids \cup {None}]
        PROVE  MediaInv'
    <3>1. to(s) \in JobRecords /\ to(s).at = s /\ job' = [job EXCEPT ![j] = to(s)]
      BY <2>1, <2>2, <2>3 DEF Media!Go, JobRecords
    <3> HIDE DEF to
    <3> QED BY <1>i, <2>3, <3>1, HarmlessStep DEF Media!At
  <2>4. ASSUME Media!Done(j), ~Media!At(j, "remove"), ~Media!At(j, "forget"),
               UNCHANGED <<row, history, next, ages, exposed>>, files \subseteq files', files' \subseteq Contents,
               fresh' \subseteq Media!Ids, link' \in [Refs -> Media!Ids \cup {None}]
        PROVE  MediaInv'
    BY <1>i, <2>4, JobTypes, HarmlessStep DEF Media!At, Media!Done
  <2>5. CASE Media!Look(j)
    <3>1. CASE Media!Go(j, Media!Otherwise(j)) /\ UNCHANGED Media!stores
      <4>1. Media!Otherwise(j) \in {"digest", "file"} /\ (Media!At(j, "source") \/ Media!At(j, "digest"))
        BY <2>5 DEF Media!Look, Media!Otherwise
      <4>2. JobShaped(to(Media!Otherwise(j)))
        BY <2>2, <4>1, <2>5 DEF JobShaped, JobRecords, Media!Look, Media!At, Media!Otherwise
      <4> QED BY <1>i, <2>3, <2>5, <3>1, <4>1, <4>2, JobTypes DEF Media!Look, Media!stores, Media!Stages, Media!Otherwise
    <3>2. ASSUME NEW i \in Media!Candidates(j), job' = [job EXCEPT ![j].id = i, ![j].at = "touch", ![j].ref = Media!ToLink(j)], UNCHANGED Media!stores
          PROVE MediaInv'
      <4> DEFINE q == [job[j] EXCEPT !.id = i, !.at = "touch", !.ref = Media!ToLink(j)]
      <4>1. i \in Media!Ids /\ Media!ToLink(j) \in Refs \cup {None}
        BY <1>i, <2>2, <3>2, JobTypes DEF Media!Candidates, Media!ToLink, JobRecords
      <4>2. q \in JobRecords /\ q.at = "touch" /\ JobShaped(q)
        BY <2>2, <2>5, <4>1 DEF JobRecords, Media!Stages, JobShaped, Media!Look, Media!At
      <4>3. job' = [job EXCEPT ![j] = q]
        BY <3>2, <1>i, JobTypes
      <4> HIDE DEF q
      <4>4. job[j].at \in {"source", "digest"} /\ UNCHANGED <<files, row, fresh, link, history, next, ages, exposed>>
        BY <2>5, <3>2 DEF Media!Look, Media!At, Media!stores
      <4> QED BY <1>i, <4>2, <4>3, <4>4, HarmlessStep, JobTypes
    <3>3. UNCHANGED Media!stores
      BY <2>5 DEF Media!Look
    <3>4. CASE Media!Go(j, Media!Otherwise(j))
      BY <3>1, <3>3, <3>4
    <3>5. CASE ~Media!Go(j, Media!Otherwise(j))
      <4>1. PICK i \in Media!Candidates(j) : job' = [job EXCEPT ![j].id = i, ![j].at = "touch", ![j].ref = Media!ToLink(j)]
        BY <2>5, <3>5 DEF Media!Look
      <4> QED BY <3>2, <3>3, <4>1
    <3> QED BY <3>4, <3>5
  <2>6. CASE Media!Touch(j)
    <3>1. fresh' \subseteq Media!Ids /\ UNCHANGED <<files, row, link, history, next, ages, exposed>> /\ Media!At(j, "touch")
      BY <2>6, <1>i, JobTypes DEF Media!Touch, Media!Used
    <3>2. Media!Go(j, "append") \/ Media!Go(j, "unlink") \/ Media!Done(j)
      BY <2>6 DEF Media!Touch
    <3>3. JobShaped(to("append")) /\ JobShaped(to("unlink"))
      BY <2>2, <3>1 DEF JobShaped, Media!At, JobRecords
    <3> QED BY <1>i, <2>3, <2>4, <3>1, <3>2, <3>3, JobTypes DEF Media!Stages, Media!At
  <2>7. CASE Media!Rename(j)
    <3>1. Media!At(j, "file") /\ files \subseteq files' /\ files' \subseteq Contents /\ Media!Go(j, "size") /\ UNCHANGED <<row, fresh, link, history, next, ages, exposed>>
      BY <2>7, <2>2, <1>i, JobTypes DEF Media!Rename, JobShaped, Media!At
    <3>2. JobShaped(to("size"))
      BY <2>2, <3>1 DEF JobShaped, Media!At, JobRecords
    <3> QED BY <1>i, <2>3, <3>1, <3>2, JobTypes DEF Media!Stages
  <2>8. CASE Media!Size(j)
    <3>1. Media!At(j, "size") /\ (Media!Go(j, "insert") \/ Media!Done(j)) /\ UNCHANGED Media!stores
      BY <2>8 DEF Media!Size
    <3>2. JobShaped(to("insert"))
      BY <2>2, <3>1 DEF JobShaped, Media!At, JobRecords
    <3> QED BY <1>i, <2>3, <2>4, <3>1, <3>2, JobTypes DEF Media!Stages, Media!At, Media!stores
  <2>9. CASE Media!Unlink(j)
    <3>1. Media!At(j, "unlink") /\ link' \in [Refs -> Media!Ids \cup {None}] /\ Media!Go(j, "link") /\ UNCHANGED <<files, row, fresh, history, next, ages, exposed>>
      BY <2>9, <1>i, JobTypes DEF Media!Unlink
    <3>2. JobShaped(to("link"))
      BY <2>2, <3>1 DEF JobShaped, Media!At, JobRecords
    <3> QED BY <1>i, <2>3, <3>1, <3>2, JobTypes DEF Media!Stages
  <2>10. CASE Media!Link(j)
    <3>1. Media!At(j, "link") /\ link' \in [Refs -> Media!Ids \cup {None}] /\ Media!Done(j) /\ UNCHANGED <<files, row, fresh, history, next, ages, exposed>>
      BY <2>10, <2>2, <1>i, JobTypes DEF Media!Link, JobRecords
    <3> QED BY <1>i, <2>4, <3>1, JobTypes DEF Media!At
  <2>11. CASE Media!Attach(j)
    <3>1. Media!At(j, "attach") /\ (Media!Go(j, "touch") \/ Media!Go(j, "append") \/ Media!Done(j)) /\ UNCHANGED Media!stores
      BY <2>11 DEF Media!Attach
    <3>2. JobShaped(to("touch")) /\ JobShaped(to("append"))
      BY <2>2, <3>1 DEF JobShaped, Media!At, JobRecords
    <3> QED BY <1>i, <2>3, <2>4, <3>1, <3>2, JobTypes DEF Media!Stages, Media!At, Media!stores
  <2> QED BY <1>2, <2>5, <2>6, <2>7, <2>8, <2>9, <2>10, <2>11
<1>3. ASSUME NEW j \in Jobs, Media!Insert(j) PROVE MediaInv'
  <2> DEFINE q == [job[j] EXCEPT !.id = next, !.at = IF job[j].ref = None THEN "idle" ELSE "unlink"]
  <2>1. /\ Media!At(j, "insert") /\ next \in Media!Ids /\ next' = next + 1 /\ row' = [row EXCEPT ![next] = job[j].content]
        /\ fresh' = fresh \cup {next} /\ UNCHANGED <<files, link, history, ages>>
        /\ exposed' = IF job[j].content \in files /\ ~Media!Removing(job[j].content) THEN exposed ELSE exposed \cup {next}
    BY <1>3, <1>i, JobTypes DEF Media!Insert, Media!Ids, Media!MediaAssumption
  <2>2. q \in JobRecords /\ JobShaped(q) /\ job' = [job EXCEPT ![j] = q] /\ q.at # "expire" /\ q.doomed = {} /\ q.removing = {}
        /\ job[j].doomed = {} /\ job[j].removing = {}
    BY <1>3, <1>i, <2>1, JobTypes DEF Media!Insert, JobRecords, Media!Stages, JobShaped, MediaInv, MediaShape, Media!At
  <2>3. /\ row' \in [Media!Ids -> Contents \cup {None}] /\ fresh' \subseteq Media!Ids /\ exposed' \subseteq Media!Ids
        /\ next' \in 1..(MaxIds + 1) /\ \A i \in Media!Ids : i >= next' => row'[i] = None
    <3>1. job[j].content \in Contents \cup {None}
      BY <1>i, JobTypes DEF JobRecords
    <3> QED BY <1>i, <2>1, <3>1, JobTypes DEF Media!Ids, Media!MediaAssumption
  <2> HIDE DEF q
  <2>4. Media!TypeOK' /\ MediaShape' /\ job'[j] = q /\ \A k \in Jobs \ {j} : job'[k] = job[k]
    BY <1>i, <2>1, <2>2, <2>3, JobMoves, JobTypes
  <2>5. next \notin Media!Rows /\ row'[next] = job[j].content /\ \A i \in Media!Ids \ {next} : row'[i] = row[i]
    BY <1>i, <2>1, JobTypes DEF Media!Rows
  <2>6. Media!Rows \subseteq Media!Rows' /\ Media!Rows' \subseteq Media!Rows \cup {next} /\ exposed \subseteq exposed'
    BY <2>1, <2>5 DEF Media!Rows
  <2>7. next \notin exposed' => job[j].content \in files /\ \A k \in Jobs : job[j].content \notin job[k].removing
    BY <2>1 DEF Media!Removing
  <2>8. OnlyTheDoomed'
    BY <1>i, <2>2, <2>4, <2>5, <2>6, <2>7 DEF OnlyTheDoomed, MediaInv, Media!Rows
  <2>9. RetainedAreSafe'
    BY <1>i, <2>1, <2>2, <2>4, <2>6 DEF RetainedAreSafe, MediaInv, Media!At
  <2>10. Media!RowsKeepTheirFile'
    BY <1>i, <2>1, <2>2, <2>4, <2>5, <2>6, <2>7 DEF Media!RowsKeepTheirFile, MediaInv, Media!Rows
  <2>11. Media!AttachmentsStay'
    BY <1>i, <2>1, <2>4, <2>5, <2>6 DEF Media!AttachmentsStay, MediaInv, Media!Whole, Media!Rows
  <2> QED BY <2>4, <2>8, <2>9, <2>10, <2>11 DEF MediaInv
<1>4. ASSUME NEW j \in Jobs, Media!Append(j) PROVE MediaInv'
  <2>1. /\ Media!At(j, "append") /\ history' = history \cup {job[j].id} /\ Media!Done(j) /\ UNCHANGED <<files, row, fresh, link, next, ages>>
        /\ exposed' = IF Media!Threatened(job[j].id) THEN exposed \cup {job[j].id} ELSE exposed
    BY <1>4 DEF Media!Append
  <2>2. job[j].id \in Media!Ids /\ job[j].doomed = {} /\ job[j].removing = {}
    BY <1>i, <2>1 DEF MediaInv, MediaShape, JobShaped, Media!At
  <2>3. Media!TypeOK' /\ MediaShape' /\ job'[j] = Media!Idle /\ \A k \in Jobs \ {j} : job'[k] = job[k]
    BY <1>i, <2>1, <2>2, JobMoves, JobTypes DEF Media!Done
  <2>4. Media!Idle.doomed = {} /\ Media!Idle.removing = {} /\ Media!Idle.at = "idle"
    BY DEF Media!Idle, Media!Job
  <2>5. exposed \subseteq exposed' /\ Media!Rows' = Media!Rows
    BY <2>1 DEF Media!Rows
  <2>6. job[j].id \notin exposed' => Media!Whole(job[j].id) /\ \A k \in Jobs : job[j].id \notin job[k].doomed /\ ~Media!At(k, "expire")
    BY <2>1 DEF Media!Threatened
  <2>7. OnlyTheDoomed'
    BY <1>i, <2>1, <2>2, <2>3, <2>4, <2>5 DEF OnlyTheDoomed, MediaInv
  <2>8. RetainedAreSafe'
    BY <1>i, <2>1, <2>2, <2>3, <2>4, <2>5, <2>6 DEF RetainedAreSafe, MediaInv, Media!At
  <2>9. Media!RowsKeepTheirFile'
    BY <1>i, <2>1, <2>2, <2>3, <2>4, <2>5 DEF Media!RowsKeepTheirFile, MediaInv
  <2>10. Media!AttachmentsStay'
    BY <1>i, <2>1, <2>5, <2>6 DEF Media!AttachmentsStay, MediaInv, Media!Whole
  <2> QED BY <2>3, <2>7, <2>8, <2>9, <2>10 DEF MediaInv
<1>5. ASSUME NEW j \in Jobs, Media!Retain(j) PROVE MediaInv'
  <2> DEFINE q == [job[j] EXCEPT !.retained = history, !.at = "expire"]
  <2>1. /\ Media!At(j, "retain") /\ job' = [job EXCEPT ![j] = q] /\ UNCHANGED Media!stores
    BY <1>5, <1>i, JobTypes DEF Media!Retain
  <2>2. q \in JobRecords /\ JobShaped(q) /\ q.at = "expire" /\ q.doomed = {} /\ q.removing = {} /\ q.retained = history
        /\ job[j].doomed = {} /\ job[j].removing = {}
    BY ZenonT(40), <1>i, <2>1, JobTypes DEF JobRecords, Media!Stages, JobShaped, MediaInv, MediaShape, Media!At
  <2> HIDE DEF q
  <2>3. Media!TypeOK' /\ MediaShape' /\ job'[j] = q /\ \A k \in Jobs \ {j} : job'[k] = job[k]
    BY <1>i, <2>1, <2>2, JobMoves, JobTypes DEF Media!stores
  <2> QED BY <1>i, <2>1, <2>2, <2>3 DEF MediaInv, Media!stores, OnlyTheDoomed, RetainedAreSafe, Media!RowsKeepTheirFile, Media!AttachmentsStay, Media!Rows, Media!Whole, Media!At
<1>6. ASSUME NEW j \in Jobs, Media!Expire(j) PROVE MediaInv'
  <2> DEFINE q == [job[j] EXCEPT !.doomed = Media!Expired(j), !.removing = Media!Removable(Media!Expired(j)), !.at = "remove"]
  <2>1. /\ Media!At(j, "expire") /\ job' = [job EXCEPT ![j] = q] /\ UNCHANGED Media!stores
    BY <1>6, <1>i, JobTypes DEF Media!Expire
  <2>2. Media!Expired(j) \subseteq Media!Rows /\ Media!Removable(Media!Expired(j)) \subseteq Contents
    BY <1>i, JobTypes DEF Media!Expired, Media!Removable, Media!Rows
  <2>3. q \in JobRecords /\ JobShaped(q) /\ q.at = "remove" /\ q.doomed = Media!Expired(j) /\ q.removing = Media!Removable(Media!Expired(j))
        /\ job[j].doomed = {} /\ job[j].removing = {}
    BY ZenonT(40), <1>i, <2>1, <2>2, JobTypes DEF JobRecords, Media!Stages, JobShaped, MediaInv, MediaShape, Media!At
  <2> HIDE DEF q
  <2>4. Media!TypeOK' /\ MediaShape' /\ job'[j] = q /\ \A k \in Jobs \ {j} : job'[k] = job[k]
    BY <1>i, <2>1, <2>3, JobMoves, JobTypes DEF Media!stores
  <2>5. \A i \in Media!Rows : row[i] \in Media!Removable(Media!Expired(j)) => i \in Media!Expired(j)
    BY DEF Media!Removable
  <2>6. \A i \in history \ exposed : i \notin Media!Expired(j)
    BY <1>i, <2>1 DEF Media!Expired, MediaInv, RetainedAreSafe
  <2> QED BY <1>i, <2>1, <2>3, <2>4, <2>5, <2>6 DEF MediaInv, Media!stores, OnlyTheDoomed, RetainedAreSafe, Media!RowsKeepTheirFile, Media!AttachmentsStay, Media!Rows, Media!Whole, Media!At
<1>7. ASSUME NEW j \in Jobs, Media!Shared(j) PROVE MediaInv'
  <2>1. /\ Media!At(j, "shared") /\ exposed' = exposed \cup {job[j].id} /\ UNCHANGED <<files, row, fresh, link, history, next, ages>>
    BY <1>7 DEF Media!Shared
  <2>2. job[j].id \in Media!Ids /\ job[j].doomed = {} /\ job[j].removing = {}
    BY <1>i, <2>1 DEF MediaInv, MediaShape, JobShaped, Media!At
  <2>3. PICK q \in JobRecords : /\ job' = [job EXCEPT ![j] = q] /\ JobShaped(q) /\ q.at # "expire" /\ q.doomed \subseteq {job[j].id}
                                /\ \A i \in Media!Rows : row[i] \in q.removing => i = job[j].id /\ i \in q.doomed
    <3>1. CASE job[j].id \in Media!Rows
      <4> DEFINE q == [job[j] EXCEPT !.doomed = {job[j].id}, !.removing = Media!Removable({job[j].id}), !.at = "remove"]
      <4>1. job' = [job EXCEPT ![j] = q]
        BY <1>7, <1>i, <3>1, JobTypes DEF Media!Shared
      <4>2. Media!Removable({job[j].id}) \subseteq Contents /\ \A i \in Media!Rows : row[i] \in Media!Removable({job[j].id}) => i = job[j].id
        BY <1>i, <3>1, JobTypes DEF Media!Removable, Media!Rows
      <4>3. q \in JobRecords /\ JobShaped(q) /\ q.at = "remove" /\ q.doomed = {job[j].id} /\ q.removing = Media!Removable({job[j].id})
        BY ZenonT(40), <1>i, <2>2, <4>2, JobTypes DEF JobRecords, Media!Stages, JobShaped
      <4> HIDE DEF q
      <4> QED BY <4>1, <4>2, <4>3
    <3>2. CASE job[j].id \notin Media!Rows
      <4>1. job' = [job EXCEPT ![j] = Media!Idle] /\ Media!Idle.doomed = {} /\ Media!Idle.removing = {}
        BY <1>7, <3>2 DEF Media!Shared, Media!Done, Media!Idle, Media!Job
      <4> QED BY <1>i, <4>1, JobTypes
    <3> QED BY <3>1, <3>2
  <2>4. Media!TypeOK' /\ MediaShape' /\ job'[j] = q /\ \A k \in Jobs \ {j} : job'[k] = job[k]
    BY <1>i, <2>1, <2>2, <2>3, JobMoves, JobTypes
  <2>5. Media!Rows' = Media!Rows /\ job[j].id \in exposed' /\ exposed \subseteq exposed'
    BY <2>1 DEF Media!Rows
  <2>6. OnlyTheDoomed'
    BY <1>i, <2>1, <2>3, <2>4, <2>5 DEF MediaInv, OnlyTheDoomed
  <2>7. RetainedAreSafe'
    BY <1>i, <2>1, <2>3, <2>4, <2>5 DEF MediaInv, RetainedAreSafe, Media!At
  <2>8. Media!RowsKeepTheirFile'
    BY <1>i, <2>1, <2>2, <2>3, <2>4, <2>5 DEF MediaInv, Media!RowsKeepTheirFile
  <2> QED BY <1>i, <2>1, <2>4, <2>5, <2>6, <2>7, <2>8 DEF MediaInv, Media!AttachmentsStay, Media!Whole
<1>8. ASSUME NEW j \in Jobs, Media!RemoveFile(j) PROVE MediaInv'
  <2>1. Media!At(j, "remove") /\ UNCHANGED <<row, fresh, link, history, next, ages, exposed>>
    BY <1>8 DEF Media!RemoveFile
  <2>2. PICK q \in JobRecords : /\ job' = [job EXCEPT ![j] = q] /\ JobShaped(q) /\ q.at # "expire" /\ q.doomed = job[j].doomed
                                /\ q.removing \subseteq job[j].removing /\ files' \subseteq files
                                /\ \A x \in files \ files' : x \in job[j].removing
    <3>1. CASE job[j].removing = {}
      <4> DEFINE q == [job[j] EXCEPT !.at = "forget"]
      <4>1. q \in JobRecords /\ JobShaped(q) /\ q.at = "forget" /\ q.doomed = job[j].doomed /\ q.removing = job[j].removing
        BY <1>i, JobTypes DEF JobRecords, Media!Stages, JobShaped
      <4> QED BY <1>8, <1>i, <3>1, <4>1, JobTypes DEF Media!RemoveFile, Media!Go
    <3>2. ASSUME NEW x \in job[j].removing, files' = files \ {x}, job' = [job EXCEPT ![j].removing = @ \ {x}]
          PROVE \E q \in JobRecords : /\ job' = [job EXCEPT ![j] = q] /\ JobShaped(q) /\ q.at # "expire" /\ q.doomed = job[j].doomed
                                /\ q.removing \subseteq job[j].removing /\ files' \subseteq files
                                /\ \A y \in files \ files' : y \in job[j].removing
      <4> DEFINE q == [job[j] EXCEPT !.removing = @ \ {x}]
      <4>1. q \in JobRecords /\ JobShaped(q) /\ q.at = "remove" /\ q.doomed = job[j].doomed /\ q.removing = job[j].removing \ {x}
        BY <1>i, <2>1, JobTypes DEF JobRecords, Media!Stages, JobShaped, Media!At
      <4>2. job' = [job EXCEPT ![j] = q]
        BY <1>i, <3>2, JobTypes
      <4> HIDE DEF q
      <4> QED BY <3>2, <4>1, <4>2
    <3> QED BY <1>8, <3>1, <3>2 DEF Media!RemoveFile
  <2>3. Media!TypeOK' /\ MediaShape' /\ job'[j] = q /\ \A k \in Jobs \ {j} : job'[k] = job[k]
    BY <1>i, <2>1, <2>2, JobMoves, JobTypes
  <2>4. \A k \in Jobs : job'[k].doomed = job[k].doomed /\ job'[k].removing \subseteq job[k].removing
    BY <2>2, <2>3
  <2>5. \A i \in Media!Rows \ exposed : row[i] \in files /\ row[i] \notin files' => i \in job[j].doomed
    BY <1>i, <2>2 DEF MediaInv, OnlyTheDoomed
  <2>6. OnlyTheDoomed'
    BY <1>i, <2>1, <2>4 DEF MediaInv, OnlyTheDoomed, Media!Rows
  <2>7. RetainedAreSafe'
    BY <1>i, <2>1, <2>2, <2>3, <2>4 DEF MediaInv, RetainedAreSafe, Media!At
  <2>8. Media!RowsKeepTheirFile'
    BY <1>i, <2>1, <2>4, <2>5 DEF MediaInv, Media!RowsKeepTheirFile, Media!Rows
  <2>9. Media!AttachmentsStay'
    BY <1>i, <2>1, <2>5 DEF MediaInv, Media!AttachmentsStay, RetainedAreSafe, Media!Whole, Media!Rows
  <2> QED BY <2>3, <2>6, <2>7, <2>8, <2>9 DEF MediaInv
<1>9. ASSUME NEW j \in Jobs, Media!Forget(j) PROVE MediaInv'
  <2>1. /\ row' = [i \in Media!Ids |-> IF i \in job[j].doomed THEN None ELSE row[i]] /\ fresh' = fresh \ job[j].doomed
        /\ link' = [r \in Refs |-> IF link[r] \in job[j].doomed THEN None ELSE link[r]]
        /\ Media!Done(j) /\ UNCHANGED <<files, history, next, ages, exposed>>
    BY <1>9 DEF Media!Forget
  <2>2. Media!TypeOK' /\ MediaShape' /\ job'[j] = Media!Idle /\ \A k \in Jobs \ {j} : job'[k] = job[k]
    BY <1>i, <2>1, JobMoves, JobTypes DEF Media!Done
  <2>3. Media!Idle.doomed = {} /\ Media!Idle.removing = {} /\ Media!Idle.at = "idle"
    BY DEF Media!Idle, Media!Job
  <2>4. Media!Rows' \subseteq Media!Rows \ job[j].doomed /\ \A i \in Media!Ids \ job[j].doomed : row'[i] = row[i]
    BY <2>1 DEF Media!Rows
  <2>5. OnlyTheDoomed'
    BY <1>i, <2>1, <2>2, <2>3, <2>4, JobTypes DEF MediaInv, OnlyTheDoomed
  <2>6. RetainedAreSafe'
    BY <1>i, <2>1, <2>2, <2>3 DEF MediaInv, RetainedAreSafe, Media!At
  <2>7. Media!RowsKeepTheirFile'
    BY <1>i, <2>1, <2>2, <2>3, <2>4, JobTypes DEF MediaInv, Media!RowsKeepTheirFile
  <2>8. Media!AttachmentsStay'
    BY <1>i, <2>1, <2>4, JobTypes DEF MediaInv, Media!AttachmentsStay, RetainedAreSafe, Media!Whole, Media!Rows
  <2> QED BY <2>2, <2>5, <2>6, <2>7, <2>8 DEF MediaInv
<1>10. ASSUME NEW j \in Jobs, Media!Abort(j) PROVE MediaInv'
  <2>1. Media!Done(j) /\ exposed' = exposed \cup job[j].doomed /\ UNCHANGED <<files, row, fresh, link, history, next, ages>>
    BY <1>10 DEF Media!Abort
  <2>2. job[j].doomed \subseteq Media!Ids
    BY <1>i, JobTypes DEF JobRecords
  <2>3. Media!TypeOK' /\ MediaShape' /\ job'[j] = Media!Idle /\ \A k \in Jobs \ {j} : job'[k] = job[k]
    BY <1>i, <2>1, <2>2, JobMoves, JobTypes DEF Media!Done
  <2>4. Media!Idle.doomed = {} /\ Media!Idle.removing = {} /\ Media!Idle.at = "idle"
    BY DEF Media!Idle, Media!Job
  <2> QED BY <1>i, <2>1, <2>3, <2>4 DEF MediaInv, OnlyTheDoomed, RetainedAreSafe, Media!RowsKeepTheirFile, Media!AttachmentsStay, Media!Rows, Media!Whole, Media!At
<1>11. ASSUME Media!DeleteMessages \/ Media!GrowOld PROVE MediaInv'
  <2>1. UNCHANGED <<files, row, link, next, job, exposed>> /\ history' \subseteq history
    BY <1>11 DEF Media!DeleteMessages, Media!GrowOld
  <2>2. fresh' \subseteq fresh /\ ages' \in 0..MaxAge
    <3>1. CASE Media!DeleteMessages
      BY <1>i, <3>1 DEF MediaInv, Media!TypeOK, Media!DeleteMessages
    <3>2. CASE Media!GrowOld
      <4>1. ages \in 0..MaxAge /\ MaxAge \in Nat /\ ages < MaxAge /\ ages' = ages + 1 /\ fresh' = {}
        BY <1>i, <3>2 DEF MediaInv, Media!TypeOK, Media!GrowOld, Media!MediaAssumption
      <4> QED BY <4>1
    <3> QED BY <1>11, <3>1, <3>2
  <2>3. Media!TypeOK'
    BY <1>i, <2>1, <2>2 DEF MediaInv, Media!TypeOK
  <2> QED BY <1>i, <2>1, <2>3 DEF MediaInv, MediaShape, OnlyTheDoomed, RetainedAreSafe, Media!RowsKeepTheirFile, Media!AttachmentsStay, Media!Rows, Media!Whole, Media!At
<1> QED BY <1>1, <1>2, <1>3, <1>4, <1>5, <1>6, <1>7, <1>8, <1>9, <1>10, <1>11 DEF Media!Next

LEMMA MediaRests == MediaInv /\ UNCHANGED Media!vars => MediaInv'
BY DEF MediaInv, Media!vars, Media!stores, Media!TypeOK, MediaShape, JobShaped, OnlyTheDoomed, RetainedAreSafe, Media!RowsKeepTheirFile, Media!AttachmentsStay, Media!Rows, Media!Whole, Media!At, Media!Removing

\* In the stores, the files of the media that rows and messages refer to stay, whatever
\* is collected, deleted, sent and stored at the same time (gcMediaCacheRetaining,
\* deleteCachedMedia, storeMediaObject, dispatchChatSend).
THEOREM MediaIsKept == StoresSpec => []MediaStay
<1>1. StoresInit => MediaInv
  BY MediaBegins, StoresAssumption DEF StoresInit
<1>2. MediaInv /\ [StoresNext]_storesVars => MediaInv'
  <2> SUFFICES ASSUME MediaInv, [StoresNext]_storesVars PROVE MediaInv'
    OBVIOUS
  <2>1. CASE StoredMedia
    BY <2>1, MediaKeeps, StoresAssumption DEF StoredMedia
  <2>2. CASE StoredThreads \/ StoredChats \/ UNCHANGED storesVars
    <3>1. UNCHANGED media
      BY <2>2 DEF StoredThreads, StoredChats, storesVars
    <3> QED BY <3>1, MediaRests DEF media, Media!vars, Media!stores
  <2> QED BY <2>1, <2>2 DEF StoresNext
<1>3. MediaInv => MediaStay
  BY DEF MediaInv, MediaStay, Media!MediaStay
<1> QED BY <1>1, <1>2, <1>3, PTL DEF StoresSpec

(***************************************************************************)
(* The sessions: what one and its forks read, and what a deletion takes.   *)
(***************************************************************************)

Less == {p \in Nat \X Nat : p[1] < p[2]}

LEMMA LessIsWellFounded == IsWellFoundedOn(Less, Nat)
BY NatLessThanWellFounded DEF OpToRel, Less

ReadAt(table, h, depth) ==
  [t \in Chats!SessionIds |->
        LET parent == table[t].parent IN
        IF ~ (table[t].made # 0) \/ depth = 0 THEN <<>>
        ELSE IF parent = Chats!NoId THEN table[t].own
        ELSE Chats!takeThrough(table[t].through, h[depth - 1][parent]) \o table[t].own]
ReadAll(table, h) == [depth \in 0..MaxSessions |-> ReadAt(table, h, depth)]
Reads(table) == CHOOSE h : h = ReadAll(table, h)

BelowAt(table, s, b, depth) == 
        IF depth = 0 THEN {s}
        ELSE b[depth - 1] \cup {t \in Chats!SessionIds : table[t].made # 0 /\ table[t].parent \in b[depth - 1]}
BelowAll(table, s, b) == [depth \in 0..MaxSessions |-> BelowAt(table, s, b, depth)]
Below(table, s) == CHOOSE b : b = BelowAll(table, s, b)

LateAt(table, l, depth) == [t \in Chats!Ids |->
        t # Chats!NoId /\ (table[t].late \/ (depth > 0 /\ l[depth - 1][table[t].parent]))]
LateAll(table, l) == [depth \in 0..MaxSessions |-> LateAt(table, l, depth)]
Lates(table) == CHOOSE l : l = LateAll(table, l)

LEMMA HistoryIs == \A s : Chats!History(s) = Reads(sessions)[MaxSessions][s] /\ Chats!History(s)' = Reads(sessions')[MaxSessions][s]
  BY DEF Chats!History, Reads, ReadAll, ReadAt, Chats!Exists
LEMMA LateIs == \A s : Chats!Late(s) = Lates(sessions)[MaxSessions][s] /\ Chats!Late(s)' = Lates(sessions')[MaxSessions][s]
  BY DEF Chats!Late, Lates, LateAll, LateAt
LEMMA DescendantsAre == \A s : Chats!Descendants(s) = Below(sessions, s)[MaxSessions] 
  BY DEF Chats!Descendants, Below, BelowAll, BelowAt, Chats!Exists

LEMMA Smallest == \A S \in SUBSET Nat : S # {} => \E n \in S : \A m \in S : n <= m
<1> SUFFICES ASSUME NEW S \in SUBSET Nat, S # {} PROVE \E n \in S : \A m \in S : n <= m
  OBVIOUS
<1>1. PICK n \in S : \A m \in S : ~(<<m, n>> \in Less)
  BY LessIsWellFounded, WFMin
<1>2. \A m \in S : ~(m < n)
  BY <1>1 DEF Less
<1> QED BY <1>2

\* Sets that grow, with the ids whose parent is in the one before.
Grows(n, parent, X) ==
  /\ X \in [0..n -> SUBSET (1..n)]
  /\ \A d \in 1..n : /\ X[d - 1] \subseteq X[d]
                     /\ \A t \in 1..n : parent[t] \in X[d - 1] => t \in X[d]

Closed(n, parent, S) == \A t \in 1..n : parent[t] \in S => t \in S

LEMMA Growing ==
  ASSUME NEW n \in Nat, NEW parent, NEW X, Grows(n, parent, X), NEW d \in 0..n, NEW e \in 0..n, d <= e
  PROVE  X[d] \subseteq X[e]
<1> DEFINE S == {k \in d..e : ~(X[d] \subseteq X[k])}
<1>1. SUFFICES ASSUME S # {} PROVE FALSE
  OBVIOUS
<1>2. S \in SUBSET Nat
  OBVIOUS
<1>3. PICK k \in S : \A m \in S : k <= m
  BY <1>1, <1>2, Smallest
<1>4. k # d /\ k \in Nat /\ k - 1 \in d..e /\ k \in 1..n
  BY <1>3
<1>5. k - 1 \notin S
  BY <1>3, <1>4
<1>6. X[d] \subseteq X[k - 1]
  BY <1>4, <1>5
<1>7. X[k - 1] \subseteq X[k]
  BY <1>4 DEF Grows
<1> QED BY <1>3, <1>6, <1>7

\* Among n ids, one of the first n sets is closed.
LEMMA Stable ==
  ASSUME NEW n \in Nat, n > 0, NEW parent, NEW X, Grows(n, parent, X), \A t \in 1..n : parent[t] \in X[0] => X[0] # {}
  PROVE  \E d \in 0..(n - 1) : Closed(n, parent, X[d])
<1> SUFFICES ASSUME \A d \in 0..(n - 1) : ~Closed(n, parent, X[d]) PROVE FALSE
  OBVIOUS
<1>1. IsFiniteSet(1..n) /\ Cardinality(1..n) = n
  BY FS_Interval
<1>2. \A d \in 0..n : X[d] \in SUBSET (1..n) /\ IsFiniteSet(X[d]) /\ Cardinality(X[d]) \in Nat /\ Cardinality(X[d]) <= n
  <2> TAKE d \in 0..n
  <2>1. X[d] \in SUBSET (1..n)
    BY DEF Grows
  <2> QED BY <1>1, <2>1, FS_Subset, FS_CardinalityType
<1> DEFINE S == {d \in 0..(n - 1) : Cardinality(X[d]) < d + 1}
<1>3. S = {}
  <2> SUFFICES ASSUME S # {} PROVE FALSE
    OBVIOUS
  <2>1. S \in SUBSET Nat
    OBVIOUS
  <2>2. PICK d \in S : \A m \in S : d <= m
    BY <2>1, Smallest
  <2>3. CASE d = 0
    <3>1. PICK t \in 1..n : parent[t] \in X[0] /\ t \notin X[0]
      BY <2>3 DEF Closed
    <3>2. X[0] # {}
      BY <3>1
    <3>3. Cardinality(X[0]) # 0
      BY <1>2, <3>2, FS_EmptySet
    <3> QED BY <1>2, <2>2, <2>3, <3>3
  <2>4. CASE d # 0
    <3>1. d \in Nat /\ d - 1 \in 0..(n - 1) /\ d \in 1..n /\ d - 1 \in 0..n /\ d \in 0..n /\ d - 1 \notin S
      BY <2>2, <2>4
    <3>2. Cardinality(X[d - 1]) >= d
      BY <1>2, <3>1
    <3>3. PICK t \in 1..n : parent[t] \in X[d - 1] /\ t \notin X[d - 1]
      BY <3>1 DEF Closed
    <3>4. X[d - 1] \cup {t} \in SUBSET X[d]
      BY <3>1, <3>3 DEF Grows
    <3>5. Cardinality(X[d - 1] \cup {t}) = Cardinality(X[d - 1]) + 1
      <4>1. PICK A : A = X[d - 1]
        OBVIOUS
      <4>2. IsFiniteSet(A) /\ t \notin A
        BY <1>2, <3>1, <3>3, <4>1
      <4>3. Cardinality(A \cup {t}) = Cardinality(A) + 1
        BY <4>2, FS_AddElement
      <4> QED BY <4>1, <4>3
    <3>6. Cardinality(X[d - 1] \cup {t}) <= Cardinality(X[d])
      BY <1>2, <3>1, <3>4, FS_Subset
    <3>7. Cardinality(X[d - 1]) \in Nat /\ Cardinality(X[d]) \in Nat
      BY <1>2, <3>1
    <3>8. Cardinality(X[d]) < d + 1
      BY <2>2
    <3> HIDE DEF S
    <3> QED BY <3>1, <3>2, <3>5, <3>6, <3>7, <3>8
  <2> QED BY <2>3, <2>4
<1>4. n - 1 \in 0..(n - 1) /\ n - 1 \in 0..n
  OBVIOUS
<1>5. Cardinality(X[n - 1]) >= n
  <2>1. n - 1 \notin S
    BY <1>3
  <2>2. ~(Cardinality(X[n - 1]) < (n - 1) + 1) /\ Cardinality(X[n - 1]) \in Nat
    BY <1>2, <1>4, <2>1
  <2> QED BY <2>2
<1>6. X[n - 1] = 1..n
  <2>1. Cardinality(X[n - 1]) = Cardinality(1..n)
    BY <1>1, <1>2, <1>4, <1>5
  <2>2. X[n - 1] \in SUBSET (1..n)
    BY <1>2, <1>4
  <2> QED BY <1>1, <2>1, <2>2, FS_Subset
<1> QED BY <1>4, <1>6 DEF Closed
SessionRows ==
  [made : 0..MaxCreated, parent : Chats!Ids, through : 0..MaxMessages, own : Seq(Chats!Message), inherits : Seq(1..MaxMessages), late : BOOLEAN]
SessionTables == [Chats!SessionIds -> SessionRows]

ReadTo(table, h, n) == [depth \in 0..n |-> ReadAt(table, h, depth)]

\* The histories, computed depth by depth.
LEMMA ReadExists == ASSUME NEW table, NEW n \in Nat PROVE \E h : h = ReadTo(table, h, n)
<1> DEFINE S == {k \in Nat : \A h : h # ReadTo(table, h, k)}
<1>1. SUFFICES ASSUME S # {} PROVE FALSE
  OBVIOUS
<1>2. S \in SUBSET Nat
  OBVIOUS
<1>3. PICK k \in S : \A m \in S : k <= m
  BY <1>1, <1>2, Smallest
<1>4. \A g, h : ReadAt(table, g, 0) = ReadAt(table, h, 0)
  BY DEF ReadAt
<1>5. \A g, h, d : g[d - 1] = h[d - 1] => ReadAt(table, g, d) = ReadAt(table, h, d)
  BY DEF ReadAt
<1>6. CASE k = 0
  <2> DEFINE h == [depth \in 0..0 |-> ReadAt(table, 0, 0)]
  <2>1. \A depth \in 0..0 : ReadAt(table, h, depth) = ReadAt(table, 0, 0)
    BY <1>4
  <2>2. h = [depth \in 0..0 |-> ReadAt(table, h, depth)]
    BY <2>1
  <2>3. h = ReadTo(table, h, k)
    BY <1>6, <2>2 DEF ReadTo
  <2> QED BY <1>3, <2>3
<1>7. CASE k # 0
  <2>1. k \in Nat /\ k - 1 \in Nat /\ k - 1 \notin S
    BY <1>3, <1>7
  <2>2. PICK h : h = ReadTo(table, h, k - 1)
    BY <2>1
  <2> DEFINE g == [depth \in 0..k |-> IF depth = k THEN ReadAt(table, h, k) ELSE h[depth]]
  <2>3. \A depth \in 0..(k - 1) : h[depth] = ReadAt(table, h, depth)
    BY <2>2 DEF ReadTo
  <2>4. \A depth \in 0..k : g[depth] = ReadAt(table, g, depth)
    <3> TAKE depth \in 0..k
    <3>1. ReadAt(table, g, depth) = ReadAt(table, h, depth)
      <4>1. CASE depth = 0
        BY <1>4, <4>1
      <4>2. CASE depth # 0
        <5>1. depth - 1 \in 0..k /\ depth - 1 # k
          BY <2>1, <4>2
        <5>2. g[depth - 1] = h[depth - 1]
          BY <5>1
        <5> HIDE DEF g
        <5> QED BY <1>5, <5>2
      <4> QED BY <4>1, <4>2
    <3>2. CASE depth = k
      BY <3>1, <3>2
    <3>3. CASE depth # k
      <4>1. depth \in 0..(k - 1)
        BY <2>1, <3>3
      <4> QED BY <2>3, <3>1, <3>3, <4>1
    <3> QED BY <3>2, <3>3
  <2>5. g = [depth \in 0..k |-> g[depth]]
    OBVIOUS
  <2> HIDE DEF g
  <2>6. g = ReadTo(table, g, k)
    BY <2>4, <2>5 DEF ReadTo
  <2> QED BY <1>3, <2>6
<1> QED BY <1>6, <1>7

LEMMA ReadsAre == ASSUME MaxSessions \in Nat, NEW table, NEW d \in 0..MaxSessions PROVE Reads(table)[d] = ReadAt(table, Reads(table), d)
<1>1. \E h : h = ReadAll(table, h)
  BY ReadExists DEF ReadAll, ReadTo
<1>2. Reads(table) = ReadAll(table, Reads(table))
  BY <1>1 DEF Reads
<1> QED BY <1>2 DEF ReadAll

LateTo(table, h, n) == [depth \in 0..n |-> LateAt(table, h, depth)]

\* The late sessions, computed depth by depth.
LEMMA LateExists == ASSUME NEW table, NEW n \in Nat PROVE \E h : h = LateTo(table, h, n)
<1> DEFINE S == {k \in Nat : \A h : h # LateTo(table, h, k)}
<1>1. SUFFICES ASSUME S # {} PROVE FALSE
  OBVIOUS
<1>2. S \in SUBSET Nat
  OBVIOUS
<1>3. PICK k \in S : \A m \in S : k <= m
  BY <1>1, <1>2, Smallest
<1>4. \A g, h : LateAt(table, g, 0) = LateAt(table, h, 0)
  BY DEF LateAt
<1>5. \A g, h, d : g[d - 1] = h[d - 1] => LateAt(table, g, d) = LateAt(table, h, d)
  BY DEF LateAt
<1>6. CASE k = 0
  <2> DEFINE h == [depth \in 0..0 |-> LateAt(table, 0, 0)]
  <2>1. \A depth \in 0..0 : LateAt(table, h, depth) = LateAt(table, 0, 0)
    BY <1>4
  <2>2. h = [depth \in 0..0 |-> LateAt(table, h, depth)]
    BY <2>1
  <2>3. h = LateTo(table, h, k)
    BY <1>6, <2>2 DEF LateTo
  <2> QED BY <1>3, <2>3
<1>7. CASE k # 0
  <2>1. k \in Nat /\ k - 1 \in Nat /\ k - 1 \notin S
    BY <1>3, <1>7
  <2>2. PICK h : h = LateTo(table, h, k - 1)
    BY <2>1
  <2> DEFINE g == [depth \in 0..k |-> IF depth = k THEN LateAt(table, h, k) ELSE h[depth]]
  <2>3. \A depth \in 0..(k - 1) : h[depth] = LateAt(table, h, depth)
    BY <2>2 DEF LateTo
  <2>4. \A depth \in 0..k : g[depth] = LateAt(table, g, depth)
    <3> TAKE depth \in 0..k
    <3>1. LateAt(table, g, depth) = LateAt(table, h, depth)
      <4>1. CASE depth = 0
        BY <1>4, <4>1
      <4>2. CASE depth # 0
        <5>1. depth - 1 \in 0..k /\ depth - 1 # k
          BY <2>1, <4>2
        <5>2. g[depth - 1] = h[depth - 1]
          BY <5>1
        <5> HIDE DEF g
        <5> QED BY <1>5, <5>2
      <4> QED BY <4>1, <4>2
    <3>2. CASE depth = k
      BY <3>1, <3>2
    <3>3. CASE depth # k
      <4>1. depth \in 0..(k - 1)
        BY <2>1, <3>3
      <4> QED BY <2>3, <3>1, <3>3, <4>1
    <3> QED BY <3>2, <3>3
  <2>5. g = [depth \in 0..k |-> g[depth]]
    OBVIOUS
  <2> HIDE DEF g
  <2>6. g = LateTo(table, g, k)
    BY <2>4, <2>5 DEF LateTo
  <2> QED BY <1>3, <2>6
<1> QED BY <1>6, <1>7

LEMMA LatesAre == ASSUME MaxSessions \in Nat, NEW table, NEW d \in 0..MaxSessions PROVE Lates(table)[d] = LateAt(table, Lates(table), d)
<1>1. \E h : h = LateAll(table, h)
  BY LateExists DEF LateAll, LateTo
<1>2. Lates(table) = LateAll(table, Lates(table))
  BY <1>1 DEF Lates
<1> QED BY <1>2 DEF LateAll

BelowTo(table, s, h, n) == [depth \in 0..n |-> BelowAt(table, s, h, depth)]

\* The descendants, computed depth by depth.
LEMMA BelowExists == ASSUME NEW table, NEW s, NEW n \in Nat PROVE \E h : h = BelowTo(table, s, h, n)
<1> DEFINE S == {k \in Nat : \A h : h # BelowTo(table, s, h, k)}
<1>1. SUFFICES ASSUME S # {} PROVE FALSE
  OBVIOUS
<1>2. S \in SUBSET Nat
  OBVIOUS
<1>3. PICK k \in S : \A m \in S : k <= m
  BY <1>1, <1>2, Smallest
<1>4. \A g, h : BelowAt(table, s, g, 0) = BelowAt(table, s, h, 0)
  BY DEF BelowAt
<1>5. \A g, h, d : g[d - 1] = h[d - 1] => BelowAt(table, s, g, d) = BelowAt(table, s, h, d)
  BY DEF BelowAt
<1>6. CASE k = 0
  <2> DEFINE h == [depth \in 0..0 |-> BelowAt(table, s, 0, 0)]
  <2>1. \A depth \in 0..0 : BelowAt(table, s, h, depth) = BelowAt(table, s, 0, 0)
    BY <1>4
  <2>2. h = [depth \in 0..0 |-> BelowAt(table, s, h, depth)]
    BY <2>1
  <2>3. h = BelowTo(table, s, h, k)
    BY <1>6, <2>2 DEF BelowTo
  <2> QED BY <1>3, <2>3
<1>7. CASE k # 0
  <2>1. k \in Nat /\ k - 1 \in Nat /\ k - 1 \notin S
    BY <1>3, <1>7
  <2>2. PICK h : h = BelowTo(table, s, h, k - 1)
    BY <2>1
  <2> DEFINE g == [depth \in 0..k |-> IF depth = k THEN BelowAt(table, s, h, k) ELSE h[depth]]
  <2>3. \A depth \in 0..(k - 1) : h[depth] = BelowAt(table, s, h, depth)
    BY <2>2 DEF BelowTo
  <2>4. \A depth \in 0..k : g[depth] = BelowAt(table, s, g, depth)
    <3> TAKE depth \in 0..k
    <3>1. BelowAt(table, s, g, depth) = BelowAt(table, s, h, depth)
      <4>1. CASE depth = 0
        BY <1>4, <4>1
      <4>2. CASE depth # 0
        <5>1. depth - 1 \in 0..k /\ depth - 1 # k
          BY <2>1, <4>2
        <5>2. g[depth - 1] = h[depth - 1]
          BY <5>1
        <5> HIDE DEF g
        <5> QED BY <1>5, <5>2
      <4> QED BY <4>1, <4>2
    <3>2. CASE depth = k
      BY <3>1, <3>2
    <3>3. CASE depth # k
      <4>1. depth \in 0..(k - 1)
        BY <2>1, <3>3
      <4> QED BY <2>3, <3>1, <3>3, <4>1
    <3> QED BY <3>2, <3>3
  <2>5. g = [depth \in 0..k |-> g[depth]]
    OBVIOUS
  <2> HIDE DEF g
  <2>6. g = BelowTo(table, s, g, k)
    BY <2>4, <2>5 DEF BelowTo
  <2> QED BY <1>3, <2>6
<1> QED BY <1>6, <1>7

LEMMA BelowsAre == ASSUME MaxSessions \in Nat, NEW table, NEW s, NEW d \in 0..MaxSessions PROVE Below(table, s)[d] = BelowAt(table, s, Below(table, s), d)
<1>1. \E h : h = BelowAll(table, s, h)
  BY BelowExists DEF BelowAll, BelowTo
<1>2. Below(table, s) = BelowAll(table, s, Below(table, s))
  BY <1>1 DEF Below
<1> QED BY <1>2 DEF BelowAll

LateSet(table, d) == {t \in Chats!SessionIds : Lates(table)[d][t]}
Good(table)       == Chats!SessionIds \ LateSet(table, MaxSessions)

\* Rows whose sessions and parents are there, in the order in which they were made.
Ordered(table) ==
  \A t \in Chats!SessionIds : table[t].made # 0 /\ ~table[t].late /\ table[t].parent # Chats!NoId =>
    table[table[t].parent].made # 0 /\ table[table[t].parent].made < table[t].made

LEMMA LateStep ==
  ASSUME MaxSessions \in Nat, NEW table \in SessionTables, NEW t \in Chats!SessionIds
  PROVE  /\ t \in LateSet(table, 0) <=> table[t].late
         /\ \A d \in 1..MaxSessions : t \in LateSet(table, d) <=> table[t].late \/ table[t].parent \in LateSet(table, d - 1)
<1>1. table[t].parent \in Chats!Ids /\ t # Chats!NoId /\ t \in Chats!Ids /\ 0 \in 0..MaxSessions /\ table[t].late \in BOOLEAN
  BY DEF SessionTables, SessionRows, Chats!SessionIds, Chats!Ids, Chats!NoId
<1>2. Lates(table)[0][t] <=> table[t].late
  <2>1. Lates(table)[0] = LateAt(table, Lates(table), 0)
    BY <1>1, LatesAre
  <2> QED BY <1>1, <2>1 DEF LateAt
<1>3. ASSUME NEW d \in 1..MaxSessions PROVE t \in LateSet(table, d) <=> table[t].late \/ table[t].parent \in LateSet(table, d - 1)
  <2>1. d \in 0..MaxSessions /\ d - 1 \in 0..MaxSessions /\ d > 0
    OBVIOUS
  <2>2. Lates(table)[d][t] <=> table[t].late \/ Lates(table)[d - 1][table[t].parent]
    <3>1. Lates(table)[d] = LateAt(table, Lates(table), d)
      BY <2>1, LatesAre
    <3> QED BY <1>1, <2>1, <3>1 DEF LateAt
  <2>3. ~Lates(table)[d - 1][Chats!NoId]
    <3>1. Lates(table)[d - 1] = LateAt(table, Lates(table), d - 1)
      BY <2>1, LatesAre
    <3> QED BY <3>1 DEF LateAt, Chats!Ids
  <2> QED BY <1>1, <2>2, <2>3 DEF LateSet, Chats!Ids
<1> QED BY <1>2, <1>3 DEF LateSet

LEMMA LateGrows ==
  ASSUME MaxSessions \in Nat, NEW table \in SessionTables, NEW d \in 1..MaxSessions
  PROVE  LateSet(table, d - 1) \subseteq LateSet(table, d)
<1> DEFINE S == {k \in 1..MaxSessions : ~(LateSet(table, k - 1) \subseteq LateSet(table, k))}
<1>1. SUFFICES ASSUME S # {} PROVE FALSE
  OBVIOUS
<1>2. S \in SUBSET Nat
  OBVIOUS
<1>3. PICK k \in S : \A m \in S : k <= m
  BY <1>1, <1>2, Smallest
<1>4. PICK t \in Chats!SessionIds : t \in LateSet(table, k - 1) /\ t \notin LateSet(table, k)
  BY <1>3 DEF LateSet
<1>5. k \in 1..MaxSessions /\ ~table[t].late /\ table[t].parent \notin LateSet(table, k - 1)
  BY <1>3, <1>4, LateStep
<1>6. CASE k = 1
  BY <1>4, <1>5, <1>6, LateStep
<1>7. CASE k # 1
  <2>1. k - 1 \in 1..MaxSessions /\ k - 1 \notin S /\ (k - 1) - 1 = k - 2
    BY <1>3, <1>5, <1>7
  <2>2. table[t].parent \in LateSet(table, (k - 1) - 1)
    BY <1>4, <1>5, <2>1, LateStep
  <2>3. LateSet(table, (k - 1) - 1) \subseteq LateSet(table, k - 1)
    BY <2>1
  <2> QED BY <1>5, <2>2, <2>3
<1> QED BY <1>6, <1>7

\* Sessions none of which is late and whose parents are among them are not late.
LEMMA NoneIsLate ==
  ASSUME MaxSessions \in Nat, NEW table \in SessionTables, NEW G \in SUBSET Chats!SessionIds,
         \A t \in G : ~table[t].late /\ (table[t].parent # Chats!NoId => table[t].parent \in G),
         NEW d \in 0..MaxSessions
  PROVE  G \cap LateSet(table, d) = {}
<1> DEFINE S == {k \in 0..MaxSessions : G \cap LateSet(table, k) # {}}
<1>1. SUFFICES ASSUME S # {} PROVE FALSE
  OBVIOUS
<1>2. S \in SUBSET Nat
  OBVIOUS
<1>3. PICK k \in S : \A m \in S : k <= m
  BY <1>1, <1>2, Smallest
<1>4. PICK t \in G : t \in LateSet(table, k)
  BY <1>3
<1>5. k # 0
  BY <1>4, LateStep
<1>6. k \in 1..MaxSessions /\ k - 1 \in 0..MaxSessions /\ k - 1 \notin S
  BY <1>3, <1>5
<1>7. table[t].parent \in LateSet(table, k - 1)
  BY <1>4, <1>6, LateStep
<1>8. table[t].parent # Chats!NoId
  BY <1>7 DEF LateSet, Chats!SessionIds, Chats!NoId
<1> QED BY <1>6, <1>7, <1>8

LEMMA GoodHas ==
  ASSUME MaxSessions \in Nat, NEW table \in SessionTables, NEW G \in SUBSET Chats!SessionIds,
         \A t \in G : ~table[t].late /\ (table[t].parent # Chats!NoId => table[t].parent \in G)
  PROVE  G \subseteq Good(table)
<1>1. MaxSessions \in 0..MaxSessions
  OBVIOUS
<1> QED BY <1>1, NoneIsLate DEF Good

\* A session that is not late is not a fork of a late one.
LEMMA GoodIs ==
  ASSUME MaxSessions \in Nat, NEW table \in SessionTables, NEW t \in Good(table)
  PROVE  t \in Chats!SessionIds /\ ~table[t].late /\ (table[t].parent # Chats!NoId => table[t].parent \in Good(table))
<1> DEFINE X == [d \in 0..MaxSessions |-> LateSet(table, d)]
           P == [u \in Chats!SessionIds |-> table[u].parent]
<1>1. t \in Chats!SessionIds /\ MaxSessions > 0
  BY DEF Good, Chats!SessionIds
<1>2. \A d \in 0..MaxSessions : X[d] = LateSet(table, d) /\ X[d] \in SUBSET (1..MaxSessions)
  BY DEF LateSet, Chats!SessionIds
<1>3. Grows(MaxSessions, P, X)
  <2>1. ASSUME NEW d \in 1..MaxSessions
        PROVE  /\ X[d - 1] \subseteq X[d]
               /\ \A u \in 1..MaxSessions : P[u] \in X[d - 1] => u \in X[d]
    <3>1. d - 1 \in 0..MaxSessions /\ d \in 0..MaxSessions
      OBVIOUS
    <3>2. X[d - 1] = LateSet(table, d - 1) /\ X[d] = LateSet(table, d)
      BY <3>1
    <3> HIDE DEF X
    <3> QED BY <3>2, LateGrows, LateStep DEF Chats!SessionIds
  <2> QED BY <1>2, <2>1 DEF Grows
<1>4. \E d \in 0..(MaxSessions - 1) : Closed(MaxSessions, P, X[d])
  <2> HIDE DEF X, P
  <2> QED BY <1>1, <1>3, Stable
<1>5. PICK d \in 0..(MaxSessions - 1) : Closed(MaxSessions, P, X[d])
  BY <1>4
<1>6. d \in 0..MaxSessions /\ 0 \in 0..MaxSessions /\ MaxSessions \in 0..MaxSessions
  OBVIOUS
<1>7. X[0] \subseteq X[d] /\ X[d] \subseteq X[MaxSessions]
  <2> HIDE DEF X, P
  <2> QED BY <1>3, <1>6, Growing
<1> DEFINE G == Chats!SessionIds \ LateSet(table, d)
<1>8. \A u \in G : ~table[u].late /\ (table[u].parent # Chats!NoId => table[u].parent \in G)
  <2> TAKE u \in G
  <2>1. u \notin LateSet(table, 0)
    BY <1>2, <1>6, <1>7
  <2>2. ~table[u].late
    BY <2>1, LateStep
  <2>3. table[u].parent \notin LateSet(table, d)
    BY <1>2, <1>5, <1>6 DEF Closed, Chats!SessionIds
  <2>4. table[u].parent \in Chats!Ids
    BY DEF SessionTables, SessionRows
  <2> QED BY <2>2, <2>3, <2>4 DEF Chats!Ids
<1>9. t \in G
  BY <1>1, <1>2, <1>6, <1>7 DEF Good
<1>10. G \subseteq Good(table)
  <2> HIDE DEF G
  <2> QED BY <1>8, GoodHas DEF G
<1> QED BY <1>1, <1>8, <1>9, <1>10

\* Of sessions that are not late, one has its parent elsewhere.
LEMMA Oldest ==
  ASSUME MaxSessions \in Nat, NEW table \in SessionTables, Ordered(table), NEW B \in SUBSET Good(table), \A t \in B : table[t].made # 0, B # {}
  PROVE  \E t \in B : table[t].parent # Chats!NoId => /\ table[t].parent \in Good(table) \ B
                                                      /\ table[table[t].parent].made # 0
                                                      /\ table[table[t].parent].made < table[t].made
<1> DEFINE S == {table[t].made : t \in B}
<1>1. \A t \in B : t \in Chats!SessionIds /\ table[t].made \in Nat /\ ~table[t].late /\ (table[t].parent # Chats!NoId => table[t].parent \in Good(table))
  BY GoodIs DEF SessionTables, SessionRows
<1>2. S \in SUBSET Nat /\ S # {}
  BY <1>1
<1>3. PICK n \in S : \A m \in S : n <= m
  BY <1>2, Smallest
<1>4. PICK t \in B : n = table[t].made
  BY <1>3
<1>5. ASSUME table[t].parent # Chats!NoId PROVE /\ table[t].parent \in Good(table) \ B /\ table[table[t].parent].made # 0 /\ table[table[t].parent].made < table[t].made
  <2>1. table[table[t].parent].made # 0 /\ table[table[t].parent].made < table[t].made
    BY <1>1, <1>5 DEF Ordered
  <2>2. table[t].parent \notin B
    BY <1>1, <1>3, <1>4, <2>1
  <2> QED BY <1>1, <1>5, <2>1, <2>2
<1> QED BY <1>5

\* A session's forks are among its descendants, and theirs.
LEMMA DescendantsClosed ==
  ASSUME MaxSessions \in Nat, NEW table \in SessionTables, NEW s \in Chats!SessionIds
  PROVE  LET D == Below(table, s)[MaxSessions] IN
         /\ s \in D /\ D \subseteq Chats!SessionIds
         /\ \A t \in Chats!SessionIds : table[t].made # 0 /\ table[t].parent \in D => t \in D
<1> DEFINE b == Below(table, s)
           P == [t \in Chats!SessionIds |-> IF table[t].made # 0 THEN table[t].parent ELSE Chats!NoId]
           At(d) == \A t \in Chats!SessionIds : table[t].made # 0 /\ table[t].parent \in b[d - 1] => t \in b[d]
<1>1. b[0] = {s}
  <2>1. 0 \in 0..MaxSessions
    OBVIOUS
  <2> QED BY <2>1, BelowsAre DEF BelowAt
<1>2. \A d \in 1..MaxSessions : b[d] = b[d - 1] \cup {t \in Chats!SessionIds : table[t].made # 0 /\ table[t].parent \in b[d - 1]}
  <2> TAKE d \in 1..MaxSessions
  <2>1. d \in 0..MaxSessions /\ d # 0
    OBVIOUS
  <2>2. b[d] = BelowAt(table, s, b, d)
    BY <2>1, BelowsAre
  <2> HIDE DEF b
  <2> QED BY <2>1, <2>2 DEF BelowAt
<1> HIDE DEF b
<1>3. \A d \in 0..MaxSessions : b[d] \subseteq Chats!SessionIds
  <2> DEFINE S == {k \in 0..MaxSessions : ~(b[k] \subseteq Chats!SessionIds)}
  <2>1. SUFFICES ASSUME S # {} PROVE FALSE
    OBVIOUS
  <2>2. S \in SUBSET Nat
    OBVIOUS
  <2>3. PICK k \in S : \A m \in S : k <= m
    BY <2>1, <2>2, Smallest
  <2>4. k # 0
    BY <1>1, <2>3
  <2>5. k \in 1..MaxSessions /\ k - 1 \in 0..MaxSessions /\ k - 1 \notin S
    BY <2>3, <2>4
  <2> QED BY <1>2, <2>3, <2>5
<1> DEFINE X == [d \in 0..MaxSessions |-> b[d]]
<1>4. \A d \in 0..MaxSessions : X[d] = b[d] /\ X[d] \in SUBSET (1..MaxSessions)
  BY <1>3 DEF Chats!SessionIds
<1>5. Grows(MaxSessions, P, X)
  <2>1. ASSUME NEW d \in 1..MaxSessions
        PROVE  /\ X[d - 1] \subseteq X[d]
               /\ \A u \in 1..MaxSessions : P[u] \in X[d - 1] => u \in X[d]
    <3>1. d - 1 \in 0..MaxSessions /\ d \in 0..MaxSessions
      OBVIOUS
    <3>2. X[d - 1] = b[d - 1] /\ X[d] = b[d] /\ Chats!NoId \notin b[d - 1]
      BY <1>3, <3>1 DEF Chats!SessionIds, Chats!NoId
    <3>3. \A u \in 1..MaxSessions : P[u] \in b[d - 1] => u \in b[d]
      BY <1>2, <3>2 DEF Chats!SessionIds
    <3> HIDE DEF X, P
    <3> QED BY <1>2, <3>2, <3>3
  <2> QED BY <1>4, <2>1 DEF Grows
<1>6. MaxSessions > 0
  BY DEF Chats!SessionIds
<1>7. PICK d \in 0..(MaxSessions - 1) : Closed(MaxSessions, P, X[d])
  <2>1. X[0] # {}
    BY <1>1, <1>4
  <2> HIDE DEF X, P
  <2> QED BY <1>5, <1>6, <2>1, Stable
<1>8. d \in 0..MaxSessions /\ 0 \in 0..MaxSessions /\ MaxSessions \in 0..MaxSessions
  OBVIOUS
<1>9. X[0] \subseteq X[d] /\ X[d] \subseteq X[MaxSessions]
  <2> HIDE DEF X, P
  <2> QED BY <1>5, <1>8, Growing
<1>10. \A t \in Chats!SessionIds : table[t].made # 0 /\ table[t].parent \in b[d] => t \in b[d]
  BY <1>7, <1>8 DEF Closed, Chats!SessionIds
\* What is closed has them all.
<1>11. \A e \in 0..MaxSessions : b[e] \subseteq b[d]
  <2> DEFINE S == {k \in 0..MaxSessions : ~(b[k] \subseteq b[d])}
  <2>1. SUFFICES ASSUME S # {} PROVE FALSE
    OBVIOUS
  <2>2. S \in SUBSET Nat
    OBVIOUS
  <2>3. PICK k \in S : \A m \in S : k <= m
    BY <2>1, <2>2, Smallest
  <2>4. k # 0
    BY <1>8, <1>9, <2>3
  <2>5. k \in 1..MaxSessions /\ k - 1 \in 0..MaxSessions /\ k - 1 \notin S
    BY <2>3, <2>4
  <2> QED BY <1>2, <1>10, <2>3, <2>5
<1>12. b[MaxSessions] = b[d]
  BY <1>8, <1>9, <1>11
<1> QED BY <1>1, <1>3, <1>8, <1>9, <1>10, <1>12 DEF b

-----------------------------------------------------------------------------
\* The first message of an id.
First(m, h, i) == i \in 1..Len(h) /\ h[i].id = m /\ \A j \in 1..(i - 1) : h[j].id # m

Has(m, h) == \E i \in 1..Len(h) : h[i].id = m

LEMMA FirstIs == ASSUME NEW h \in Seq(Chats!Message), NEW m, Has(m, h) PROVE \E i \in 1..Len(h) : First(m, h, i)
<1> DEFINE S == {i \in 1..Len(h) : h[i].id = m}
<1>1. S \in SUBSET Nat /\ S # {}
  BY DEF Has
<1>2. PICK i \in S : \A j \in S : i <= j
  BY <1>1, Smallest
<1>3. \A j \in 1..(i - 1) : h[j].id # m
  <2> TAKE j \in 1..(i - 1)
  <2>1. j \in 1..Len(h) /\ ~(i <= j)
    BY <1>2
  <2> QED BY <1>2, <2>1
<1> QED BY <1>2, <1>3 DEF First

LEMMA TakeFirst == ASSUME NEW h \in Seq(Chats!Message), NEW m, NEW i \in Nat, First(m, h, i) PROVE Chats!takeThrough(m, h) = SubSeq(h, 1, i)
<1> DEFINE at == {j \in DOMAIN h : h[j].id = m}
<1>1. DOMAIN h = 1..Len(h) /\ Len(h) \in Nat
  OBVIOUS
<1>2. i \in at /\ \A j \in at : i <= j
  BY <1>1 DEF First
<1>3. at # {}
  BY <1>2
<1>4. \A k \in at : (\A j \in at : k <= j) => k = i
  BY <1>1, <1>2
<1>5. (CHOOSE k \in at : \A j \in at : k <= j) = i
  BY <1>2, <1>4
<1>6. Chats!takeThrough(m, h) = IF at = {} THEN h ELSE SubSeq(h, 1, CHOOSE k \in at : \A j \in at : k <= j)
  BY DEF Chats!takeThrough
<1> HIDE DEF at
<1> QED BY <1>3, <1>5, <1>6

LEMMA PartIs ==
  ASSUME NEW h \in Seq(Chats!Message), NEW i \in 1..Len(h)
  PROVE  /\ SubSeq(h, 1, i) \in Seq(Chats!Message) /\ Len(SubSeq(h, 1, i)) = i
         /\ \A j \in 1..i : SubSeq(h, 1, i)[j] = h[j]
  OBVIOUS

\* All of it when there is none.
LEMMA TakeAll == ASSUME NEW h \in Seq(Chats!Message), NEW m, ~Has(m, h) PROVE Chats!takeThrough(m, h) = h
<1>1. DOMAIN h = 1..Len(h)
  OBVIOUS
<1>2. \A j \in DOMAIN h : h[j].id # m
  BY <1>1 DEF Has
<1>3. {j \in DOMAIN h : h[j].id = m} = {}
  BY <1>2
<1> QED BY <1>3 DEF Chats!takeThrough

LEMMA TakeType == ASSUME NEW h \in Seq(Chats!Message), NEW m PROVE Chats!takeThrough(m, h) \in Seq(Chats!Message)
<1>1. CASE Has(m, h)
  BY <1>1, FirstIs, TakeFirst, PartIs
<1>2. CASE ~Has(m, h)
  BY <1>2, TakeAll
<1> QED BY <1>1, <1>2

\* What comes after the message changes nothing.
LEMMA TakeKeeps ==
  ASSUME NEW h \in Seq(Chats!Message), NEW x \in Chats!Message, NEW m, Has(m, h)
  PROVE  Chats!takeThrough(m, Append(h, x)) = Chats!takeThrough(m, h) /\ Has(m, Append(h, x))
<1>1. PICK i \in 1..Len(h) : First(m, h, i)
  BY FirstIs
<1>2. PICK g : g = Append(h, x)
  OBVIOUS
<1>3. g \in Seq(Chats!Message) /\ Len(g) = Len(h) + 1 /\ (\A j \in 1..Len(h) : g[j] = h[j]) /\ Len(h) \in Nat /\ i \in Nat
  BY <1>2
<1>4. First(m, g, i)
  BY <1>1, <1>3 DEF First
<1>5. i \in 1..Len(g)
  BY <1>3
<1>6. SubSeq(g, 1, i) = SubSeq(h, 1, i)
  <2>1. PICK p : p = SubSeq(g, 1, i)
    OBVIOUS
  <2>2. PICK q : q = SubSeq(h, 1, i)
    OBVIOUS
  <2>3. p \in Seq(Chats!Message) /\ Len(p) = i /\ \A j \in 1..i : p[j] = g[j]
    BY <1>3, <1>5, <2>1, PartIs
  <2>4. q \in Seq(Chats!Message) /\ Len(q) = i /\ \A j \in 1..i : q[j] = h[j]
    BY <2>2, PartIs
  <2>5. \A j \in 1..i : p[j] = q[j]
    BY <1>3, <2>3, <2>4
  <2>6. p = q
    BY <2>3, <2>4, <2>5
  <2> QED BY <2>1, <2>2, <2>6
<1>7. Chats!takeThrough(m, h) = SubSeq(h, 1, i)
  BY <1>1, TakeFirst
<1>8. Chats!takeThrough(m, g) = SubSeq(g, 1, i)
  BY <1>3, <1>4, TakeFirst
<1>9. Has(m, g)
  BY <1>4, <1>5 DEF Has, First
<1> QED BY <1>2, <1>6, <1>7, <1>8, <1>9

-----------------------------------------------------------------------------
LEMMA ReadStep ==
  ASSUME MaxSessions \in Nat, NEW table \in SessionTables, NEW t \in Chats!SessionIds, NEW d \in 0..MaxSessions
  PROVE  /\ table[t].made = 0 \/ d = 0 => Reads(table)[d][t] = <<>>
         /\ table[t].made # 0 /\ d # 0 /\ table[t].parent = Chats!NoId => Reads(table)[d][t] = table[t].own
         /\ table[t].made # 0 /\ d # 0 /\ table[t].parent # Chats!NoId =>
              Reads(table)[d][t] = Chats!takeThrough(table[t].through, Reads(table)[d - 1][table[t].parent]) \o table[t].own
<1>1. Reads(table)[d] = ReadAt(table, Reads(table), d)
  BY ReadsAre
<1> QED BY <1>1 DEF ReadAt

LEMMA JoinType == ASSUME NEW s \in Seq(Chats!Message), NEW p \in Seq(Chats!Message) PROVE s \o p \in Seq(Chats!Message)
  OBVIOUS

LEMMA ReadsType ==
  ASSUME MaxSessions \in Nat, NEW table \in SessionTables, NEW d \in 0..MaxSessions, NEW t \in Chats!SessionIds
  PROVE  Reads(table)[d][t] \in Seq(Chats!Message)
<1> DEFINE S == {k \in 0..MaxSessions : \E u \in Chats!SessionIds : Reads(table)[k][u] \notin Seq(Chats!Message)}
<1>1. SUFFICES ASSUME S # {} PROVE FALSE
  OBVIOUS
<1>2. S \in SUBSET Nat
  OBVIOUS
<1>3. PICK k \in S : \A m \in S : k <= m
  BY <1>1, <1>2, Smallest
<1>4. PICK u \in Chats!SessionIds : Reads(table)[k][u] \notin Seq(Chats!Message)
  BY <1>3
<1>5. table[u].own \in Seq(Chats!Message) /\ <<>> \in Seq(Chats!Message) /\ table[u].parent \in Chats!Ids /\ k \in 0..MaxSessions
  BY <1>3 DEF SessionTables, SessionRows
<1>6. table[u].made # 0 /\ k # 0 /\ table[u].parent # Chats!NoId
  BY <1>4, <1>5, ReadStep
<1>7. k - 1 \in 0..MaxSessions /\ k - 1 \notin S
  BY <1>3, <1>5, <1>6
<1>8. PICK h \in Seq(Chats!Message) : h = Reads(table)[k - 1][table[u].parent]
  BY <1>5, <1>6, <1>7 DEF Chats!Ids
<1>9. Chats!takeThrough(table[u].through, h) \in Seq(Chats!Message)
  BY TakeType
<1>10. Reads(table)[k][u] = Chats!takeThrough(table[u].through, h) \o table[u].own
  BY <1>5, <1>6, <1>8, ReadStep
<1> QED BY <1>4, <1>5, <1>9, <1>10, JoinType

\* The sessions that were made up to one.
Earlier(table, t) == {u \in Chats!SessionIds : table[u].made # 0 /\ table[u].made <= table[t].made}

LEMMA EarlierIs ==
  ASSUME MaxSessions \in Nat, NEW table \in SessionTables, NEW t \in Chats!SessionIds
  PROVE  /\ IsFiniteSet(Earlier(table, t)) /\ Cardinality(Earlier(table, t)) \in Nat /\ Cardinality(Earlier(table, t)) <= MaxSessions
         /\ table[t].made # 0 => Cardinality(Earlier(table, t)) > 0
<1>1. Earlier(table, t) \in SUBSET (1..MaxSessions)
  BY DEF Earlier, Chats!SessionIds
<1>2. IsFiniteSet(1..MaxSessions) /\ Cardinality(1..MaxSessions) = MaxSessions
  BY FS_Interval
<1>3. IsFiniteSet(Earlier(table, t)) /\ Cardinality(Earlier(table, t)) \in Nat /\ Cardinality(Earlier(table, t)) <= MaxSessions
  BY <1>1, <1>2, FS_Subset, FS_CardinalityType
<1>4. ASSUME table[t].made # 0 PROVE Earlier(table, t) # {}
  BY <1>4 DEF Earlier, SessionTables, SessionRows
<1>5. ASSUME table[t].made # 0 PROVE Cardinality(Earlier(table, t)) # 0
  BY <1>3, <1>4, <1>5, FS_EmptySet
<1> QED BY <1>3, <1>5

LEMMA EarlierGrows ==
  ASSUME MaxSessions \in Nat, NEW table \in SessionTables, NEW t \in Chats!SessionIds, NEW p \in Chats!SessionIds, table[t].made # 0, table[p].made < table[t].made
  PROVE  Cardinality(Earlier(table, p)) <= Cardinality(Earlier(table, t)) - 1
<1>1. table[t].made \in Nat /\ table[p].made \in Nat /\ \A u \in Chats!SessionIds : table[u].made \in Nat
  BY DEF SessionTables, SessionRows
<1>2. t \in Earlier(table, t) /\ Earlier(table, p) \in SUBSET (Earlier(table, t) \ {t})
  BY <1>1 DEF Earlier
<1>3. PICK A : A = Earlier(table, t)
  OBVIOUS
<1>4. IsFiniteSet(A) /\ t \in A /\ Cardinality(A) \in Nat
  BY <1>2, <1>3, EarlierIs
<1>5. IsFiniteSet(A \ {t}) /\ Cardinality(A \ {t}) = Cardinality(A) - 1
  BY <1>4, FS_RemoveElement
<1>6. Cardinality(Earlier(table, p)) <= Cardinality(A \ {t})
  BY <1>2, <1>3, <1>5, FS_Subset
<1> QED BY <1>3, <1>5, <1>6

\* A history is read within as many steps as there are sessions made before.
LEMMA ReadsSettle ==
  ASSUME MaxSessions \in Nat, NEW table \in SessionTables, Ordered(table), NEW d \in Nat, d < MaxSessions,
         NEW t \in Good(table), table[t].made # 0, Cardinality(Earlier(table, t)) <= d
  PROVE  Reads(table)[d + 1][t] = Reads(table)[d][t]
<1> DEFINE Bad(k, u) == u \in Good(table) /\ table[u].made # 0 /\ Cardinality(Earlier(table, u)) <= k /\ Reads(table)[k + 1][u] # Reads(table)[k][u]
           S == {k \in 0..(MaxSessions - 1) : \E u \in Chats!SessionIds : Bad(k, u)}
<1>0. d \in 0..(MaxSessions - 1) /\ t \in Chats!SessionIds
  BY GoodIs
<1>1. SUFFICES ASSUME S # {} PROVE FALSE
  BY <1>0
<1>2. S \in SUBSET Nat
  OBVIOUS
<1>3. PICK k \in S : \A m \in S : k <= m
  BY <1>1, <1>2, Smallest
<1>4. PICK u \in Chats!SessionIds : Bad(k, u)
  BY <1>3
<1>5. k \in Nat /\ Cardinality(Earlier(table, u)) \in Nat /\ Cardinality(Earlier(table, u)) > 0 /\ k # 0
      /\ k \in 0..MaxSessions /\ k + 1 \in 0..MaxSessions /\ k + 1 # 0 /\ (k + 1) - 1 = k
  BY <1>3, <1>4, EarlierIs
<1>6. table[u].parent # Chats!NoId
  BY <1>4, <1>5, ReadStep
<1> DEFINE p == table[u].parent
<1>7. /\ p \in Good(table) /\ p \in Chats!SessionIds /\ table[p].made # 0 /\ table[p].made < table[u].made
  <2>1. p \in Good(table) /\ ~table[u].late
    BY <1>4, <1>6, GoodIs
  <2> QED BY <1>4, <1>6, <2>1, GoodIs DEF Ordered
<1>8. Cardinality(Earlier(table, p)) <= Cardinality(Earlier(table, u)) - 1 /\ Cardinality(Earlier(table, p)) \in Nat
  BY <1>4, <1>7, EarlierGrows, EarlierIs
<1>9. k - 1 \in 0..(MaxSessions - 1) /\ k - 1 \notin S /\ (k - 1) + 1 = k
  BY <1>3, <1>5
<1>10. Cardinality(Earlier(table, p)) <= k - 1
  BY <1>4, <1>5, <1>8
<1>11. Reads(table)[k][p] = Reads(table)[k - 1][p]
  BY <1>7, <1>9, <1>10
<1>12. Reads(table)[k][u] = Chats!takeThrough(table[u].through, Reads(table)[k - 1][p]) \o table[u].own
  BY <1>4, <1>5, <1>6, ReadStep
<1>13. Reads(table)[k + 1][u] = Chats!takeThrough(table[u].through, Reads(table)[k][p]) \o table[u].own
  BY ZenonT(40), <1>4, <1>5, <1>6, ReadStep
<1> QED BY <1>4, <1>11, <1>12, <1>13

\* The history of a session.
Told(table, t) == Reads(table)[MaxSessions][t]

LEMMA ToldType == ASSUME MaxSessions \in Nat, NEW table \in SessionTables, NEW t \in Chats!SessionIds PROVE Told(table, t) \in Seq(Chats!Message)
<1>1. MaxSessions \in 0..MaxSessions
  OBVIOUS
<1> QED BY <1>1, ReadsType DEF Told

LEMMA ToldIs ==
  ASSUME MaxSessions \in Nat, NEW table \in SessionTables, Ordered(table), NEW t \in Good(table), table[t].made # 0
  PROVE  /\ table[t].parent = Chats!NoId => Told(table, t) = table[t].own
         /\ table[t].parent # Chats!NoId => Told(table, t) = Chats!takeThrough(table[t].through, Told(table, table[t].parent)) \o table[t].own
<1>1. t \in Chats!SessionIds /\ MaxSessions \in 0..MaxSessions /\ MaxSessions # 0 /\ MaxSessions - 1 \in Nat /\ MaxSessions - 1 < MaxSessions /\ (MaxSessions - 1) + 1 = MaxSessions
  <2>1. t \in Chats!SessionIds
    BY GoodIs
  <2> QED BY <2>1 DEF Chats!SessionIds
<1>2. table[t].parent = Chats!NoId => Told(table, t) = table[t].own
  BY <1>1, ReadStep DEF Told
<1>3. ASSUME table[t].parent # Chats!NoId PROVE Told(table, t) = Chats!takeThrough(table[t].through, Told(table, table[t].parent)) \o table[t].own
  <2> DEFINE p == table[t].parent
  <2>1. p \in Good(table) /\ ~table[t].late
    BY <1>3, GoodIs
  <2>2. p \in Chats!SessionIds /\ table[p].made # 0 /\ table[p].made < table[t].made
    BY <1>1, <1>3, <2>1, GoodIs DEF Ordered
  <2>3. /\ Cardinality(Earlier(table, p)) <= Cardinality(Earlier(table, t)) - 1 /\ Cardinality(Earlier(table, p)) \in Nat
        /\ Cardinality(Earlier(table, t)) <= MaxSessions /\ Cardinality(Earlier(table, t)) \in Nat
    BY <1>1, <2>2, EarlierGrows, EarlierIs
  <2>4. Cardinality(Earlier(table, p)) <= MaxSessions - 1
    BY <2>3
  <2>5. Reads(table)[(MaxSessions - 1) + 1][p] = Reads(table)[MaxSessions - 1][p]
    BY <1>1, <2>1, <2>2, <2>4, ReadsSettle
  <2>6. Reads(table)[MaxSessions][t] = Chats!takeThrough(table[t].through, Reads(table)[MaxSessions - 1][p]) \o table[t].own
    BY <1>1, <1>3, ReadStep
  <2> QED BY <1>1, <2>5, <2>6 DEF Told
<1> QED BY <1>2, <1>3

-----------------------------------------------------------------------------
\* No id of a message is in two rows, or twice in one.
UniqueIds(table) ==
  \A s, t \in Chats!SessionIds : \A i \in DOMAIN table[s].own, j \in DOMAIN table[t].own :
    table[s].own[i].id = table[t].own[j].id => s = t /\ i = j

\* The message a fork was made at is in the history of its source.
Anchored(table) ==
  \A t \in Good(table) : table[t].made # 0 /\ table[t].parent # Chats!NoId => Has(table[t].through, Told(table, table[t].parent))

\* A history is what was inherited and then what was told since.
Inherits(table, t) == Chats!Identities(Told(table, t)) = table[t].inherits \o Chats!Identities(table[t].own)
Inherited(table)   == \A t \in Good(table) : table[t].made # 0 => Inherits(table, t)

\* A fork that is being made will read what it found.
ForkSound(table, q) ==
  q.at = "found" /\ table[q.source].made = q.made /\ q.source \in Good(table) =>
    /\ Has(q.through, Told(table, q.source))
    /\ Chats!Identities(Chats!takeThrough(q.through, Told(table, q.source))) = q.inherits

LEMMA JoinIs ==
  ASSUME NEW s \in Seq(Chats!Message), NEW p \in Seq(Chats!Message)
  PROVE  /\ Len(s \o p) = Len(s) + Len(p)
         /\ \A i \in 1..Len(s) : (s \o p)[i] = s[i]
         /\ \A i \in 1..Len(p) : (s \o p)[Len(s) + i] = p[i]
  OBVIOUS

LEMMA JoinHas ==
  ASSUME NEW s \in Seq(Chats!Message), NEW p \in Seq(Chats!Message), NEW i \in 1..Len(s \o p)
  PROVE  (i \in 1..Len(s) /\ (s \o p)[i] = s[i]) \/ (i - Len(s) \in 1..Len(p) /\ (s \o p)[i] = p[i - Len(s)])
  OBVIOUS

\* Every message of a history was told to a session made no later.
LEMMA ToldIsOwned ==
  ASSUME MaxSessions \in Nat, NEW table \in SessionTables, Ordered(table), NEW t \in Good(table), table[t].made # 0, NEW i \in 1..Len(Told(table, t))
  PROVE  \E u \in Chats!SessionIds : /\ table[u].made # 0 /\ table[u].made <= table[t].made
                                     /\ \E j \in 1..Len(table[u].own) : table[u].own[j] = Told(table, t)[i]
<1> DEFINE Owned(u, m) == \E v \in Chats!SessionIds : /\ table[v].made # 0 /\ table[v].made <= table[u].made
                                                      /\ \E j \in 1..Len(table[v].own) : table[v].own[j] = m
           B == {u \in Good(table) : table[u].made # 0 /\ \E k \in 1..Len(Told(table, u)) : ~Owned(u, Told(table, u)[k])}
<1>0. SUFFICES ASSUME ~Owned(t, Told(table, t)[i]) PROVE FALSE
  OBVIOUS
<1>1. B # {}
  <2>1. t \in B
    BY <1>0
  <2> QED BY <2>1
<1>2. PICK u \in B : table[u].parent # Chats!NoId => /\ table[u].parent \in Good(table) \ B
                                                     /\ table[table[u].parent].made # 0
                                                     /\ table[table[u].parent].made < table[u].made
  <2>1. B \in SUBSET Good(table) /\ \A w \in B : table[w].made # 0
    OBVIOUS
  <2> HIDE DEF B
  <2> QED BY <1>1, <2>1, Oldest
<1>3. PICK k \in 1..Len(Told(table, u)) : ~Owned(u, Told(table, u)[k])
  OBVIOUS
<1>4. /\ u \in Chats!SessionIds /\ u \in Good(table) /\ table[u].made # 0 /\ table[u].own \in Seq(Chats!Message)
      /\ \A v \in Chats!SessionIds : table[v].made \in Nat
  BY GoodIs DEF SessionTables, SessionRows
<1>5. CASE table[u].parent = Chats!NoId
  <2>1. Told(table, u) = table[u].own
    BY <1>4, <1>5, ToldIs
  <2>2. table[u].made <= table[u].made
    BY <1>4
  <2>3. k \in 1..Len(table[u].own) /\ table[u].own[k] = Told(table, u)[k]
    BY <2>1
  <2>4. Owned(u, Told(table, u)[k])
    BY <1>4, <2>2, <2>3
  <2> QED BY <1>3, <2>4
<1>6. CASE table[u].parent # Chats!NoId
  <2>1. PICK p \in Chats!SessionIds : p = table[u].parent /\ p \in Good(table) /\ p \notin B /\ table[p].made # 0 /\ table[p].made < table[u].made
    BY <1>2, <1>6, GoodIs
  <2>2. PICK h \in Seq(Chats!Message) : h = Told(table, p)
    BY ToldType
  <2>3. PICK g \in Seq(Chats!Message) : g = Chats!takeThrough(table[u].through, h)
    BY TakeType
  <2>4. PICK own \in Seq(Chats!Message) : own = table[u].own
    BY <1>4
  <2>5. Told(table, u) = g \o own
    BY <1>4, <1>6, <2>1, <2>2, <2>3, <2>4, ToldIs
  <2>6. \A j \in 1..Len(g) : \E l \in 1..Len(h) : g[j] = h[l]
    <3>1. CASE Has(table[u].through, h)
      <4>1. PICK l \in 1..Len(h) : First(table[u].through, h, l)
        BY <3>1, FirstIs
      <4>2. g = SubSeq(h, 1, l)
        BY <2>3, <4>1, TakeFirst
      <4>3. Len(g) = l /\ \A j \in 1..l : g[j] = h[j]
        BY <4>2, PartIs
      <4> QED BY <4>3
    <3>2. CASE ~Has(table[u].through, h)
      <4>1. Chats!takeThrough(table[u].through, h) = h
        BY <3>2, TakeAll
      <4>2. g = h
        BY <2>3, <4>1
      <4> QED BY <4>2
    <3> QED BY <3>1, <3>2
  <2>7. \A l \in 1..Len(h) : Owned(p, h[l])
    BY <2>1, <2>2
  <2>8. \A m : Owned(p, m) => Owned(u, m)
    <3>1. ASSUME NEW m, Owned(p, m) PROVE Owned(u, m)
      <4>1. PICK v \in Chats!SessionIds : /\ table[v].made # 0 /\ table[v].made <= table[p].made
                                          /\ \E j \in 1..Len(table[v].own) : table[v].own[j] = m
        BY <3>1
      <4>2. table[v].made <= table[u].made
        <5>1. table[v].made \in Nat /\ table[p].made \in Nat /\ table[u].made \in Nat
          BY <1>4
        <5> QED BY <2>1, <4>1, <5>1
      <4> QED BY <4>1, <4>2
    <3> QED BY <3>1
  <2>9. \A j \in 1..Len(own) : Owned(u, own[j])
    <3>1. table[u].made <= table[u].made
      BY <1>4
    <3>2. \A j \in 1..Len(own) : \E l \in 1..Len(table[u].own) : table[u].own[l] = own[j]
      BY <2>4
    <3> QED BY <1>4, <3>1, <3>2
  <2> HIDE DEF Owned
  <2>10. \A j \in 1..Len(g) : Owned(u, g[j])
    BY <2>6, <2>7, <2>8
  <2>11. k \in 1..Len(g \o own) /\ ~Owned(u, (g \o own)[k])
    BY <1>3, <2>5
  <2> QED BY <2>9, <2>10, <2>11, JoinHas
<1> QED BY <1>5, <1>6

\* No id is twice in a history.
LEMMA ToldIsDistinct ==
  ASSUME MaxSessions \in Nat, NEW table \in SessionTables, Ordered(table), UniqueIds(table), NEW t \in Good(table), table[t].made # 0,
         NEW i \in 1..Len(Told(table, t)), NEW j \in 1..Len(Told(table, t)), Told(table, t)[i].id = Told(table, t)[j].id
  PROVE  i = j
<1> DEFINE ApartIn(h) == \A k, l \in 1..Len(h) : h[k].id = h[l].id => k = l
           B == {u \in Good(table) : table[u].made # 0 /\ ~ApartIn(Told(table, u))}
<1>1. SUFFICES ASSUME B # {} PROVE FALSE
  OBVIOUS
<1>2. PICK u \in B : table[u].parent # Chats!NoId => /\ table[u].parent \in Good(table) \ B
                                                     /\ table[table[u].parent].made # 0
                                                     /\ table[table[u].parent].made < table[u].made
  <2>1. B \in SUBSET Good(table) /\ \A w \in B : table[w].made # 0
    OBVIOUS
  <2> HIDE DEF B
  <2> QED BY <1>1, <2>1, Oldest
<1>3. ~ApartIn(Told(table, u))
  OBVIOUS
<1>4. /\ u \in Chats!SessionIds /\ u \in Good(table) /\ table[u].made # 0 /\ table[u].own \in Seq(Chats!Message)
      /\ \A v \in Chats!SessionIds : table[v].made \in Nat /\ table[v].own \in Seq(Chats!Message)
  <2>1. \A v \in Chats!SessionIds : table[v] \in SessionRows
    BY DEF SessionTables
  <2>2. \A v \in Chats!SessionIds : table[v].made \in Nat /\ table[v].own \in Seq(Chats!Message)
    BY <2>1 DEF SessionRows
  <2> QED BY <2>2, GoodIs
<1>5. PICK own \in Seq(Chats!Message) : own = table[u].own
  BY <1>4
<1>6. ApartIn(own)
  <2>1. DOMAIN own = 1..Len(own)
    OBVIOUS
  <2> QED BY SMTT(30), <1>4, <1>5, <2>1 DEF UniqueIds
<1>7. CASE table[u].parent = Chats!NoId
  BY <1>3, <1>4, <1>5, <1>6, <1>7, ToldIs
<1>8. CASE table[u].parent # Chats!NoId
  <2>1. PICK p \in Chats!SessionIds : p = table[u].parent /\ p \in Good(table) /\ p \notin B /\ table[p].made # 0 /\ table[p].made < table[u].made
    BY <1>2, <1>8, GoodIs
  <2>2. PICK h \in Seq(Chats!Message) : h = Told(table, p)
    BY ToldType
  <2>3. PICK g \in Seq(Chats!Message) : g = Chats!takeThrough(table[u].through, h)
    BY TakeType
  <2>4. Told(table, u) = g \o own
    BY <1>4, <1>5, <1>8, <2>1, <2>2, <2>3, ToldIs
  <2>5. Len(g) <= Len(h) /\ \A k \in 1..Len(g) : k \in 1..Len(h) /\ g[k] = h[k]
    <3>1. CASE Has(table[u].through, h)
      <4>1. PICK l \in 1..Len(h) : First(table[u].through, h, l)
        BY <3>1, FirstIs
      <4>2. g = SubSeq(h, 1, l)
        BY <2>3, <4>1, TakeFirst
      <4>3. Len(g) = l /\ \A k \in 1..l : g[k] = h[k]
        BY <4>2, PartIs
      <4> QED BY <4>3
    <3>2. CASE ~Has(table[u].through, h)
      <4>1. {k \in DOMAIN h : h[k].id = table[u].through} = {}
        BY SMTT(30), <3>2 DEF Has
      <4>2. g = h
        BY <2>3, <4>1 DEF Chats!takeThrough
      <4> QED BY <4>2
    <3> QED BY <3>1, <3>2
  <2>6. ApartIn(g)
    <3>1. ApartIn(h)
      BY <2>1, <2>2
    <3> QED BY <2>5, <3>1
  <2>7. ASSUME NEW k \in 1..Len(g), NEW l \in 1..Len(own) PROVE g[k].id # own[l].id
    <3>1. PICK v \in Chats!SessionIds : table[v].made <= table[p].made /\ \E m \in 1..Len(table[v].own) : table[v].own[m] = h[k]
      <4>1. k \in 1..Len(Told(table, p)) /\ p \in Good(table) /\ table[p].made # 0
        BY <2>1, <2>2, <2>5
      <4>2. \E v \in Chats!SessionIds : /\ table[v].made # 0 /\ table[v].made <= table[p].made
                                         /\ \E m \in 1..Len(table[v].own) : table[v].own[m] = Told(table, p)[k]
        BY <4>1, ToldIsOwned
      <4> QED BY <2>2, <4>2
    <3>2. PICK m \in 1..Len(table[v].own) : table[v].own[m] = h[k]
      BY <3>1
    <3>3. v # u
      BY SMTT(30), <1>4, <2>1, <3>1
    <3>4. m \in DOMAIN table[v].own /\ l \in DOMAIN table[u].own
      BY SMTT(30), <1>4, <1>5, <3>2
    <3>5. table[v].own[m].id # table[u].own[l].id
      BY <1>4, <3>3, <3>4 DEF UniqueIds
    <3> QED BY <1>5, <2>5, <3>2, <3>5
  <2>8. ApartIn(g \o own)
    <3>1. SUFFICES ASSUME NEW k \in 1..Len(g \o own), NEW l \in 1..Len(g \o own), (g \o own)[k].id = (g \o own)[l].id PROVE k = l
      OBVIOUS
    <3>2. (k \in 1..Len(g) /\ (g \o own)[k] = g[k]) \/ (k - Len(g) \in 1..Len(own) /\ (g \o own)[k] = own[k - Len(g)])
      BY JoinHas
    <3>3. (l \in 1..Len(g) /\ (g \o own)[l] = g[l]) \/ (l - Len(g) \in 1..Len(own) /\ (g \o own)[l] = own[l - Len(g)])
      BY JoinHas
    <3>4. k \in Nat /\ l \in Nat /\ Len(g) \in Nat
      OBVIOUS
    <3>5. PICK x, y : x = (g \o own)[k] /\ y = (g \o own)[l]
      OBVIOUS
    <3>6. CASE k \in 1..Len(g) /\ x = g[k] /\ l \in 1..Len(g) /\ y = g[l]
      BY <2>6, <3>1, <3>5, <3>6
    <3>7. CASE k \in 1..Len(g) /\ x = g[k] /\ l - Len(g) \in 1..Len(own) /\ y = own[l - Len(g)]
      BY <2>7, <3>1, <3>5, <3>7
    <3>8. CASE k - Len(g) \in 1..Len(own) /\ x = own[k - Len(g)] /\ l \in 1..Len(g) /\ y = g[l]
      BY <2>7, <3>1, <3>5, <3>8
    <3>9. CASE k - Len(g) \in 1..Len(own) /\ x = own[k - Len(g)] /\ l - Len(g) \in 1..Len(own) /\ y = own[l - Len(g)]
      <4>1. k - Len(g) = l - Len(g)
        BY <1>6, <3>1, <3>5, <3>9
      <4> QED BY <3>4, <4>1
    <3> QED BY <3>2, <3>3, <3>5, <3>6, <3>7, <3>8, <3>9
  <2> QED BY <1>3, <2>4, <2>8
<1> QED BY <1>7, <1>8

-----------------------------------------------------------------------------
\* A row that is told a message.
RowAppended(table, s, x) == [table EXCEPT ![s].own = Append(@, x)]

LEMMA AppendedIs ==
  ASSUME NEW table \in SessionTables, NEW s \in Chats!SessionIds, NEW x \in Chats!Message, NEW new, new = RowAppended(table, s, x)
  PROVE  /\ new \in SessionTables
         /\ \A t \in Chats!SessionIds \ {s} : new[t] = table[t]
         /\ new[s].made = table[s].made /\ new[s].parent = table[s].parent /\ new[s].through = table[s].through
         /\ new[s].inherits = table[s].inherits /\ new[s].late = table[s].late /\ new[s].own = Append(table[s].own, x)
<1>1. table[s] \in SessionRows /\ table[s].own \in Seq(Chats!Message)
  BY DEF SessionTables, SessionRows
<1>2. Append(table[s].own, x) \in Seq(Chats!Message)
  BY <1>1
<1>3. [table[s] EXCEPT !.own = Append(table[s].own, x)] \in SessionRows
  BY <1>1, <1>2 DEF SessionRows
<1>4. new = [table EXCEPT ![s] = [table[s] EXCEPT !.own = Append(table[s].own, x)]]
  BY DEF RowAppended
<1> QED BY <1>1, <1>3, <1>4 DEF SessionTables, SessionRows

\* A message is read in its session and in no fork of it.
LEMMA ToldAppended ==
  ASSUME MaxSessions \in Nat, NEW table \in SessionTables, Ordered(table), Anchored(table), NEW s \in Chats!SessionIds, NEW x \in Chats!Message,
         NEW new \in SessionTables, new = RowAppended(table, s, x)
  PROVE  /\ Ordered(new) /\ Good(new) = Good(table)
         /\ \A t \in Good(table) : table[t].made # 0 => Told(new, t) = IF t = s THEN Append(Told(table, t), x) ELSE Told(table, t)
<1>1. \A t \in Chats!SessionIds : /\ new[t].made = table[t].made /\ new[t].parent = table[t].parent /\ new[t].through = table[t].through
                                  /\ new[t].late = table[t].late
                                  /\ (t # s => new[t].own = table[t].own) /\ (t = s => new[t].own = Append(table[t].own, x))
  BY AppendedIs
<1>2. Ordered(new)
  <2>1. \A t \in Chats!SessionIds : table[t].parent # Chats!NoId => table[t].parent \in Chats!SessionIds
    BY DEF SessionTables, SessionRows, Chats!Ids
  <2> QED BY <1>1, <2>1 DEF Ordered
<1>3. Good(table) \subseteq Good(new)
  <2>1. \A t \in Good(table) : ~new[t].late /\ (new[t].parent # Chats!NoId => new[t].parent \in Good(table))
    BY <1>1, GoodIs
  <2>2. Good(table) \in SUBSET Chats!SessionIds
    BY DEF Good
  <2> QED BY <2>1, <2>2, GoodHas
<1>4. Good(new) \subseteq Good(table)
  <2>1. \A t \in Good(new) : ~table[t].late /\ (table[t].parent # Chats!NoId => table[t].parent \in Good(new))
    BY <1>1, GoodIs
  <2>2. Good(new) \in SUBSET Chats!SessionIds
    BY DEF Good
  <2> QED BY <2>1, <2>2, GoodHas
<1> DEFINE Fine(t) == Told(new, t) = IF t = s THEN Append(Told(table, t), x) ELSE Told(table, t)
           B == {t \in Good(table) : table[t].made # 0 /\ ~Fine(t)}
<1>5. B = {}
  <2> SUFFICES ASSUME B # {} PROVE FALSE
    OBVIOUS
  <2>1. PICK t \in B : table[t].parent # Chats!NoId => /\ table[t].parent \in Good(table) \ B
                                                       /\ table[table[t].parent].made # 0
                                                       /\ table[table[t].parent].made < table[t].made
    <3>1. B \in SUBSET Good(table) /\ \A w \in B : table[w].made # 0
      OBVIOUS
    <3> HIDE DEF B
    <3> QED BY <3>1, Oldest
  <2>2. t \in Chats!SessionIds /\ t \in Good(table) /\ t \in Good(new) /\ table[t].made # 0 /\ new[t].made # 0 /\ ~Fine(t)
    BY <1>1, <1>3, GoodIs
  <2>3. PICK own \in Seq(Chats!Message) : own = table[t].own
    BY <2>2 DEF SessionTables, SessionRows
  <2>4. PICK told : told = Told(table, t)
    OBVIOUS
  <2>5. PICK told2 : told2 = Told(new, t)
    OBVIOUS
  <2>6. (t # s => new[t].own = own) /\ (t = s => new[t].own = Append(own, x))
    BY <1>1, <2>2, <2>3
  <2>7. CASE table[t].parent = Chats!NoId
    <3>1. told = own
      BY <2>2, <2>3, <2>4, <2>7, ToldIs
    <3>2. told2 = new[t].own
      BY <1>1, <1>2, <2>2, <2>5, <2>7, ToldIs
    <3> QED BY <2>2, <2>4, <2>5, <2>6, <3>1, <3>2
  <2>8. CASE table[t].parent # Chats!NoId
    <3>1. PICK p \in Chats!SessionIds : p = table[t].parent /\ p \in Good(table) /\ p \notin B /\ table[p].made # 0
      BY <2>1, <2>8, GoodIs
    <3>2. PICK h \in Seq(Chats!Message) : h = Told(table, p)
      BY ToldType
    <3>3. Told(new, p) = h \/ Told(new, p) = Append(h, x)
      <4>1. Fine(p)
        BY <3>1
      <4> QED BY <3>2, <4>1
    <3>4. Has(table[t].through, h)
      BY <2>2, <2>8, <3>1, <3>2 DEF Anchored
    <3>5. PICK g \in Seq(Chats!Message) : g = Chats!takeThrough(table[t].through, h)
      BY TakeType
    <3>6. Chats!takeThrough(table[t].through, Told(new, p)) = g
      BY ZenonT(40), <3>3, <3>4, <3>5, TakeKeeps
    <3>7. told = g \o own
      BY <2>2, <2>3, <2>4, <2>8, <3>1, <3>2, <3>5, ToldIs
    <3>8. told2 = g \o new[t].own
      <4>1. new[t].parent = p /\ new[t].through = table[t].through
        BY <1>1, <2>2, <3>1
      <4> QED BY <1>2, <2>2, <2>5, <2>8, <3>1, <3>6, <4>1, ToldIs
    <3>9. g \o Append(own, x) = Append(g \o own, x)
      OBVIOUS
    <3> QED BY <2>2, <2>4, <2>5, <2>6, <3>7, <3>8, <3>9
  <2> QED BY <2>7, <2>8
<1> QED BY <1>2, <1>3, <1>4, <1>5

\* Sessions that stay, with those they are forks of, read what they read.
SessionsUnmoved(table, new, K) ==
  \A t \in K : /\ new[t] = table[t] /\ table[t].made # 0
               /\ ~table[t].late /\ table[t].parent # Chats!NoId => table[t].parent \in K

LEMMA ToldStays ==
  ASSUME MaxSessions \in Nat, NEW table \in SessionTables, NEW new \in SessionTables, Ordered(table), Ordered(new),
         NEW K \in SUBSET Chats!SessionIds, SessionsUnmoved(table, new, K), NEW s \in Good(new), s \in K
  PROVE  s \in Good(table) /\ Told(new, s) = Told(table, s)
<1> DEFINE G == Good(new) \cap K
<1>1. G \subseteq Good(table)
  <2>1. \A t \in G : ~table[t].late /\ (table[t].parent # Chats!NoId => table[t].parent \in G)
    BY GoodIs DEF SessionsUnmoved
  <2>2. G \in SUBSET Chats!SessionIds
    OBVIOUS
  <2> HIDE DEF G
  <2> QED BY <2>1, <2>2, GoodHas
<1> DEFINE B == {t \in G : Told(new, t) # Told(table, t)}
<1>2. B = {}
  <2> SUFFICES ASSUME B # {} PROVE FALSE
    OBVIOUS
  <2>1. PICK t \in B : new[t].parent # Chats!NoId => /\ new[t].parent \in Good(new) \ B
                                                     /\ new[new[t].parent].made # 0
                                                     /\ new[new[t].parent].made < new[t].made
    <3>1. B \in SUBSET Good(new) /\ \A w \in B : new[w].made # 0
      BY DEF SessionsUnmoved
    <3> HIDE DEF B
    <3> QED BY <3>1, Oldest
  <2>2. t \in Chats!SessionIds /\ t \in Good(table) /\ t \in Good(new) /\ new[t] = table[t] /\ table[t].made # 0 /\ ~table[t].late
    BY <1>1, GoodIs DEF SessionsUnmoved
  <2>3. CASE table[t].parent = Chats!NoId
    BY <2>2, <2>3, ToldIs
  <2>4. CASE table[t].parent # Chats!NoId
    <3>1. PICK p : p = table[t].parent
      OBVIOUS
    <3>2. p \in K /\ p \in Good(new) /\ p \notin B
      BY <2>1, <2>2, <2>4, <3>1 DEF SessionsUnmoved
    <3>3. Told(new, p) = Told(table, p)
      BY <3>2
    <3>4. Told(table, t) = Chats!takeThrough(table[t].through, Told(table, p)) \o table[t].own
      BY <2>2, <2>4, <3>1, ToldIs
    <3>5. Told(new, t) = Chats!takeThrough(table[t].through, Told(new, p)) \o table[t].own
      BY <2>2, <2>4, <3>1, ToldIs
    <3> QED BY <3>3, <3>4, <3>5
  <2> QED BY <2>3, <2>4
<1> QED BY <1>1, <1>2

LEMMA StaysSound ==
  ASSUME MaxSessions \in Nat, NEW table \in SessionTables, NEW new \in SessionTables, Ordered(table), Ordered(new), Anchored(table), Inherited(table),
         NEW K \in SUBSET Chats!SessionIds, SessionsUnmoved(table, new, K)
  PROVE  /\ \A t \in Good(new) \cap K : /\ new[t].parent # Chats!NoId => Has(new[t].through, Told(new, new[t].parent))
                                        /\ Inherits(new, t)
         /\ \A q : ForkSound(table, q) /\ (q.source \in K \/ q.source \notin Good(new) \/ new[q.source].made # q.made) => ForkSound(new, q)
<1>1. ASSUME NEW t \in Good(new) \cap K
      PROVE  /\ new[t].parent # Chats!NoId => Has(new[t].through, Told(new, new[t].parent))
             /\ Inherits(new, t)
  <2>1. t \in Good(table) /\ Told(new, t) = Told(table, t) /\ new[t] = table[t] /\ table[t].made # 0
    BY ToldStays DEF SessionsUnmoved
  <2>2. ASSUME new[t].parent # Chats!NoId PROVE Has(new[t].through, Told(new, new[t].parent))
    <3>1. PICK p : p = table[t].parent
      OBVIOUS
    <3>2. p \in Good(new) /\ p \in K
      BY <2>1, <2>2, <3>1, GoodIs DEF SessionsUnmoved
    <3>3. Told(new, p) = Told(table, p)
      BY <3>2, ToldStays
    <3> QED BY <2>1, <2>2, <3>1, <3>3 DEF Anchored
  <2> QED BY <2>1, <2>2 DEF Inherited, Inherits
<1>2. ASSUME NEW q, ForkSound(table, q), q.source \in K \/ q.source \notin Good(new) \/ new[q.source].made # q.made PROVE ForkSound(new, q)
  <2>1. SUFFICES ASSUME q.at = "found", new[q.source].made = q.made, q.source \in Good(new)
                 PROVE  /\ Has(q.through, Told(new, q.source))
                        /\ Chats!Identities(Chats!takeThrough(q.through, Told(new, q.source))) = q.inherits
    BY DEF ForkSound
  <2>2. PICK s : s = q.source
    OBVIOUS
  <2>3. s \in K /\ s \in Good(new)
    BY <1>2, <2>1, <2>2
  <2>4. s \in Good(table) /\ Told(new, s) = Told(table, s) /\ new[s] = table[s]
    BY <2>3, ToldStays DEF SessionsUnmoved
  <2> QED BY <1>2, <2>1, <2>2, <2>4 DEF ForkSound
<1> QED BY <1>1, <1>2

LEMMA IdentitiesAre ==
  /\ Chats!Identities(<<>>) = <<>>
  /\ \A h \in Seq(Chats!Message) : Chats!Identities(h) \in Seq(1..MaxMessages) /\ Len(Chats!Identities(h)) = Len(h)
  /\ \A h \in Seq(Chats!Message), x \in Chats!Message : Chats!Identities(Append(h, x)) = Append(Chats!Identities(h), x.made)
<1>1. Chats!Identities(<<>>) = <<>>
  BY DEF Chats!Identities
<1>2. ASSUME NEW h \in Seq(Chats!Message) PROVE Chats!Identities(h) \in Seq(1..MaxMessages) /\ Len(Chats!Identities(h)) = Len(h)
  <2>1. \A i \in 1..Len(h) : h[i].made \in 1..MaxMessages
    <3> TAKE i \in 1..Len(h)
    <3>1. h[i] \in Chats!Message
      OBVIOUS
    <3> QED BY <3>1 DEF Chats!Message
  <2>2. DOMAIN h = 1..Len(h) /\ Len(h) \in Nat
    OBVIOUS
  <2>3. Chats!Identities(h) = [i \in 1..Len(h) |-> h[i].made]
    BY <2>2 DEF Chats!Identities
  <2> QED BY <2>1, <2>2, <2>3
<1>3. ASSUME NEW h \in Seq(Chats!Message), NEW x \in Chats!Message PROVE Chats!Identities(Append(h, x)) = Append(Chats!Identities(h), x.made)
  <2>1. PICK g : g = Append(h, x)
    OBVIOUS
  <2>2. /\ g \in Seq(Chats!Message) /\ Len(g) = Len(h) + 1 /\ (\A i \in 1..Len(h) : g[i] = h[i]) /\ g[Len(h) + 1] = x /\ Len(h) \in Nat
        /\ DOMAIN g = 1..(Len(h) + 1) /\ DOMAIN h = 1..Len(h)
    BY <2>1
  <2>3. PICK a \in Seq(1..MaxMessages) : a = Chats!Identities(h) /\ Len(a) = Len(h)
    BY <1>2
  <2>4. PICK b : b = Append(a, x.made)
    OBVIOUS
  <2>5. x.made \in 1..MaxMessages
    BY DEF Chats!Message
  <2>6. b \in Seq(1..MaxMessages) /\ Len(b) = Len(h) + 1 /\ (\A i \in 1..Len(h) : b[i] = a[i]) /\ b[Len(h) + 1] = x.made
    BY <2>3, <2>4, <2>5
  <2>7. PICK c \in Seq(1..MaxMessages) : c = Chats!Identities(g) /\ Len(c) = Len(g)
    BY <1>2, <2>2
  <2>8. (\A i \in DOMAIN g : c[i] = g[i].made) /\ (\A i \in DOMAIN h : a[i] = h[i].made)
    BY <2>3, <2>7 DEF Chats!Identities
  <2>9. \A i \in 1..(Len(h) + 1) : c[i] = b[i]
    <3> TAKE i \in 1..(Len(h) + 1)
    <3>1. i \in 1..Len(h) \/ i = Len(h) + 1
      BY <2>2
    <3> QED BY <2>2, <2>6, <2>8, <3>1
  <2>10. Len(c) = Len(b)
    BY <2>2, <2>6, <2>7
  <2>11. c = b
    BY <2>2, <2>6, <2>7, <2>9, <2>10
  <2> QED BY <2>1, <2>3, <2>4, <2>7, <2>11
<1> QED BY <1>1, <1>2, <1>3

LEMMA JoinAppend ==
  ASSUME NEW T, NEW a \in Seq(T), NEW b \in Seq(T), NEW y \in T
  PROVE  Append(a \o b, y) = a \o Append(b, y)
  OBVIOUS

\* A message of a new id.
LEMMA AppendSound ==
  ASSUME MaxSessions \in Nat, NEW table \in SessionTables, Ordered(table), UniqueIds(table), Anchored(table), Inherited(table),
         NEW s \in Chats!SessionIds, table[s].made # 0, NEW x \in Chats!Message, NEW new \in SessionTables, new = RowAppended(table, s, x),
         \A t \in Chats!SessionIds : \A i \in DOMAIN table[t].own : table[t].own[i].id # x.id
  PROVE  /\ Ordered(new) /\ UniqueIds(new) /\ Anchored(new) /\ Inherited(new)
         /\ \A q : ForkSound(table, q) /\ q.source \in Chats!SessionIds /\ q.made # 0 => ForkSound(new, q)
<1>1. \A t \in Chats!SessionIds : /\ new[t].made = table[t].made /\ new[t].parent = table[t].parent /\ new[t].through = table[t].through
                                  /\ new[t].inherits = table[t].inherits /\ new[t].late = table[t].late
                                  /\ (t # s => new[t].own = table[t].own) /\ (t = s => new[t].own = Append(table[t].own, x))
  BY AppendedIs
<1>2. /\ Ordered(new) /\ Good(new) = Good(table)
      /\ \A t \in Good(table) : table[t].made # 0 => Told(new, t) = IF t = s THEN Append(Told(table, t), x) ELSE Told(table, t)
  BY ToldAppended
<1>3. \A t \in Chats!SessionIds : table[t] \in SessionRows /\ table[t].own \in Seq(Chats!Message) /\ table[t].inherits \in Seq(1..MaxMessages)
  <2>1. \A t \in Chats!SessionIds : table[t] \in SessionRows
    BY DEF SessionTables
  <2> QED BY <2>1 DEF SessionRows
<1>4. UniqueIds(new)
  <2>1. ASSUME NEW t \in Chats!SessionIds, NEW i \in DOMAIN new[t].own
        PROVE  (i \in DOMAIN table[t].own /\ new[t].own[i] = table[t].own[i]) \/ (t = s /\ i = Len(table[t].own) + 1 /\ new[t].own[i] = x)
    <3>1. PICK own \in Seq(Chats!Message) : own = table[t].own
      BY <1>3
    <3>2. CASE t = s
      <4>1. PICK g : g = Append(own, x)
        OBVIOUS
      <4>2. DOMAIN g = 1..(Len(own) + 1) /\ (\A k \in 1..Len(own) : g[k] = own[k]) /\ g[Len(own) + 1] = x /\ Len(own) \in Nat /\ DOMAIN own = 1..Len(own)
        BY <4>1
      <4>3. new[t].own = g
        BY <1>1, <3>1, <3>2, <4>1
      <4>4. i \in 1..Len(own) \/ i = Len(own) + 1
        BY <2>1, <4>2, <4>3
      <4> QED BY <3>1, <3>2, <4>2, <4>3, <4>4
    <3>3. CASE t # s
      BY <1>1, <2>1, <3>3
    <3> QED BY <3>2, <3>3
  <2>2. SUFFICES ASSUME NEW t \in Chats!SessionIds, NEW u \in Chats!SessionIds, NEW i \in DOMAIN new[t].own, NEW j \in DOMAIN new[u].own,
                        new[t].own[i].id = new[u].own[j].id
                 PROVE  t = u /\ i = j
    BY DEF UniqueIds
  <2>3. (i \in DOMAIN table[t].own /\ new[t].own[i] = table[t].own[i]) \/ (t = s /\ i = Len(table[t].own) + 1 /\ new[t].own[i] = x)
    BY <2>1
  <2>4. (j \in DOMAIN table[u].own /\ new[u].own[j] = table[u].own[j]) \/ (u = s /\ j = Len(table[u].own) + 1 /\ new[u].own[j] = x)
    BY <2>1
  <2> QED BY <2>2, <2>3, <2>4 DEF UniqueIds
<1>5. Anchored(new)
  <2>1. SUFFICES ASSUME NEW t \in Good(new), new[t].made # 0, new[t].parent # Chats!NoId PROVE Has(new[t].through, Told(new, new[t].parent))
    BY DEF Anchored
  <2>2. PICK p \in Chats!SessionIds : p = table[t].parent /\ p \in Good(table) /\ t \in Good(table) /\ table[t].made # 0 /\ table[p].made # 0
                               /\ new[t].parent = p /\ new[t].through = table[t].through
    BY <1>1, <1>2, <2>1, GoodIs DEF Ordered
  <2>3. Has(table[t].through, Told(table, p))
    BY <1>1, <2>1, <2>2 DEF Anchored
  <2>4. Told(new, p) = Append(Told(table, p), x) \/ Told(new, p) = Told(table, p)
    BY <1>2, <2>2
  <2> QED BY <2>2, <2>3, <2>4, ToldType, TakeKeeps
<1>6. Inherited(new)
  <2>1. SUFFICES ASSUME NEW t \in Good(new), new[t].made # 0 PROVE Chats!Identities(Told(new, t)) = new[t].inherits \o Chats!Identities(new[t].own)
    BY DEF Inherited, Inherits
  <2>2. t \in Chats!SessionIds /\ t \in Good(table) /\ table[t].made # 0
    BY <1>1, <1>2, <2>1, GoodIs
  <2>3. Chats!Identities(Told(table, t)) = table[t].inherits \o Chats!Identities(table[t].own)
    BY <2>2 DEF Inherited, Inherits
  <2>4. CASE t # s
    BY <1>1, <1>2, <2>2, <2>3, <2>4
  <2>5. CASE t = s
    <3>1. Told(new, t) = Append(Told(table, t), x) /\ new[t].own = Append(table[t].own, x) /\ new[t].inherits = table[t].inherits
      BY <1>1, <1>2, <2>2, <2>5
    <3>2. PICK a \in Seq(1..MaxMessages) : a = table[t].inherits
      BY <1>3, <2>2
    <3>3. PICK b \in Seq(1..MaxMessages) : b = Chats!Identities(table[t].own)
      BY <1>3, <2>2, IdentitiesAre
    <3>4. x.made \in 1..MaxMessages
      BY DEF Chats!Message
    <3>5. Chats!Identities(Told(new, t)) = Append(a \o b, x.made)
      BY <2>2, <2>3, <3>1, <3>2, <3>3, ToldType, IdentitiesAre
    <3>6. Chats!Identities(new[t].own) = Append(b, x.made)
      BY <1>3, <2>2, <3>1, <3>3, IdentitiesAre
    <3>7. Append(a \o b, x.made) = a \o Append(b, x.made)
      <4>1. PICK T : T = 1..MaxMessages
        OBVIOUS
      <4>2. PICK y \in T : y = x.made
        BY <3>4, <4>1
      <4>3. a \in Seq(T) /\ b \in Seq(T)
        BY <4>1
      <4>4. Append(a \o b, y) = a \o Append(b, y)
        BY SMTT(30), <4>3, JoinAppend
      <4> QED BY <4>2, <4>4
    <3> QED BY <3>1, <3>2, <3>5, <3>6, <3>7
  <2> QED BY <2>4, <2>5
<1>7. ASSUME NEW q, ForkSound(table, q), q.source \in Chats!SessionIds, q.made # 0 PROVE ForkSound(new, q)
  <2>1. SUFFICES ASSUME q.at = "found", new[q.source].made = q.made, q.source \in Good(new)
                 PROVE  /\ Has(q.through, Told(new, q.source))
                        /\ Chats!Identities(Chats!takeThrough(q.through, Told(new, q.source))) = q.inherits
    BY DEF ForkSound
  <2>2. PICK p \in Chats!SessionIds : p = q.source
    BY <1>7
  <2>3. p \in Good(table) /\ table[p].made = q.made /\ table[p].made # 0
    BY <1>1, <1>2, <1>7, <2>1, <2>2
  <2>4. Has(q.through, Told(table, p)) /\ Chats!Identities(Chats!takeThrough(q.through, Told(table, p))) = q.inherits
    BY <1>7, <2>1, <2>2, <2>3 DEF ForkSound
  <2>5. PICK h \in Seq(Chats!Message) : h = Told(table, p)
    BY ToldType
  <2>6. PICK g : g = Told(new, p)
    OBVIOUS
  <2>7. g = Append(h, x) \/ g = h
    BY <1>2, <2>3, <2>5, <2>6
  <2>8. Has(q.through, g) /\ Chats!takeThrough(q.through, g) = Chats!takeThrough(q.through, h)
    <3>1. Has(q.through, h)
      BY <2>4, <2>5
    <3> QED BY <2>7, <3>1, TakeKeeps
  <2> QED BY <2>2, <2>4, <2>5, <2>6, <2>8
<1> QED BY <1>2, <1>4, <1>5, <1>6, <1>7

-----------------------------------------------------------------------------
ForkRows == [at : {"idle", "found"}, source : Chats!Ids, through : 0..MaxMessages, made : 0..MaxCreated, inherits : Seq(1..MaxMessages)]

SessionsType ==
  /\ sessions \in SessionTables /\ fork \in [Forks -> ForkRows]
  /\ created \in 0..MaxCreated /\ appended \in 0..MaxMessages
  /\ \A t \in Chats!SessionIds : /\ sessions[t].made <= created
                                 /\ sessions[t].made = 0 => sessions[t] = Chats!NoSession
                                 /\ \A i \in DOMAIN sessions[t].own : sessions[t].own[i].id <= appended
  /\ \A f \in Forks : fork[f].at = "found" => fork[f].source \in Chats!SessionIds /\ fork[f].made # 0 /\ fork[f].made <= created

RowsSound(table) == Ordered(table) /\ UniqueIds(table) /\ Anchored(table) /\ Inherited(table)

SessionInv ==
  /\ SessionsType /\ RowsSound(sessions)
  /\ \A f \in Forks : ForkSound(sessions, fork[f])

LEMMA RowsAre == Chats!SessionStoreAssumption => Chats!NoSession \in SessionRows /\ Chats!NoSession.made = 0 /\ Chats!NoSession.own = <<>> /\ Chats!NoSession.parent = Chats!NoId /\ ~Chats!NoSession.late
                 /\ Chats!NoSession.inherits = <<>>
<1> SUFFICES ASSUME Chats!SessionStoreAssumption PROVE Chats!NoSession \in SessionRows /\ Chats!NoSession.made = 0 /\ Chats!NoSession.own = <<>> /\ Chats!NoSession.parent = Chats!NoId
                                                 /\ ~Chats!NoSession.late /\ Chats!NoSession.inherits = <<>>
  OBVIOUS
<1>1. <<>> \in Seq(Chats!Message) /\ <<>> \in Seq(1..MaxMessages) /\ Chats!NoId \in Chats!Ids
  BY DEF Chats!Ids
<1> QED BY <1>1 DEF Chats!NoSession, SessionRows, Chats!NoId, Chats!SessionStoreAssumption

LEMMA LargestIs ==
  ASSUME NEW S \in SUBSET Nat, NEW b \in Nat, \A m \in S : m <= b
  PROVE  Chats!LargestIn(S) \in Nat /\ Chats!LargestIn(S) <= b /\ \A m \in S : m <= Chats!LargestIn(S)
<1> DEFINE T == {n \in Nat : \A m \in S : m <= n}
<1>1. T \in SUBSET Nat /\ b \in T
  OBVIOUS
<1>2. PICK n \in T : \A m \in T : n <= m
  BY <1>1, Smallest
<1>3. n \in S \cup {0}
  <2> SUFFICES ASSUME n \notin S \cup {0} PROVE FALSE
    OBVIOUS
  <2>1. n - 1 \in Nat /\ \A m \in S : m <= n - 1
    OBVIOUS
  <2>2. n - 1 \in T
    BY <2>1
  <2> HIDE DEF T
  <2> QED BY <1>1, <1>2, <2>2
<1>4. Chats!LargestIn(S) \in S \cup {0} /\ \A m \in S : m <= Chats!LargestIn(S)
  BY <1>2, <1>3 DEF Chats!LargestIn
<1>5. PICK l : l = Chats!LargestIn(S)
  OBVIOUS
<1>6. l \in Nat /\ l <= b
  <2>1. CASE l \in S
    <3>1. l <= b /\ l \in Nat
      BY <2>1
    <3> QED BY <3>1
  <2>2. CASE l = 0
    BY <2>2
  <2> HIDE DEF T
  <2> QED BY <1>4, <1>5, <2>1, <2>2
<1> QED BY <1>4, <1>5, <1>6

LEMMA SessionsBegin == Chats!SessionStoreAssumption /\ Chats!Init => SessionInv
<1> SUFFICES ASSUME Chats!SessionStoreAssumption, Chats!Init PROVE SessionInv
  OBVIOUS
<1>1. /\ Chats!NoSession \in SessionRows /\ Chats!NoSession.made = 0 /\ Chats!NoSession.own = <<>>
      /\ MaxCreated \in Nat /\ MaxMessages \in Nat
  BY RowsAre DEF Chats!SessionStoreAssumption
<1>2. sessions \in SessionTables /\ \A t \in Chats!SessionIds : sessions[t] = Chats!NoSession
  BY <1>1 DEF Chats!Init, SessionTables
<1>3. Chats!NoFork \in ForkRows /\ Chats!NoFork.at = "idle"
  <2>1. <<>> \in Seq(1..MaxMessages) /\ Chats!NoId \in Chats!Ids
    BY DEF Chats!Ids
  <2> QED BY <1>1, <2>1 DEF Chats!NoFork, ForkRows, Chats!NoId
<1>4. fork \in [Forks -> ForkRows] /\ \A f \in Forks : fork[f] = Chats!NoFork
  BY <1>3 DEF Chats!Init
<1>5. created = 0 /\ appended = 0
  BY DEF Chats!Init
<1>6. SessionsType
  BY <1>1, <1>2, <1>3, <1>4, <1>5 DEF SessionsType
<1>7. RowsSound(sessions)
  <2>1. Good(sessions) \subseteq Chats!SessionIds
    BY DEF Good
  <2>2. \A s \in Chats!SessionIds : sessions[s].made = 0 /\ sessions[s].own = <<>>
    BY <1>1, <1>2
  <2>3. Ordered(sessions)
    BY <2>2 DEF Ordered
  <2>4. UniqueIds(sessions)
    <3>1. \A s \in Chats!SessionIds : DOMAIN sessions[s].own = {}
      BY <2>2
    <3> QED BY <3>1 DEF UniqueIds
  <2>5. Anchored(sessions) /\ Inherited(sessions)
    BY <2>1, <2>2 DEF Anchored, Inherited
  <2> QED BY <2>3, <2>4, <2>5 DEF RowsSound
<1> QED BY <1>3, <1>4, <1>6, <1>7 DEF SessionInv, ForkSound

\* A session more: what the others read stays.
LEMMA InsertSound ==
  ASSUME Chats!SessionStoreAssumption, SessionInv, NEW session \in SessionRows, Chats!Insert(session), session.own = <<>>,
         session.parent = Chats!NoId => session.inherits = <<>>,
         session.parent # Chats!NoId /\ ~session.late =>
           /\ sessions[session.parent].made # 0
           /\ session.parent \in Good(sessions) =>
                /\ Has(session.through, Told(sessions, session.parent))
                /\ Chats!Identities(Chats!takeThrough(session.through, Told(sessions, session.parent))) = session.inherits
  PROVE  /\ sessions' \in SessionTables /\ created' \in 0..MaxCreated /\ created' = created + 1 /\ RowsSound(sessions')
         /\ \A t \in Chats!SessionIds : /\ sessions'[t].made <= created'
                                        /\ sessions'[t].made = 0 => sessions'[t] = Chats!NoSession
                                        /\ \A i \in DOMAIN sessions'[t].own : sessions'[t].own[i].id <= appended
         /\ \A q : ForkSound(sessions, q) /\ (q.at = "found" => q.source \in Chats!SessionIds /\ q.made # 0 /\ q.made <= created) => ForkSound(sessions', q)
<1>1. /\ sessions \in SessionTables /\ created \in Nat /\ created <= MaxCreated /\ MaxSessions \in Nat /\ MaxCreated \in Nat
      /\ Ordered(sessions) /\ UniqueIds(sessions) /\ Anchored(sessions) /\ Inherited(sessions)
      /\ \A t \in Chats!SessionIds : /\ sessions[t].made <= created
                                     /\ sessions[t].made = 0 => sessions[t] = Chats!NoSession
                                     /\ \A i \in DOMAIN sessions[t].own : sessions[t].own[i].id <= appended
  BY DEF SessionInv, SessionsType, RowsSound, Chats!SessionStoreAssumption
<1>2. \A t \in Chats!SessionIds : sessions[t] \in SessionRows /\ sessions[t].made \in Nat /\ sessions[t].parent \in Chats!Ids
  <2>1. \A t \in Chats!SessionIds : sessions[t] \in SessionRows
    BY <1>1 DEF SessionTables
  <2> QED BY <2>1 DEF SessionRows
<1>3. PICK n : n = Chats!nextSessionId
  OBVIOUS
<1>4. n \in Chats!SessionIds /\ created < MaxCreated /\ created' = created + 1
      /\ sessions' = [sessions EXCEPT ![n] = [session EXCEPT !.made = created + 1]]
  BY <1>3 DEF Chats!Insert
<1>5. sessions[n].made = 0
  <2>1. PICK S : S = {s \in Chats!SessionIds : Chats!Exists(s)}
    OBVIOUS
  <2>2. S \in SUBSET Nat /\ \A m \in S : m <= MaxSessions
    BY <2>1 DEF Chats!SessionIds
  <2>3. Chats!LargestIn(S) \in Nat /\ \A m \in S : m <= Chats!LargestIn(S)
    BY <1>1, <2>2, LargestIs
  <2>4. n = Chats!LargestIn(S) + 1
    BY <1>3, <2>1 DEF Chats!nextSessionId
  <2>5. n \notin S
    BY <2>3, <2>4
  <2> QED BY <1>4, <2>1, <2>5 DEF Chats!Exists
<1>6. PICK made \in Nat : made = created + 1 /\ made \in 0..MaxCreated /\ made # 0 /\ made > created
  BY <1>1, <1>4
<1>7. PICK r : r = [session EXCEPT !.made = made]
  OBVIOUS
<1>8. /\ r \in SessionRows /\ r.made = made /\ r.parent = session.parent /\ r.through = session.through /\ r.own = session.own
      /\ r.inherits = session.inherits /\ r.late = session.late
  BY <1>6, <1>7 DEF SessionRows
<1>9. PICK new : new = sessions'
  OBVIOUS
<1>10. new \in SessionTables /\ new[n] = r /\ \A t \in Chats!SessionIds \ {n} : new[t] = sessions[t]
  BY <1>1, <1>4, <1>6, <1>7, <1>8, <1>9 DEF SessionTables
<1> DEFINE K == {t \in Chats!SessionIds : sessions[t].made # 0}
<1>11. SessionsUnmoved(sessions, new, K)
  <2>1. \A t \in K : t # n
    BY <1>5
  <2> QED BY <1>1, <1>2, <1>10, <2>1 DEF SessionsUnmoved, Ordered, Chats!Ids
<1>12. session.parent \in Chats!Ids /\ session.late \in BOOLEAN
  BY DEF SessionRows
<1>13. Ordered(new)
  <2>1. SUFFICES ASSUME NEW t \in Chats!SessionIds, new[t].made # 0, ~new[t].late, new[t].parent # Chats!NoId
                 PROVE  new[new[t].parent].made # 0 /\ new[new[t].parent].made < new[t].made
    BY DEF Ordered
  <2>2. PICK p : p = new[t].parent
    OBVIOUS
  <2>3. CASE t = n
    <3>1. p \in Chats!SessionIds /\ sessions[p].made # 0 /\ p # n
      BY <1>5, <1>8, <1>10, <1>12, <2>1, <2>2, <2>3 DEF Chats!Ids
    <3>2. new[p] = sessions[p] /\ sessions[p].made <= created /\ sessions[p].made \in Nat
      BY <1>1, <1>2, <1>10, <3>1
    <3>3. sessions[p].made < made
      BY <1>1, <1>6, <3>2
    <3> QED BY <1>8, <1>10, <2>2, <2>3, <3>1, <3>2, <3>3
  <2>4. CASE t # n
    <3>1. new[t] = sessions[t] /\ t \in K
      BY <1>10, <2>1, <2>4
    <3>2. p \in Chats!SessionIds /\ sessions[p].made # 0 /\ sessions[p].made < sessions[t].made
      BY <1>1, <1>2, <2>1, <2>2, <3>1 DEF Ordered, Chats!Ids
    <3>3. p # n
      BY <1>5, <3>2
    <3> QED BY <1>10, <2>2, <3>1, <3>2, <3>3
  <2> QED BY <2>3, <2>4
<1>14. UniqueIds(new)
  <2>1. DOMAIN new[n].own = {}
    <3>1. new[n].own = <<>>
      BY <1>8, <1>10
    <3> QED BY <3>1
  <2> QED BY <1>1, <1>10, <2>1 DEF UniqueIds
<1>15. /\ \A t \in Good(new) \cap K : /\ new[t].parent # Chats!NoId => Has(new[t].through, Told(new, new[t].parent))
                                      /\ Inherits(new, t)
       /\ \A q : ForkSound(sessions, q) /\ (q.source \in K \/ q.source \notin Good(new) \/ new[q.source].made # q.made) => ForkSound(new, q)
  <2>1. K \in SUBSET Chats!SessionIds
    OBVIOUS
  <2>2. MaxSessions \in Nat /\ sessions \in SessionTables /\ new \in SessionTables /\ Ordered(sessions) /\ Anchored(sessions) /\ Inherited(sessions)
    BY <1>1, <1>10
  <2>3. PICK table \in SessionTables : table = sessions
    BY <2>2
  <2> HIDE DEF K
  <2>4. Ordered(table) /\ Ordered(new) /\ Anchored(table) /\ Inherited(table) /\ SessionsUnmoved(table, new, K)
    BY <1>11, <1>13, <2>2, <2>3
  <2>5. /\ \A t \in Good(new) \cap K : /\ new[t].parent # Chats!NoId => Has(new[t].through, Told(new, new[t].parent))
                                       /\ Inherits(new, t)
        /\ \A q : ForkSound(table, q) /\ (q.source \in K \/ q.source \notin Good(new) \/ new[q.source].made # q.made) => ForkSound(new, q)
    BY <2>1, <2>2, <2>4, StaysSound
  <2> QED BY <2>3, <2>5
<1>16. ASSUME n \in Good(new)
       PROVE  /\ new[n].parent # Chats!NoId => Has(new[n].through, Told(new, new[n].parent))
              /\ Inherits(new, n)
  <2>0. new[n].made # 0 /\ new[n].own = <<>> /\ Chats!Identities(<<>>) = <<>> /\ ~new[n].late
    BY <1>1, <1>6, <1>8, <1>10, <1>16, GoodIs, IdentitiesAre
  <2>1. CASE session.parent = Chats!NoId
    <3>1. Told(new, n) = <<>>
      BY <1>1, <1>8, <1>10, <1>13, <1>16, <2>0, <2>1, ToldIs
    <3>2. new[n].inherits = <<>> /\ new[n].parent = Chats!NoId
      BY <1>8, <1>10, <2>1
    <3>3. <<>> \o <<>> = <<>>
      OBVIOUS
    <3> QED BY <2>0, <3>1, <3>2, <3>3 DEF Inherits
  <2>2. CASE session.parent # Chats!NoId
    <3>1. PICK p \in Chats!SessionIds : p = session.parent
      BY <1>12, <2>2 DEF Chats!Ids
    <3>2. new[n].parent = p /\ new[n].through = session.through /\ new[n].inherits = session.inherits /\ p \in Good(new)
      BY <1>1, <1>8, <1>10, <1>16, <2>2, <3>1, GoodIs
    <3>3. sessions[p].made # 0 /\ p \in K
      BY <1>8, <1>10, <2>0, <2>2, <3>1
    <3>4. p \in Good(sessions) /\ Told(new, p) = Told(sessions, p)
      <4>1. K \in SUBSET Chats!SessionIds
        OBVIOUS
      <4>2. p \in K
        BY <3>3
      <4> HIDE DEF K
      <4> QED BY <1>1, <1>10, <1>11, <1>13, <3>2, <4>1, <4>2, ToldStays
    <3>5. /\ Has(session.through, Told(new, p))
          /\ Chats!Identities(Chats!takeThrough(session.through, Told(new, p))) = session.inherits
      BY <1>8, <1>10, <2>0, <2>2, <3>1, <3>4
    <3>6. PICK h \in Seq(Chats!Message) : h = Chats!takeThrough(session.through, Told(new, p))
      BY <1>1, <1>10, ToldType, TakeType
    <3>7. Told(new, n) = h \o <<>>
      BY <1>1, <1>10, <1>13, <1>16, <2>0, <2>2, <3>1, <3>2, <3>6, ToldIs
    <3>8. h \o <<>> = h
      OBVIOUS
    <3>9. PICK a \in Seq(1..MaxMessages) : a = Chats!Identities(h)
      BY IdentitiesAre
    <3>10. a \o <<>> = a
      OBVIOUS
    <3> QED BY <2>0, <3>2, <3>5, <3>6, <3>7, <3>8, <3>9, <3>10 DEF Inherits
  <2> QED BY <2>1, <2>2
<1>17. \A t \in Good(new) : new[t].made # 0 => t = n \/ t \in Good(new) \cap K
  <2>1. \A t \in Good(new) : t \in Chats!SessionIds
    BY DEF Good
  <2> QED BY <1>10, <2>1
<1>18. RowsSound(new)
  <2> HIDE DEF K
  <2>1. Anchored(new)
    BY <1>15, <1>16, <1>17 DEF Anchored
  <2>2. Inherited(new)
    <3>1. ASSUME NEW t \in Good(new), new[t].made # 0 PROVE Inherits(new, t)
      <4>1. CASE t = n
        BY <1>16, <3>1, <4>1
      <4>2. CASE t \in Good(new) \cap K
        BY <1>15, <4>2
      <4> QED BY <1>17, <3>1, <4>1, <4>2
    <3> QED BY <3>1 DEF Inherited
  <2> QED BY <1>13, <1>14, <2>1, <2>2 DEF RowsSound
<1>19. ASSUME NEW q, ForkSound(sessions, q), q.at = "found" => q.source \in Chats!SessionIds /\ q.made # 0 /\ q.made <= created PROVE ForkSound(new, q)
  <2>1. CASE q.at # "found"
    BY <2>1 DEF ForkSound
  <2>2. CASE q.at = "found"
    <3>1. q.source = n => new[q.source].made # q.made
      <4>1. new[n].made = made /\ ~(made <= created)
        BY <1>1, <1>6, <1>8, <1>10
      <4> QED BY <1>19, <2>2, <4>1
    <3>2. q.source # n => new[q.source] = sessions[q.source]
      BY <1>10, <1>19, <2>2
    <3>3. q.source \in K \/ new[q.source].made # q.made
      BY <1>19, <2>2, <3>1, <3>2
    <3> HIDE DEF K
    <3> QED BY <1>15, <1>19, <3>3
  <2> QED BY <2>1, <2>2
<1>20. ASSUME NEW t \in Chats!SessionIds
       PROVE  /\ new[t].made <= made
              /\ new[t].made = 0 => new[t] = Chats!NoSession
              /\ \A i \in DOMAIN new[t].own : new[t].own[i].id <= appended
  <2>1. CASE t = n
    <3>1. new[t].own = <<>> /\ new[t].made = made
      BY <1>8, <1>10, <2>1
    <3> QED BY <1>6, <3>1
  <2>2. CASE t # n
    <3>1. new[t] = sessions[t] /\ sessions[t].made \in Nat
      BY <1>2, <1>10, <2>2
    <3> QED BY <1>1, <1>6, <3>1
  <2> QED BY <2>1, <2>2
<1> QED BY <1>4, <1>6, <1>9, <1>10, <1>18, <1>19, <1>20

ForksSound(table, forks) == \A f \in Forks : ForkSound(table, forks[f])

\* What is known of the rows, and of the forks that are being made.
RowsFit(table, made, told) ==
  \A t \in Chats!SessionIds : /\ table[t].made <= made
                              /\ table[t].made = 0 => table[t] = Chats!NoSession
                              /\ \A i \in DOMAIN table[t].own : table[t].own[i].id <= told
ForksFit(forks, made) ==
  \A f \in Forks : forks[f].at = "found" => forks[f].source \in Chats!SessionIds /\ forks[f].made # 0 /\ forks[f].made <= made

LEMMA SessionInvIs ==
  SessionInv <=> /\ sessions \in SessionTables /\ fork \in [Forks -> ForkRows] /\ created \in 0..MaxCreated /\ appended \in 0..MaxMessages
                 /\ RowsFit(sessions, created, appended) /\ ForksFit(fork, created)
                 /\ RowsSound(sessions) /\ ForksSound(sessions, fork)
  BY DEF SessionInv, SessionsType, RowsFit, ForksFit, ForksSound

LEMMA SessionInvNext ==
  ASSUME sessions' \in SessionTables, fork' \in [Forks -> ForkRows], created' \in 0..MaxCreated, appended' \in 0..MaxMessages,
         RowsFit(sessions', created', appended'), ForksFit(fork', created'),
         RowsSound(sessions'), ForksSound(sessions', fork')
  PROVE  SessionInv'
<1>1. \A t \in Chats!SessionIds : /\ sessions'[t].made <= created'
                                  /\ sessions'[t].made = 0 => sessions'[t] = Chats!NoSession
                                  /\ \A i \in DOMAIN sessions'[t].own : sessions'[t].own[i].id <= appended'
  BY DEF RowsFit
<1>2. \A f \in Forks : fork'[f].at = "found" => fork'[f].source \in Chats!SessionIds /\ fork'[f].made # 0 /\ fork'[f].made <= created'
  BY DEF ForksFit
<1>3. \A f \in Forks : ForkSound(sessions', fork'[f])
  BY DEF ForksSound
<1> QED BY <1>1, <1>2, <1>3 DEF SessionInv, SessionsType

LEMMA SessionsStay == SessionInv /\ UNCHANGED Chats!vars => SessionInv'
<1> SUFFICES ASSUME SessionInv, UNCHANGED Chats!vars PROVE SessionInv'
  OBVIOUS
<1>1. sessions' = sessions /\ fork' = fork /\ created' = created /\ appended' = appended
  BY DEF Chats!vars
<1>2. sessions' \in SessionTables /\ fork' \in [Forks -> ForkRows] /\ created' \in 0..MaxCreated /\ appended' \in 0..MaxMessages
  BY <1>1, SessionInvIs
<1>3. RowsFit(sessions', created', appended') /\ ForksFit(fork', created') /\ RowsSound(sessions') /\ ForksSound(sessions', fork')
  BY <1>1, SessionInvIs
<1> QED BY <1>2, <1>3, SessionInvNext

\* createSession
LEMMA CreateKeeps == ASSUME Chats!SessionStoreAssumption, SessionInv, Chats!createSession PROVE SessionInv'
<1>1. Chats!Insert(Chats!NoSession) /\ fork' = fork /\ appended' = appended
  BY DEF Chats!createSession
<1>2. PICK session \in SessionRows : session = Chats!NoSession /\ session.own = <<>> /\ session.parent = Chats!NoId /\ session.inherits = <<>> /\ ~session.late
  BY RowsAre
<1>3. /\ sessions' \in SessionTables /\ created' \in 0..MaxCreated /\ created' = created + 1 /\ RowsSound(sessions')
      /\ \A t \in Chats!SessionIds : /\ sessions'[t].made <= created'
                                     /\ sessions'[t].made = 0 => sessions'[t] = Chats!NoSession
                                     /\ \A i \in DOMAIN sessions'[t].own : sessions'[t].own[i].id <= appended
      /\ \A q : ForkSound(sessions, q) /\ (q.at = "found" => q.source \in Chats!SessionIds /\ q.made # 0 /\ q.made <= created) => ForkSound(sessions', q)
  BY <1>1, <1>2, InsertSound
<1>4. fork \in [Forks -> ForkRows] /\ created \in Nat /\ appended \in 0..MaxMessages /\ ForksFit(fork, created) /\ ForksSound(sessions, fork)
  BY SessionInvIs DEF Chats!SessionStoreAssumption
<1>5. \A f \in Forks : fork[f].made \in Nat
  <2>1. \A f \in Forks : fork[f] \in ForkRows
    BY <1>4
  <2> QED BY <2>1 DEF ForkRows
<1>6. ForksFit(fork', created')
  BY <1>1, <1>3, <1>4, <1>5 DEF ForksFit
<1>7. ForksSound(sessions', fork')
  BY <1>1, <1>3, <1>4 DEF ForksFit, ForksSound
<1>8. RowsFit(sessions', created', appended')
  BY <1>1, <1>3 DEF RowsFit
<1>9. fork' \in [Forks -> ForkRows] /\ appended' \in 0..MaxMessages
  BY <1>1, <1>4
<1> QED BY <1>3, <1>6, <1>7, <1>8, <1>9, SessionInvNext

\* forkSession inserts the fork of what it found.
LEMMA ForkInsertsKeeps == ASSUME Chats!SessionStoreAssumption, SessionInv, NEW f \in Forks, Chats!ForkInserts(f) PROVE SessionInv'
<1>1. fork \in [Forks -> ForkRows] /\ created \in Nat /\ appended \in 0..MaxMessages /\ ForksFit(fork, created) /\ ForksSound(sessions, fork)
      /\ sessions \in SessionTables
  BY SessionInvIs DEF Chats!SessionStoreAssumption
<1>2. PICK q \in ForkRows : q = fork[f]
  BY <1>1
<1>3. q.at = "found" /\ q.source \in Chats!SessionIds /\ q.made # 0 /\ q.made <= created /\ ForkSound(sessions, q)
  BY <1>1, <1>2 DEF Chats!ForkInserts, ForksFit, ForksSound
<1>4. /\ Chats!Insert([Chats!NoSession EXCEPT !.parent = q.source, !.through = q.through, !.inherits = q.inherits,
                                  !.late = sessions[q.source].made # q.made])
      /\ fork' = [fork EXCEPT ![f] = Chats!NoFork] /\ appended' = appended
  BY <1>2 DEF Chats!ForkInserts
<1>5. PICK lateNow \in BOOLEAN : lateNow = (sessions[q.source].made # q.made)
  OBVIOUS
<1>6. PICK session : session = [Chats!NoSession EXCEPT !.parent = q.source, !.through = q.through, !.inherits = q.inherits, !.late = lateNow]
  OBVIOUS
<1>7. /\ session \in SessionRows /\ session.own = <<>> /\ session.parent = q.source /\ session.through = q.through
      /\ session.inherits = q.inherits /\ session.late = lateNow
  <2>1. Chats!NoSession \in SessionRows /\ Chats!NoSession.own = <<>>
    BY RowsAre
  <2>2. q.source \in Chats!Ids /\ q.through \in 0..MaxMessages /\ q.inherits \in Seq(1..MaxMessages)
    BY DEF ForkRows
  <2> QED BY <1>6, <2>1, <2>2 DEF SessionRows
<1>8. Chats!Insert(session)
  BY <1>4, <1>5, <1>6
<1>9. session.parent # Chats!NoId
  BY <1>3, <1>7 DEF Chats!SessionIds, Chats!NoId
<1>10. ~session.late =>
         /\ sessions[session.parent].made # 0
         /\ session.parent \in Good(sessions) =>
              /\ Has(session.through, Told(sessions, session.parent))
              /\ Chats!Identities(Chats!takeThrough(session.through, Told(sessions, session.parent))) = session.inherits
  BY <1>3, <1>5, <1>7 DEF ForkSound
<1>11. /\ sessions' \in SessionTables /\ created' \in 0..MaxCreated /\ created' = created + 1 /\ RowsSound(sessions')
       /\ \A t \in Chats!SessionIds : /\ sessions'[t].made <= created'
                                      /\ sessions'[t].made = 0 => sessions'[t] = Chats!NoSession
                                      /\ \A i \in DOMAIN sessions'[t].own : sessions'[t].own[i].id <= appended
       /\ \A r : ForkSound(sessions, r) /\ (r.at = "found" => r.source \in Chats!SessionIds /\ r.made # 0 /\ r.made <= created) => ForkSound(sessions', r)
  BY <1>7, <1>8, <1>9, <1>10, InsertSound
<1>12. Chats!NoFork \in ForkRows /\ Chats!NoFork.at = "idle"
  <2>1. <<>> \in Seq(1..MaxMessages) /\ Chats!NoId \in Chats!Ids
    BY DEF Chats!Ids
  <2> QED BY <2>1 DEF Chats!NoFork, ForkRows, Chats!NoId, Chats!SessionStoreAssumption
<1>13. \A g \in Forks : fork'[g] = Chats!NoFork \/ fork'[g] = fork[g]
  BY <1>1, <1>4
<1>14. \A g \in Forks : fork[g].made \in Nat
  <2>1. \A g \in Forks : fork[g] \in ForkRows
    BY <1>1
  <2> QED BY <2>1 DEF ForkRows
<1>15. ForksFit(fork', created')
  BY <1>1, <1>11, <1>12, <1>13, <1>14 DEF ForksFit
<1>16. ForksSound(sessions', fork')
  <2>1. \A g \in Forks : ForkSound(sessions', fork[g])
    BY <1>1, <1>11 DEF ForksFit, ForksSound
  <2>2. ForkSound(sessions', Chats!NoFork)
    BY <1>12 DEF ForkSound
  <2> QED BY <1>13, <2>1, <2>2 DEF ForksSound
<1>17. RowsFit(sessions', created', appended')
  BY <1>4, <1>11 DEF RowsFit
<1>18. fork' \in [Forks -> ForkRows] /\ appended' \in 0..MaxMessages
  BY <1>1, <1>4, <1>12
<1> QED BY <1>11, <1>15, <1>16, <1>17, <1>18, SessionInvNext

\* appendMessage
LEMMA AppendKeeps == ASSUME Chats!SessionStoreAssumption, SessionInv, NEW s \in Chats!SessionIds, Chats!appendMessage(s) PROVE SessionInv'
<1>1. /\ fork \in [Forks -> ForkRows] /\ created \in 0..MaxCreated /\ appended \in Nat /\ ForksFit(fork, created) /\ ForksSound(sessions, fork)
      /\ sessions \in SessionTables /\ RowsFit(sessions, created, appended) /\ MaxMessages \in Nat /\ MaxSessions \in Nat
      /\ Ordered(sessions) /\ UniqueIds(sessions) /\ Anchored(sessions) /\ Inherited(sessions)
  BY SessionInvIs DEF Chats!SessionStoreAssumption, RowsSound
<1>2. PICK table \in SessionTables : table = sessions
  BY <1>1
<1>3. /\ table[s].made # 0 /\ appended < MaxMessages /\ appended' = appended + 1 /\ fork' = fork /\ created' = created
      /\ sessions' = [table EXCEPT ![s].own = Append(@, [id |-> Chats!nextMessageId(s), made |-> appended + 1])]
  BY <1>2 DEF Chats!appendMessage, Chats!Exists
<1>4. /\ Chats!nextMessageId(s) \in 1..(appended + 1)
      /\ \A t \in Chats!SessionIds : \A i \in DOMAIN table[t].own : table[t].own[i].id < Chats!nextMessageId(s)
  <2>1. PICK S : S = Chats!MessageIds(s)
    OBVIOUS
  <2>2. \A t \in Chats!SessionIds : \A i \in DOMAIN table[t].own : table[t].own[i].id \in S
    BY <1>2, <2>1 DEF Chats!MessageIds, Chats!MessageIdsOf
  <2>3. \A m \in S : \E t \in Chats!SessionIds : \E i \in DOMAIN table[t].own : m = table[t].own[i].id
    BY <1>2, <2>1 DEF Chats!MessageIds, Chats!MessageIdsOf
  <2>4. ASSUME NEW t \in Chats!SessionIds, NEW i \in DOMAIN table[t].own PROVE table[t].own[i].id \in Nat
    <3>1. PICK own \in Seq(Chats!Message) : own = table[t].own
      BY DEF SessionTables, SessionRows
    <3>2. own[i] \in Chats!Message
      BY <2>4, <3>1
    <3> QED BY <3>1, <3>2 DEF Chats!Message
  <2>5. S \in SUBSET Nat
    BY <2>3, <2>4
  <2>6. \A m \in S : m <= appended
    BY <1>1, <1>2, <2>3 DEF RowsFit
  <2>7. Chats!LargestIn(S) \in Nat /\ Chats!LargestIn(S) <= appended /\ \A m \in S : m <= Chats!LargestIn(S)
    BY <1>1, <2>5, <2>6, LargestIs
  <2>8. Chats!nextMessageId(s) = Chats!LargestIn(S) + 1
    BY <2>1 DEF Chats!nextMessageId
  <2>9. \A m \in S : m < Chats!LargestIn(S) + 1
    BY <2>5, <2>7
  <2>10. Chats!LargestIn(S) + 1 \in 1..(appended + 1)
    BY <1>1, <2>7
  <2> QED BY <2>2, <2>8, <2>9, <2>10
<1>5. PICK x : x = [id |-> Chats!nextMessageId(s), made |-> appended + 1]
  OBVIOUS
<1>6. x \in Chats!Message /\ x.id = Chats!nextMessageId(s) /\ x.id <= appended + 1
  <2>1. appended + 1 \in 1..MaxMessages
    BY <1>1, <1>3
  <2>2. Chats!nextMessageId(s) \in 1..MaxMessages /\ Chats!nextMessageId(s) <= appended + 1
    BY <1>1, <1>4, <2>1
  <2> QED BY <1>5, <2>1, <2>2 DEF Chats!Message
<1>7. PICK new \in SessionTables : new = RowAppended(table, s, x) /\ new = sessions'
  <2>1. sessions' = RowAppended(table, s, x)
    BY <1>3, <1>5 DEF RowAppended
  <2>2. PICK new : new = RowAppended(table, s, x)
    OBVIOUS
  <2>3. new \in SessionTables
    BY <1>6, <2>2, AppendedIs
  <2> QED BY <2>1, <2>2, <2>3
<1>8. /\ Ordered(new) /\ UniqueIds(new) /\ Anchored(new) /\ Inherited(new)
      /\ \A q : ForkSound(table, q) /\ q.source \in Chats!SessionIds /\ q.made # 0 => ForkSound(new, q)
  <2>1. \A t \in Chats!SessionIds : \A i \in DOMAIN table[t].own : table[t].own[i].id # x.id
    <3> TAKE t \in Chats!SessionIds
    <3> TAKE i \in DOMAIN table[t].own
    <3>1. PICK own \in Seq(Chats!Message) : own = table[t].own
      BY DEF SessionTables, SessionRows
    <3>2. own[i] \in Chats!Message
      BY <3>1
    <3>3. table[t].own[i].id \in Nat /\ table[t].own[i].id < x.id /\ x.id \in Nat
      BY <1>4, <1>6, <3>1, <3>2 DEF Chats!Message
    <3> QED BY <3>3
  <2>2. Ordered(table) /\ UniqueIds(table) /\ Anchored(table) /\ Inherited(table)
    BY <1>1, <1>2
  <2> QED BY <1>1, <1>3, <1>6, <1>7, <2>1, <2>2, AppendSound
<1>9. /\ \A t \in Chats!SessionIds \ {s} : new[t] = table[t]
      /\ new[s].made = table[s].made /\ new[s].own = Append(table[s].own, x)
  <2>1. x \in Chats!Message /\ new = RowAppended(table, s, x)
    BY <1>6, <1>7
  <2> QED BY <2>1, AppendedIs
<1>10. RowsFit(new, created, appended + 1)
  <2>1. SUFFICES ASSUME NEW t \in Chats!SessionIds
                 PROVE  /\ new[t].made <= created
                        /\ new[t].made = 0 => new[t] = Chats!NoSession
                        /\ \A i \in DOMAIN new[t].own : new[t].own[i].id <= appended + 1
    BY DEF RowsFit
  <2>2. /\ table[t].made <= created
        /\ table[t].made = 0 => table[t] = Chats!NoSession
        /\ \A i \in DOMAIN table[t].own : table[t].own[i].id <= appended
    BY <1>1, <1>2 DEF RowsFit
  <2>3. PICK own \in Seq(Chats!Message) : own = table[t].own
    BY DEF SessionTables, SessionRows
  <2>4. DOMAIN own = 1..Len(own) /\ Len(own) \in Nat /\ \A i \in DOMAIN own : own[i].id \in Nat
    <3>1. \A i \in DOMAIN own : own[i] \in Chats!Message
      OBVIOUS
    <3> QED BY <3>1 DEF Chats!Message
  <2>5. CASE t # s
    <3>1. new[t] = table[t]
      BY <1>9, <2>5
    <3>2. \A i \in DOMAIN table[t].own : table[t].own[i].id <= appended + 1
      <4> TAKE i \in DOMAIN table[t].own
      <4>1. table[t].own[i].id \in Nat /\ table[t].own[i].id <= appended
        BY <2>2, <2>3, <2>4
      <4> QED BY <1>1, <4>1
    <3> QED BY <2>2, <3>1, <3>2
  <2>6. CASE t = s
    <3>1. new[t].made = table[t].made /\ new[t].own = Append(own, x)
      BY <1>9, <2>3, <2>6
    <3>2. PICK g : g = Append(own, x)
      OBVIOUS
    <3>3. DOMAIN g = 1..(Len(own) + 1) /\ (\A i \in 1..Len(own) : g[i] = own[i]) /\ g[Len(own) + 1] = x
      BY <1>6, <2>4, <3>2
    <3>4. \A i \in DOMAIN g : g[i].id <= appended + 1
      <4> TAKE i \in DOMAIN g
      <4>1. i \in DOMAIN own \/ i = Len(own) + 1
        BY <2>4, <3>3
      <4>2. CASE i \in DOMAIN own
        <5>1. own[i].id <= appended /\ own[i].id \in Nat /\ g[i] = own[i]
          BY <2>2, <2>3, <2>4, <3>3, <4>2
        <5> QED BY <1>1, <5>1
      <4>3. CASE i = Len(own) + 1
        BY <1>6, <3>3, <4>3
      <4> QED BY <4>1, <4>2, <4>3
    <3> QED BY <1>3, <2>2, <2>6, <3>1, <3>2, <3>4
  <2> QED BY <2>5, <2>6
<1>11. ForksSound(new, fork)
  <2>1. SUFFICES ASSUME NEW f \in Forks PROVE ForkSound(new, fork[f])
    BY DEF ForksSound
  <2>2. CASE fork[f].at = "found"
    BY <1>1, <1>2, <1>8, <2>2 DEF ForksFit, ForksSound
  <2>3. CASE fork[f].at # "found"
    BY <2>3 DEF ForkSound
  <2> QED BY <2>2, <2>3
<1>12. sessions' \in SessionTables /\ fork' \in [Forks -> ForkRows] /\ created' \in 0..MaxCreated /\ appended' \in 0..MaxMessages
  BY <1>1, <1>3, <1>7
<1>13. RowsFit(sessions', created', appended') /\ ForksFit(fork', created') /\ ForksSound(sessions', fork')
  BY <1>1, <1>3, <1>7, <1>10, <1>11
<1>14. RowsSound(sessions')
  BY <1>7, <1>8 DEF RowsSound
<1> QED BY <1>12, <1>13, <1>14, SessionInvNext

\* deleteSession
LEMMA DeleteKeeps == ASSUME Chats!SessionStoreAssumption, SessionInv, NEW s \in Chats!SessionIds, Chats!deleteSession(s) PROVE SessionInv'
<1>1. /\ fork \in [Forks -> ForkRows] /\ created \in 0..MaxCreated /\ appended \in 0..MaxMessages /\ ForksFit(fork, created) /\ ForksSound(sessions, fork)
      /\ sessions \in SessionTables /\ RowsFit(sessions, created, appended) /\ MaxSessions \in Nat /\ MaxCreated \in Nat
      /\ Ordered(sessions) /\ UniqueIds(sessions) /\ Anchored(sessions) /\ Inherited(sessions)
  BY SessionInvIs DEF Chats!SessionStoreAssumption, RowsSound
<1>2. PICK table \in SessionTables : table = sessions
  BY <1>1
<1>3. PICK D : D = Below(table, s)[MaxSessions]
  OBVIOUS
<1>4. s \in D /\ \A t \in Chats!SessionIds : table[t].made # 0 /\ table[t].parent \in D => t \in D
  BY <1>1, <1>3, DescendantsClosed
<1>5. /\ sessions' = [t \in Chats!SessionIds |-> IF t \in D THEN Chats!NoSession ELSE table[t]]
      /\ fork' = fork /\ created' = created /\ appended' = appended
  BY <1>2, <1>3, DescendantsAre DEF Chats!deleteSession
<1>6. Chats!NoSession \in SessionRows /\ Chats!NoSession.made = 0 /\ Chats!NoSession.own = <<>>
  BY RowsAre
<1>7. \A t \in Chats!SessionIds : table[t] \in SessionRows /\ table[t].made \in Nat /\ table[t].parent \in Chats!Ids
  <2>1. \A t \in Chats!SessionIds : table[t] \in SessionRows
    BY DEF SessionTables
  <2> QED BY <2>1 DEF SessionRows
<1>8. PICK new \in SessionTables : new = sessions' /\ \A t \in Chats!SessionIds : new[t] = IF t \in D THEN Chats!NoSession ELSE table[t]
  BY <1>5, <1>6, <1>7 DEF SessionTables
<1>9. /\ Ordered(table) /\ UniqueIds(table) /\ Anchored(table) /\ Inherited(table) /\ RowsFit(table, created, appended)
      /\ ForksSound(table, fork)
  BY <1>1, <1>2
<1>10. PICK K \in SUBSET Chats!SessionIds : K = {t \in Chats!SessionIds : t \notin D /\ table[t].made # 0}
  OBVIOUS
<1>11. SessionsUnmoved(table, new, K)
  <2>1. ASSUME NEW t \in K PROVE new[t] = table[t] /\ table[t].made # 0
    BY <1>8, <1>10
  <2>2. ASSUME NEW t \in K, ~table[t].late, table[t].parent # Chats!NoId PROVE table[t].parent \in K
    <3>1. t \in Chats!SessionIds /\ t \notin D /\ table[t].made # 0
      BY <1>10
    <3>2. table[t].parent \in Chats!SessionIds /\ table[table[t].parent].made # 0
      BY <1>7, <1>9, <2>2, <3>1 DEF Ordered, Chats!Ids
    <3>3. table[t].parent \notin D
      BY <1>4, <3>1
    <3> QED BY <1>10, <3>2, <3>3
  <2> QED BY <2>1, <2>2 DEF SessionsUnmoved
<1>12. \A t \in Chats!SessionIds : new[t].made # 0 => t \in K /\ new[t] = table[t]
  BY <1>6, <1>8, <1>10
<1>13. Ordered(new)
  <2>1. SUFFICES ASSUME NEW t \in Chats!SessionIds, new[t].made # 0, ~new[t].late, new[t].parent # Chats!NoId
                 PROVE  new[new[t].parent].made # 0 /\ new[new[t].parent].made < new[t].made
    BY DEF Ordered
  <2>2. t \in K /\ new[t] = table[t]
    BY <1>12, <2>1
  <2>3. PICK p : p = table[t].parent
    OBVIOUS
  <2>4. p \in K /\ table[p].made < table[t].made
    BY <1>9, <1>11, <2>1, <2>2, <2>3 DEF SessionsUnmoved, Ordered
  <2>5. new[p] = table[p] /\ table[p].made # 0
    BY <1>11, <2>4 DEF SessionsUnmoved
  <2> QED BY <2>2, <2>3, <2>4, <2>5
<1>14. UniqueIds(new)
  <2>1. \A t \in Chats!SessionIds : \A i \in DOMAIN new[t].own : new[t] = table[t]
    <3>1. DOMAIN Chats!NoSession.own = {}
      BY <1>6
    <3> QED BY <1>8, <3>1
  <2> QED BY <1>9, <2>1 DEF UniqueIds
<1>15. /\ \A t \in Good(new) \cap K : /\ new[t].parent # Chats!NoId => Has(new[t].through, Told(new, new[t].parent))
                                      /\ Inherits(new, t)
       /\ \A q : ForkSound(table, q) /\ (q.source \in K \/ q.source \notin Good(new) \/ new[q.source].made # q.made) => ForkSound(new, q)
  BY <1>1, <1>9, <1>11, <1>13, StaysSound
<1>16. \A t \in Good(new) : new[t].made # 0 => t \in Good(new) \cap K
  <2>1. \A t \in Good(new) : t \in Chats!SessionIds
    BY DEF Good
  <2> QED BY <1>12, <2>1
<1>17. Anchored(new) /\ Inherited(new)
  BY <1>15, <1>16 DEF Anchored, Inherited
<1>18. ForksSound(new, fork)
  <2>1. SUFFICES ASSUME NEW f \in Forks PROVE ForkSound(new, fork[f])
    BY DEF ForksSound
  <2>2. PICK q : q = fork[f]
    OBVIOUS
  <2>3. ForkSound(table, q)
    BY <1>9, <2>2 DEF ForksSound
  <2>4. CASE q.at # "found"
    BY <2>2, <2>4 DEF ForkSound
  <2>5. CASE q.at = "found"
    <3>1. q.source \in Chats!SessionIds /\ q.made # 0
      BY <1>1, <2>2, <2>5 DEF ForksFit
    <3>2. q.source \in K \/ new[q.source].made # q.made
      <4>1. new[q.source].made # 0 => q.source \in K
        BY <1>12, <3>1
      <4> QED BY <3>1, <4>1
    <3> QED BY <1>15, <2>2, <2>3, <3>2
  <2> QED BY <2>4, <2>5
<1>19. RowsFit(new, created, appended)
  <2>1. SUFFICES ASSUME NEW t \in Chats!SessionIds
                 PROVE  /\ new[t].made <= created
                        /\ new[t].made = 0 => new[t] = Chats!NoSession
                        /\ \A i \in DOMAIN new[t].own : new[t].own[i].id <= appended
    BY DEF RowsFit
  <2>2. CASE t \in D
    <3>1. new[t] = Chats!NoSession
      BY <1>8, <2>2
    <3>2. DOMAIN Chats!NoSession.own = {}
      BY <1>6
    <3> QED BY <1>1, <1>6, <3>1, <3>2
  <2>3. CASE t \notin D
    <3>1. new[t] = table[t]
      BY <1>8, <2>3
    <3> QED BY <1>9, <3>1 DEF RowsFit
  <2> QED BY <2>2, <2>3
<1>20. sessions' \in SessionTables /\ fork' \in [Forks -> ForkRows] /\ created' \in 0..MaxCreated /\ appended' \in 0..MaxMessages
  BY <1>1, <1>5, <1>8
<1>21. RowsFit(sessions', created', appended') /\ ForksFit(fork', created') /\ ForksSound(sessions', fork')
  BY <1>1, <1>5, <1>8, <1>18, <1>19
<1>22. RowsSound(sessions')
  BY <1>8, <1>13, <1>14, <1>17 DEF RowsSound
<1> QED BY <1>20, <1>21, <1>22, SessionInvNext

LEMMA FirstPart ==
  ASSUME NEW T, NEW a \in Seq(T), NEW i \in 1..Len(a)
  PROVE  SubSeq(a, 1, i) \in Seq(T) /\ Len(SubSeq(a, 1, i)) = i /\ \A j \in 1..i : SubSeq(a, 1, i)[j] = a[j]
  OBVIOUS

\* The identities of the first messages are the first identities.
LEMMA IdentitiesOfPart ==
  ASSUME NEW h \in Seq(Chats!Message), NEW i \in 1..Len(h)
  PROVE  /\ SubSeq(Chats!Identities(h), 1, i) \in Seq(1..MaxMessages)
         /\ Chats!Identities(SubSeq(h, 1, i)) = SubSeq(Chats!Identities(h), 1, i)
<1>1. PICK a \in Seq(1..MaxMessages) : a = Chats!Identities(h) /\ Len(a) = Len(h)
  BY IdentitiesAre
<1>2. PICK g \in Seq(Chats!Message) : g = SubSeq(h, 1, i) /\ Len(g) = i /\ \A j \in 1..i : g[j] = h[j]
  BY PartIs
<1>3. PICK b \in Seq(1..MaxMessages) : b = Chats!Identities(g) /\ Len(b) = Len(g)
  BY IdentitiesAre
<1>4. PICK c : c = SubSeq(a, 1, i)
  OBVIOUS
<1>5. c \in Seq(1..MaxMessages) /\ Len(c) = i /\ \A j \in 1..i : c[j] = a[j]
  <2>1. PICK T : T = 1..MaxMessages
    OBVIOUS
  <2>2. a \in Seq(T) /\ i \in 1..Len(a)
    BY <1>1, <2>1
  <2> QED BY <1>4, <2>1, <2>2, FirstPart
<1>6. \A j \in 1..i : b[j] = c[j]
  <2> TAKE j \in 1..i
  <2>1. j \in DOMAIN g /\ j \in DOMAIN h
    BY <1>2
  <2>2. b[j] = g[j].made
    BY <1>3, <2>1 DEF Chats!Identities
  <2>3. a[j] = h[j].made
    BY <1>1, <2>1 DEF Chats!Identities
  <2> QED BY <1>2, <1>5, <2>2, <2>3
<1>7. b = c
  BY <1>2, <1>3, <1>5, <1>6
<1> QED BY <1>1, <1>2, <1>3, <1>4, <1>5, <1>7

\* forkSession reads the history of the source.
LEMMA ForkReadsKeeps == ASSUME Chats!SessionStoreAssumption, SessionInv, NEW s \in Chats!SessionIds, NEW f \in Forks, Chats!ForkReads(f, s) PROVE SessionInv'
<1>1. /\ fork \in [Forks -> ForkRows] /\ created \in 0..MaxCreated /\ appended \in 0..MaxMessages /\ ForksFit(fork, created) /\ ForksSound(sessions, fork)
      /\ sessions \in SessionTables /\ RowsFit(sessions, created, appended) /\ MaxSessions \in Nat
      /\ RowsSound(sessions) /\ Ordered(sessions) /\ UniqueIds(sessions)
  BY SessionInvIs DEF Chats!SessionStoreAssumption, RowsSound
<1>2. PICK h \in Seq(Chats!Message) : h = Told(sessions, s) /\ h = Chats!History(s)
  BY <1>1, ToldType, HistoryIs DEF Told
<1>3. PICK i \in DOMAIN h :
        fork' = [fork EXCEPT ![f] = [at |-> "found", source |-> s, through |-> h[i].id,
                   made |-> sessions[s].made, inherits |-> SubSeq(Chats!Identities(h), 1, i)]]
  BY <1>2 DEF Chats!ForkReads
<1>4. sessions' = sessions /\ created' = created /\ appended' = appended /\ sessions[s].made # 0
  BY DEF Chats!ForkReads, Chats!Exists
<1>5. i \in 1..Len(h) /\ h[i] \in Chats!Message /\ h[i].id \in 1..MaxMessages
  <2>1. i \in 1..Len(h) /\ h[i] \in Chats!Message
    OBVIOUS
  <2> QED BY <2>1 DEF Chats!Message
<1>6. PICK q : q = [at |-> "found", source |-> s, through |-> h[i].id,
                    made |-> sessions[s].made, inherits |-> SubSeq(Chats!Identities(h), 1, i)]
  OBVIOUS
<1>7. q.at = "found" /\ q.source = s /\ q.through = h[i].id /\ q.made = sessions[s].made /\ q.inherits = SubSeq(Chats!Identities(h), 1, i)
  BY <1>6
<1>8. /\ SubSeq(Chats!Identities(h), 1, i) \in Seq(1..MaxMessages)
      /\ Chats!Identities(SubSeq(h, 1, i)) = SubSeq(Chats!Identities(h), 1, i)
  BY <1>5, IdentitiesOfPart
<1>9. sessions[s].made \in 0..MaxCreated /\ sessions[s].made <= created
  <2>1. sessions[s] \in SessionRows
    BY <1>1 DEF SessionTables
  <2> QED BY <1>1, <2>1 DEF SessionRows, RowsFit
<1>10. q \in ForkRows
  <2>1. s \in Chats!Ids /\ h[i].id \in 0..MaxMessages
    BY <1>5 DEF Chats!Ids
  <2> QED BY <1>6, <1>8, <1>9, <2>1 DEF ForkRows
<1>11. fork' \in [Forks -> ForkRows] /\ \A g \in Forks : fork'[g] = q \/ fork'[g] = fork[g]
  BY <1>1, <1>3, <1>6, <1>10
<1>12. ForksFit(fork', created')
  BY <1>1, <1>4, <1>7, <1>9, <1>11 DEF ForksFit
<1>13. ForkSound(sessions, q)
  <2>1. SUFFICES ASSUME s \in Good(sessions)
                 PROVE  /\ Has(q.through, Told(sessions, s))
                        /\ Chats!Identities(Chats!takeThrough(q.through, Told(sessions, s))) = q.inherits
    BY <1>7 DEF ForkSound
  <2>2. Has(q.through, h)
    BY <1>5, <1>7 DEF Has
  <2>3. \A j \in 1..(i - 1) : h[j].id # h[i].id
    <3>1. ASSUME NEW j \in 1..(i - 1), h[j].id = h[i].id PROVE FALSE
      <4>1. j \in 1..Len(h) /\ j # i
        BY <1>5
      <4>2. PICK table \in SessionTables : table = sessions
        BY <1>1
      <4>3. j = i
        BY <1>1, <1>2, <1>4, <1>5, <2>1, <3>1, <4>1, <4>2, ToldIsDistinct
      <4> QED BY <4>1, <4>3
    <3> QED BY <3>1
  <2>4. First(q.through, h, i)
    BY <1>5, <1>7, <2>3 DEF First
  <2>5. Chats!takeThrough(q.through, h) = SubSeq(h, 1, i)
    <3>1. i \in Nat
      BY <1>5
    <3> QED BY <2>4, <3>1, TakeFirst
  <2> QED BY <1>2, <1>7, <1>8, <2>2, <2>5
<1>14. ForksSound(sessions', fork')
  BY <1>1, <1>4, <1>11, <1>13 DEF ForksSound
<1>15. sessions' \in SessionTables /\ created' \in 0..MaxCreated /\ appended' \in 0..MaxMessages /\ RowsFit(sessions', created', appended') /\ RowsSound(sessions')
  BY <1>1, <1>4
<1> QED BY <1>11, <1>12, <1>14, <1>15, SessionInvNext

\* Every step keeps what is known of the sessions.
LEMMA SessionsKeep == Chats!SessionStoreAssumption /\ SessionInv /\ [Chats!Next]_Chats!vars => SessionInv'
<1> SUFFICES ASSUME Chats!SessionStoreAssumption, SessionInv, [Chats!Next]_Chats!vars PROVE SessionInv'
  OBVIOUS
<1>1. CASE Chats!createSession
  BY <1>1, CreateKeeps
<1>2. ASSUME NEW s \in Chats!SessionIds, Chats!appendMessage(s) PROVE SessionInv'
  BY <1>2, AppendKeeps
<1>3. ASSUME NEW s \in Chats!SessionIds, Chats!deleteSession(s) PROVE SessionInv'
  BY <1>3, DeleteKeeps
<1>4. ASSUME NEW s \in Chats!SessionIds, NEW f \in Forks, Chats!ForkReads(f, s) PROVE SessionInv'
  BY <1>4, ForkReadsKeeps
<1>5. ASSUME NEW f \in Forks, Chats!ForkInserts(f) PROVE SessionInv'
  BY <1>5, ForkInsertsKeeps
<1>6. CASE UNCHANGED Chats!vars
  BY <1>6, SessionsStay
<1> QED BY <1>1, <1>2, <1>3, <1>4, <1>5, <1>6 DEF Chats!Next

\* The sessions that are not late are the good ones.
LEMMA LateOrGood == \A s \in Chats!SessionIds : ~Chats!Late(s) <=> s \in Good(sessions)
  BY LateIs DEF Good, LateSet

LEMMA SessionsSafe == Chats!SessionStoreAssumption /\ SessionInv => Chats!HistoriesAreSound
<1> SUFFICES ASSUME Chats!SessionStoreAssumption, SessionInv PROVE Chats!HistoriesAreSound
  OBVIOUS
<1>1. /\ fork \in [Forks -> ForkRows] /\ created \in 0..MaxCreated /\ appended \in 0..MaxMessages
      /\ sessions \in SessionTables /\ MaxSessions \in Nat
      /\ Ordered(sessions) /\ UniqueIds(sessions) /\ Anchored(sessions) /\ Inherited(sessions)
  BY SessionInvIs DEF Chats!SessionStoreAssumption, RowsSound
<1>2. Chats!TypeOK
  BY <1>1 DEF Chats!TypeOK, SessionTables, SessionRows, ForkRows
<1>3. Chats!ForksReadTheirHistory
  <2>1. SUFFICES ASSUME NEW s \in Chats!SessionIds, ~Chats!Late(s), sessions[s].made # 0
                 PROVE  Chats!Identities(Chats!History(s)) = sessions[s].inherits \o Chats!Identities(sessions[s].own)
    BY DEF Chats!ForksReadTheirHistory, Chats!ReadsItsHistory, Chats!Exists
  <2>2. Inherits(sessions, s)
    BY <1>1, <2>1, LateOrGood DEF Inherited
  <2>3. Chats!History(s) = Told(sessions, s)
    BY HistoryIs DEF Told
  <2> QED BY <2>2, <2>3 DEF Inherits
<1>4. Chats!MessageIdsAreUnique
  BY <1>1 DEF UniqueIds, Chats!MessageIdsAreUnique
<1>5. Chats!DeletionTakesTheForks
  <2>1. SUFFICES ASSUME NEW s \in Chats!SessionIds, Chats!Exists(s), ~Chats!Late(s), sessions[s].parent # Chats!NoId
                 PROVE  /\ Chats!Exists(sessions[s].parent)
                        /\ sessions[s].through \in {Chats!History(sessions[s].parent)[i].id : i \in DOMAIN Chats!History(sessions[s].parent)}
    BY DEF Chats!DeletionTakesTheForks
  <2>2. PICK table \in SessionTables : table = sessions
    BY <1>1
  <2>3. s \in Good(table) /\ table[s].made # 0 /\ Ordered(table) /\ Anchored(table)
    BY <1>1, <2>1, <2>2, LateOrGood DEF Chats!Exists
  <2>4. PICK p : p = table[s].parent
    OBVIOUS
  <2>5. p \in Good(table) /\ p \in Chats!SessionIds
    <3>1. ~table[s].late /\ p \in Good(table)
      BY <1>1, <2>1, <2>2, <2>3, <2>4, GoodIs
    <3> QED BY <3>1 DEF Good
  <2>6. table[p].made # 0
    <3>1. ~table[s].late
      BY <1>1, <2>3, GoodIs
    <3> QED BY <2>1, <2>2, <2>3, <2>4, <3>1 DEF Ordered
  <2>7. PICK h \in Seq(Chats!Message) : h = Told(table, p)
    BY <1>1, <2>5, ToldType
  <2>8. Has(table[s].through, h)
    BY <2>1, <2>2, <2>3, <2>4, <2>7 DEF Anchored
  <2>9. Chats!History(p) = h
    BY <2>2, <2>7, HistoryIs DEF Told
  <2>10. PICK i \in 1..Len(h) : h[i].id = table[s].through
    BY <2>8 DEF Has
  <2>11. i \in DOMAIN h
    OBVIOUS
  <2> QED BY <2>2, <2>4, <2>6, <2>9, <2>10, <2>11 DEF Chats!Exists
<1> QED BY <1>2, <1>3, <1>4, <1>5 DEF Chats!HistoriesAreSound

\* In the stores, a session and the forks of it read their own histories, every message
\* is found by its id, and a deletion takes along what depends on it, unless the source
\* was deleted while the fork was being made (forkSession, appendMessage, deleteSession,
\* loadSessionHistory).
THEOREM HistoriesStaySound == StoresSpec => []HistoriesAreSound
<1>0. Chats!SessionStoreAssumption
  BY StoresAssumption
<1>1. StoresInit => SessionInv
  BY <1>0, SessionsBegin DEF StoresInit
<1>2. SessionInv /\ [StoresNext]_storesVars => SessionInv'
  <2> SUFFICES ASSUME SessionInv, [StoresNext]_storesVars PROVE SessionInv'
    OBVIOUS
  <2>1. CASE StoredChats
    BY <1>0, <2>1, SessionsKeep DEF StoredChats
  <2>2. CASE StoredThreads \/ StoredMedia \/ UNCHANGED storesVars
    <3>1. UNCHANGED chats
      BY <2>2 DEF StoredThreads, StoredMedia, storesVars
    <3> QED BY <3>1, SessionsStay DEF chats, Chats!vars
  <2> QED BY <2>1, <2>2 DEF StoresNext
<1>3. SessionInv => HistoriesAreSound
  BY <1>0, SessionsSafe DEF HistoriesAreSound
<1> QED BY <1>1, <1>2, <1>3, PTL DEF StoresSpec

(***************************************************************************)
(* The threads: what is read back, through the cache and from the rows.    *)
(***************************************************************************)

\* Loading, with the functions it reads given.
LoadFrom(stored, c, k, parent) ==
  IF k \in Threads!CachedKeys(c) THEN [found |-> TRUE, transcript |-> Threads!Cached(c, k), cache |-> c]
  ELSE IF ~ stored[k].there THEN [found |-> FALSE, transcript |-> <<>>, cache |-> c]
  ELSE LET t == IF parent.found THEN Threads!Decoded(parent.transcript, stored[k].messages)
                ELSE stored[k].messages
       IN [found |-> TRUE, transcript |-> t, cache |-> Threads!cacheThreadNode(parent.cache, k, t)]
ParentOf(stored, c, h, k) ==
  IF stored[k].parent = Threads!NoParent THEN [found |-> FALSE, transcript |-> <<>>, cache |-> c] ELSE h[stored[k].parent]
LoadAt(stored, c, h, k) == LoadFrom(stored, c, k, ParentOf(stored, c, h, k))
LoadAll(stored, c, h) == [k \in Threads!Keys |-> LoadAt(stored, c, h, k)]
Load(stored, c) == CHOOSE h : h = LoadAll(stored, c, h)

OrderAt(stored, ran, h, i) ==
        LET p == stored[i].parent IN
          p = Threads!NoParent \/ ~ stored[p].there
          \/ (~ (stored[i].parent # Threads!NoParent /\ stored[i].messages = Append(ran[i].base, i)) /\ h[p])
OrderAll(stored, ran, h) == [i \in Threads!Keys |-> OrderAt(stored, ran, h, i)]
Orders(stored, ran) == CHOOSE h : h = OrderAll(stored, ran, h)

LEMMA LoadsAre == \A stored, c : Threads!Loads(stored, c) = Load(stored, c)
  BY DEF Threads!Loads, Load, LoadAll, LoadAt, LoadFrom, ParentOf
LEMMA InOrderIs == \A k : Threads!InOrder(k) = Orders(threadRows, run)[k]
  BY DEF Threads!InOrder, Threads!LinkedWhole, Threads!Transcript, Orders, OrderAll, OrderAt

\* Rows whose parents come before them.
Downward(stored) == \A k \in Threads!Keys : stored[k].parent # Threads!NoParent => stored[k].parent \in 1..(k - 1)

LoadTo(stored, c, h, n) == [k \in 1..n |-> LoadAt(stored, c, h, k)]
OrderTo(stored, ran, h, n) == [k \in 1..n |-> OrderAt(stored, ran, h, k)]

\* Loading, node by node.
LEMMA LoadExists ==
  ASSUME N \in Nat, NEW stored, NEW c, Downward(stored)
  PROVE  \E h : h = LoadAll(stored, c, h)
<1> DEFINE S == {n \in 0..N : \A h : h # LoadTo(stored, c, h, n)}
<1>1. S = {}
  <2> SUFFICES ASSUME S # {} PROVE FALSE
    OBVIOUS
  <2>1. S \in SUBSET Nat
    OBVIOUS
  <2>2. PICK n \in S : \A m \in S : n <= m
    BY <2>1, Smallest
  <2>3. \A g, h : \A k \in Threads!Keys : (stored[k].parent # Threads!NoParent => g[stored[k].parent] = h[stored[k].parent]) =>
                    LoadAt(stored, c, g, k) = LoadAt(stored, c, h, k)
    BY DEF LoadAt, ParentOf
  <2>4. CASE n = 0
    <3> DEFINE h == [k \in 1..0 |-> 0]
    <3>1. h = LoadTo(stored, c, h, 0)
      BY DEF LoadTo
    <3> HIDE DEF h
    <3> QED BY <2>2, <2>4, <3>1
  <2>5. CASE n # 0
    <3>1. n \in Nat /\ n - 1 \in 0..N /\ n - 1 \notin S /\ n \in 1..N
      BY <2>2, <2>5
    <3>2. PICK h : h = LoadTo(stored, c, h, n - 1)
      BY <3>1
    <3> DEFINE g == [k \in 1..n |-> IF k = n THEN LoadAt(stored, c, h, n) ELSE h[k]]
    <3>3. \A k \in 1..(n - 1) : h[k] = LoadAt(stored, c, h, k)
      BY <3>2 DEF LoadTo
    <3>4. \A k \in 1..n : g[k] = LoadAt(stored, c, g, k)
      <4> TAKE k \in 1..n
      <4>1. k \in Threads!Keys
        BY <3>1 DEF Threads!Keys
      <4>2. stored[k].parent # Threads!NoParent => stored[k].parent \in 1..n /\ stored[k].parent # n
        BY <3>1, <4>1 DEF Downward
      <4>3. stored[k].parent # Threads!NoParent => g[stored[k].parent] = h[stored[k].parent]
        BY <4>2
      <4>4. g[k] = IF k = n THEN LoadAt(stored, c, h, n) ELSE h[k]
        OBVIOUS
      <4> HIDE DEF g
      <4>5. LoadAt(stored, c, g, k) = LoadAt(stored, c, h, k)
        BY <2>3, <4>1, <4>3
      <4>6. k # n => k \in 1..(n - 1)
        BY <3>1
      <4> QED BY <3>3, <4>4, <4>5, <4>6
    <3>5. g = [k \in 1..n |-> g[k]]
      OBVIOUS
    <3> HIDE DEF g
    <3>6. g = LoadTo(stored, c, g, n)
      BY <3>4, <3>5 DEF LoadTo
    <3> QED BY <2>2, <3>6
  <2> QED BY <2>4, <2>5
<1>2. N \in 0..N
  OBVIOUS
<1>3. PICK h : h = LoadTo(stored, c, h, N)
  BY <1>1, <1>2
<1> QED BY <1>3 DEF LoadAll, LoadTo, Threads!Keys

LEMMA LoadIs ==
  ASSUME N \in Nat, NEW stored, NEW c, Downward(stored), NEW k \in Threads!Keys
  PROVE  Load(stored, c)[k] = LoadAt(stored, c, Load(stored, c), k)
<1>1. Load(stored, c) = LoadAll(stored, c, Load(stored, c))
  BY LoadExists DEF Load
<1> QED BY <1>1 DEF LoadAll

\* Nodes in order, node by node.
LEMMA OrderExists ==
  ASSUME N \in Nat, NEW stored, NEW ran, Downward(stored)
  PROVE  \E h : h = OrderAll(stored, ran, h)
<1> DEFINE S == {n \in 0..N : \A h : h # OrderTo(stored, ran, h, n)}
<1>1. S = {}
  <2> SUFFICES ASSUME S # {} PROVE FALSE
    OBVIOUS
  <2>1. S \in SUBSET Nat
    OBVIOUS
  <2>2. PICK n \in S : \A m \in S : n <= m
    BY <2>1, Smallest
  <2>3. \A g, h : \A k \in Threads!Keys : (stored[k].parent # Threads!NoParent => g[stored[k].parent] = h[stored[k].parent]) =>
                    OrderAt(stored, ran, g, k) = OrderAt(stored, ran, h, k)
    BY DEF OrderAt
  <2>4. CASE n = 0
    <3> DEFINE h == [k \in 1..0 |-> 0]
    <3>1. h = OrderTo(stored, ran, h, 0)
      BY DEF OrderTo
    <3> HIDE DEF h
    <3> QED BY <2>2, <2>4, <3>1
  <2>5. CASE n # 0
    <3>1. n \in Nat /\ n - 1 \in 0..N /\ n - 1 \notin S /\ n \in 1..N
      BY <2>2, <2>5
    <3>2. PICK h : h = OrderTo(stored, ran, h, n - 1)
      BY <3>1
    <3> DEFINE g == [k \in 1..n |-> IF k = n THEN OrderAt(stored, ran, h, n) ELSE h[k]]
    <3>3. \A k \in 1..(n - 1) : h[k] = OrderAt(stored, ran, h, k)
      BY <3>2 DEF OrderTo
    <3>4. \A k \in 1..n : g[k] = OrderAt(stored, ran, g, k)
      <4> TAKE k \in 1..n
      <4>1. k \in Threads!Keys
        BY <3>1 DEF Threads!Keys
      <4>2. stored[k].parent # Threads!NoParent => stored[k].parent \in 1..n /\ stored[k].parent # n
        BY <3>1, <4>1 DEF Downward
      <4>3. stored[k].parent # Threads!NoParent => g[stored[k].parent] = h[stored[k].parent]
        BY <4>2
      <4>4. g[k] = IF k = n THEN OrderAt(stored, ran, h, n) ELSE h[k]
        OBVIOUS
      <4> HIDE DEF g
      <4>5. OrderAt(stored, ran, g, k) = OrderAt(stored, ran, h, k)
        BY <2>3, <4>1, <4>3
      <4>6. k # n => k \in 1..(n - 1)
        BY <3>1
      <4> QED BY <3>3, <4>4, <4>5, <4>6
    <3>5. g = [k \in 1..n |-> g[k]]
      OBVIOUS
    <3> HIDE DEF g
    <3>6. g = OrderTo(stored, ran, g, n)
      BY <3>4, <3>5 DEF OrderTo
    <3> QED BY <2>2, <3>6
  <2> QED BY <2>4, <2>5
<1>2. N \in 0..N
  OBVIOUS
<1>3. PICK h : h = OrderTo(stored, ran, h, N)
  BY <1>1, <1>2
<1> QED BY <1>3 DEF OrderAll, OrderTo, Threads!Keys

\* The rows that were saved after their parents, and these after theirs.
KeptIn(stored, ran, k) == Orders(stored, ran)[k] = TRUE

SaidIn(ran, k) == Append(ran[k].base, k)

WholeIn(stored, ran, k) == stored[k].parent # Threads!NoParent /\ stored[k].messages = SaidIn(ran, k)

LEMMA KeptIs ==
  ASSUME N \in Nat, NEW stored, NEW ran, Downward(stored), NEW k \in Threads!Keys
  PROVE  /\ Orders(stored, ran)[k] \in BOOLEAN
         /\ KeptIn(stored, ran, k) <=> \/ stored[k].parent = Threads!NoParent \/ ~ stored[stored[k].parent].there
                                       \/ ~ WholeIn(stored, ran, k) /\ KeptIn(stored, ran, stored[k].parent)
<1>1. Orders(stored, ran) = OrderAll(stored, ran, Orders(stored, ran))
  BY OrderExists DEF Orders
<1>2. PICK h : h = Orders(stored, ran)
  OBVIOUS
<1>3. h[k] = OrderAt(stored, ran, h, k)
  BY <1>1, <1>2 DEF OrderAll
<1>4. OrderAt(stored, ran, h, k) \in BOOLEAN
  BY DEF OrderAt
<1>5. PICK p : p = stored[k].parent
  OBVIOUS
<1>6. p # Threads!NoParent => p \in Threads!Keys
  BY <1>5 DEF Downward, Threads!Keys
<1>7. \A j \in Threads!Keys : h[j] \in BOOLEAN
  <2> TAKE j \in Threads!Keys
  <2>1. h[j] = OrderAt(stored, ran, h, j)
    BY <1>1, <1>2 DEF OrderAll
  <2>2. OrderAt(stored, ran, h, j) \in BOOLEAN
    BY DEF OrderAt
  <2> QED BY <2>1, <2>2
<1>8. OrderAt(stored, ran, h, k) <=> p = Threads!NoParent \/ ~ stored[p].there \/ (~ WholeIn(stored, ran, k) /\ h[p])
  BY <1>5 DEF OrderAt, WholeIn, SaidIn
<1> QED BY <1>2, <1>3, <1>4, <1>5, <1>6, <1>7, <1>8 DEF KeptIn

-----------------------------------------------------------------------------
Transcripts == Seq(Threads!Exchange)
Entry       == [key : Threads!Keys, transcript : Transcripts]

KeysApart(c) == \A i, j \in 1..Len(c) : c[i].key = c[j].key => i = j

LEMMA PartOf ==
  ASSUME NEW T, NEW c \in Seq(T), NEW m \in Nat, NEW n \in Nat, 1 <= m, m <= n + 1, n <= Len(c), NEW f, f = SubSeq(c, m, n)
  PROVE  f \in Seq(T) /\ Len(f) = n + 1 - m /\ \A i \in 1..(n + 1 - m) : f[i] = c[m + i - 1]
<1>1. \A i \in m..n : c[i] \in T
  OBVIOUS
<1>2. m \in Int /\ n \in Int
  OBVIOUS
<1>3. /\ f \in Seq(T)
      /\ Len(f) = IF m <= n THEN n - m + 1 ELSE 0
      /\ \A i \in 1 .. n - m + 1 : f[i] = c[m + i - 1]
  BY <1>1, <1>2, SubSeqProperties
<1> QED BY <1>2, <1>3

LEMMA JoinOf ==
  ASSUME NEW T, NEW f \in Seq(T), NEW g \in Seq(T), NEW d, d = f \o g
  PROVE  /\ d \in Seq(T) /\ Len(d) = Len(f) + Len(g)
         /\ (\A i \in 1..Len(f) : d[i] = f[i]) /\ (\A i \in 1..Len(g) : d[Len(f) + i] = g[i])
<1>1. Len(f) \in Nat /\ Len(g) \in Nat
  OBVIOUS
<1>2. /\ d \in Seq(T) /\ Len(d) = Len(f) + Len(g)
      /\ \A i \in 1 .. Len(f) + Len(g) : d[i] = IF i <= Len(f) THEN f[i] ELSE g[i - Len(f)]
  BY ConcatProperties
<1>3. ASSUME NEW i \in 1..Len(g) PROVE d[Len(f) + i] = g[i]
  <2>1. Len(f) + i \in 1 .. Len(f) + Len(g) /\ ~(Len(f) + i <= Len(f)) /\ Len(f) + i - Len(f) = i
    BY <1>1
  <2> QED BY <1>2, <2>1
<1>4. ASSUME NEW i \in 1..Len(f) PROVE d[i] = f[i]
  <2>1. i \in 1 .. Len(f) + Len(g) /\ i <= Len(f)
    BY <1>1
  <2> QED BY <1>2, <2>1
<1> QED BY <1>2, <1>3, <1>4

LEMMA WithoutIs ==
  ASSUME NEW c \in Seq(Entry), KeysApart(c), NEW k, NEW d, d = Threads!Without(c, k)
  PROVE  /\ d \in Seq(Entry) /\ KeysApart(d)
         /\ \A i \in 1..Len(d) : d[i].key # k /\ \E j \in 1..Len(c) : d[i] = c[j]
<1>1. DOMAIN c = 1..Len(c) /\ Len(c) \in Nat
  OBVIOUS
<1>2. CASE k \notin Threads!CachedKeys(c)
  <2>1. d = c
    BY <1>2 DEF Threads!Without
  <2>2. \A i \in 1..Len(c) : c[i].key # k
    BY <1>1, <1>2 DEF Threads!CachedKeys
  <2> QED BY <2>1, <2>2
<1>3. CASE k \in Threads!CachedKeys(c)
  <2>1. PICK a : a = CHOOSE i \in DOMAIN c : c[i].key = k
    OBVIOUS
  <2>2. a \in 1..Len(c) /\ c[a].key = k
    BY <1>1, <1>3, <2>1 DEF Threads!CachedKeys
  <2>3. d = SubSeq(c, 1, a - 1) \o SubSeq(c, a + 1, Len(c))
    BY <1>3, <2>1 DEF Threads!Without, Threads!RemoveAt
  <2>4. PICK f : f = SubSeq(c, 1, a - 1)
    OBVIOUS
  <2>5. PICK g : g = SubSeq(c, a + 1, Len(c))
    OBVIOUS
  <2>6. f \in Seq(Entry) /\ Len(f) = a - 1 /\ \A i \in 1..(a - 1) : f[i] = c[i]
    <3>1. a - 1 \in Nat /\ 1 \in Nat /\ 1 <= 1 /\ 1 <= (a - 1) + 1 /\ a - 1 <= Len(c)
      BY <1>1, <2>2
    <3>2. f \in Seq(Entry) /\ Len(f) = (a - 1) + 1 - 1 /\ \A i \in 1..((a - 1) + 1 - 1) : f[i] = c[1 + i - 1]
      BY <2>4, <3>1, PartOf
    <3> QED BY <2>2, <3>2
  <2>7. g \in Seq(Entry) /\ Len(g) = Len(c) - a /\ \A i \in 1..(Len(c) - a) : g[i] = c[a + i]
    <3>1. a + 1 \in Nat /\ Len(c) \in Nat /\ 1 <= a + 1 /\ a + 1 <= Len(c) + 1 /\ Len(c) <= Len(c)
      BY <1>1, <2>2
    <3>2. g \in Seq(Entry) /\ Len(g) = Len(c) + 1 - (a + 1) /\ \A i \in 1..(Len(c) + 1 - (a + 1)) : g[i] = c[(a + 1) + i - 1]
      BY <2>5, <3>1, PartOf
    <3>3. \A i \in 1..(Len(c) - a) : (a + 1) + i - 1 = a + i
      BY <1>1, <2>2
    <3>4. Len(c) + 1 - (a + 1) = Len(c) - a
      <4>1. \A l, b \in Int : l + 1 - (b + 1) = l - b
        OBVIOUS
      <4>2. Len(c) \in Int /\ a \in Int
        BY <1>1, <2>2
      <4> QED BY <4>1, <4>2
    <3> QED BY <3>2, <3>3, <3>4
  <2>8. d \in Seq(Entry) /\ Len(d) = Len(f) + Len(g)
    BY <2>3, <2>4, <2>5, <2>6, <2>7, JoinOf
  <2>9. (\A i \in 1..Len(f) : d[i] = f[i]) /\ (\A i \in 1..Len(g) : d[Len(f) + i] = g[i])
    BY SMTT(30), <2>3, <2>4, <2>5, <2>6, <2>7, JoinOf
  <2>10. Len(d) = Len(c) - 1 /\ \A i \in 1..(Len(c) - 1) : d[i] = IF i < a THEN c[i] ELSE c[i + 1]
    <3>1. Len(d) = Len(c) - 1
      BY <1>1, <2>2, <2>6, <2>7, <2>8
    <3>2. ASSUME NEW i \in 1..(Len(c) - 1) PROVE d[i] = IF i < a THEN c[i] ELSE c[i + 1]
      <4>1. CASE i < a
        <5>1. i \in 1..Len(f) /\ i \in 1..(a - 1)
          BY <1>1, <2>2, <2>6, <4>1
        <5> QED BY <2>6, <2>9, <4>1, <5>1
      <4>2. CASE ~(i < a)
        <5>1. PICK j : j = i - a + 1
          OBVIOUS
        <5>2. j \in 1..Len(g) /\ j \in 1..(Len(c) - a) /\ Len(f) + j = i /\ a + j = i + 1
          BY <1>1, <2>2, <2>6, <2>7, <4>2, <5>1
        <5>3. d[Len(f) + j] = c[a + j]
          BY <2>7, <2>9, <5>2
        <5> QED BY <4>2, <5>2, <5>3
      <4> QED BY <4>1, <4>2
    <3> QED BY <3>1, <3>2
  <2>11. ASSUME NEW i \in 1..Len(d) PROVE \E j \in 1..Len(c) : d[i] = c[j] /\ j # a /\ j = IF i < a THEN i ELSE i + 1
    <3>1. i \in 1..(Len(c) - 1)
      BY <2>10
    <3>2. PICK j : j = IF i < a THEN i ELSE i + 1
      OBVIOUS
    <3>3. j \in 1..Len(c) /\ j # a
      BY <1>1, <2>2, <3>1, <3>2
    <3>4. d[i] = c[j]
      BY <2>10, <3>1, <3>2
    <3> QED BY <3>2, <3>3, <3>4
  <2>12. \A i \in 1..Len(d) : d[i].key # k /\ \E j \in 1..Len(c) : d[i] = c[j]
    BY <2>2, <2>11 DEF KeysApart
  <2>13. KeysApart(d)
    <3>1. SUFFICES ASSUME NEW i \in 1..Len(d), NEW l \in 1..Len(d), d[i].key = d[l].key PROVE i = l
      BY DEF KeysApart
    <3>2. PICK j \in 1..Len(c) : d[i] = c[j] /\ j = IF i < a THEN i ELSE i + 1
      BY <2>11
    <3>3. PICK m \in 1..Len(c) : d[l] = c[m] /\ m = IF l < a THEN l ELSE l + 1
      BY <2>11
    <3>4. j = m
      BY <3>1, <3>2, <3>3 DEF KeysApart
    <3>5. i \in Nat /\ l \in Nat /\ a \in Nat
      BY <2>2
    <3> QED BY <3>2, <3>3, <3>4, <3>5
  <2> QED BY <2>8, <2>12, <2>13
<1> QED BY <1>2, <1>3

\* A node in front of the others, and the few newest of them.
LEMMA CachingIs ==
  ASSUME MaxCachedThreads \in Nat, NEW c \in Seq(Entry), KeysApart(c), NEW k \in Threads!Keys, NEW t \in Transcripts,
         NEW e, e = Threads!cacheThreadNode(c, k, t)
  PROVE  /\ e \in Seq(Entry) /\ Len(e) <= MaxCachedThreads /\ KeysApart(e)
         /\ \A i \in 1..Len(e) : (e[i].key = k /\ e[i].transcript = t) \/ \E j \in 1..Len(c) : e[i] = c[j]
<1>1. PICK x \in Entry : x = [key |-> k, transcript |-> t] /\ x.key = k /\ x.transcript = t
  <2>1. [key |-> k, transcript |-> t] \in Entry
    BY DEF Entry
  <2> QED BY <2>1
<1>2. PICK d \in Seq(Entry) : d = Threads!Without(c, k) /\ KeysApart(d) /\ \A i \in 1..Len(d) : d[i].key # k /\ \E j \in 1..Len(c) : d[i] = c[j]
  <2>1. PICK d : d = Threads!Without(c, k)
    OBVIOUS
  <2> QED BY <2>1, WithoutIs
<1>3. PICK o : o = <<x>> \o d
  OBVIOUS
<1>4. o \in Seq(Entry) /\ Len(o) = Len(d) + 1 /\ o[1] = x /\ Len(d) \in Nat
  <2>1. PICK f : f = <<x>>
    OBVIOUS
  <2>2. f \in Seq(Entry) /\ Len(f) = 1 /\ f[1] = x
    BY <2>1
  <2>3. o \in Seq(Entry) /\ Len(o) = Len(f) + Len(d) /\ \A i \in 1..Len(f) : o[i] = f[i]
    BY <1>3, <2>1, <2>2, JoinOf
  <2>4. Len(d) \in Nat
    OBVIOUS
  <2> QED BY <2>2, <2>3, <2>4
<1>5. \A i \in 1..Len(o) : i = 1 \/ (i - 1 \in 1..Len(d) /\ o[i] = d[i - 1])
  <2>1. PICK f : f = <<x>>
    OBVIOUS
  <2>2. f \in Seq(Entry) /\ Len(f) = 1
    BY <2>1
  <2>3. \A i \in 1..Len(d) : o[Len(f) + i] = d[i]
    BY <1>3, <2>1, <2>2, JoinOf
  <2> TAKE i \in 1..Len(o)
  <2>4. i = 1 \/ (i - 1 \in 1..Len(d) /\ 1 + (i - 1) = i)
    BY <1>4
  <2> QED BY <2>2, <2>3, <2>4
<1>6. PICK n \in 0..Len(o) : e = SubSeq(o, 1, n) /\ n <= MaxCachedThreads
  <2>1. e = Threads!Retained(o)
    BY <1>1, <1>2, <1>3 DEF Threads!cacheThreadNode
  <2>2. PICK n : n = IF Len(o) < MaxCachedThreads THEN Len(o) ELSE MaxCachedThreads
    OBVIOUS
  <2>3. n \in 0..Len(o) /\ n <= MaxCachedThreads
    BY <1>4, <2>2
  <2> QED BY <2>1, <2>2, <2>3 DEF Threads!Retained
<1>7. e \in Seq(Entry) /\ Len(e) = n /\ \A i \in 1..n : i \in 1..Len(o) /\ e[i] = o[i]
  <2>1. n \in Nat /\ 1 \in Nat /\ 1 <= 1 /\ 1 <= n + 1 /\ n <= Len(o)
    BY <1>4
  <2>2. e \in Seq(Entry) /\ Len(e) = n + 1 - 1 /\ \A i \in 1..(n + 1 - 1) : e[i] = o[1 + i - 1]
    BY <1>4, <1>6, <2>1, PartOf
  <2>3. n + 1 - 1 = n /\ \A i \in 1..n : 1 + i - 1 = i
    BY <2>1
  <2>4. \A i \in 1..n : i \in 1..Len(o)
    BY <1>4, <2>1
  <2> QED BY <2>2, <2>3, <2>4
<1>8. ASSUME NEW i \in 1..Len(e) PROVE (i = 1 /\ e[i] = x) \/ (i - 1 \in 1..Len(d) /\ e[i] = d[i - 1])
  <2>1. i \in 1..Len(o) /\ e[i] = o[i]
    BY <1>7
  <2> QED BY <1>4, <1>5, <2>1
<1>9. KeysApart(e)
  <2>1. SUFFICES ASSUME NEW i \in 1..Len(e), NEW j \in 1..Len(e), e[i].key = e[j].key PROVE i = j
    BY DEF KeysApart
  <2>2. (i = 1 /\ e[i] = x) \/ (i - 1 \in 1..Len(d) /\ e[i] = d[i - 1])
    BY <1>8
  <2>3. (j = 1 /\ e[j] = x) \/ (j - 1 \in 1..Len(d) /\ e[j] = d[j - 1])
    BY <1>8
  <2>4. i \in Nat /\ j \in Nat
    BY <1>7
  <2>5. CASE i = 1
    BY <1>1, <1>2, <2>1, <2>2, <2>3, <2>4, <2>5
  <2>6. CASE j = 1
    BY <1>1, <1>2, <2>1, <2>2, <2>3, <2>4, <2>6
  <2>7. CASE i # 1 /\ j # 1
    <3>1. i - 1 = j - 1
      BY <1>2, <2>1, <2>2, <2>3, <2>7 DEF KeysApart
    <3> QED BY <2>4, <3>1
  <2> QED BY <2>5, <2>6, <2>7
<1>10. \A i \in 1..Len(e) : (e[i].key = k /\ e[i].transcript = t) \/ \E j \in 1..Len(c) : e[i] = c[j]
  BY <1>1, <1>2, <1>8
<1> QED BY <1>6, <1>7, <1>9, <1>10

-----------------------------------------------------------------------------
RunRecord == [at : {"none", "active", "saving", "over", "lost"},
              parent : Threads!Keys \cup {Threads!NoParent}, base : Transcripts, row : Threads!Row]

Follows(ran, p, k, messages) == SaidIn(ran, p) \o messages = SaidIn(ran, k)

\* A row is of its node: the whole transcript, or what comes after that of the parent.
RowFits(stored, ran, k, w) ==
  /\ w.there
  /\ w.parent # Threads!NoParent => w.parent \in 1..(k - 1)
  /\ w.parent = Threads!NoParent => w.messages = SaidIn(ran, k)
  /\ w.parent # Threads!NoParent /\ w.messages # SaidIn(ran, k) =>
       /\ stored[w.parent].there /\ w.tree = stored[w.parent].tree
       /\ KeptIn(stored, ran, w.parent) => Follows(ran, w.parent, k, w.messages)

EntryFits(stored, ran, k, t) == stored[k].there /\ (KeptIn(stored, ran, k) => t = SaidIn(ran, k))

CacheFits(stored, ran, c) ==
  /\ c \in Seq(Entry) /\ Len(c) <= MaxCachedThreads /\ KeysApart(c)
  /\ \A i \in 1..Len(c) : EntryFits(stored, ran, c[i].key, c[i].transcript)

ThreadRowsFit(stored, ran) ==
  \A k \in Threads!Keys : IF stored[k].there THEN RowFits(stored, ran, k, stored[k]) ELSE stored[k] = Threads!NoRow

LEMMA RowTypes ==
  ASSUME NEW stored \in [Threads!Keys -> Threads!Row], NEW k \in Threads!Keys
  PROVE  /\ stored[k] \in Threads!Row /\ stored[k].there \in BOOLEAN /\ stored[k].parent \in Threads!Keys \cup {Threads!NoParent}
         /\ stored[k].messages \in Transcripts /\ stored[k].tree \in Threads!Keys \cup {0}
  BY DEF Threads!Row, Transcripts

LEMMA DownwardIs ==
  ASSUME NEW stored, NEW ran, ThreadRowsFit(stored, ran)
  PROVE  Downward(stored)
<1> SUFFICES ASSUME NEW k \in Threads!Keys, stored[k].parent # Threads!NoParent PROVE stored[k].parent \in 1..(k - 1)
  BY DEF Downward
<1>1. CASE stored[k].there
  BY <1>1 DEF ThreadRowsFit, RowFits
<1>2. CASE ~stored[k].there
  BY <1>2 DEF ThreadRowsFit, Threads!NoRow
<1> QED BY <1>1, <1>2

LEMMA SaidIs ==
  ASSUME NEW ran \in [Threads!Keys -> RunRecord], NEW k \in Threads!Keys
  PROVE  SaidIn(ran, k) \in Transcripts
<1>1. ran[k].base \in Seq(Threads!Exchange) /\ k \in Threads!Exchange
  BY DEF RunRecord, Transcripts, Threads!Exchange
<1> QED BY <1>1 DEF SaidIn, Transcripts

\* What loading answers, and leaves in the cache, is of the rows.
LoadFits(stored, ran, k, r) ==
  /\ r.found = stored[k].there /\ r.transcript \in Transcripts
  /\ CacheFits(stored, ran, r.cache)
  /\ r.found /\ KeptIn(stored, ran, k) => r.transcript = SaidIn(ran, k)

LEMMA CachedIs ==
  ASSUME NEW stored, NEW ran, NEW c, CacheFits(stored, ran, c), NEW k \in Threads!CachedKeys(c)
  PROVE  k \in Threads!Keys /\ Threads!Cached(c, k) \in Transcripts /\ EntryFits(stored, ran, k, Threads!Cached(c, k))
<1>1. c \in Seq(Entry) /\ DOMAIN c = 1..Len(c)
  BY DEF CacheFits
<1>2. PICK a : a = CHOOSE i \in DOMAIN c : c[i].key = k
  OBVIOUS
<1>3. a \in 1..Len(c) /\ c[a].key = k /\ c[a] \in Entry
  BY <1>1, <1>2 DEF Threads!CachedKeys
<1>4. Threads!Cached(c, k) = c[a].transcript
  BY <1>2 DEF Threads!Cached
<1>5. EntryFits(stored, ran, c[a].key, c[a].transcript)
  BY <1>3 DEF CacheFits
<1> QED BY <1>3, <1>4, <1>5 DEF Entry

LEMMA CachingFits ==
  ASSUME MaxCachedThreads \in Nat, NEW stored, NEW ran, NEW c, CacheFits(stored, ran, c),
         NEW k \in Threads!Keys, NEW t \in Transcripts, EntryFits(stored, ran, k, t)
  PROVE  CacheFits(stored, ran, Threads!cacheThreadNode(c, k, t))
<1>1. c \in Seq(Entry) /\ KeysApart(c)
  BY DEF CacheFits
<1>2. PICK e : e = Threads!cacheThreadNode(c, k, t)
  OBVIOUS
<1>3. /\ e \in Seq(Entry) /\ Len(e) <= MaxCachedThreads /\ KeysApart(e)
      /\ \A i \in 1..Len(e) : (e[i].key = k /\ e[i].transcript = t) \/ \E j \in 1..Len(c) : e[i] = c[j]
  BY <1>1, <1>2, CachingIs
<1>4. \A i \in 1..Len(e) : EntryFits(stored, ran, e[i].key, e[i].transcript)
  BY <1>3 DEF CacheFits
<1> QED BY <1>2, <1>3, <1>4 DEF CacheFits

\* Loading answers what is in the rows, through any cache of them.
LEMMA LoadsFit ==
  ASSUME N \in Nat, MaxCachedThreads \in Nat, NEW stored \in [Threads!Keys -> Threads!Row], NEW ran \in [Threads!Keys -> RunRecord],
         ThreadRowsFit(stored, ran), NEW c, CacheFits(stored, ran, c), NEW k \in Threads!Keys
  PROVE  LoadFits(stored, ran, k, Load(stored, c)[k])
<1> DEFINE S == {n \in Threads!Keys : ~LoadFits(stored, ran, n, Load(stored, c)[n])}
<1>1. Downward(stored)
  BY DownwardIs
<1>2. SUFFICES ASSUME S # {} PROVE FALSE
  OBVIOUS
<1>3. S \in SUBSET Nat
  BY DEF Threads!Keys
<1>4. PICK n \in S : \A m \in S : n <= m
  BY <1>2, <1>3, Smallest
<1>5. n \in Threads!Keys /\ ~LoadFits(stored, ran, n, Load(stored, c)[n]) /\ n \in Nat
  BY <1>3, <1>4
<1>6. \A m \in 1..(n - 1) : m \in Threads!Keys /\ LoadFits(stored, ran, m, Load(stored, c)[m])
  <2> TAKE m \in 1..(n - 1)
  <2>1. m \in Threads!Keys /\ ~(n <= m)
    BY <1>5 DEF Threads!Keys
  <2> QED BY <1>4, <2>1
<1> HIDE DEF S
<1>7. PICK parent : parent = ParentOf(stored, c, Load(stored, c), n)
  OBVIOUS
<1>8. PICK r : r = LoadFrom(stored, c, n, parent)
  OBVIOUS
<1>9. Load(stored, c)[n] = r
  BY <1>1, <1>5, <1>7, <1>8, LoadIs DEF LoadAt
<1>10. /\ stored[n] \in Threads!Row /\ stored[n].there \in BOOLEAN /\ stored[n].parent \in Threads!Keys \cup {Threads!NoParent}
       /\ stored[n].messages \in Transcripts
  BY <1>5, RowTypes
<1>11. CASE n \in Threads!CachedKeys(c)
  <2>1. r = [found |-> TRUE, transcript |-> Threads!Cached(c, n), cache |-> c]
    BY <1>8, <1>11 DEF LoadFrom
  <2>2. Threads!Cached(c, n) \in Transcripts /\ EntryFits(stored, ran, n, Threads!Cached(c, n))
    BY <1>11, CachedIs
  <2>3. LoadFits(stored, ran, n, r)
    BY <1>10, <2>1, <2>2 DEF LoadFits, EntryFits
  <2> QED BY <1>5, <1>9, <2>3
<1>12. CASE n \notin Threads!CachedKeys(c) /\ ~stored[n].there
  <2>1. r = [found |-> FALSE, transcript |-> <<>>, cache |-> c]
    BY <1>8, <1>12 DEF LoadFrom
  <2>2. <<>> \in Transcripts
    BY DEF Transcripts
  <2>3. LoadFits(stored, ran, n, r)
    BY <1>10, <1>12, <2>1, <2>2 DEF LoadFits
  <2> QED BY <1>5, <1>9, <2>3
<1>13. CASE n \notin Threads!CachedKeys(c) /\ stored[n].there
  <2>1. PICK t : t = IF parent.found THEN Threads!Decoded(parent.transcript, stored[n].messages) ELSE stored[n].messages
    OBVIOUS
  <2>2. r = [found |-> TRUE, transcript |-> t, cache |-> Threads!cacheThreadNode(parent.cache, n, t)]
    BY <1>8, <1>13, <2>1 DEF LoadFrom
  <2>3. PICK p : p = stored[n].parent
    OBVIOUS
  <2>4. RowFits(stored, ran, n, stored[n])
    BY <1>5, <1>13 DEF ThreadRowsFit
  <2>5. /\ p # Threads!NoParent => p \in 1..(n - 1)
        /\ p = Threads!NoParent => stored[n].messages = SaidIn(ran, n)
        /\ p # Threads!NoParent /\ stored[n].messages # SaidIn(ran, n) =>
             stored[p].there /\ (KeptIn(stored, ran, p) => Follows(ran, p, n, stored[n].messages))
    BY <2>3, <2>4 DEF RowFits
  <2>6. CASE p = Threads!NoParent \/ ~stored[p].there
    <3>1. parent.found = FALSE /\ CacheFits(stored, ran, parent.cache)
      <4>1. CASE p = Threads!NoParent
        BY <1>7, <2>3, <4>1 DEF ParentOf
      <4>2. CASE p # Threads!NoParent /\ ~stored[p].there
        <5>1. p \in Threads!Keys /\ LoadFits(stored, ran, p, parent)
          BY <1>6, <1>7, <2>3, <2>5, <4>2 DEF ParentOf
        <5>2. stored[p].there = FALSE
          BY <4>2, <5>1, RowTypes
        <5> QED BY <5>1, <5>2 DEF LoadFits
      <4> QED BY <2>6, <4>1, <4>2
    <3>2. t = stored[n].messages /\ t = SaidIn(ran, n)
      BY <2>1, <2>5, <2>6, <3>1
    <3>3. EntryFits(stored, ran, n, t)
      BY <1>13, <3>2 DEF EntryFits
    <3>4. CacheFits(stored, ran, Threads!cacheThreadNode(parent.cache, n, t))
      BY <1>5, <1>10, <3>1, <3>2, <3>3, CachingFits
    <3>5. LoadFits(stored, ran, n, r)
      BY <1>10, <1>13, <2>2, <3>2, <3>4 DEF LoadFits
    <3> QED BY <1>5, <1>9, <3>5
  <2>7. CASE p # Threads!NoParent /\ stored[p].there
    <3>1. p \in Threads!Keys /\ LoadFits(stored, ran, p, parent)
      BY <1>6, <1>7, <2>3, <2>5, <2>7 DEF ParentOf
    <3>2. parent.found = TRUE /\ parent.transcript \in Transcripts /\ CacheFits(stored, ran, parent.cache)
      <4>1. stored[p].there = TRUE
        BY <2>7, <3>1, RowTypes
      <4> QED BY <3>1, <4>1 DEF LoadFits
    <3>3. t = parent.transcript \o stored[n].messages
      BY <2>1, <3>2 DEF Threads!Decoded
    <3>4. t \in Transcripts
      BY <1>10, <3>2, <3>3, ConcatProperties DEF Transcripts
    <3>5. KeptIn(stored, ran, n) => t = SaidIn(ran, n)
      <4>1. SUFFICES ASSUME KeptIn(stored, ran, n) PROVE t = SaidIn(ran, n)
        OBVIOUS
      <4>2. ~WholeIn(stored, ran, n) /\ KeptIn(stored, ran, p)
        BY <1>1, <1>5, <2>3, <2>7, <4>1, KeptIs
      <4>3. stored[n].messages # SaidIn(ran, n)
        BY <2>3, <2>7, <4>2 DEF WholeIn
      <4>4. Follows(ran, p, n, stored[n].messages)
        BY <2>5, <2>7, <4>2, <4>3
      <4>5. parent.transcript = SaidIn(ran, p)
        BY <3>1, <3>2, <4>2 DEF LoadFits
      <4> QED BY <3>3, <4>4, <4>5 DEF Follows
    <3>6. EntryFits(stored, ran, n, t)
      BY <1>13, <3>5 DEF EntryFits
    <3>7. CacheFits(stored, ran, Threads!cacheThreadNode(parent.cache, n, t))
      BY <1>5, <3>2, <3>4, <3>6, CachingFits
    <3>8. LoadFits(stored, ran, n, r)
      BY <1>10, <1>13, <2>2, <3>4, <3>5, <3>7 DEF LoadFits
    <3> QED BY <1>5, <1>9, <3>8
  <2> QED BY <2>6, <2>7
<1> QED BY <1>10, <1>11, <1>12, <1>13

-----------------------------------------------------------------------------
\* Rows that stay, with what their runs had, while others are added.
MoreRows(stored, ran, new, ran2) ==
  /\ stored \in [Threads!Keys -> Threads!Row] /\ new \in [Threads!Keys -> Threads!Row]
  /\ Downward(stored) /\ Downward(new)
  /\ \A k \in Threads!Keys : IF stored[k].there THEN new[k] = stored[k] /\ ran2[k].base = ran[k].base ELSE stored[k] = Threads!NoRow

\* A row that is in order among more was before.
LEMMA KeptBefore ==
  ASSUME N \in Nat, NEW stored, NEW ran, NEW new, NEW ran2, MoreRows(stored, ran, new, ran2),
         NEW k \in Threads!Keys, stored[k].there, KeptIn(new, ran2, k)
  PROVE  KeptIn(stored, ran, k)
<1> DEFINE S == {n \in Threads!Keys : stored[n].there /\ KeptIn(new, ran2, n) /\ ~KeptIn(stored, ran, n)}
<1>1. SUFFICES ASSUME S # {} PROVE FALSE
  OBVIOUS
<1>2. S \in SUBSET Nat
  BY DEF Threads!Keys
<1>3. PICK n \in S : \A m \in S : n <= m
  BY <1>1, <1>2, Smallest
<1>4. n \in Threads!Keys /\ stored[n].there /\ KeptIn(new, ran2, n) /\ ~KeptIn(stored, ran, n) /\ n \in Nat
  BY <1>2, <1>3
<1>5. \A m \in Threads!Keys : m < n /\ stored[m].there /\ KeptIn(new, ran2, m) => KeptIn(stored, ran, m)
  <2> TAKE m \in Threads!Keys
  <2>1. m \in Nat
    BY DEF Threads!Keys
  <2> QED BY <1>3, <1>4, <2>1
<1> HIDE DEF S
<1>6. Downward(stored) /\ Downward(new) /\ new[n] = stored[n] /\ ran2[n].base = ran[n].base
  BY <1>4 DEF MoreRows
<1>7. PICK p : p = stored[n].parent
  OBVIOUS
<1>8. p # Threads!NoParent /\ stored[p].there /\ (WholeIn(stored, ran, n) \/ ~KeptIn(stored, ran, p))
  BY <1>4, <1>6, <1>7, KeptIs
<1>9. p \in 1..(n - 1) /\ p \in Threads!Keys /\ p < n
  <2>1. p \in 1..(n - 1)
    BY <1>4, <1>6, <1>7, <1>8 DEF Downward
  <2> QED BY <1>4, <2>1 DEF Threads!Keys
<1>10. new[p].there
  BY <1>8, <1>9 DEF MoreRows
<1>11. ~WholeIn(new, ran2, n) /\ KeptIn(new, ran2, p)
  BY <1>4, <1>6, <1>7, <1>8, <1>10, KeptIs
<1>12. ~WholeIn(stored, ran, n)
  BY <1>6, <1>11 DEF WholeIn, SaidIn
<1> QED BY <1>5, <1>8, <1>9, <1>11, <1>12

LEMMA SaidBefore ==
  ASSUME NEW ran, NEW ran2, NEW k, ran2[k].base = ran[k].base
  PROVE  SaidIn(ran2, k) = SaidIn(ran, k)
  BY DEF SaidIn

LEMMA RowsStillFit ==
  ASSUME N \in Nat, NEW stored, NEW ran, NEW new, NEW ran2, MoreRows(stored, ran, new, ran2),
         NEW k \in Threads!Keys, NEW w, RowFits(stored, ran, k, w), ran2[k].base = ran[k].base
  PROVE  RowFits(new, ran2, k, w)
<1>1. SaidIn(ran2, k) = SaidIn(ran, k)
  BY SaidBefore
<1>2. SUFFICES ASSUME w.parent # Threads!NoParent, w.messages # SaidIn(ran2, k)
               PROVE  /\ new[w.parent].there /\ w.tree = new[w.parent].tree
                      /\ KeptIn(new, ran2, w.parent) => Follows(ran2, w.parent, k, w.messages)
  BY <1>1 DEF RowFits
<1>3. PICK p : p = w.parent
  OBVIOUS
<1>4. /\ p \in 1..(k - 1) /\ stored[p].there /\ w.tree = stored[p].tree
      /\ KeptIn(stored, ran, p) => Follows(ran, p, k, w.messages)
  BY <1>1, <1>2, <1>3 DEF RowFits
<1>5. p \in Threads!Keys
  BY <1>4 DEF Threads!Keys
<1>6. new[p] = stored[p] /\ ran2[p].base = ran[p].base
  BY <1>4, <1>5 DEF MoreRows
<1>7. SaidIn(ran2, p) = SaidIn(ran, p)
  BY <1>6, SaidBefore
<1>8. KeptIn(new, ran2, p) => KeptIn(stored, ran, p)
  BY <1>4, <1>5, KeptBefore
<1> QED BY <1>1, <1>3, <1>4, <1>6, <1>7, <1>8 DEF Follows

LEMMA CacheStillFits ==
  ASSUME N \in Nat, NEW stored, NEW ran, NEW new, NEW ran2, MoreRows(stored, ran, new, ran2), NEW c, CacheFits(stored, ran, c)
  PROVE  CacheFits(new, ran2, c)
<1>1. SUFFICES ASSUME NEW i \in 1..Len(c) PROVE EntryFits(new, ran2, c[i].key, c[i].transcript)
  BY DEF CacheFits
<1>2. PICK k \in Threads!Keys : k = c[i].key
  <2>1. c \in Seq(Entry)
    BY DEF CacheFits
  <2>2. c[i] \in Entry
    BY <2>1
  <2> QED BY <2>2 DEF Entry
<1>3. PICK t : t = c[i].transcript
  OBVIOUS
<1>4. stored[k].there /\ (KeptIn(stored, ran, k) => t = SaidIn(ran, k))
  BY <1>2, <1>3 DEF CacheFits, EntryFits
<1>5. new[k] = stored[k] /\ ran2[k].base = ran[k].base
  BY <1>4 DEF MoreRows
<1>6. SaidIn(ran2, k) = SaidIn(ran, k)
  BY <1>5, SaidBefore
<1>7. KeptIn(new, ran2, k) => KeptIn(stored, ran, k)
  BY <1>4, KeptBefore
<1> QED BY <1>2, <1>3, <1>4, <1>5, <1>6, <1>7 DEF EntryFits

-----------------------------------------------------------------------------
\* A run continues one that began before it, and has no row until it saves one.
RunsFit(stored, ran) ==
  \A k \in Threads!Keys : /\ ran[k].parent # Threads!NoParent => ran[k].parent \in 1..(k - 1)
                          /\ ran[k].at \in {"none", "active", "saving"} => ~stored[k].there
                          /\ ran[k].at = "saving" => RowFits(stored, ran, k, ran[k].row)

ThreadsInv ==
  /\ run \in [Threads!Keys -> RunRecord] /\ threadRows \in [Threads!Keys -> Threads!Row]
  /\ faults \in 0..MaxFaults /\ reopens \in 0..MaxReopens
  /\ ThreadRowsFit(threadRows, run) /\ RunsFit(threadRows, run) /\ CacheFits(threadRows, run, threadCache)

LEMMA ThreadsInvNext ==
  ASSUME run' \in [Threads!Keys -> RunRecord], threadRows' \in [Threads!Keys -> Threads!Row], faults' \in 0..MaxFaults, reopens' \in 0..MaxReopens,
         ThreadRowsFit(threadRows', run'), RunsFit(threadRows', run'), CacheFits(threadRows', run', threadCache')
  PROVE  ThreadsInv'
<1>1. ThreadRowsFit(threadRows, run)'
  BY DEF ThreadRowsFit, RowFits, KeptIn, Orders, OrderAll, OrderAt, SaidIn, Follows
<1>2. RunsFit(threadRows, run)'
  BY DEF RunsFit, RowFits, KeptIn, Orders, OrderAll, OrderAt, SaidIn, Follows
<1>3. CacheFits(threadRows, run, threadCache)'
  BY DEF CacheFits, EntryFits, KeptIn, Orders, OrderAll, OrderAt, SaidIn
<1> QED BY <1>1, <1>2, <1>3 DEF ThreadsInv

LEMMA RunTypes ==
  ASSUME NEW ran \in [Threads!Keys -> RunRecord], NEW k \in Threads!Keys
  PROVE  /\ ran[k] \in RunRecord /\ ran[k].at \in {"none", "active", "saving", "over", "lost"}
         /\ ran[k].parent \in Threads!Keys \cup {Threads!NoParent} /\ ran[k].base \in Transcripts /\ ran[k].row \in Threads!Row
  BY DEF RunRecord

LEMMA NoRowIs == Threads!NoRow \in Threads!Row /\ ~Threads!NoRow.there /\ Threads!NoRow.parent = Threads!NoParent
<1>1. <<>> \in Seq(Threads!Exchange)
  OBVIOUS
<1> QED BY <1>1 DEF Threads!NoRow, Threads!Row

LEMMA LookupFits == ASSUME Threads!ThreadStoreAssumption, ThreadsInv, NEW k \in Threads!Keys PROVE LoadFits(threadRows, run, k, Threads!Lookup(k))
<1>1. Threads!Lookup(k) = Load(threadRows, threadCache)[k]
  BY LoadsAre DEF Threads!Lookup
<1>2. PICK stored \in [Threads!Keys -> Threads!Row] : stored = threadRows
  BY DEF ThreadsInv
<1>3. PICK ran \in [Threads!Keys -> RunRecord] : ran = run
  BY DEF ThreadsInv
<1>4. ThreadRowsFit(stored, ran) /\ CacheFits(stored, ran, threadCache) /\ N \in Nat /\ MaxCachedThreads \in Nat
  BY <1>2, <1>3 DEF ThreadsInv, Threads!ThreadStoreAssumption
<1>5. LoadFits(stored, ran, k, Load(stored, threadCache)[k])
  BY <1>4, LoadsFit
<1> QED BY <1>1, <1>2, <1>3, <1>5

\* The rows stay, and what the runs that have one had.
LEMMA RowsRest ==
  ASSUME Threads!ThreadStoreAssumption, ThreadsInv, NEW ran2, \A k \in Threads!Keys : threadRows[k].there => ran2[k].base = run[k].base
  PROVE  /\ MoreRows(threadRows, run, threadRows, ran2) /\ ThreadRowsFit(threadRows, ran2)
         /\ \A c : CacheFits(threadRows, run, c) => CacheFits(threadRows, ran2, c)
<1>1. N \in Nat /\ ThreadRowsFit(threadRows, run) /\ threadRows \in [Threads!Keys -> Threads!Row] /\ Downward(threadRows)
  BY DownwardIs DEF ThreadsInv, Threads!ThreadStoreAssumption
<1>2. MoreRows(threadRows, run, threadRows, ran2)
  BY <1>1 DEF MoreRows, ThreadRowsFit
<1>3. PICK stored : stored = threadRows
  OBVIOUS
<1>4. PICK ran : ran = run
  OBVIOUS
<1>5. MoreRows(stored, ran, stored, ran2) /\ ThreadRowsFit(stored, ran)
  BY <1>1, <1>2, <1>3, <1>4
<1>6. ThreadRowsFit(stored, ran2)
  <2>1. SUFFICES ASSUME NEW k \in Threads!Keys PROVE IF stored[k].there THEN RowFits(stored, ran2, k, stored[k]) ELSE stored[k] = Threads!NoRow
    BY DEF ThreadRowsFit
  <2>2. CASE ~stored[k].there
    BY <1>5, <2>2 DEF ThreadRowsFit
  <2>3. CASE stored[k].there
    <3>1. RowFits(stored, ran, k, stored[k])
      BY <1>5, <2>3 DEF ThreadRowsFit
    <3>2. ran2[k].base = ran[k].base
      BY <1>3, <1>4, <2>3
    <3>3. RowFits(stored, ran2, k, stored[k])
      BY <1>1, <1>5, <3>1, <3>2, RowsStillFit
    <3> QED BY <2>3, <3>3
  <2> QED BY <2>2, <2>3
<1>7. \A c : CacheFits(stored, ran, c) => CacheFits(stored, ran2, c)
  BY <1>1, <1>5, CacheStillFits
<1> QED BY <1>2, <1>3, <1>4, <1>6, <1>7

\* lookupThreadTranscript
LEMMA ReadKeeps == ASSUME Threads!ThreadStoreAssumption, ThreadsInv, NEW k \in Threads!Keys, Threads!ReadThread(k) PROVE ThreadsInv'
<1>1. threadCache' = Threads!Lookup(k).cache /\ run' = run /\ threadRows' = threadRows /\ faults' = faults /\ reopens' = reopens
  BY DEF Threads!ReadThread
<1>2. CacheFits(threadRows, run, Threads!Lookup(k).cache)
  BY LookupFits DEF LoadFits
<1>3. /\ run' \in [Threads!Keys -> RunRecord] /\ threadRows' \in [Threads!Keys -> Threads!Row] /\ faults' \in 0..MaxFaults /\ reopens' \in 0..MaxReopens
      /\ ThreadRowsFit(threadRows', run') /\ RunsFit(threadRows', run')
  BY <1>1 DEF ThreadsInv
<1>4. CacheFits(threadRows', run', threadCache')
  BY <1>1, <1>2
<1> QED BY <1>3, <1>4, ThreadsInvNext

\* One run moves, that has no row: the others fit as they did.
LEMMA RunMoves ==
  ASSUME Threads!ThreadStoreAssumption, ThreadsInv, NEW k \in Threads!Keys, ~threadRows[k].there, NEW r \in RunRecord,
         r.parent # Threads!NoParent => r.parent \in 1..(k - 1),
         r.at = "saving" => r.base = run[k].base /\ RowFits(threadRows, run, k, r.row),
         run' = [run EXCEPT ![k] = r], threadRows' = threadRows, faults' \in 0..MaxFaults, reopens' \in 0..MaxReopens,
         CacheFits(threadRows, run, threadCache')
  PROVE  ThreadsInv'
<1>1. run \in [Threads!Keys -> RunRecord] /\ threadRows \in [Threads!Keys -> Threads!Row] /\ RunsFit(threadRows, run)
  BY DEF ThreadsInv
<1>2. run' \in [Threads!Keys -> RunRecord] /\ run'[k] = r /\ \A j \in Threads!Keys \ {k} : run'[j] = run[j]
  BY <1>1
<1>3. PICK ran2 : ran2 = run'
  OBVIOUS
<1>4. \A j \in Threads!Keys : threadRows[j].there => ran2[j].base = run[j].base
  BY <1>2, <1>3
<1>5. /\ MoreRows(threadRows, run, threadRows, ran2) /\ ThreadRowsFit(threadRows, ran2)
      /\ \A c : CacheFits(threadRows, run, c) => CacheFits(threadRows, ran2, c)
  BY <1>4, RowsRest
<1>6. RunsFit(threadRows, ran2)
  <2>1. SUFFICES ASSUME NEW j \in Threads!Keys
                 PROVE  /\ ran2[j].parent # Threads!NoParent => ran2[j].parent \in 1..(j - 1)
                        /\ ran2[j].at \in {"none", "active", "saving"} => ~threadRows[j].there
                        /\ ran2[j].at = "saving" => RowFits(threadRows, ran2, j, ran2[j].row)
    BY DEF RunsFit
  <2>2. ran2[j].parent # Threads!NoParent => ran2[j].parent \in 1..(j - 1)
    BY <1>1, <1>2, <1>3 DEF RunsFit
  <2>3. ran2[j].at \in {"none", "active", "saving"} => ~threadRows[j].there
    BY <1>1, <1>2, <1>3 DEF RunsFit
  <2>4. ASSUME ran2[j].at = "saving" PROVE RowFits(threadRows, ran2, j, ran2[j].row)
    <3>1. RowFits(threadRows, run, j, ran2[j].row) /\ ran2[j].base = run[j].base
      BY <1>1, <1>2, <1>3, <2>4 DEF RunsFit
    <3>2. N \in Nat
      BY DEF Threads!ThreadStoreAssumption
    <3>3. PICK stored : stored = threadRows
      OBVIOUS
    <3>4. PICK ran : ran = run
      OBVIOUS
    <3>5. PICK w : w = ran2[j].row
      OBVIOUS
    <3>6. MoreRows(stored, ran, stored, ran2) /\ RowFits(stored, ran, j, w) /\ ran2[j].base = ran[j].base
      BY <1>5, <3>1, <3>3, <3>4, <3>5
    <3>7. RowFits(stored, ran2, j, w)
      BY <3>2, <3>6, RowsStillFit
    <3> QED BY <3>3, <3>5, <3>7
  <2> QED BY <2>2, <2>3, <2>4
<1>7. CacheFits(threadRows, ran2, threadCache')
  BY <1>5
<1>8. ThreadRowsFit(threadRows', run') /\ RunsFit(threadRows', run') /\ CacheFits(threadRows', run', threadCache')
  BY <1>3, <1>5, <1>6, <1>7
<1>9. threadRows' \in [Threads!Keys -> Threads!Row]
  BY <1>1
<1> QED BY <1>2, <1>8, <1>9, ThreadsInvNext

\* What comes after a part.
LEMMA RestOf ==
  ASSUME NEW T, NEW c \in Seq(T), NEW l \in Nat, l <= Len(c), NEW g, g = SubSeq(c, l + 1, Len(c))
  PROVE  g \in Seq(T) /\ Len(g) = Len(c) - l /\ \A i \in 1..(Len(c) - l) : g[i] = c[l + i]
<1>1. l + 1 \in Nat /\ Len(c) \in Nat /\ 1 <= l + 1 /\ l + 1 <= Len(c) + 1 /\ Len(c) <= Len(c)
  OBVIOUS
<1>2. g \in Seq(T) /\ Len(g) = Len(c) + 1 - (l + 1) /\ \A i \in 1..(Len(c) + 1 - (l + 1)) : g[i] = c[(l + 1) + i - 1]
  BY <1>1, PartOf
<1>3. \A i \in 1..(Len(c) - l) : (l + 1) + i - 1 = l + i
  BY <1>1
<1>4. Len(c) + 1 - (l + 1) = Len(c) - l
  <2>1. \A n, b \in Int : n + 1 - (b + 1) = n - b
    OBVIOUS
  <2>2. Len(c) \in Int /\ l \in Int
    BY <1>1
  <2> QED BY <2>1, <2>2
<1> QED BY <1>2, <1>3, <1>4

\* A prefix, and what is left of the whole.
LEMMA PrefixIs ==
  ASSUME NEW s \in Transcripts, NEW t \in Transcripts, Len(s) <= Len(t), SubSeq(s, 1, Len(s)) = SubSeq(t, 1, Len(s)),
         NEW m, m = SubSeq(t, Len(s) + 1, Len(t))
  PROVE  m \in Transcripts /\ s \o m = t
<1>1. s \in Seq(Threads!Exchange) /\ t \in Seq(Threads!Exchange) /\ Len(s) \in Nat /\ Len(t) \in Nat
  BY DEF Transcripts
<1>2. m \in Seq(Threads!Exchange) /\ Len(m) = Len(t) - Len(s) /\ \A i \in 1..(Len(t) - Len(s)) : m[i] = t[Len(s) + i]
  <2>1. PICK l \in Nat : l = Len(s)
    BY <1>1
  <2>2. PICK T : T = Threads!Exchange
    OBVIOUS
  <2>3. t \in Seq(T) /\ l <= Len(t) /\ m = SubSeq(t, l + 1, Len(t))
    BY <1>1, <2>1, <2>2
  <2>4. m \in Seq(T) /\ Len(m) = Len(t) - l /\ \A i \in 1..(Len(t) - l) : m[i] = t[l + i]
    BY <2>1, <2>3, RestOf
  <2> QED BY <2>1, <2>2, <2>4
<1>3. \A i \in 1..Len(s) : s[i] = t[i]
  <2>1. PICK f : f = SubSeq(s, 1, Len(s))
    OBVIOUS
  <2>2. PICK n \in Nat : n = Len(s)
    BY <1>1
  <2>3. 1 \in Nat /\ 1 <= 1 /\ 1 <= n + 1 /\ n <= Len(s) /\ n <= Len(t)
    BY <1>1, <2>2
  <2>4. \A i \in 1..(n + 1 - 1) : f[i] = s[1 + i - 1]
    BY <1>1, <2>1, <2>2, <2>3, PartOf
  <2>5. \A i \in 1..(n + 1 - 1) : f[i] = t[1 + i - 1]
    BY <1>1, <2>1, <2>2, <2>3, PartOf
  <2>6. n + 1 - 1 = n /\ \A i \in 1..n : 1 + i - 1 = i
    OBVIOUS
  <2> QED BY <2>2, <2>4, <2>5, <2>6
<1>4. PICK d : d = s \o m
  OBVIOUS
<1>5. /\ d \in Seq(Threads!Exchange) /\ Len(d) = Len(s) + Len(m)
      /\ (\A i \in 1..Len(s) : d[i] = s[i]) /\ (\A i \in 1..Len(m) : d[Len(s) + i] = m[i])
  BY <1>1, <1>2, <1>4, JoinOf
<1>6. Len(d) = Len(t)
  BY <1>1, <1>2, <1>5
<1>7. \A i \in 1..Len(d) : d[i] = t[i]
  <2> TAKE i \in 1..Len(d)
  <2>1. CASE i <= Len(s)
    <3>1. i \in 1..Len(s)
      BY <1>1, <2>1
    <3> QED BY <1>3, <1>5, <3>1
  <2>2. CASE ~(i <= Len(s))
    <3>1. i - Len(s) \in 1..Len(m) /\ i - Len(s) \in 1..(Len(t) - Len(s)) /\ Len(s) + (i - Len(s)) = i
      BY <1>1, <1>2, <1>6, <2>2
    <3> QED BY <1>2, <1>5, <3>1
  <2> QED BY <2>1, <2>2
<1>8. d = t
  BY <1>1, <1>5, <1>6, <1>7, SeqEqual
<1> QED BY <1>2, <1>4, <1>8 DEF Transcripts

\* What a message starts from is a transcript.
LEMMA ContinuesTypes == ASSUME Threads!ThreadStoreAssumption, ThreadsInv, NEW p \in Threads!Keys, NEW t \in Threads!Continues(p) PROVE t \in Transcripts
<1>1. run \in [Threads!Keys -> RunRecord]
  BY DEF ThreadsInv
<1>2. run[p].base \in Transcripts
  BY <1>1, RunTypes
<1>3. Append(run[p].base, - p) \in Transcripts
  <2>1. - p \in Threads!Exchange
    BY DEF Threads!Exchange
  <2> QED BY <1>2, <2>1 DEF Transcripts
<1>4. Threads!Transcript(p) \in Transcripts
  <2>1. SaidIn(run, p) \in Transcripts
    BY <1>1, SaidIs
  <2> QED BY <2>1 DEF SaidIn, Threads!Transcript
<1>5. Threads!Lookup(p).transcript \in Transcripts
  BY LookupFits DEF LoadFits
<1> QED BY <1>2, <1>3, <1>4, <1>5 DEF Threads!Continues

\* beginThread
LEMMA BeginKeeps == ASSUME Threads!ThreadStoreAssumption, ThreadsInv, NEW k \in Threads!Keys, Threads!Begin(k) PROVE ThreadsInv'
<1>1. /\ run \in [Threads!Keys -> RunRecord] /\ threadRows \in [Threads!Keys -> Threads!Row] /\ RunsFit(threadRows, run) /\ CacheFits(threadRows, run, threadCache)
      /\ faults \in 0..MaxFaults /\ reopens \in 0..MaxReopens
  BY DEF ThreadsInv
<1>2. run[k].at = "none" /\ threadRows' = threadRows /\ faults' = faults /\ reopens' = reopens
  BY DEF Threads!Begin
<1>3. ~threadRows[k].there
  BY <1>1, <1>2 DEF RunsFit
<1>4. PICK r : r = run[k]
  OBVIOUS
<1>5. r \in RunRecord /\ (r.parent # Threads!NoParent => r.parent \in 1..(k - 1))
  BY <1>1, <1>4 DEF RunsFit
<1>6. CASE run' = [run EXCEPT ![k].at = "active"] /\ threadCache' = threadCache
  <2>1. PICK new : new = [r EXCEPT !.at = "active"]
    OBVIOUS
  <2>2. new \in RunRecord /\ new.at = "active" /\ new.parent = r.parent
    BY <1>5, <2>1 DEF RunRecord
  <2>3. run' = [run EXCEPT ![k] = new]
    BY <1>4, <1>6, <2>1
  <2>4. CacheFits(threadRows, run, threadCache')
    BY <1>1, <1>6
  <2> QED BY <1>1, <1>2, <1>3, <1>5, <2>2, <2>3, <2>4, RunMoves
<1>7. ASSUME NEW p \in 1..(k - 1), NEW t \in Threads!Continues(p),
             run' = [run EXCEPT ![k].at = "active", ![k].parent = p, ![k].base = t],
             threadCache' = IF run[p].at = "over" THEN Threads!Lookup(p).cache ELSE threadCache
      PROVE  ThreadsInv'
  <2>1. p \in Threads!Keys
    BY Threads!ThreadStoreAssumption DEF Threads!Keys, Threads!ThreadStoreAssumption
  <2>2. t \in Transcripts
    BY <2>1, ContinuesTypes
  <2>3. PICK new : new = [[[r EXCEPT !.at = "active"] EXCEPT !.parent = p] EXCEPT !.base = t]
    OBVIOUS
  <2>4. new \in RunRecord /\ new.at = "active" /\ new.parent = p
    BY <1>5, <2>1, <2>2, <2>3 DEF RunRecord
  <2>5. run' = [run EXCEPT ![k] = new]
    BY <1>1, <1>4, <1>7, <2>3
  <2>6. CacheFits(threadRows, run, threadCache')
    <3>1. CacheFits(threadRows, run, Threads!Lookup(p).cache)
      BY <2>1, LookupFits DEF LoadFits
    <3> QED BY <1>1, <1>7, <3>1
  <2> QED BY <1>1, <1>2, <1>3, <2>4, <2>5, <2>6, RunMoves
<1> QED BY <1>6, <1>7 DEF Threads!Begin

\* transcriptMessagesForStorage
LEMMA RowOfIs == ASSUME Threads!ThreadStoreAssumption, ThreadsInv, NEW k \in Threads!Keys PROVE Threads!RowOf(k) \in Threads!Row /\ RowFits(threadRows, run, k, Threads!RowOf(k))
<1>1. /\ run \in [Threads!Keys -> RunRecord] /\ threadRows \in [Threads!Keys -> Threads!Row] /\ RunsFit(threadRows, run)
  BY DEF ThreadsInv
<1>2. PICK p : p = run[k].parent
  OBVIOUS
<1>3. p \in Threads!Keys \cup {Threads!NoParent} /\ (p # Threads!NoParent => p \in 1..(k - 1) /\ p \in Threads!Keys)
  BY <1>1, <1>2, RunTypes DEF RunsFit, Threads!Keys
<1>4. PICK t \in Transcripts : t = SaidIn(run, k) /\ t = Threads!Transcript(k)
  BY <1>1, SaidIs DEF SaidIn, Threads!Transcript
<1>5. PICK tree : tree = Threads!TreeOf(k, p)
  OBVIOUS
<1>6. p \in Threads!Keys => LoadFits(threadRows, run, p, Threads!Lookup(p))
  BY LookupFits
<1>7. tree \in Threads!Keys \cup {0}
  <2>1. CASE p # Threads!NoParent /\ Threads!Lookup(p).found
    BY <1>1, <1>3, <1>5, <2>1, RowTypes DEF Threads!TreeOf
  <2>2. CASE ~(p # Threads!NoParent /\ Threads!Lookup(p).found)
    BY <1>5, <2>2 DEF Threads!TreeOf
  <2> QED BY <2>1, <2>2
<1>8. PICK w : w = Threads!RowOf(k)
  OBVIOUS
<1>9. ASSUME NEW q \in Threads!Keys \cup {Threads!NoParent}, NEW m \in Transcripts, w = [there |-> TRUE, parent |-> q, messages |-> m, tree |-> tree]
      PROVE  w \in Threads!Row /\ w.there /\ w.parent = q /\ w.messages = m /\ w.tree = tree
  BY <1>7, <1>9 DEF Threads!Row, Transcripts
<1>10. CASE p = Threads!NoParent \/ ~Threads!Lookup(p).found
  <2>1. w = [there |-> TRUE, parent |-> p, messages |-> t, tree |-> tree]
    BY <1>2, <1>4, <1>5, <1>8, <1>10 DEF Threads!RowOf
  <2>2. w \in Threads!Row /\ w.there /\ w.parent = p /\ w.messages = t
    BY <1>3, <1>9, <2>1
  <2>3. RowFits(threadRows, run, k, w)
    BY <1>3, <1>4, <2>2 DEF RowFits
  <2> QED BY <1>8, <2>2, <2>3
<1>11. CASE p # Threads!NoParent /\ Threads!Lookup(p).found
  <2>1. PICK s \in Transcripts : s = Threads!Lookup(p).transcript /\ (KeptIn(threadRows, run, p) => s = SaidIn(run, p))
    BY <1>3, <1>6, <1>11 DEF LoadFits
  <2>2. threadRows[p].there
    BY <1>3, <1>6, <1>11 DEF LoadFits
  <2>3. CASE Threads!IsPrefixOf(s, t)
    <3>1. PICK m : m = SubSeq(t, Len(s) + 1, Len(t))
      OBVIOUS
    <3>2. m \in Transcripts /\ s \o m = t
      BY ZenonT(40), <2>3, <3>1, PrefixIs DEF Threads!IsPrefixOf, Threads!IsPrefix
    <3>3. w = [there |-> TRUE, parent |-> p, messages |-> m, tree |-> tree]
      BY <1>2, <1>4, <1>5, <1>8, <1>11, <2>1, <2>3, <3>1 DEF Threads!RowOf
    <3>4. w \in Threads!Row /\ w.there /\ w.parent = p /\ w.messages = m /\ w.tree = tree
      BY <1>3, <1>9, <3>2, <3>3
    <3>5. tree = threadRows[p].tree
      BY <1>5, <1>11 DEF Threads!TreeOf
    <3>6. KeptIn(threadRows, run, p) => Follows(run, p, k, m)
      BY <1>4, <2>1, <3>2 DEF Follows
    <3>7. RowFits(threadRows, run, k, w)
      BY <1>3, <1>11, <2>2, <3>4, <3>5, <3>6 DEF RowFits
    <3> QED BY <1>8, <3>4, <3>7
  <2>4. CASE ~Threads!IsPrefixOf(s, t)
    <3>1. w = [there |-> TRUE, parent |-> Threads!NoParent, messages |-> t, tree |-> tree]
      BY <1>2, <1>4, <1>5, <1>8, <1>11, <2>1, <2>4 DEF Threads!RowOf
    <3>2. w \in Threads!Row /\ w.there /\ w.parent = Threads!NoParent /\ w.messages = t
      BY <1>9, <3>1
    <3>3. RowFits(threadRows, run, k, w)
      BY <1>4, <3>2 DEF RowFits
    <3> QED BY <1>8, <3>2, <3>3
  <2> QED BY <2>3, <2>4
<1> QED BY <1>10, <1>11

\* rememberThreadTranscriptFrom reads the parent.
LEMMA FinishLookupKeeps == ASSUME Threads!ThreadStoreAssumption, ThreadsInv, NEW k \in Threads!Keys, Threads!FinishLookup(k) PROVE ThreadsInv'
<1>1. /\ run \in [Threads!Keys -> RunRecord] /\ threadRows \in [Threads!Keys -> Threads!Row] /\ RunsFit(threadRows, run) /\ CacheFits(threadRows, run, threadCache)
      /\ faults \in 0..MaxFaults /\ reopens \in 0..MaxReopens
  BY DEF ThreadsInv
<1>2. run[k].at = "active" /\ threadRows' = threadRows /\ faults' = faults /\ reopens' = reopens
  BY DEF Threads!FinishLookup
<1>3. ~threadRows[k].there
  BY <1>1, <1>2 DEF RunsFit
<1>4. PICK r : r = run[k]
  OBVIOUS
<1>5. r \in RunRecord /\ (r.parent # Threads!NoParent => r.parent \in 1..(k - 1))
  BY <1>1, <1>4 DEF RunsFit
<1>6. PICK w : w = Threads!RowOf(k)
  OBVIOUS
<1>7. w \in Threads!Row /\ RowFits(threadRows, run, k, w)
  BY <1>6, RowOfIs
<1>8. PICK new : new = [[r EXCEPT !.at = "saving"] EXCEPT !.row = w]
  OBVIOUS
<1>9. new \in RunRecord /\ new.at = "saving" /\ new.parent = r.parent /\ new.base = r.base /\ new.row = w
  BY <1>5, <1>7, <1>8 DEF RunRecord
<1>10. run' = [run EXCEPT ![k] = new]
  BY <1>1, <1>4, <1>6, <1>8 DEF Threads!FinishLookup
<1>11. CacheFits(threadRows, run, threadCache')
  <2>1. CASE r.parent = Threads!NoParent
    BY <1>1, <1>4, <2>1 DEF Threads!FinishLookup
  <2>2. CASE r.parent # Threads!NoParent
    <3>1. PICK p \in Threads!Keys : p = r.parent
      BY <1>1, <1>4, <2>2, RunTypes
    <3>2. CacheFits(threadRows, run, Threads!Lookup(p).cache)
      BY <3>1, LookupFits DEF LoadFits
    <3>3. threadCache' = Threads!Lookup(p).cache
      BY <1>4, <2>2, <3>1 DEF Threads!FinishLookup
    <3> QED BY <3>2, <3>3
  <2> QED BY <2>1, <2>2
<1> QED BY <1>1, <1>2, <1>3, <1>4, <1>5, <1>7, <1>9, <1>10, <1>11, RunMoves

\* ... a save that fails ...
LEMMA SaveFailsKeeps == ASSUME Threads!ThreadStoreAssumption, ThreadsInv, NEW k \in Threads!Keys, Threads!SaveFails(k) PROVE ThreadsInv'
<1>1. /\ run \in [Threads!Keys -> RunRecord] /\ threadRows \in [Threads!Keys -> Threads!Row] /\ RunsFit(threadRows, run) /\ CacheFits(threadRows, run, threadCache)
      /\ faults \in 0..MaxFaults /\ reopens \in 0..MaxReopens /\ MaxFaults \in Nat
  BY DEF ThreadsInv, Threads!ThreadStoreAssumption
<1>2. run[k].at = "saving" /\ threadRows' = threadRows /\ threadCache' = threadCache /\ reopens' = reopens /\ faults < MaxFaults /\ faults' = faults + 1
  BY DEF Threads!SaveFails
<1>3. ~threadRows[k].there /\ faults' \in 0..MaxFaults
  BY <1>1, <1>2 DEF RunsFit
<1>4. PICK r : r = run[k]
  OBVIOUS
<1>5. r \in RunRecord /\ (r.parent # Threads!NoParent => r.parent \in 1..(k - 1))
  BY <1>1, <1>4 DEF RunsFit
<1>6. PICK new : new = [[r EXCEPT !.at = "over"] EXCEPT !.row = Threads!NoRow]
  OBVIOUS
<1>7. new \in RunRecord /\ new.at = "over" /\ new.parent = r.parent
  BY <1>5, <1>6, NoRowIs DEF RunRecord
<1>8. run' = [run EXCEPT ![k] = new]
  BY <1>1, <1>4, <1>6 DEF Threads!SaveFails, Threads!Over
<1>9. CacheFits(threadRows, run, threadCache') /\ reopens' \in 0..MaxReopens
  BY <1>1, <1>2
<1> QED BY <1>2, <1>3, <1>5, <1>7, <1>8, <1>9, RunMoves

\* ... and one that does not: the row and the cached node are what the run had.
LEMMA FinishSaveKeeps == ASSUME Threads!ThreadStoreAssumption, ThreadsInv, NEW k \in Threads!Keys, Threads!FinishSave(k) PROVE ThreadsInv'
<1>1. /\ run \in [Threads!Keys -> RunRecord] /\ threadRows \in [Threads!Keys -> Threads!Row] /\ RunsFit(threadRows, run) /\ ThreadRowsFit(threadRows, run)
      /\ CacheFits(threadRows, run, threadCache) /\ faults \in 0..MaxFaults /\ reopens \in 0..MaxReopens
      /\ N \in Nat /\ MaxCachedThreads \in Nat
  BY DEF ThreadsInv, Threads!ThreadStoreAssumption
<1>2. /\ run[k].at = "saving" /\ faults' = faults /\ reopens' = reopens
      /\ threadRows' = [threadRows EXCEPT ![k] = run[k].row] /\ threadCache' = Threads!cacheThreadNode(threadCache, k, Threads!Transcript(k))
  BY DEF Threads!FinishSave
<1>3. ~threadRows[k].there /\ RowFits(threadRows, run, k, run[k].row)
  BY <1>1, <1>2 DEF RunsFit
<1>4. PICK r : r = run[k]
  OBVIOUS
<1>5. r \in RunRecord /\ r.row \in Threads!Row /\ r.base \in Transcripts /\ (r.parent # Threads!NoParent => r.parent \in 1..(k - 1))
  BY <1>1, <1>4, RunTypes DEF RunsFit
<1>6. PICK over : over = [[r EXCEPT !.at = "over"] EXCEPT !.row = Threads!NoRow]
  OBVIOUS
<1>7. over \in RunRecord /\ over.at = "over" /\ over.parent = r.parent /\ over.base = r.base
  BY <1>5, <1>6, NoRowIs DEF RunRecord
<1>8. run' = [run EXCEPT ![k] = over]
  BY <1>1, <1>4, <1>6 DEF Threads!FinishSave, Threads!Over
<1>9. PICK ran2 : ran2 = run'
  OBVIOUS
<1>10. PICK new : new = threadRows'
  OBVIOUS
<1>11. ran2 \in [Threads!Keys -> RunRecord] /\ ran2[k] = over /\ (\A j \in Threads!Keys \ {k} : ran2[j] = run[j])
  BY <1>1, <1>7, <1>8, <1>9
<1>12. new \in [Threads!Keys -> Threads!Row] /\ new[k] = r.row /\ \A j \in Threads!Keys \ {k} : new[j] = threadRows[j]
  BY <1>1, <1>2, <1>4, <1>5, <1>10
<1>13. \A j \in Threads!Keys : ran2[j].base = run[j].base /\ ran2[j].parent = run[j].parent
  BY <1>4, <1>7, <1>11
<1>14. r.row.there /\ (r.row.parent # Threads!NoParent => r.row.parent \in 1..(k - 1))
  BY <1>3, <1>4 DEF RowFits
<1>15. MoreRows(threadRows, run, new, ran2)
  <2>1. Downward(threadRows)
    BY <1>1, DownwardIs
  <2>2. Downward(new)
    BY <1>12, <1>14, <2>1 DEF Downward
  <2>3. \A j \in Threads!Keys : IF threadRows[j].there THEN new[j] = threadRows[j] /\ ran2[j].base = run[j].base ELSE threadRows[j] = Threads!NoRow
    BY <1>1, <1>3, <1>12, <1>13 DEF ThreadRowsFit
  <2> QED BY <1>1, <1>12, <2>1, <2>2, <2>3 DEF MoreRows
<1>16. PICK stored : stored = threadRows
  OBVIOUS
<1>17. PICK ran : ran = run
  OBVIOUS
<1>18. MoreRows(stored, ran, new, ran2)
  BY <1>15, <1>16, <1>17
<1>19. \A j \in Threads!Keys : \A w : RowFits(stored, ran, j, w) => RowFits(new, ran2, j, w)
  <2>1. \A j \in Threads!Keys : ran2[j].base = ran[j].base
    BY <1>13, <1>17
  <2> QED BY <1>1, <1>18, <2>1, RowsStillFit
<1>20. ThreadRowsFit(new, ran2)
  <2>1. SUFFICES ASSUME NEW j \in Threads!Keys PROVE IF new[j].there THEN RowFits(new, ran2, j, new[j]) ELSE new[j] = Threads!NoRow
    BY DEF ThreadRowsFit
  <2>2. CASE j = k
    <3>1. RowFits(new, ran2, k, r.row)
      BY <1>3, <1>4, <1>16, <1>17, <1>19
    <3> QED BY <1>12, <1>14, <2>2, <3>1
  <2>3. CASE j # k
    <3>1. new[j] = stored[j] /\ IF stored[j].there THEN RowFits(stored, ran, j, stored[j]) ELSE stored[j] = Threads!NoRow
      BY <1>1, <1>12, <1>16, <1>17, <2>3 DEF ThreadRowsFit
    <3> QED BY <1>19, <3>1
  <2> QED BY <2>2, <2>3
<1>21. RunsFit(new, ran2)
  <2>1. SUFFICES ASSUME NEW j \in Threads!Keys
                 PROVE  /\ ran2[j].parent # Threads!NoParent => ran2[j].parent \in 1..(j - 1)
                        /\ ran2[j].at \in {"none", "active", "saving"} => ~new[j].there
                        /\ ran2[j].at = "saving" => RowFits(new, ran2, j, ran2[j].row)
    BY DEF RunsFit
  <2>2. CASE j = k
    BY <1>5, <1>7, <1>11, <2>2
  <2>3. CASE j # k
    <3>1. /\ ran[j].parent # Threads!NoParent => ran[j].parent \in 1..(j - 1)
          /\ ran[j].at \in {"none", "active", "saving"} => ~stored[j].there
          /\ ran[j].at = "saving" => RowFits(stored, ran, j, ran[j].row)
      BY <1>1, <1>16, <1>17 DEF RunsFit
    <3>2. ran2[j] = ran[j] /\ new[j] = stored[j]
      BY <1>11, <1>12, <1>16, <1>17, <2>3
    <3> QED BY <1>19, <3>1, <3>2
  <2> QED BY <2>2, <2>3
<1>22. CacheFits(new, ran2, threadCache')
  <2>1. CacheFits(stored, ran, threadCache)
    BY <1>1, <1>16, <1>17
  <2>2. CacheFits(new, ran2, threadCache)
    BY <1>1, <1>18, <2>1, CacheStillFits
  <2>3. PICK t \in Transcripts : t = SaidIn(run, k) /\ t = Threads!Transcript(k)
    BY <1>1, SaidIs DEF SaidIn, Threads!Transcript
  <2>4. SaidIn(ran2, k) = SaidIn(run, k)
    BY <1>13, SaidBefore
  <2>5. EntryFits(new, ran2, k, t)
    BY <1>12, <1>14, <2>3, <2>4 DEF EntryFits
  <2>6. CacheFits(new, ran2, Threads!cacheThreadNode(threadCache, k, t))
    BY <1>1, <2>2, <2>5, CachingFits
  <2> QED BY <1>2, <2>3, <2>6
<1>23. ThreadRowsFit(threadRows', run') /\ RunsFit(threadRows', run') /\ CacheFits(threadRows', run', threadCache')
  BY <1>9, <1>10, <1>20, <1>21, <1>22
<1>24. run' \in [Threads!Keys -> RunRecord] /\ threadRows' \in [Threads!Keys -> Threads!Row] /\ faults' \in 0..MaxFaults /\ reopens' \in 0..MaxReopens
  BY <1>1, <1>2, <1>9, <1>10, <1>11, <1>12
<1> QED BY <1>23, <1>24, ThreadsInvNext

\* The process is restarted: the rows are what is left.
LEMMA RestartKeeps == ASSUME Threads!ThreadStoreAssumption, ThreadsInv, Threads!Restart PROVE ThreadsInv'
<1>1. /\ run \in [Threads!Keys -> RunRecord] /\ threadRows \in [Threads!Keys -> Threads!Row] /\ RunsFit(threadRows, run) /\ MaxReopens \in Nat
      /\ faults \in 0..MaxFaults /\ reopens \in 0..MaxReopens /\ MaxCachedThreads \in Nat
  BY DEF ThreadsInv, Threads!ThreadStoreAssumption
<1>2. threadRows' = threadRows /\ faults' = faults /\ reopens < MaxReopens /\ reopens' = reopens + 1 /\ threadCache' = <<>>
  BY DEF Threads!Restart
<1>3. PICK ran2 : ran2 = run'
  OBVIOUS
<1>4. ASSUME NEW k \in Threads!Keys
      PROVE  /\ ran2[k] \in RunRecord /\ ran2[k].parent = run[k].parent
             /\ threadRows[k].there => ran2[k] = run[k]
             /\ ~threadRows[k].there => ran2[k].at \in {"none", "lost"}
  <2>1. run[k] \in RunRecord /\ run[k].at \in {"none", "active", "saving", "over", "lost"}
    BY <1>1, RunTypes
  <2>2. ran2[k] = IF ~ threadRows[k].there /\ run[k].at # "none" THEN [run[k] EXCEPT !.at = "lost", !.row = Threads!NoRow] ELSE run[k]
    BY <1>3 DEF Threads!Restart
  <2>3. PICK r \in RunRecord : r = run[k]
    BY <2>1
  <2>4. PICK new : new = [[r EXCEPT !.at = "lost"] EXCEPT !.row = Threads!NoRow]
    OBVIOUS
  <2>5. new \in RunRecord /\ new.at = "lost" /\ new.parent = r.parent
    BY <2>3, <2>4, NoRowIs DEF RunRecord
  <2>6. ran2[k] = IF ~ threadRows[k].there /\ r.at # "none" THEN new ELSE r
    BY <2>2, <2>3, <2>4
  <2> QED BY <2>1, <2>3, <2>5, <2>6
<1>5. ran2 \in [Threads!Keys -> RunRecord]
  <2>1. ran2 = [k \in Threads!Keys |-> ran2[k]]
    BY <1>3 DEF Threads!Restart
  <2> QED BY <1>4, <2>1
<1>6. ThreadRowsFit(threadRows, ran2)
  <2>1. \A k \in Threads!Keys : threadRows[k].there => ran2[k].base = run[k].base
    BY <1>4
  <2> QED BY <2>1, RowsRest
<1>7. RunsFit(threadRows, ran2)
  <2>1. SUFFICES ASSUME NEW k \in Threads!Keys
                 PROVE  /\ ran2[k].parent # Threads!NoParent => ran2[k].parent \in 1..(k - 1)
                        /\ ran2[k].at \in {"none", "active", "saving"} => ~threadRows[k].there
                        /\ ran2[k].at = "saving" => RowFits(threadRows, ran2, k, ran2[k].row)
    BY DEF RunsFit
  <2>2. /\ run[k].parent # Threads!NoParent => run[k].parent \in 1..(k - 1)
        /\ run[k].at \in {"none", "active", "saving"} => ~threadRows[k].there
    BY <1>1 DEF RunsFit
  <2> QED BY <1>4, <2>2
<1>8. CacheFits(threadRows, ran2, <<>>)
  BY <1>1 DEF CacheFits, KeysApart
<1>9. ThreadRowsFit(threadRows', run') /\ RunsFit(threadRows', run') /\ CacheFits(threadRows', run', threadCache')
  BY <1>2, <1>3, <1>6, <1>7, <1>8
<1>10. run' \in [Threads!Keys -> RunRecord] /\ threadRows' \in [Threads!Keys -> Threads!Row] /\ faults' \in 0..MaxFaults /\ reopens' \in 0..MaxReopens
  BY <1>1, <1>2, <1>3, <1>5
<1> QED BY <1>9, <1>10, ThreadsInvNext

LEMMA ThreadsBegin == ASSUME Threads!ThreadStoreAssumption, Threads!Init PROVE ThreadsInv
<1>1. run = [k \in Threads!Keys |-> Threads!NoRun] /\ threadRows = [k \in Threads!Keys |-> Threads!NoRow] /\ threadCache = <<>> /\ faults = 0 /\ reopens = 0
  BY DEF Threads!Init
<1>2. Threads!NoRun \in RunRecord /\ Threads!NoRun.at = "none" /\ Threads!NoRun.parent = Threads!NoParent
  <2>1. <<>> \in Transcripts
    BY DEF Transcripts
  <2> QED BY <2>1, NoRowIs DEF Threads!NoRun, RunRecord
<1>3. run \in [Threads!Keys -> RunRecord] /\ threadRows \in [Threads!Keys -> Threads!Row]
  BY <1>1, <1>2, NoRowIs
<1>4. \A k \in Threads!Keys : threadRows[k] = Threads!NoRow /\ ~threadRows[k].there /\ run[k].at = "none" /\ run[k].parent = Threads!NoParent
  BY <1>1, <1>2, NoRowIs
<1>5. ThreadRowsFit(threadRows, run) /\ RunsFit(threadRows, run)
  BY <1>4 DEF ThreadRowsFit, RunsFit
<1>6. CacheFits(threadRows, run, threadCache)
  BY <1>1 DEF CacheFits, KeysApart, Threads!ThreadStoreAssumption
<1>7. faults \in 0..MaxFaults /\ reopens \in 0..MaxReopens
  BY <1>1 DEF Threads!ThreadStoreAssumption
<1> QED BY <1>3, <1>5, <1>6, <1>7 DEF ThreadsInv

LEMMA ThreadsRest == ASSUME ThreadsInv, UNCHANGED Threads!vars PROVE ThreadsInv'
<1>1. run' = run /\ threadRows' = threadRows /\ threadCache' = threadCache /\ faults' = faults /\ reopens' = reopens
  BY DEF Threads!vars
<1>2. /\ run' \in [Threads!Keys -> RunRecord] /\ threadRows' \in [Threads!Keys -> Threads!Row] /\ faults' \in 0..MaxFaults /\ reopens' \in 0..MaxReopens
      /\ ThreadRowsFit(threadRows', run') /\ RunsFit(threadRows', run') /\ CacheFits(threadRows', run', threadCache')
  BY <1>1 DEF ThreadsInv
<1> QED BY <1>2, ThreadsInvNext

LEMMA ThreadsKeep == Threads!ThreadStoreAssumption /\ ThreadsInv /\ [Threads!Next]_Threads!vars => ThreadsInv'
<1> SUFFICES ASSUME Threads!ThreadStoreAssumption, ThreadsInv, [Threads!Next]_Threads!vars PROVE ThreadsInv'
  OBVIOUS
<1>1. ASSUME NEW k \in Threads!Keys, Threads!ReadThread(k) \/ Threads!Begin(k) \/ Threads!FinishLookup(k) \/ Threads!FinishSave(k) \/ Threads!SaveFails(k) PROVE ThreadsInv'
  BY <1>1, ReadKeeps, BeginKeeps, FinishLookupKeeps, FinishSaveKeeps, SaveFailsKeeps
<1>2. CASE Threads!Restart
  BY <1>2, RestartKeeps
<1>3. CASE UNCHANGED Threads!vars
  BY <1>3, ThreadsRest
<1> QED BY <1>1, <1>2, <1>3 DEF Threads!Next

LEMMA ThreadsSafe == ASSUME Threads!ThreadStoreAssumption, ThreadsInv PROVE Threads!StoredThreadsReadBack
<1>1. /\ run \in [Threads!Keys -> RunRecord] /\ threadRows \in [Threads!Keys -> Threads!Row] /\ ThreadRowsFit(threadRows, run) /\ CacheFits(threadRows, run, threadCache)
      /\ faults \in 0..MaxFaults /\ reopens \in 0..MaxReopens /\ N \in Nat /\ MaxCachedThreads \in Nat
  BY DEF ThreadsInv, Threads!ThreadStoreAssumption
<1>2. Threads!TypeOK
  <2>1. threadCache \in Seq(Entry) /\ Len(threadCache) <= MaxCachedThreads
    BY <1>1 DEF CacheFits
  <2> QED BY <1>1, <2>1 DEF Threads!TypeOK, RunRecord, Entry, Transcripts
<1>3. PICK stored \in [Threads!Keys -> Threads!Row] : stored = threadRows
  BY <1>1
<1>4. PICK ran \in [Threads!Keys -> RunRecord] : ran = run
  BY <1>1
<1>5. ASSUME NEW k \in Threads!Keys, Threads!InOrder(k) PROVE Threads!ReadsBack(k) /\ (threadRows[k].there => Threads!Loads(threadRows, <<>>)[k].transcript = Threads!Transcript(k))
  <2>1. KeptIn(threadRows, run, k)
    <3>1. Downward(threadRows)
      BY <1>1, DownwardIs
    <3>2. Orders(threadRows, run)[k]
      BY <1>5, InOrderIs
    <3>3. Orders(threadRows, run)[k] \in BOOLEAN
      BY <1>1, <3>1, KeptIs
    <3> QED BY <3>2, <3>3 DEF KeptIn
  <2>2. Threads!Transcript(k) = SaidIn(run, k)
    BY DEF Threads!Transcript, SaidIn
  <2>3. Threads!ReadsBack(k)
    BY <2>1, <2>2, LookupFits DEF LoadFits, Threads!ReadsBack
  <2>4. ASSUME threadRows[k].there PROVE Threads!Loads(threadRows, <<>>)[k].transcript = Threads!Transcript(k)
    <3>1. CacheFits(stored, ran, <<>>)
      BY <1>1 DEF CacheFits, KeysApart
    <3>2. ThreadRowsFit(stored, ran)
      BY <1>1, <1>3, <1>4
    <3>3. LoadFits(stored, ran, k, Load(stored, <<>>)[k])
      BY <1>1, <3>1, <3>2, LoadsFit
    <3>4. Load(stored, <<>>)[k].transcript = SaidIn(ran, k)
      BY <1>3, <1>4, <2>1, <2>4, <3>3 DEF LoadFits
    <3> QED BY <1>3, <1>4, <2>2, <3>4, LoadsAre
  <2> QED BY <2>3, <2>4
<1>6. ASSUME NEW k \in Threads!CachedKeys(threadCache) PROVE threadRows[k].there
  <2>1. threadCache \in Seq(Entry)
    BY <1>1 DEF CacheFits
  <2>2. PICK i \in 1..Len(threadCache) : threadCache[i].key = k
    BY <2>1 DEF Threads!CachedKeys
  <2> QED BY <1>1, <2>2 DEF CacheFits, EntryFits
<1>7. Threads!ReadsBackInOrder
  BY <1>5, <1>6 DEF Threads!ReadsBackInOrder
<1>8. Threads!TreesKeepTheirId
  <2>1. SUFFICES ASSUME NEW k \in Threads!Keys, NEW p, p = threadRows[k].parent, p # Threads!NoParent, threadRows[p].there, ~Threads!LinkedWhole(k)
                 PROVE  threadRows[k].tree = threadRows[p].tree
    BY DEF Threads!TreesKeepTheirId
  <2>2. threadRows[k].messages # SaidIn(run, k)
    BY <2>1 DEF Threads!LinkedWhole, Threads!Transcript, SaidIn
  <2>3. threadRows[k].there
    BY <1>1, <2>1, NoRowIs DEF ThreadRowsFit
  <2>4. RowFits(threadRows, run, k, threadRows[k])
    BY <1>1, <2>3 DEF ThreadRowsFit
  <2> QED BY <2>1, <2>2, <2>4 DEF RowFits
<1> QED BY <1>2, <1>7, <1>8 DEF Threads!StoredThreadsReadBack

\* In the stores, a stored thread reads back as the transcript its run had when it was
\* saved, through the cache and from the rows alone, whatever runs continued each other,
\* failed to save or were lost in a restart, if the nodes on the way to it were saved in
\* order; and a tree keeps one id (lookupThreadTranscript, rememberThreadTranscriptFrom,
\* cacheThreadNode, in Storage/Thread.hs).
THEOREM ThreadsReadBack == StoresSpec => []StoredThreadsReadBack
<1>0. Threads!ThreadStoreAssumption
  BY StoresAssumption
<1>1. StoresInit => ThreadsInv
  BY <1>0, ThreadsBegin DEF StoresInit
<1>2. ThreadsInv /\ [StoresNext]_storesVars => ThreadsInv'
  <2> SUFFICES ASSUME ThreadsInv, [StoresNext]_storesVars PROVE ThreadsInv'
    OBVIOUS
  <2>1. CASE StoredThreads
    BY <1>0, <2>1, ThreadsKeep DEF StoredThreads
  <2>2. CASE StoredChats \/ StoredMedia \/ UNCHANGED storesVars
    <3>1. UNCHANGED threads
      BY <2>2 DEF StoredChats, StoredMedia, storesVars
    <3> QED BY <3>1, ThreadsRest DEF threads, Threads!vars
  <2> QED BY <2>1, <2>2 DEF StoresNext
<1>3. ThreadsInv => StoredThreadsReadBack
  BY <1>0, ThreadsSafe DEF StoredThreadsReadBack
<1> QED BY <1>1, <1>2, <1>3, PTL DEF StoresSpec
=============================================================================
