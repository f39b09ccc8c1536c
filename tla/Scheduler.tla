------------------------------ MODULE Scheduler ------------------------------
(***************************************************************************)
(* Delayed messages (src/cosmobot/lib/Bot/Scheduler/Interpreter.hs and     *)
(* State.hs, the table of Storage/Scheduler.hs and the pump of             *)
(* Util/Stream.hs that consumes the result).  Clients schedule and delete, *)
(* a worker moves due messages from the pending map to a bounded queue,    *)
(* a consumer deletes the row of each and hands it to the merged stream;   *)
(* the rows survive a restart, everything else does not.                   *)
(***************************************************************************)
EXTENDS Integers, Sequences, SequencesExt

CONSTANTS
  Clients,      \* threads that call the scheduler
  Owners,       \* platform, chat kind, chat and sender of a message
  Delays,       \* the delays, in seconds, that clients ask for
  Capacity,     \* scheduledMessageQueueCapacity, 1024 in the code
  MaxInt,       \* the largest due time a row can hold, 2^63 - 1 in the code
  MaxId,        \* bound of the model: messages ever scheduled
  MaxTime,      \* bound of the model: the clock stays there once it arrives
  MaxRestarts   \* bound of the model: restarts of the process

ASSUME SchedulerAssumption ==
  /\ Delays \subseteq Int
  /\ Capacity \in Nat \ {0} /\ MaxInt \in Nat
  /\ MaxId \in Nat /\ MaxTime \in Nat /\ MaxRestarts \in Nat

Ids == 1..MaxId

VARIABLES
  clock,      \* whole seconds; now and dueAt below are readings of it
  nextRow,    \* AUTOINCREMENT of scheduled_messages
  rows,       \* ids in scheduled_messages
  due,        \* the due time a client asked for
  owner,
  pending,    \* ids in pendingById and pendingByDue
  memDue,     \* dueAtUnixSeconds of the PendingMessage in memory
  wake,       \* schedulerWake is full
  client,     \* what a client is in the middle of
  worker,     \* where schedulerWorker is
  now,        \* the worker's reading of the clock, 0 once it is used
  batch,      \* due messages popped and not yet queued
  sleep,      \* seconds left of the worker's timeout
  queue,
  consumer,   \* idle, deleting, returning or dead
  hand,       \* ids the consumer has read from the queue and not returned
  delivered,  \* ghost: messages returned to the stream, in order
  removed,    \* ghost: messages a client was told it deleted
  late,       \* ghost: seconds from reading the clock to arming the timer it waits on
  missed,     \* ghost: a client died before its signal, and the worker has not looked since
  restarts

store     == <<nextRow, rows, due, owner>>
memory    == <<pending, memDue>>
workerVar == <<worker, now, batch, sleep, late, missed>>
outVars   == <<consumer, hand, delivered>>
vars == <<clock, store, memory, wake, client, workerVar, queue, outVars, removed, restarts>>

NoOwner == "no owner"
Idle    == [kind |-> "idle"]

\* A table that numbers its rows from 0.
MutFirstRow == 0

FirstRow == 1

Init ==
  /\ clock = 0 /\ nextRow = FirstRow
  /\ rows = {} /\ pending = {}
  /\ due = [i \in Ids |-> 0] /\ memDue = [i \in Ids |-> 0]
  /\ owner = [i \in Ids |-> NoOwner]
  /\ wake = FALSE
  /\ client = [c \in Clients |-> Idle]
  /\ worker = "read" /\ now = 0 /\ batch = {} /\ sleep = 0
  /\ queue = <<>>
  /\ consumer = "idle" /\ hand = {}
  /\ delivered = <<>> /\ removed = {}
  /\ late = 0 /\ missed = FALSE /\ restarts = 0

\* Time passes for the clock and for a running timeout.
Tick ==
  /\ clock < MaxTime \/ sleep > 0
  /\ clock' = IF clock < MaxTime THEN clock + 1 ELSE clock
  /\ sleep' = IF sleep > 0 THEN sleep - 1 ELSE 0
  /\ UNCHANGED <<store, memory, wake, client, worker, now, batch, late, missed,
                 queue, outVars, removed, restarts>>

-----------------------------------------------------------------------------
(* Clients.                                                                *)

\* The due time as the column keeps it: a 64-bit integer.
AsColumn(n) == ((n + MaxInt + 1) % (2 * (MaxInt + 1))) - (MaxInt + 1)

\* A client whose wake-up nobody needs: the worker is already running.
MutSignal == UNCHANGED wake

signalSchedulerWake == wake' = TRUE

\* persistPendingMessage reads the clock before it takes the lock ...
ScheduleBegin(c) ==
  /\ client[c] = Idle
  /\ \E o \in Owners, d \in Delays :
       client' = [client EXCEPT ![c] =
         [kind |-> "store", due |-> clock + (IF d < 0 THEN 0 ELSE d), owner |-> o]]
  /\ UNCHANGED <<clock, store, memory, wake, workerVar, queue, outVars, removed, restarts>>

CreatedRow(d, o) ==
  /\ nextRow <= MaxId
  /\ nextRow' = nextRow + 1
  /\ rows' = rows \cup {nextRow}
  /\ due' = [due EXCEPT ![nextRow] = d]
  /\ owner' = [owner EXCEPT ![nextRow] = o]

\* ... and under the lock creates the row and remembers it.
ScheduleStore(c) ==
  /\ client[c].kind = "store"
  /\ CreatedRow(client[c].due, client[c].owner)
  /\ pending' = pending \cup {nextRow}
  /\ memDue' = [memDue EXCEPT ![nextRow] = client[c].due]
  /\ client' = [client EXCEPT ![c] = [kind |-> "signal"]]
  /\ UNCHANGED <<clock, wake, workerVar, queue, outVars, removed, restarts>>

Signal(c) ==
  /\ client[c].kind = "signal"
  /\ signalSchedulerWake
  /\ client' = [client EXCEPT ![c] = Idle]
  /\ UNCHANGED <<clock, store, memory, workerVar, queue, outVars, removed, restarts>>

\* Storage fails, or the client is cancelled; its signal is then never given.
ClientFails(c) ==
  /\ client[c] # Idle
  /\ client' = [client EXCEPT ![c] = Idle]
  /\ missed' = (missed \/ client[c].kind = "signal")
  /\ UNCHANGED <<clock, store, memory, wake, worker, now, batch, sleep, late,
                 queue, outVars, removed, restarts>>

\* deletePendingMessageFromState: pending, and of the same owner.
Deletable(i, o) == i \in pending /\ owner[i] = o

\* Under the lock: the memory and the row, or neither when the storage fails.
DeleteScheduledMessage(c, o, i) ==
  /\ client[c] = Idle
  /\ Deletable(i, o)
  /\ pending' = pending \ {i}
  /\ rows' = rows \ {i}
  /\ removed' = removed \cup {i}
  /\ client' = [client EXCEPT ![c] = [kind |-> "signal"]]
  /\ UNCHANGED <<clock, nextRow, due, owner, memDue, wake, workerVar, queue, outVars, restarts>>

-----------------------------------------------------------------------------
(* schedulerWorker.                                                        *)

ReadClock ==
  /\ worker = "read"
  /\ worker' = "pop"
  /\ now' = clock
  /\ UNCHANGED <<clock, store, memory, wake, client, batch, sleep, late, missed,
                 queue, outVars, removed, restarts>>

IsDue(i) == memDue[i] <= now

NotPopped == {i \in pending : ~IsDue(i)}

PopDue ==
  /\ worker = "pop"
  /\ worker' = "push"
  /\ batch' = {i \in pending : IsDue(i)}
  /\ pending' = NotPopped
  /\ UNCHANGED <<clock, store, memDue, wake, client, now, sleep, late, missed,
                 queue, outVars, removed, restarts>>

\* Newest id first.
MutBefore(i, j) == i > j

\* The order of PendingDue: by due time, then by id.
Before(i, j) == memDue[i] < memDue[j] \/ (memDue[i] = memDue[j] /\ i < j)

\* writeTBQueue blocks while the queue is full.
Push ==
  /\ worker = "push"
  /\ Len(queue) < Capacity
  /\ \E i \in batch :
       /\ \A j \in batch \ {i} : Before(i, j)
       /\ batch' = batch \ {i}
       /\ queue' = Append(queue, i)
  /\ UNCHANGED <<clock, store, memory, wake, client, worker, now, sleep, late, missed,
                 outVars, removed, restarts>>

\* A timeout that runs for the due time itself.
MutTimeLeft(d) == d

\* waitMicrosecondsUntil
TimeLeft(d) == IF d <= now THEN 0 ELSE d - now

\* nextDueAt: the timeout is counted from `now`, the
\* reading taken before the batch was queued.
Look ==
  /\ worker = "push" /\ batch = {}
  /\ IF pending = {}
     THEN worker' = "idle" /\ sleep' = 0
     ELSE /\ worker' = "sleeping"
          /\ \E i \in pending :
               /\ \A j \in pending : memDue[i] <= memDue[j]
               /\ sleep' = TimeLeft(memDue[i])
  /\ late' = clock - now
  /\ now' = 0
  /\ missed' = FALSE
  /\ UNCHANGED <<clock, store, memory, wake, client, batch, queue, outVars, removed, restarts>>

\* takeMVar schedulerWake returns, or its timeout expires.
Woken ==
  /\ worker \in {"idle", "sleeping"}
  /\ \/ wake /\ wake' = FALSE
     \/ worker = "sleeping" /\ sleep = 0 /\ UNCHANGED wake
  /\ worker' = "drain"
  /\ sleep' = 0 /\ late' = 0
  /\ UNCHANGED <<clock, store, memory, client, now, batch, missed,
                 queue, outVars, removed, restarts>>

DrainSchedulerWake ==
  /\ worker = "drain"
  /\ worker' = "read"
  /\ wake' = FALSE
  /\ UNCHANGED <<clock, store, memory, client, now, batch, sleep, late, missed,
                 queue, outVars, removed, restarts>>

-----------------------------------------------------------------------------
(* ReceiveScheduledMessage, called by the pump of the merged stream.       *)

ReadQueue ==
  /\ consumer = "idle"
  /\ queue # <<>>
  /\ hand' = {Head(queue)}
  /\ queue' = Tail(queue)
  /\ consumer' = "deleting"
  /\ UNCHANGED <<clock, store, memory, wake, client, workerVar, delivered, removed, restarts>>

DeletedRows == rows \ hand

DeleteRow ==
  /\ consumer = "deleting"
  /\ rows' = DeletedRows
  /\ consumer' = "returning"
  /\ UNCHANGED <<clock, nextRow, due, owner, memory, wake, client, workerVar, queue,
                 hand, delivered, removed, restarts>>

\* The storage fails: the exception ends the pump (MergeFailed), and with it the
\* stream of scheduled messages until the next start.
PumpFails ==
  /\ consumer = "deleting"
  /\ consumer' = "dead"
  /\ hand' = {}
  /\ UNCHANGED <<clock, store, memory, wake, client, workerVar, queue, delivered, removed, restarts>>

Return ==
  /\ consumer = "returning"
  /\ \E i \in hand : delivered' = Append(delivered, i)
  /\ hand' = {}
  /\ consumer' = "idle"
  /\ UNCHANGED <<clock, store, memory, wake, client, workerVar, queue, removed, restarts>>

-----------------------------------------------------------------------------
\* A start that trusts what memory had.
MutReloaded == pending

\* loadScheduledMessages
Reloaded == rows

\* The process stops, in whatever state, and runScheduler starts again.
Restart ==
  /\ restarts < MaxRestarts
  /\ restarts' = restarts + 1
  /\ pending' = Reloaded
  /\ memDue' = [i \in Ids |-> AsColumn(due[i])]
  /\ wake' = FALSE
  /\ client' = [c \in Clients |-> Idle]
  /\ worker' = "read" /\ now' = 0 /\ batch' = {} /\ sleep' = 0
  /\ queue' = <<>>
  /\ consumer' = "idle" /\ hand' = {}
  /\ late' = 0 /\ missed' = FALSE
  /\ UNCHANGED <<clock, store, delivered, removed>>

-----------------------------------------------------------------------------
Client(c) ==
  \/ ScheduleBegin(c) \/ ScheduleStore(c) \/ Signal(c) \/ ClientFails(c)
  \/ \E o \in Owners, i \in Ids : DeleteScheduledMessage(c, o, i)
Worker   == ReadClock \/ PopDue \/ Push \/ Look \/ Woken \/ DrainSchedulerWake
Consumer == ReadQueue \/ DeleteRow \/ PumpFails \/ Return

Next == Tick \/ (\E c \in Clients : Client(c)) \/ Worker \/ Consumer \/ Restart

Spec == Init /\ [][Next]_vars

\* The clock runs, and so do the worker, the pump and a client that owes a
\* signal, whenever they can.  No storage call is assumed to succeed.
FairSpec ==
  /\ Spec
  /\ WF_vars(Tick) /\ WF_vars(Worker) /\ WF_vars(Consumer)
  /\ \A c \in Clients : WF_vars(Signal(c))

-----------------------------------------------------------------------------
(* Properties.                                                             *)

Held == pending \cup batch \cup ToSet(queue) \cup hand

\* Every variable has its type.
TypeOK ==
  /\ clock \in 0..MaxTime /\ now \in 0..MaxTime /\ sleep \in Nat /\ late \in Int
  /\ nextRow \in 1..(MaxId + 1)
  /\ rows \subseteq Ids /\ pending \subseteq Ids /\ batch \subseteq Ids
  /\ hand \subseteq Ids /\ removed \subseteq Ids
  /\ due \in [Ids -> Int] /\ memDue \in [Ids -> Int]
  /\ owner \in [Ids -> Owners \cup {NoOwner}]
  /\ wake \in BOOLEAN /\ missed \in BOOLEAN
  /\ client \in [Clients -> {Idle, [kind |-> "signal"]} \cup
                            [kind : {"store"}, due : Int, owner : Owners]]
  /\ worker \in {"read", "pop", "push", "idle", "sleeping", "drain"}
  /\ queue \in Seq(Ids) /\ delivered \in Seq(Ids)
  /\ consumer \in {"idle", "deleting", "returning", "dead"}
  /\ restarts \in 0..MaxRestarts

\* A stored message is in exactly one place on its way out (the map, the batch,
\* the queue or the consumer's hand), and nothing on its way has lost its row
\* before the consumer deletes it: across pops, deletes, failures and restarts
\* no message is duplicated or resurrected (Interpreter.hs, State.hs).
HeldOnce ==
  /\ pending \cap batch = {} /\ (pending \cup batch) \cap (ToSet(queue) \cup hand) = {}
  /\ ToSet(queue) \cap hand = {}
  /\ IsInjective(queue)
  /\ pending \cup batch \cup ToSet(queue) \subseteq rows
  /\ consumer = "returning" => hand \cap rows = {}

\* No row is forgotten by the running program, except the one whose deletion
\* failed and ended the pump: that one waits for the next start
\* (ReceiveScheduledMessage).
NothingForgotten ==
  IF consumer = "dead"
  THEN \A i, j \in rows \ Held : i = j
  ELSE rows \subseteq Held

\* A row is in exactly one place of the running program, from the schedule to the
\* deletion of the row, restarts and a failing deletion included; with the types.
EveryRowHeldOnce == TypeOK /\ HeldOnce /\ NothingForgotten

\* While the worker waits and no wake-up is due to it, it will look again before
\* any pending message is overdue by more than the time it spent queueing the
\* last batch: no schedule or delete slips in between its look and its wait
\* (schedulerWorker, signalSchedulerWake, drainSchedulerWake).
WakesInTime ==
  /\ worker \in {"idle", "sleeping"}
  /\ ~wake /\ ~missed
  /\ \A c \in Clients : client[c].kind # "signal"
  => \A i \in pending :
       worker = "sleeping" /\ (sleep = 0 \/ clock + sleep <= memDue[i] + late)

\* A message whose time has come leaves the table, unless the pump has died or a
\* client died between storing a message and waking the worker (scheduleMessage).
DueMessagesLeave ==
  \A i \in Ids :
    i \in rows /\ due[i] <= clock ~> i \notin rows \/ consumer = "dead" \/ missed

\* The scheduler keeps the promise of DelayedMessages: once, not early, in the
\* order of due times, and lost only from the consumer's hand.
Phase(i) == CASE i \in removed     -> "deleted"
              [] i \in ToSet(delivered) -> "delivered"
              [] i >= nextRow      -> "none"
              [] i \in rows \/ (consumer = "returning" /\ i \in hand) -> "scheduled"
              [] OTHER             -> "lost"

Promise == INSTANCE DelayedMessages
             WITH phase <- [i \in Ids |-> Phase(i)], dueAt <- due, time <- clock

KeepsPromise == Promise!Spec

\* Types.hs calls scheduledMessages the stream of messages whose delay has
\* elapsed: nothing it returned was asked for a later time.
DelayHasElapsed == \A i \in ToSet(delivered) : due[i] <= clock
=============================================================================
