------------------------- MODULE ConcurrencyManager -------------------------
(***************************************************************************)
(* The ownership registry for background work                              *)
(* (src/cosmobot/lib/Bot/Concurrency/Manager.hs, with the handle API of    *)
(* Effect/Concurrency.hs).  Callers fork threads, cancel them, await them; *)
(* the registry remembers every unfinished thread and the newest           *)
(* MaxFinished finished ones.  A caller is either the managed program      *)
(* itself (Main) or one of the threads it owns, so a caller may be         *)
(* cancelled in the middle of an operation of its own.                     *)
(***************************************************************************)
EXTENDS Naturals, FiniteSets

CONSTANTS
  MaxId,         \* bound of the model: how many threads are ever forked
  MaxFinished    \* maxFinishedEntries, 256 in the code

ASSUME BoundsAssumption == MaxId \in Nat /\ MaxFinished \in Nat

Ids   == 1..MaxId
Main  == 0
Actor == Ids \cup {Main}

VARIABLES
  nextId,      \* nextIdRef
  registered,  \* keys of the `runtimes` map
  status,      \* info.status of a thread; still known here once it is pruned
  thread,      \* what the Async behind an id is doing
  op,          \* the manager operation an actor is in the middle of
  main,        \* runConcurrencyManager: inner, draining or exited
  drain,       \* threads cancelAndAwaitAll has yet to visit
  snapshot,    \* managedThreads as read by cancelAndAwaitAll: id -> finished?
  awaited,     \* ghost: ids that some await or awaitAny reported as done
  killed       \* ghost: ids whose Async.cancel or waitCatch returned to its caller

regVars  == <<registered, status>>
mainVars == <<main, drain, snapshot>>
ghosts   == <<awaited, killed>>
vars == <<nextId, registered, status, thread, op, main, drain, snapshot, awaited, killed>>

\* Completed and Failed are one outcome here: nothing below tells them apart.
Finished == {"ended", "cancelled"}
Live     == {"gated", "running", "returned", "unwinding"}
OpKind   == {"idle", "forking", "opening", "marking", "throwing", "joining", "awaiting"}

\* A registry that numbers its entries from 0.
MutFirstId == 0

FirstId == 1

Idle        == [kind |-> "idle", on |-> {}]
On(kind, i) == [kind |-> kind, on |-> {i}]

Init ==
  /\ nextId = FirstId
  /\ registered = {}
  /\ status = [i \in Ids |-> "none"]
  /\ thread = [i \in Ids |-> "absent"]
  /\ op = [a \in Actor |-> Idle]
  /\ main = "inner"
  /\ drain = {}
  /\ snapshot = [i \in {} |-> FALSE]
  /\ awaited = {}
  /\ killed = {}

-----------------------------------------------------------------------------
(* finishEntry and pruneFinished: one atomic update of the map.            *)

FinishedIn(reg, st) == {i \in reg : st[i] \in Finished}

\* The oldest instead of the newest.
MutNewestTake(done) == {i \in done : Cardinality({j \in done : j < i}) < MaxFinished}

\* The finished entries that drop of the oldest excess leaves in the map.
Newest(done) == {i \in done : Cardinality({j \in done : j > i}) < MaxFinished}

Prune(reg, st) == (reg \ FinishedIn(reg, st)) \cup Newest(FinishedIn(reg, st))

\* No test for an outcome already recorded.
MutFinishStatus(i, s) ==
  IF i \in registered THEN [status EXCEPT ![i] = s] ELSE status

FinishStatus(i, s) ==
  IF i \in registered /\ status[i] \notin Finished
  THEN [status EXCEPT ![i] = s]
  ELSE status

FinishEntry(i, s) ==
  /\ status' = FinishStatus(i, s)
  /\ registered' = Prune(registered, FinishStatus(i, s))

-----------------------------------------------------------------------------
(* Which operations an actor may begin.  Exception handlers of a cancelled *)
(* thread only cancel and then await the threads it forked itself          *)
(* (cancelAndAwait), which are younger than it.                            *)

Callable(a) ==
  /\ op[a] = Idle
  /\ IF a = Main THEN main = "inner" ELSE thread[a] \in {"running", "unwinding"}

Unwinding(a) == a # Main /\ thread[a] = "unwinding"

\* forkWithHandleIn, under mask: allocate the id and create the thread, which
\* blocks on its start gate ...
ForkAllocate(a) ==
  /\ Callable(a)
  /\ nextId <= MaxId
  /\ nextId' = nextId + 1
  /\ thread' = [thread EXCEPT ![nextId] = "gated"]
  /\ op' = [op EXCEPT ![a] = On("forking", nextId)]
  /\ UNCHANGED <<regVars, mainVars, ghosts>>

\* ... insert its entry as Running ...
ForkInsert(a) ==
  /\ op[a].kind = "forking"
  /\ \E i \in op[a].on :
       /\ registered' = registered \cup {i}
       /\ status' = [status EXCEPT ![i] = "running"]
       /\ op' = [op EXCEPT ![a] = On("opening", i)]
  /\ UNCHANGED <<nextId, thread, mainVars, ghosts>>

\* ... and open the gate.
ForkOpen(a) ==
  /\ op[a].kind = "opening"
  /\ \E i \in op[a].on :
       thread' = [thread EXCEPT ![i] = IF @ = "gated" THEN "running" ELSE @]
  /\ op' = [op EXCEPT ![a] = Idle]
  /\ UNCHANGED <<nextId, regVars, mainVars, ghosts>>

-----------------------------------------------------------------------------
(* cancelIn.  A missing or finished entry answers False and changes        *)
(* nothing; otherwise the entry is marked before the thread is told.       *)

CancelLookup(a, i) ==
  /\ Callable(a)
  /\ Unwinding(a) => i > a
  /\ i \in registered /\ status[i] \notin Finished
  /\ op' = [op EXCEPT ![a] = On("marking", i)]
  /\ UNCHANGED <<nextId, regVars, thread, mainVars, ghosts>>

CancelMark(a) ==
  /\ op[a].kind = "marking"
  /\ \E i \in op[a].on :
       /\ FinishEntry(i, "cancelled")
       /\ op' = [op EXCEPT ![a] = On("throwing", i)]
  /\ UNCHANGED <<nextId, thread, mainVars, ghosts>>

\* Waiting for the entry to be finished rather than for its Async.
MutDone(i) == status[i] \in Finished

\* waitCatch returns and poll answers Just: the Async has ended.
Done(i) == thread[i] = "stopped"

Masked(i) == op[i].kind \in {"forking", "opening"}

\* What the asynchronous exception does to a thread: before or after the
\* action it ends the thread, inside the action it starts the handlers.
Hit(t) == CASE t \in {"gated", "returned"} -> "stopped"
            [] t = "running"               -> "unwinding"
            [] OTHER                       -> t

\* throwTo of Async.cancel: the exception reaches the target and aborts
\* whatever manager operation the target was in; the caller goes on to wait.
CancelThrow(a) ==
  /\ op[a].kind = "throwing"
  /\ \E i \in op[a].on :
       /\ ~Masked(i)
       /\ thread' = [thread EXCEPT ![i] = Hit(@)]
       /\ op' = IF thread[i] = "stopped"
                THEN [op EXCEPT ![a] = On("joining", i)]
                ELSE [op EXCEPT ![a] = On("joining", i), ![i] = Idle]
  /\ UNCHANGED <<nextId, regVars, mainVars, ghosts>>

\* waitCatch inside Async.cancel, after which cancelIn answers True.
CancelReturn(a) ==
  /\ op[a].kind = "joining"
  /\ \E i \in op[a].on :
       /\ Done(i)
       /\ killed' = killed \cup {i}
  /\ op' = [op EXCEPT ![a] = Idle]
  /\ UNCHANGED <<nextId, regVars, thread, mainVars, awaited>>

-----------------------------------------------------------------------------
(* awaitIn and awaitAnyIn.  Handles come from fork, so their entry was     *)
(* inserted once; a handle that is no longer in the map counts as done.    *)

Handles == {i \in Ids : status[i] # "none"}

BeginWait(a, S) ==
  /\ Callable(a)
  /\ Unwinding(a) => \A i \in S : i > a /\ status[i] \in Finished
  /\ \/ /\ \E i \in S \ registered : awaited' = awaited \cup {i}
        /\ UNCHANGED op
     \/ /\ S \subseteq registered
        /\ op' = [op EXCEPT ![a] = [kind |-> "awaiting", on |-> S]]
        /\ UNCHANGED awaited
  /\ UNCHANGED <<nextId, regVars, thread, mainVars, killed>>

Await(a, i) == i \in Handles /\ BeginWait(a, {i})

AwaitAny(a, S) == S \subseteq Handles /\ Cardinality(S) > 1 /\ BeginWait(a, S)

\* waitCatch returned, or waitAny returned and poll found this thread first.
AwaitReturn(a) ==
  /\ op[a].kind = "awaiting"
  /\ \E i \in op[a].on :
       /\ Done(i)
       /\ awaited' = awaited \cup {i}
  /\ op' = [op EXCEPT ![a] = Idle]
  /\ UNCHANGED <<nextId, regVars, thread, mainVars, killed>>

-----------------------------------------------------------------------------
(* runAction.                                                              *)

\* The action returned or threw a synchronous exception (trySync).
EndAction(i) ==
  /\ thread[i] = "running" /\ op[i] = Idle
  /\ thread' = [thread EXCEPT ![i] = "returned"]
  /\ UNCHANGED <<nextId, regVars, op, mainVars, ghosts>>

FinishSelf(i) ==
  /\ thread[i] = "returned"
  /\ FinishEntry(i, "ended")
  /\ thread' = [thread EXCEPT ![i] = "stopped"]
  /\ UNCHANGED <<nextId, op, mainVars, ghosts>>

\* raceTasks_ rethrows the asynchronous exception of a task it raced; trySync
\* lets it through, so the thread ends without finishing its own entry.
Rethrow(i) ==
  /\ thread[i] = "running" /\ op[i] = Idle
  /\ \E j \in Ids : j > i /\ status[j] = "cancelled" /\ thread[j] = "stopped"
  /\ thread' = [thread EXCEPT ![i] = "stopped"]
  /\ UNCHANGED <<nextId, regVars, op, mainVars, ghosts>>

\* The handlers of a cancelled thread are done.
UnwindEnd(i) ==
  /\ thread[i] = "unwinding" /\ op[i] = Idle
  /\ thread' = [thread EXCEPT ![i] = "stopped"]
  /\ UNCHANGED <<nextId, regVars, op, mainVars, ghosts>>

-----------------------------------------------------------------------------
(* runConcurrencyManager after the inner program ended, normally or with   *)
(* an exception: cancelAndAwaitAll(With) works through one snapshot.       *)

ShutdownSnapshot ==
  /\ main = "inner" /\ op[Main] = Idle
  /\ main' = "draining"
  /\ drain' = registered
  /\ snapshot' = [i \in registered |-> status[i] \in Finished]
  /\ UNCHANGED <<nextId, regVars, thread, op, ghosts>>

\* Waiting for a thread that nobody has cancelled.
MutDrainOp(i) == On("joining", i)

\* cancelAndAwait: cancel the thread, or only wait for it when the snapshot
\* had it finished.
DrainOp(i) == On(IF snapshot[i] THEN "joining" ELSE "marking", i)

\* Next thread of the snapshot, in id order.
DrainNext ==
  /\ main = "draining" /\ op[Main] = Idle
  /\ \E i \in drain :
       /\ \A j \in drain : i <= j
       /\ drain' = drain \ {i}
       /\ op' = [op EXCEPT ![Main] = DrainOp(i)]
  /\ UNCHANGED <<nextId, regVars, thread, main, snapshot, ghosts>>

DrainDone ==
  /\ main = "draining" /\ op[Main] = Idle /\ drain = {}
  /\ main' = "exited"
  /\ UNCHANGED <<nextId, regVars, thread, op, drain, snapshot, ghosts>>

-----------------------------------------------------------------------------
Fork(a)   == ForkAllocate(a) \/ ForkInsert(a) \/ ForkOpen(a)
Cancel(a) == \/ \E i \in Ids : CancelLookup(a, i)
             \/ CancelMark(a) \/ CancelThrow(a) \/ CancelReturn(a)
Wait(a)   == \/ \E i \in Ids : Await(a, i)
             \/ \E S \in SUBSET Ids : AwaitAny(a, S)
             \/ AwaitReturn(a)
Run(i)    == EndAction(i) \/ FinishSelf(i) \/ Rethrow(i) \/ UnwindEnd(i)
Shutdown  == ShutdownSnapshot \/ DrainNext \/ DrainDone

Next ==
  \/ \E a \in Actor : Fork(a) \/ Cancel(a) \/ Wait(a)
  \/ \E i \in Ids : Run(i)
  \/ Shutdown

Spec == Init /\ [][Next]_vars

\* The scheduler of the runtime runs every thread that can take a step, and a
\* cleanup handler performs finitely many operations.  Nothing makes an action
\* return, an operation begin, or the program end.
Fairness ==
  /\ \A a \in Actor :
       /\ WF_vars(ForkInsert(a)) /\ WF_vars(ForkOpen(a))
       /\ WF_vars(CancelMark(a)) /\ WF_vars(CancelThrow(a)) /\ WF_vars(CancelReturn(a))
       /\ WF_vars(AwaitReturn(a))
  /\ \A i \in Ids : WF_vars(FinishSelf(i)) /\ SF_vars(UnwindEnd(i))
  /\ WF_vars(DrainNext) /\ WF_vars(DrainDone)

FairSpec == Spec /\ Fairness

-----------------------------------------------------------------------------
(* Properties.                                                             *)

\* Every variable has its type.
TypeOK ==
  /\ nextId \in 1..(MaxId + 1)
  /\ registered \subseteq Ids
  /\ status \in [Ids -> Finished \cup {"none", "running"}]
  /\ thread \in [Ids -> Live \cup {"absent", "stopped"}]
  /\ op \in [Actor -> [kind : OpKind, on : SUBSET Ids]]
  /\ main \in {"inner", "draining", "exited"}
  /\ drain \subseteq Ids
  /\ snapshot \in [DOMAIN snapshot -> BOOLEAN] /\ DOMAIN snapshot \subseteq Ids
  /\ awaited \subseteq Ids
  /\ killed \subseteq Ids

\* An await that has returned found a thread that has stopped, unless the entry
\* was cancelled and then pruned before its thread had stopped: the only way
\* pruning is visible through a handle (awaitIn, awaitAnyIn, pruneFinished).
AwaitedStopped ==
  \A i \in awaited :
    \/ thread[i] = "stopped"
    \/ status[i] = "cancelled" /\ i \notin registered

\* cancel answers True only once the thread, handlers included, has stopped,
\* whoever else finished, cancelled or pruned the entry meanwhile (cancelIn).
CancelReturnsAfterStop == \A i \in killed : thread[i] = "stopped"

\* The registry never loses a thread it believes running: it can always be
\* found by cancel and by the shutdown (pruneFinished).
RunningIsKept == \A i \in Ids : status[i] = "running" => i \in registered

\* At most MaxFinished finished entries are kept, however many threads end or
\* are cancelled at once (pruneFinished).
FinishedBounded == Cardinality(FinishedIn(registered, status)) <= MaxFinished

\* The finished entries still listed are the newest ones ever finished: no entry
\* is dropped while an older finished one stays (pruneFinished).
NewestAreKept ==
  \A p, k \in Ids :
    /\ status[p] \in Finished /\ p \notin registered
    /\ status[k] \in Finished /\ k \in registered
    => p < k

\* The first outcome recorded for a thread is final: a late completion never
\* overwrites a cancellation, nor a cancel a completion (finishEntry).
OutcomeIsFinal ==
  [][\A i \in Ids : status[i] \in Finished => status'[i] = status[i]]_status

\* When the manager returns, every thread of its snapshot has stopped, the ones
\* it found already marked finished included (cancelAndAwaitAll).
ExitAwaitsSnapshot ==
  main = "exited" => \A i \in DOMAIN snapshot : thread[i] = "stopped"

\* Whoever waits for a thread returns only when it has stopped: an await, a
\* cancel that answers True and the exit of the manager, each as far as it goes.
WaitersSeeTheEnd == AwaitedStopped /\ CancelReturnsAfterStop /\ ExitAwaitsSnapshot

\* However threads end, pruning takes finished entries only, the oldest ones
\* first, and leaves no more than MaxFinished of them (pruneFinished); with the
\* types of the variables.
PruningKeepsTheNewest == TypeOK /\ RunningIsKept /\ FinishedBounded /\ NewestAreKept

\* A thread whose entry says Cancelled although nobody is left to throw to it.
Orphaned(i) ==
  /\ status[i] = "cancelled" /\ thread[i] \in {"gated", "running"}
  /\ \A a \in Actor : ~(op[a].kind = "throwing" /\ i \in op[a].on)

\* The shutdown comes to an end, unless some canceller was itself cancelled
\* between marking an entry and throwing to its thread: cancelAndAwaitAll then
\* waits for a thread nobody stops.
ShutdownEnds ==
  main = "draining" ~> (main = "exited" \/ \E i \in Ids : Orphaned(i))

\* RPC.md says concurrency.await waits for completion, and the comment on
\* maxFinishedEntries that a missing entry is equivalent to a finished Async.
AwaitWaitsForCompletion == \A i \in awaited : thread[i] = "stopped"

\* ConcurrencySpec's title says a normal manager exit cancels and awaits the
\* running tasks: none is left when runConcurrencyManager has returned.
ExitStopsAllTasks ==
  main = "exited" => \A i \in Ids : thread[i] \notin {"running", "unwinding"}
=============================================================================
