--------------------------- MODULE ResourceManager ---------------------------
(***************************************************************************)
(* The registry of long-running resources (src/cosmobot/lib/Bot/           *)
(* Resource.hs) and its rows (Storage/Resource.hs): sandboxes, workspaces, *)
(* commands and sub-agents that tool calls create, lease, rename, keep and *)
(* destroy, that expire, and that end with the process or outlive it.      *)
(*                                                                         *)
(* The registry is one IORef; between two accesses to it a call runs the   *)
(* resource's own code or the storage, and an exception of the call's      *)
(* thread may land wherever the code has not masked it.  Calls that are    *)
(* refused change nothing and are left out; so is who owns what.           *)
(***************************************************************************)
EXTENDS Naturals, FiniteSets, Functions

CONSTANTS
  NCalls,       \* bound of the model: calls of the effect, one operation each
  Names,        \* ResourceIds, given or generated
  NoName,       \* no ResourceId
  Handles,      \* registered threads that make the calls
  NoHandle,     \* a call of a thread that is not registered
  Persistent,   \* the creating calls whose type is persistent
  TTL,          \* ttlSeconds, in ticks
  MaxTime,      \* bound of the model: ticks
  Faulty,       \* the operations that may fail
  MaxFaults,    \* bound of the model: failures
  MaxRestarts   \* bound of the model: restarts of the process

Calls  == 1..NCalls
Reaper == 0               \* the resource expiry worker
Actors == Calls \cup {Reaper}

ASSUME ResourceManagerAssumption ==
  /\ NCalls \in Nat /\ TTL \in Nat \ {0} /\ MaxTime \in Nat
  /\ NoName \notin Names /\ NoHandle \notin Handles /\ IsFiniteSet(Handles) /\ Persistent \subseteq 1..NCalls
  /\ Faulty \subseteq {"create", "save", "life", "cleanup", "delete", "rename"}
  /\ MaxFaults \in Nat /\ MaxRestarts \in Nat

VARIABLES
  resources,  \* the registry: NoResource where no resource has the name
  call,       \* what a call does and what it remembers
  objects,    \* the object a creating call made: the container, directory or process
  rows,       \* the resources table: the object a name stands for, 0 for none
  lives,      \* the resource_lifetimes table: when it expires, 0 for none
  cancelled,  \* handles whose thread was cancelled
  shut,       \* how far the shutdown of the manager is
  gates,      \* creating calls the shutdown waits for
  entries,    \* resources the shutdown has still to end, as they were
  now, faults, restarts,
  kept,       \* ghost: objects make_permanent answered for
  spoiled     \* ghost: since the last start a renaming has met another call at its names

tables   == <<rows, lives>>
shutdown == <<shut, gates, entries>>
world    == <<now, restarts>>
ghosts   == <<kept, spoiled>>
vars == <<resources, call, objects, tables, cancelled, shutdown, world, faults, ghosts>>

Permanent == 0
NoUsers   == [h \in Handles |-> 0]

\* availability is Available users activeUses, or Destroying with neither.
Resource(o, life) == [obj |-> o, free |-> TRUE, users |-> NoUsers, active |-> 0, life |-> life]
Destroying(r)     == [r EXCEPT !.free = FALSE, !.users = NoUsers, !.active = 0]
Freed(r)          == [r EXCEPT !.free = TRUE, !.users = NoUsers, !.active = 0]
NoResource        == Destroying(Resource(0, Permanent))

Idle == [at |-> "idle", handle |-> NoHandle, name |-> NoName, to |-> NoName, obj |-> 0,
         life |-> Permanent, prev |-> Permanent, await |-> {}]

Init ==
  /\ resources = [n \in Names |-> NoResource]
  /\ call = [c \in Actors |-> Idle]
  /\ objects = [o \in Calls |-> "none"]
  /\ rows = [n \in Names |-> 0] /\ lives = [n \in Names |-> Permanent]
  /\ cancelled = {}
  /\ shut = "no" /\ gates = {} /\ entries = [n \in Names |-> NoResource]
  /\ now = 0 /\ faults = 0 /\ restarts = 0
  /\ kept = {} /\ spoiled = FALSE

-----------------------------------------------------------------------------
Registered(n) == resources[n].obj # 0

CreateSteps == {"construct", "save", "savelife", "discard", "register", "gate"}
Creating    == {c \in Calls : call[c].at \in CreateSteps}

\* reserveName looks at the registry only.
MutOccupied(n) == Registered(n)

Occupied(n) == Registered(n) \/ \E c \in Creating : call[c].name = n

Expiry(life) == IF life = Permanent THEN Permanent ELSE now + TTL

Goto(c, step) == call' = [call EXCEPT ![c].at = step]
Done(c)       == call' = [call EXCEPT ![c] = IF c = Reaper THEN Idle ELSE [Idle EXCEPT !.at = "end"]]

\* Calls are numbered as they begin; a thread that was cancelled makes no more.
Starts(c, h) ==
  /\ call[c].at = "idle" /\ h \notin cancelled
  /\ c > 1 => call[c - 1].at # "idle"

\* A fault of this kind happens now.
Fault(kind) == kind \in Faulty /\ faults < MaxFaults /\ faults' = faults + 1

-----------------------------------------------------------------------------
(* createIn.                                                               *)

Reserve(c, h, n) ==
  /\ Starts(c, h)
  /\ shut = "no"
  /\ ~ Occupied(n)
  /\ call' = [call EXCEPT ![c] = [Idle EXCEPT !.at = "construct", !.handle = h, !.name = n, !.obj = c]]
  /\ UNCHANGED <<resources, objects, tables, cancelled, shutdown, world, faults, ghosts>>

Construct(c) ==
  /\ call[c].at = "construct"
  /\ \/ /\ objects' = [objects EXCEPT ![c] = "live"]
        /\ \E life \in {Permanent, now + TTL} :
             call' = [call EXCEPT ![c].at = IF c \in Persistent THEN "save" ELSE "register",
                                  ![c].life = life]
        /\ UNCHANGED faults
     \/ Fault("create") /\ Goto(c, "gate") /\ UNCHANGED objects
  /\ UNCHANGED <<resources, tables, cancelled, shutdown, world, ghosts>>

SaveRow(c) ==
  /\ call[c].at = "save"
  /\ \/ rows' = [rows EXCEPT ![call[c].name] = c] /\ Goto(c, "savelife") /\ UNCHANGED faults
     \/ Fault("save") /\ Goto(c, "discard") /\ UNCHANGED rows
  /\ UNCHANGED <<resources, objects, lives, cancelled, shutdown, world, ghosts>>

SaveLife(c) ==
  /\ call[c].at = "savelife"
  /\ \/ lives' = [lives EXCEPT ![call[c].name] = call[c].life] /\ Goto(c, "register") /\ UNCHANGED faults
     \/ Fault("save") /\ Goto(c, "discard") /\ UNCHANGED lives
  /\ UNCHANGED <<resources, objects, rows, cancelled, shutdown, world, ghosts>>

DeleteRows(n) ==
  /\ rows' = [rows EXCEPT ![n] = 0]
  /\ lives' = [lives EXCEPT ![n] = Permanent]

\* discard, which a failure that is not an exception of the thread runs twice.
Discard(c) ==
  /\ call[c].at = "discard"
  /\ \/ DeleteRows(call[c].name) /\ UNCHANGED faults
     \/ Fault("delete") /\ UNCHANGED tables
  /\ objects' = [objects EXCEPT ![c] = "dead"]
  /\ Goto(c, "gate")
  /\ UNCHANGED <<resources, cancelled, shutdown, world, ghosts>>

Register(c) ==
  /\ call[c].at = "register"
  /\ resources' = [resources EXCEPT ![call[c].name] = Resource(c, call[c].life)]
  /\ Goto(c, "gate")
  /\ UNCHANGED <<objects, tables, cancelled, shutdown, world, faults, ghosts>>

\* finishCreate: the name is free again and a shutdown that waits goes on.
OpenGate(c) ==
  /\ call[c].at = "gate"
  /\ Done(c)
  /\ UNCHANGED <<resources, objects, tables, cancelled, shutdown, world, faults, ghosts>>

-----------------------------------------------------------------------------
(* withIn.                                                                 *)

Leasable(n) == resources[n].free

Acquire(c, h, n) ==
  /\ Starts(c, h)
  /\ Leasable(n)
  /\ LET life == Expiry(resources[n].life) IN
       /\ resources' = [resources EXCEPT
            ![n].active = @ + 1, ![n].life = life,
            ![n].users = [g \in Handles |-> IF g = h THEN @[g] + 1 ELSE @[g]]]
       /\ call' = [call EXCEPT ![c] = [Idle EXCEPT !.at = "lease", !.handle = h, !.name = n,
                     !.obj = resources[n].obj, !.life = life, !.prev = resources[n].life]]
  /\ UNCHANGED <<objects, tables, cancelled, shutdown, world, faults, ghosts>>

RollBack(c) ==
  LET n == call[c].name IN
  resources' = [resources EXCEPT ![n].life =
    IF Registered(n) /\ @ = call[c].life THEN call[c].prev ELSE @]

\* persistRefreshedLifetime; a lease of the wrong type is given up as one that fails.
PersistLease(c) ==
  /\ call[c].at = "lease"
  /\ LET stores == call[c].obj \in Persistent /\ call[c].life # Permanent IN
     \/ /\ lives' = IF stores THEN [lives EXCEPT ![call[c].name] = call[c].life] ELSE lives
        /\ Goto(c, "use")
        /\ UNCHANGED <<resources, faults>>
     \/ /\ (stores /\ Fault("life")) \/ UNCHANGED faults
        /\ RollBack(c)
        /\ Goto(c, "giveup")
        /\ UNCHANGED lives
  /\ UNCHANGED <<objects, rows, cancelled, shutdown, world, ghosts>>

EndUse(c) ==
  /\ call[c].at = "use"
  /\ Goto(c, "release")
  /\ UNCHANGED <<resources, objects, tables, cancelled, shutdown, world, faults, ghosts>>

Less(k) == IF k = 0 THEN 0 ELSE k - 1

\* releaseUser, which leaves a resource that is being destroyed alone.
Release(c) ==
  /\ call[c].at \in {"release", "giveup"}
  /\ LET n == call[c].name IN
       resources' = IF ~ resources[n].free THEN resources
                    ELSE [resources EXCEPT
                      ![n].active = Less(@),
                      ![n].users = [g \in Handles |-> IF g = call[c].handle THEN Less(@[g]) ELSE @[g]]]
  /\ Done(c)
  /\ UNCHANGED <<objects, tables, cancelled, shutdown, world, faults, ghosts>>

-----------------------------------------------------------------------------
(* destroyIn, and the expiry worker from its cleanup on.                   *)

\* Destruction that does not look for uses it cannot cancel.
MutCancellable(r) == TRUE

Cancellable(r) == r.active = SumFunction(r.users)

BeginDestroy(c, h, n) ==
  /\ Starts(c, h)
  /\ resources[n].free /\ Cancellable(resources[n])
  /\ resources' = [resources EXCEPT ![n] = Destroying(@)]
  /\ call' = [call EXCEPT ![c] = [Idle EXCEPT !.at = "await", !.handle = h, !.name = n,
                !.obj = resources[n].obj, !.await = {g \in Handles : resources[n].users[g] > 0}]]
  /\ UNCHANGED <<objects, tables, cancelled, shutdown, world, faults, ghosts>>

BeginExpire(n) ==
  /\ call[Reaper].at = "idle" /\ shut = "no"
  /\ resources[n].free /\ resources[n].active = 0
  /\ resources[n].life # Permanent /\ resources[n].life <= now
  /\ resources' = [resources EXCEPT ![n] = Destroying(@)]
  /\ call' = [call EXCEPT ![Reaper] = [Idle EXCEPT !.at = "cleanup", !.name = n, !.obj = resources[n].obj]]
  /\ UNCHANGED <<objects, tables, cancelled, shutdown, world, faults, ghosts>>

Stopped(h) == h \in cancelled /\ \A c \in Calls : call[c].handle # h

\* cancelAndAwait, one user after the other.
AwaitUsers(c) ==
  /\ call[c].at = "await"
  /\ \/ \E h \in call[c].await :
          IF h \notin cancelled THEN cancelled' = cancelled \cup {h} /\ UNCHANGED call
          ELSE Stopped(h) /\ call' = [call EXCEPT ![c].await = @ \ {h}] /\ UNCHANGED cancelled
     \/ call[c].await = {} /\ Goto(c, "cleanup") /\ UNCHANGED cancelled
  /\ UNCHANGED <<resources, objects, tables, shutdown, world, faults, ghosts>>

Cleanup(c) ==
  /\ call[c].at = "cleanup"
  /\ \/ /\ objects' = [objects EXCEPT ![call[c].obj] = "dead"]
        /\ Goto(c, IF call[c].obj \in Persistent THEN "delete" ELSE "remove")
        /\ UNCHANGED faults
     \/ Fault("cleanup") /\ Goto(c, "restore") /\ UNCHANGED objects
  /\ UNCHANGED <<resources, tables, cancelled, shutdown, world, ghosts>>

DeleteRow(c) ==
  /\ call[c].at = "delete"
  /\ \/ DeleteRows(call[c].name) /\ Goto(c, "remove") /\ UNCHANGED faults
     \/ /\ Fault("delete") /\ Goto(c, "restore")
        /\ lives' \in {lives, [lives EXCEPT ![call[c].name] = Permanent]}
        /\ UNCHANGED rows
  /\ UNCHANGED <<resources, objects, cancelled, shutdown, world, ghosts>>

Remove(c) ==
  /\ call[c].at = "remove"
  /\ resources' = [resources EXCEPT ![call[c].name] = NoResource]
  /\ Done(c)
  /\ UNCHANGED <<objects, tables, cancelled, shutdown, world, faults, ghosts>>

\* restoreDestroyed: the resource can be leased and destroyed again, for another TTL.
Restore(c) ==
  /\ call[c].at = "restore"
  /\ LET n == call[c].name
         life == Expiry(resources[n].life)
     IN IF Registered(n)
        THEN /\ resources' = [resources EXCEPT ![n] = [Freed(@) EXCEPT !.life = life]]
             /\ call' = [call EXCEPT ![c].at = "restorelife", ![c].life = life]
        ELSE Done(c) /\ UNCHANGED resources
  /\ UNCHANGED <<objects, tables, cancelled, shutdown, world, faults, ghosts>>

RestoreLife(c) ==
  /\ call[c].at = "restorelife"
  /\ \/ /\ lives' = IF call[c].obj \in Persistent
                    THEN [lives EXCEPT ![call[c].name] = call[c].life] ELSE lives
        /\ UNCHANGED faults
     \/ Fault("life") /\ UNCHANGED lives
  /\ Done(c)
  /\ UNCHANGED <<resources, objects, rows, cancelled, shutdown, world, ghosts>>

-----------------------------------------------------------------------------
(* renameIn, masked: an exception lands in the storage operation only.     *)

BeginRename(c, h, n, m) ==
  /\ Starts(c, h)
  /\ resources[n].free /\ resources[n].active = 0
  /\ n # m /\ ~ Occupied(m)
  /\ resources' = [resources EXCEPT ![m] = Destroying(resources[n]), ![n] = NoResource]
  /\ call' = [call EXCEPT ![c] = [Idle EXCEPT
       !.at = IF resources[n].obj \in Persistent THEN "rename" ELSE "renamed",
       !.handle = h, !.name = n, !.to = m, !.obj = resources[n].obj]]
  /\ UNCHANGED <<objects, tables, cancelled, shutdown, world, faults, ghosts>>

\* The row under the new name takes the old one.
MutMove(f, n, m, none) == [f EXCEPT ![n] = IF f[m] = none THEN @ ELSE f[m], ![m] = none]

Move(f, n, m, none) == [f EXCEPT ![m] = IF f[n] = none THEN @ ELSE f[n], ![n] = none]

\* The primary key refuses a name that has a row.
Movable(n, m) == rows[n] = 0 \/ rows[m] = 0

RenameRow(c) ==
  /\ call[c].at = "rename"
  /\ LET n == call[c].name  m == call[c].to IN
     \/ /\ Movable(n, m)
        /\ rows' = Move(rows, n, m, 0) /\ lives' = Move(lives, n, m, Permanent)
        /\ Goto(c, "renamed") /\ UNCHANGED faults
     \/ /\ Fault("rename") \/ (~ Movable(n, m) /\ UNCHANGED faults)
        /\ rows' \in {rows} \cup (IF Movable(n, m) THEN {Move(rows, n, m, 0)} ELSE {})
        /\ Goto(c, "undorow") /\ UNCHANGED lives
  /\ spoiled' = (spoiled \/ rows[call[c].name] # call[c].obj)
  /\ UNCHANGED <<resources, objects, cancelled, shutdown, world, kept>>

UndoRow(c) ==
  /\ call[c].at \in {"undorow", "abortrow"}
  /\ LET n == call[c].name  m == call[c].to IN
       /\ rows' = IF Movable(m, n) THEN Move(rows, m, n, 0) ELSE rows
       /\ lives' = IF Movable(m, n) THEN Move(lives, m, n, Permanent) ELSE lives
  /\ Goto(c, IF call[c].at = "abortrow" THEN "abort" ELSE "undo")
  /\ UNCHANGED <<resources, objects, cancelled, shutdown, world, faults, ghosts>>

\* rollbackRename: once in the handler and, unless that was for an exception of the
\* thread, once more.
Undo(c) ==
  /\ call[c].at \in {"undo", "undone", "abort"}
  /\ LET n == call[c].name  m == call[c].to IN
       resources' = IF Registered(m)
                    THEN [resources EXCEPT ![n] = Freed(resources[m]), ![m] = NoResource]
                    ELSE resources
  /\ spoiled' = (spoiled \/ /\ Registered(call[c].to)
                            /\ \/ call[c].at = "undone" \/ Occupied(call[c].name)
                               \/ rows[call[c].name] # call[c].obj)
  /\ IF call[c].at = "undo" THEN Goto(c, "undone") ELSE Done(c)
  /\ UNCHANGED <<objects, tables, cancelled, shutdown, world, faults, kept>>

FinishRename(c) ==
  /\ call[c].at = "renamed"
  /\ resources' = [resources EXCEPT ![call[c].to] = IF Registered(call[c].to) THEN Freed(@) ELSE @]
  /\ Done(c)
  /\ UNCHANGED <<objects, tables, cancelled, shutdown, world, faults, ghosts>>

-----------------------------------------------------------------------------
(* updateLifetimeIn: keep_alive and make_permanent.                        *)

UpdateLifetime(c, h, n, permanent) ==
  /\ Starts(c, h)
  /\ resources[n].free
  /\ LET life == IF permanent THEN Permanent ELSE Expiry(resources[n].life) IN
       /\ resources' = [resources EXCEPT ![n].life = life]
       /\ call' = [call EXCEPT ![c] = [Idle EXCEPT
            !.at = IF permanent THEN "permanent" ELSE "keep", !.handle = h, !.name = n,
            !.obj = resources[n].obj, !.life = life, !.prev = resources[n].life]]
  /\ UNCHANGED <<objects, tables, cancelled, shutdown, world, faults, ghosts>>

PersistLifetime(c) ==
  /\ call[c].at \in {"permanent", "keep"}
  /\ \/ /\ lives' = IF call[c].obj \in Persistent
                    THEN [lives EXCEPT ![call[c].name] = call[c].life] ELSE lives
        /\ kept' = IF call[c].at = "permanent" THEN kept \cup {call[c].obj} ELSE kept
        /\ UNCHANGED <<resources, faults>>
     \/ /\ call[c].obj \in Persistent /\ Fault("life")
        /\ RollBack(c)
        /\ UNCHANGED <<lives, kept>>
  /\ Done(c)
  /\ UNCHANGED <<objects, rows, cancelled, shutdown, world, spoiled>>

-----------------------------------------------------------------------------
(* Exceptions of the calls' threads.                                       *)

\* A halt, or a user of the bot, cancels a thread.
CancelThread(h) ==
  /\ h \notin cancelled
  /\ cancelled' = cancelled \cup {h}
  /\ UNCHANGED <<resources, call, objects, tables, shutdown, world, faults, ghosts>>

\* A destruction that waits for the users with exceptions masked.
MutInterruptible == {"lease", "giveup", "permanent", "keep", "delete", "remove", "restore", "restorelife"}

\* Steps an exception of the thread just ends.
Interruptible == {"lease", "giveup", "permanent", "keep",
                  "await", "delete", "remove", "restore", "restorelife"}

\* The exception ends a use through its finally and leaves a lease that is still being
\* persisted, and a destruction, as they are.  An object that is just made may be lost:
\* the creation is restored to be interruptible until its result is returned.
Killed(c) ==
  /\ call[c].handle \in cancelled
  /\ \/ /\ call[c].at = "construct"
        /\ objects' \in {objects, [objects EXCEPT ![c] = "lost"]}
        /\ Goto(c, "gate")
     \/ /\ call[c].at \in {"save", "savelife"}
        /\ Goto(c, "discard") /\ UNCHANGED objects
     \/ /\ call[c].at = "use"
        /\ Goto(c, "release") /\ UNCHANGED objects
     \/ /\ call[c].at = "rename"
        /\ Goto(c, "abortrow") /\ UNCHANGED objects
     \/ /\ call[c].at \in Interruptible
        /\ Done(c) /\ UNCHANGED objects
     \/ /\ call[c].at = "cleanup"
        /\ objects' \in {objects, [objects EXCEPT ![call[c].obj] = "dead"]}
        /\ Done(c)
  /\ UNCHANGED <<resources, tables, cancelled, shutdown, world, faults, ghosts>>

-----------------------------------------------------------------------------
(* shutdown, after the expiry worker was cancelled, and the next start.    *)

\* The gates of calls that have not made their object yet are not waited for.
MutGates == {c \in Creating : call[c].at # "construct"}

Gates == Creating

StopAccepting ==
  /\ shut = "no" /\ call[Reaper].at = "idle"
  /\ shut' = "gates" /\ gates' = Gates
  /\ UNCHANGED <<resources, call, objects, tables, cancelled, entries, world, faults, ghosts>>

MarkAll ==
  /\ shut = "gates" /\ gates \cap Creating = {}
  /\ shut' = "entries" /\ entries' = resources
  /\ resources' = [n \in Names |-> Destroying(resources[n])]
  /\ UNCHANGED <<call, objects, tables, cancelled, gates, world, faults, ghosts>>

\* For one resource after the other: its users, then, if it does not persist, its object.
EndEntry(n) ==
  /\ shut = "entries" /\ entries[n].obj # 0
  /\ \/ \E h \in Handles :
          /\ entries[n].users[h] > 0
          /\ IF h \notin cancelled THEN cancelled' = cancelled \cup {h} /\ UNCHANGED entries
             ELSE Stopped(h) /\ entries' = [entries EXCEPT ![n].users[h] = 0] /\ UNCHANGED cancelled
        /\ UNCHANGED <<objects, faults>>
     \/ /\ entries[n].users = NoUsers
        /\ entries' = [entries EXCEPT ![n] = NoResource]
        /\ \/ /\ objects' = IF entries[n].obj \in Persistent THEN objects
                            ELSE [objects EXCEPT ![entries[n].obj] = "dead"]
              /\ UNCHANGED faults
           \/ Fault("cleanup") /\ UNCHANGED objects
        /\ UNCHANGED cancelled
  /\ UNCHANGED <<resources, call, tables, shut, gates, world, ghosts>>

ShutDown ==
  /\ shut = "entries" /\ \A n \in Names : entries[n].obj = 0
  /\ shut' = "over"
  /\ UNCHANGED <<resources, call, objects, tables, cancelled, gates, entries, world, faults, ghosts>>

\* After a shutdown or a crash the registry is what the rows say; what only the process
\* held, and what has no row, is lost.
Restart ==
  /\ restarts < MaxRestarts /\ restarts' = restarts + 1
  /\ resources' = [n \in Names |-> IF rows[n] = 0 THEN NoResource ELSE Resource(rows[n], lives[n])]
  /\ call' = [c \in Actors |-> IF call[c].at = "idle" \/ c = Reaper THEN Idle ELSE [Idle EXCEPT !.at = "end"]]
  /\ objects' = [o \in Calls |-> IF objects[o] = "live" /\ (o \notin Persistent \/ \A n \in Names : rows[n] # o)
                                 THEN "lost" ELSE objects[o]]
  /\ shut' = "no" /\ gates' = {} /\ entries' = [n \in Names |-> NoResource]
  /\ spoiled' = FALSE
  /\ UNCHANGED <<tables, cancelled, now, faults, kept>>

Tick ==
  /\ now < MaxTime /\ now' = now + 1
  /\ UNCHANGED <<resources, call, objects, tables, cancelled, shutdown, faults, restarts, ghosts>>

-----------------------------------------------------------------------------
Begin(c) == \E h \in Handles \cup {NoHandle}, n \in Names :
  \/ Reserve(c, h, n) \/ Acquire(c, h, n) \/ BeginDestroy(c, h, n)
  \/ \E m \in Names : BeginRename(c, h, n, m)
  \/ \E permanent \in BOOLEAN : UpdateLifetime(c, h, n, permanent)

Finish(c) == DeleteRow(c) \/ Cleanup(c) \/ Remove(c) \/ Restore(c) \/ RestoreLife(c)

Continue(c) ==
  \/ Construct(c) \/ SaveRow(c) \/ SaveLife(c) \/ Discard(c) \/ Register(c) \/ OpenGate(c)
  \/ PersistLease(c) \/ EndUse(c) \/ Release(c)
  \/ AwaitUsers(c) \/ Finish(c)
  \/ RenameRow(c) \/ UndoRow(c) \/ Undo(c) \/ FinishRename(c)
  \/ PersistLifetime(c) \/ Killed(c)

Shutdown == MarkAll \/ ShutDown \/ \E n \in Names : EndEntry(n)

Next ==
  \/ \E c \in Calls : Begin(c) \/ Continue(c)
  \/ Finish(Reaper) \/ \E n \in Names : BeginExpire(n)
  \/ \E h \in Handles : CancelThread(h)
  \/ StopAccepting \/ Shutdown \/ Restart \/ Tick

Spec == Init /\ [][Next]_vars

-----------------------------------------------------------------------------
LeaseSteps   == {"lease", "use", "giveup", "release"}
DestroySteps == {"await", "cleanup", "delete", "remove", "restore", "restorelife"}
RenameSteps  == {"rename", "undorow", "undo", "undone", "abortrow", "abort", "renamed"}
Steps == {"idle", "end", "permanent", "keep"} \cup CreateSteps \cup LeaseSteps
           \cup DestroySteps \cup RenameSteps

Objects == Calls \cup {0}
Users   == [Handles -> Nat]
Entry   == [obj : Objects, free : BOOLEAN, users : Users, active : Nat, life : Nat]

TypeOK ==
  /\ resources \in [Names -> Entry]
  /\ \A n \in Names : ~ resources[n].free => resources[n] = Destroying(resources[n])
  /\ call \in [Actors -> [at : Steps, handle : Handles \cup {NoHandle}, name : Names \cup {NoName},
                          to : Names \cup {NoName},
                          obj : Objects, life : Nat, prev : Nat, await : SUBSET Handles]]
  /\ objects \in [Calls -> {"none", "live", "dead", "lost"}]
  /\ rows \in [Names -> Objects] /\ lives \in [Names -> Nat]
  /\ cancelled \subseteq Handles
  /\ shut \in {"no", "gates", "entries", "over"} /\ gates \subseteq Calls
  /\ entries \in [Names -> Entry]
  /\ now \in 0..MaxTime /\ faults \in 0..MaxFaults /\ restarts \in 0..MaxRestarts
  /\ kept \subseteq Calls /\ spoiled \in BOOLEAN

Leasing(c)    == call[c].at \in LeaseSteps
Destroys(d)   == call[d].at \in {"cleanup", "delete", "remove"}

(* While the manager runs, no call uses an object that is being destroyed: *)
(* a destruction waits for the users it cancelled and is refused when it   *)
(* cannot cancel them all, and an expiry finds none.  A destroyed object   *)
(* is only ever leased when the row of it could not be deleted.  Renamings *)
(* that meet another call are excepted (see NamesAreUnique).               *)
NoUseOfTheDestroyed ==
  ~ spoiled /\ shut \in {"no", "gates"} =>
    \A c \in Calls : Leasing(c) =>
      /\ \A d \in Actors : Destroys(d) => call[d].obj # call[c].obj
      /\ objects[call[c].obj] = "dead" => \E n \in Names : rows[n] = call[c].obj

(* No two resources have one name: a name in the registry is not being     *)
(* given to a new resource, nor to two, and no live object is pushed out   *)
(* of the registry by another one of its name, so that nobody could        *)
(* destroy it.  Renamings that meet another call break this, and what      *)
(* follows from it (spoiled): undoing one takes back the old name although *)
(* somebody else has it by now, and, the second time, whatever has the new *)
(* name by then; and a creation that took the old name before the row was  *)
(* moved has its row moved, or its own written over it.                    *)
Owned(o) == \/ \E n \in Names : resources[n].obj = o \/ entries[n].obj = o
            \/ call[o].at \in CreateSteps
            \/ \E d \in Calls : call[d].at \in DestroySteps /\ call[d].obj = o

UniqueNames ==
  /\ \A c \in Creating : call[c].at # "gate" =>
       /\ ~ Registered(call[c].name)
       /\ \A d \in Creating \ {c} : call[d].name # call[c].name
  /\ \A o \in Calls : objects[o] = "live" => Owned(o)

NamesAreUnique == ~ spoiled => UniqueNames

(* The registry and the rows agree on persistent resources: one that can   *)
(* be leased has its row under its name, and a row without a resource in   *)
(* the registry is one that a call is just writing, deleting or moving, or *)
(* one of a destroyed object that could not be deleted, unless a renaming  *)
(* met another call.                                                       *)
Works(c, n) == call[c].at \notin {"idle", "end"} /\ n \in {call[c].name, call[c].to}

RowsMatchRegistry == ~ spoiled =>
  \A n \in Names :
    /\ resources[n].free /\ resources[n].obj \in Persistent => rows[n] = resources[n].obj
    /\ rows[n] # 0 /\ rows[n] # resources[n].obj =>
         objects[rows[n]] = "dead" \/ \E c \in Actors : Works(c, n)

(* With names, and with the types of the variables.                        *)
RegistryIsSound == TypeOK /\ NamesAreUnique /\ RowsMatchRegistry

(* When the manager has shut down, no object that ends with the process is *)
(* left, those of calls that were still creating theirs included, unless   *)
(* something failed (an operation, or a renaming that met another call).   *)
ShutdownLeavesNothing ==
  shut = "over" /\ faults = 0 /\ ~ spoiled =>
    \A o \in Calls \ Persistent : objects[o] # "live"

(* Calls and the shutdown never all wait for each other: while any is      *)
(* underway one can move, whoever destroys a resource that the thread of   *)
(* another destruction uses, or the one its own thread uses, included.     *)
Underway(c) == call[c].at \notin {"idle", "end"}

NobodyIsStuck ==
  (shut \in {"gates", "entries"} \/ \E c \in Actors : Underway(c)) =>
    \/ ENABLED Shutdown \/ ENABLED Finish(Reaper)
    \/ \E c \in Calls : ENABLED Continue(c)

(* What a test says of leases: they are cleared after exceptions.  The     *)
(* count is, unless the exception lands before the use has begun; the      *)
(* resource then never expires.                                            *)
ScopedUseClears ==
  \A n \in Names :
    resources[n].free /\ (\A c \in Calls : Leasing(c) => call[c].obj # resources[n].obj)
      => resources[n].active = 0

(* What the RPC documentation says of make_permanent: the resource has no  *)
(* remaining life from then on.                                            *)
PermanentStaysPermanent ==
  \A n \in Names : resources[n].obj \in kept => resources[n].life = Permanent

(* What a comment asks of a cleanup, that it is not interrupted: somebody  *)
(* is at work on a resource that is blocked because it is being destroyed. *)
CleanupsAreNotInterrupted ==
  shut = "no" => \A n \in Names :
    Registered(n) /\ ~ resources[n].free => \E c \in Actors : Works(c, n)
=============================================================================
