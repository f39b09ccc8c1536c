------------------------ MODULE ResourceManager_proofs ------------------------
(***************************************************************************)
(* Proofs about ResourceManager, for any number of calls, names, handles,  *)
(* faults and restarts, and any operations that fail.                      *)
(***************************************************************************)
EXTENDS ResourceManager, FiniteSetTheorems, WellFoundedInduction, TLAPS

LEMMA Constants ==
  /\ Calls \subseteq Nat /\ 0 \notin Calls /\ Reaper = 0
  /\ Calls \subseteq Actors /\ Actors = Calls \cup {Reaper} /\ Reaper \notin Calls
  /\ Persistent \subseteq Calls /\ NoName \notin Names /\ NoHandle \notin Handles
  /\ TTL \in Nat /\ TTL # 0 /\ MaxTime \in Nat /\ MaxFaults \in Nat /\ MaxRestarts \in Nat
  /\ IsFiniteSet(Calls) /\ IsFiniteSet(Handles)
  /\ Objects = Calls \cup {0}
<1>1. IsFiniteSet(1..NCalls)
  BY ResourceManagerAssumption, FS_Interval
<1> QED BY <1>1, ResourceManagerAssumption DEF Calls, Reaper, Actors, Objects

(***************************************************************************)
(* Types, and what a call remembers at each of its steps.                  *)
(***************************************************************************)
CallRecord == [at : Steps, handle : Handles \cup {NoHandle}, name : Names \cup {NoName},
               to : Names \cup {NoName}, obj : Objects, life : Nat, prev : Nat, await : SUBSET Handles]

Lone == {"idle", "end"}

\* What a call remembers, by the step it is at.
WellShaped(c, r) ==
  /\ r.at \in Lone => r.obj = 0 /\ r.handle = NoHandle /\ r.name = NoName /\ r.to = NoName
  /\ r.at \notin Lone => r.name \in Names /\ r.obj \in Calls
  /\ r.at \in RenameSteps => r.to \in Names /\ r.to # r.name
  /\ r.at \notin RenameSteps => r.to = NoName
  /\ r.at \in RenameSteps \ {"renamed"} => r.obj \in Persistent
  /\ r.at \in CreateSteps => r.obj = c
  /\ r.at \in {"save", "savelife", "discard"} => c \in Persistent
  /\ r.at = "delete" => r.obj \in Persistent
  /\ c = Reaper => r.at \in {"idle", "cleanup", "delete", "remove", "restore", "restorelife"}

\* What can be leased, destroyed or renamed exists.
Shape ==
  /\ \A c \in Actors : WellShaped(c, call[c])
  /\ \A n \in Names : resources[n].free => resources[n].obj \in Calls

Blocked(r) == ~ r.free => r = Destroying(r)

LEMMA IdleType == Idle \in CallRecord /\ [Idle EXCEPT !.at = "end"] \in CallRecord
BY Constants DEF Idle, CallRecord, Steps, Permanent

LEMMA EntryTypes ==
  /\ NoResource \in Entry /\ NoResource = Destroying(NoResource) /\ NoResource.obj = 0 /\ ~ NoResource.free
  /\ \A o \in Objects, l \in Nat :
       /\ Resource(o, l) \in Entry /\ Resource(o, l).free /\ Resource(o, l).obj = o
       /\ Resource(o, l).users = NoUsers /\ Resource(o, l).active = 0
  /\ \A r \in Entry :
       /\ Destroying(r) \in Entry /\ Destroying(r) = Destroying(Destroying(r)) /\ ~ Destroying(r).free
       /\ Destroying(r).obj = r.obj
       /\ Freed(r) \in Entry /\ Freed(r).free /\ Freed(r).obj = r.obj
       /\ Freed(r).users = NoUsers /\ Freed(r).active = 0
BY Constants DEF NoResource, Resource, Destroying, Freed, Entry, Users, NoUsers, Permanent, Objects

LEMMA GotoType ==
  ASSUME call \in [Actors -> CallRecord], NEW c \in Actors, NEW step \in Steps, Goto(c, step)
  PROVE  call' \in [Actors -> CallRecord]
BY DEF Goto, CallRecord

LEMMA StepType ==
  ASSUME NEW r \in CallRecord, NEW step \in Steps, NEW life \in Nat
  PROVE  [r EXCEPT !.at = step, !.life = life] \in CallRecord
BY DEF CallRecord

LEMMA DoneType ==
  ASSUME call \in [Actors -> CallRecord], NEW c \in Actors, Done(c)
  PROVE  call' \in [Actors -> CallRecord]
BY IdleType DEF Done

\* The type invariant with CallRecord and Blocked named.
Typed ==
  /\ resources \in [Names -> Entry] /\ \A n \in Names : Blocked(resources[n])
  /\ call \in [Actors -> CallRecord]
  /\ objects \in [Calls -> {"none", "live", "dead", "lost"}]
  /\ rows \in [Names -> Objects] /\ lives \in [Names -> Nat]
  /\ cancelled \subseteq Handles
  /\ shut \in {"no", "gates", "entries", "over"} /\ gates \subseteq Calls
  /\ entries \in [Names -> Entry]
  /\ now \in 0..MaxTime /\ faults \in 0..MaxFaults /\ restarts \in 0..MaxRestarts
  /\ kept \subseteq Calls /\ spoiled \in BOOLEAN

LEMMA TypedInit == Init => Typed
<1> SUFFICES ASSUME Init PROVE Typed
  OBVIOUS
<1>1. call \in [Actors -> CallRecord]
  BY IdleType DEF Init
<1>2. resources \in [Names -> Entry] /\ entries \in [Names -> Entry] /\ \A n \in Names : Blocked(resources[n])
  BY EntryTypes DEF Init, Blocked
<1>3. rows \in [Names -> Objects] /\ lives \in [Names -> Nat] /\ objects \in [Calls -> {"none", "live", "dead", "lost"}]
  BY DEF Init, Objects, Permanent
<1>4. now \in 0..MaxTime /\ faults \in 0..MaxFaults /\ restarts \in 0..MaxRestarts
  BY Constants DEF Init
<1> QED BY <1>1, <1>2, <1>3, <1>4 DEF Init, Typed

LEMMA FaultType ==
  ASSUME Typed, NEW kind, Fault(kind)
  PROVE  faults' \in 0..MaxFaults
BY Constants DEF Typed, Fault

\* Giving back a lifetime changes nothing but the lifetime.
LEMMA RollBackType ==
  ASSUME Typed, NEW c \in Actors, call[c].name \in Names, call[c].prev \in Nat,
         resources' = resources \/ RollBack(c)
  PROVE  /\ resources' \in [Names -> Entry]
         /\ \A n \in Names :
              /\ Blocked(resources'[n])
              /\ resources'[n].obj = resources[n].obj /\ resources'[n].free = resources[n].free
              /\ resources'[n].users = resources[n].users /\ resources'[n].active = resources[n].active
<1> DEFINE n == call[c].name
<1>1. CASE RollBack(c)
  <2>1. PICK life \in Nat : resources' = [resources EXCEPT ![n].life = life]
    BY <1>1 DEF RollBack, Typed, Entry
  <2>2. resources[n] \in Entry /\ Blocked(resources[n])
    BY DEF Typed
  <2> DEFINE entry == [resources[n] EXCEPT !.life = life]
  <2>3. /\ entry \in Entry /\ Blocked(entry)
        /\ entry.obj = resources[n].obj /\ entry.free = resources[n].free
        /\ entry.users = resources[n].users /\ entry.active = resources[n].active
    BY <2>2 DEF Entry, Blocked, Destroying
  <2>4. resources' = [resources EXCEPT ![n] = entry]
    BY <2>1
  <2> HIDE DEF entry
  <2> QED BY <2>3, <2>4 DEF Typed
<1>2. CASE resources' = resources
  BY <1>2 DEF Typed
<1> QED BY <1>1, <1>2

LEMMA TypedNext == Typed /\ Shape /\ [Next]_vars => Typed'
<1> SUFFICES ASSUME Typed, Shape, [Next]_vars PROVE Typed'
  OBVIOUS
<1> USE Constants DEF Typed
<1>1. ASSUME NEW c \in Calls, Begin(c) PROVE Typed'
  <2> PICK h \in Handles \cup {NoHandle}, n \in Names :
         \/ Reserve(c, h, n) \/ Acquire(c, h, n) \/ BeginDestroy(c, h, n)
         \/ \E m \in Names : BeginRename(c, h, n, m)
         \/ \E permanent \in BOOLEAN : UpdateLifetime(c, h, n, permanent)
    BY <1>1 DEF Begin
  <2>1. CASE Reserve(c, h, n)
    BY <2>1 DEF Reserve, Idle, CallRecord, Steps, CreateSteps, tables, shutdown, world, ghosts, Permanent
  <2>2. CASE Acquire(c, h, n)
    <3>1. Expiry(resources[n].life) \in Nat /\ resources[n].life \in Nat /\ resources[n].obj \in Objects /\ resources[n].free
      BY <2>2 DEF Acquire, Leasable, Expiry, Permanent, Entry
    <3> DEFINE life == Expiry(resources[n].life)
               record == [Idle EXCEPT !.at = "lease", !.handle = h, !.name = n,
                            !.obj = resources[n].obj, !.life = life, !.prev = resources[n].life]
    <3>6. record \in CallRecord
      BY <3>1 DEF Idle, CallRecord, Steps, LeaseSteps, Permanent
    <3>7. call' = [call EXCEPT ![c] = record]
      BY <2>2 DEF Acquire
    <3> HIDE DEF record
    <3>2. call' \in [Actors -> CallRecord]
      BY <3>6, <3>7
    <3> DEFINE users == [g \in Handles |-> IF g = h THEN resources[n].users[g] + 1 ELSE resources[n].users[g]]
    <3>8. users \in Users /\ resources[n].active + 1 \in Nat
      BY DEF Entry, Users
    <3>9. resources' = [resources EXCEPT ![n].active = @ + 1, ![n].life = life, ![n].users = users]
      BY <2>2 DEF Acquire
    <3> HIDE DEF users, life
    <3>3. resources' \in [Names -> Entry]
      <4> DEFINE entry == [resources[n] EXCEPT !.active = @ + 1, !.life = life, !.users = users]
      <4>3. resources[n] \in Entry /\ life \in Nat
        BY <3>1 DEF life
      <4>1. entry \in Entry
        BY <3>8, <4>3 DEF Entry
      <4>2. resources' = [resources EXCEPT ![n] = entry]
        BY <3>9
      <4> HIDE DEF entry
      <4> QED BY <4>1, <4>2
    <3>4. \A m \in Names : resources'[m].free = resources[m].free /\ (m # n => resources'[m] = resources[m])
      BY <2>2 DEF Acquire, Entry
    <3>5. \A m \in Names : Blocked(resources'[m])
      BY <3>1, <3>4 DEF Blocked
    <3> QED BY <2>2, <3>2, <3>3, <3>5 DEF Acquire, tables, shutdown, world, ghosts
  <2>3. CASE BeginDestroy(c, h, n)
    <3> DEFINE record == [Idle EXCEPT !.at = "await", !.handle = h, !.name = n,
                 !.obj = resources[n].obj, !.await = {g \in Handles : resources[n].users[g] > 0}]
    <3>5. record \in CallRecord
      BY DEF Idle, CallRecord, Steps, DestroySteps, Permanent, Entry
    <3>6. call' = [call EXCEPT ![c] = record]
      BY <2>3 DEF BeginDestroy
    <3> HIDE DEF record
    <3>1. call' \in [Actors -> CallRecord]
      BY <3>5, <3>6
    <3>2. resources' \in [Names -> Entry] /\ \A m \in Names : Blocked(resources'[m])
      BY <2>3, EntryTypes DEF BeginDestroy, Blocked
    <3> QED BY <2>3, <3>1, <3>2 DEF BeginDestroy, tables, shutdown, world, ghosts
  <2>4. CASE \E m \in Names : BeginRename(c, h, n, m)
    <3> PICK m \in Names : BeginRename(c, h, n, m)
      BY <2>4
    <3> DEFINE record == [Idle EXCEPT
                 !.at = IF resources[n].obj \in Persistent THEN "rename" ELSE "renamed",
                 !.handle = h, !.name = n, !.to = m, !.obj = resources[n].obj]
    <3>5. record \in CallRecord
      BY DEF Idle, CallRecord, Steps, RenameSteps, Permanent, Entry
    <3>6. call' = [call EXCEPT ![c] = record]
      BY DEF BeginRename
    <3> HIDE DEF record
    <3>1. call' \in [Actors -> CallRecord]
      BY <3>5, <3>6
    <3>3. resources' = [resources EXCEPT ![m] = Destroying(resources[n]), ![n] = NoResource]
      BY DEF BeginRename
    <3>4. Destroying(resources[n]) \in Entry /\ NoResource \in Entry /\ Blocked(NoResource) /\ Blocked(Destroying(resources[n]))
      BY EntryTypes DEF Blocked
    <3>2. resources' \in [Names -> Entry] /\ \A k \in Names : Blocked(resources'[k])
      BY <3>3, <3>4
    <3> QED BY <3>1, <3>2 DEF BeginRename, tables, shutdown, world, ghosts
  <2>5. CASE \E permanent \in BOOLEAN : UpdateLifetime(c, h, n, permanent)
    <3> PICK permanent \in BOOLEAN : UpdateLifetime(c, h, n, permanent)
      BY <2>5
    <3> DEFINE life == IF permanent THEN Permanent ELSE Expiry(resources[n].life)
    <3>1. life \in Nat /\ resources[n].life \in Nat /\ resources[n].obj \in Objects
      BY DEF Expiry, Permanent, Entry
    <3>2. call' = [call EXCEPT ![c] = [Idle EXCEPT
            !.at = IF permanent THEN "permanent" ELSE "keep", !.handle = h, !.name = n,
            !.obj = resources[n].obj, !.life = life, !.prev = resources[n].life]]
          /\ resources' = [resources EXCEPT ![n].life = life] /\ resources[n].free
      BY DEF UpdateLifetime
    <3> HIDE DEF life
    <3>3. call' \in [Actors -> CallRecord]
      BY <3>1, <3>2 DEF Idle, CallRecord, Steps, Permanent
    <3>4. resources' \in [Names -> Entry]
      BY <3>1, <3>2 DEF Entry
    <3>5. \A m \in Names : resources'[m].free = resources[m].free /\ (m # n => resources'[m] = resources[m])
      BY <3>2 DEF Entry
    <3>6. \A m \in Names : Blocked(resources'[m])
      BY <3>2, <3>5 DEF Blocked
    <3> QED BY <3>3, <3>4, <3>6 DEF UpdateLifetime, tables, shutdown, world, ghosts
  <2> QED BY <2>1, <2>2, <2>3, <2>4, <2>5
<1>2. ASSUME NEW c \in Actors, Finish(c) PROVE Typed'
  <2> USE GotoType, DoneType, FaultType DEF Steps, DestroySteps, tables, shutdown, world, ghosts
  <2>0. call[c] \in CallRecord
    OBVIOUS
  <2>1. CASE DeleteRow(c)
    <3>2. call' \in [Actors -> CallRecord] /\ faults' \in 0..MaxFaults
      BY <2>1 DEF DeleteRow
    <3>1. rows' \in [Names -> Objects] /\ lives' \in [Names -> Nat]
      BY <2>1 DEF DeleteRow, DeleteRows, Permanent, Objects
    <3> QED BY <2>1, <3>1, <3>2 DEF DeleteRow
  <2>2. CASE Cleanup(c)
    <3>1. call' \in [Actors -> CallRecord] /\ faults' \in 0..MaxFaults
      BY <2>2 DEF Cleanup
    <3>2. objects' \in [Calls -> {"none", "live", "dead", "lost"}]
      BY <2>2 DEF Cleanup
    <3> QED BY <2>2, <3>1, <3>2 DEF Cleanup
  <2>3. CASE Remove(c)
    <3>1. resources' \in [Names -> Entry] /\ \A n \in Names : Blocked(resources'[n])
      <4>1. NoResource \in Entry /\ Blocked(NoResource)
        BY EntryTypes DEF Blocked
      <4> QED BY <2>3, <4>1 DEF Remove
    <3> QED BY <2>3, <3>1 DEF Remove
  <2>4. CASE Restore(c)
    <3> DEFINE n == call[c].name
               life == Expiry(resources[n].life)
    <3>1. CASE Registered(n)
      <4>0. n \in Names
        BY <2>4 DEF Restore, Shape, WellShaped, Lone
      <4>1. life \in Nat /\ Freed(resources[n]) \in Entry /\ Freed(resources[n]).free
        BY <4>0, EntryTypes DEF Expiry, Permanent, Entry
      <4>2. resources' = [resources EXCEPT ![n] = [Freed(@) EXCEPT !.life = life]]
            /\ call' = [call EXCEPT ![c].at = "restorelife", ![c].life = life]
        BY <2>4, <3>1 DEF Restore
      <4> HIDE DEF life
      <4>3. [Freed(resources[n]) EXCEPT !.life = life] \in Entry /\ [Freed(resources[n]) EXCEPT !.life = life].free
        BY <4>1 DEF Entry
      <4>4. resources' \in [Names -> Entry] /\ \A m \in Names : Blocked(resources'[m])
        BY <4>0, <4>2, <4>3 DEF Blocked
      <4>5. call' \in [Actors -> CallRecord]
        BY <4>1, <4>2 DEF CallRecord
      <4> QED BY <2>4, <4>4, <4>5 DEF Restore
    <3>3. CASE ~ Registered(n)
      BY <2>4, <3>3 DEF Restore
    <3> QED BY <3>1, <3>3
  <2>5. CASE RestoreLife(c)
    <3>1. lives' \in [Names -> Nat]
      BY <2>5, <2>0 DEF RestoreLife, CallRecord
    <3> QED BY <2>5, <3>1 DEF RestoreLife
  <2> QED BY <1>2, <2>1, <2>2, <2>3, <2>4, <2>5 DEF Finish
<1>3. ASSUME NEW c \in Calls, Continue(c) PROVE Typed'
  <2> USE GotoType, DoneType, FaultType DEF Steps, CreateSteps, LeaseSteps, RenameSteps, DestroySteps, tables, shutdown, world, ghosts
  <2>0. c \in Actors /\ call[c] \in CallRecord
    OBVIOUS
  <2>n. call[c].at \notin {"idle", "end"} => call[c].name \in Names /\ call[c].obj \in Calls
    BY <2>0 DEF Shape, WellShaped, Lone
  <2>1. CASE Construct(c)
    <3>1. objects' \in [Calls -> {"none", "live", "dead", "lost"}] /\ faults' \in 0..MaxFaults
      BY <2>1 DEF Construct
    <3>2. call' \in [Actors -> CallRecord]
      <4>1. CASE \E life \in {Permanent, now + TTL} :
             call' = [call EXCEPT ![c].at = IF c \in Persistent THEN "save" ELSE "register",
                                  ![c].life = life]
        <5>1. PICK life \in {Permanent, now + TTL} :
                call' = [call EXCEPT ![c].at = IF c \in Persistent THEN "save" ELSE "register", ![c].life = life]
          BY <4>1
        <5>2. life \in Nat
          BY DEF Permanent
        <5> DEFINE step == IF c \in Persistent THEN "save" ELSE "register"
                   record == [call[c] EXCEPT !.at = step, !.life = life]
        <5>3. step \in Steps
          OBVIOUS
        <5>4. call' = [call EXCEPT ![c] = record]
          BY <5>1
        <5> HIDE DEF step
        <5>5. record \in CallRecord
          BY <2>0, <5>2, <5>3, StepType
        <5> HIDE DEF record
        <5> QED BY <2>0, <5>4, <5>5
      <4>2. CASE Goto(c, "gate")
        BY <2>0, <4>2
      <4> QED BY <2>1, <4>1, <4>2 DEF Construct
    <3> QED BY <2>1, <3>1, <3>2 DEF Construct
  <2>2. CASE SaveRow(c)
    <3>1. rows' \in [Names -> Objects] /\ faults' \in 0..MaxFaults /\ call' \in [Actors -> CallRecord]
      BY <2>0, <2>2 DEF SaveRow
    <3> QED BY <2>2, <3>1 DEF SaveRow
  <2>3. CASE SaveLife(c)
    <3>1. lives' \in [Names -> Nat] /\ faults' \in 0..MaxFaults /\ call' \in [Actors -> CallRecord]
      BY <2>0, <2>3 DEF SaveLife, CallRecord
    <3> QED BY <2>3, <3>1 DEF SaveLife
  <2>4. CASE Discard(c)
    <3>1. rows' \in [Names -> Objects] /\ lives' \in [Names -> Nat] /\ faults' \in 0..MaxFaults
      BY <2>4 DEF Discard, DeleteRows, Permanent
    <3>2. call' \in [Actors -> CallRecord] /\ objects' \in [Calls -> {"none", "live", "dead", "lost"}]
      BY <2>0, <2>4 DEF Discard
    <3> QED BY <2>4, <3>1, <3>2 DEF Discard
  <2>5. CASE Register(c)
    <3>1. Resource(c, call[c].life) \in Entry /\ Resource(c, call[c].life).free
      BY <2>0, EntryTypes DEF CallRecord
    <3>2. resources' \in [Names -> Entry] /\ \A n \in Names : Blocked(resources'[n])
      BY <2>5, <3>1 DEF Register, Blocked
    <3> QED BY <2>0, <2>5, <3>2 DEF Register
  <2>6. CASE OpenGate(c)
    BY <2>0, <2>6 DEF OpenGate
  <2>7. CASE PersistLease(c)
    <3>1. call[c].name \in Names /\ call[c].prev \in Nat /\ call[c].life \in Nat
      BY <2>0, <2>7 DEF PersistLease, Shape, WellShaped, Lone, CallRecord
    <3>2. lives' \in [Names -> Nat] /\ call' \in [Actors -> CallRecord] /\ faults' \in 0..MaxFaults
      BY <2>0, <2>7, <3>1 DEF PersistLease
    <3>3. resources' = resources \/ RollBack(c)
      BY <2>7 DEF PersistLease
    <3>4. resources' \in [Names -> Entry] /\ \A n \in Names : Blocked(resources'[n])
      BY <3>1, <3>3, RollBackType
    <3> QED BY <2>7, <3>2, <3>4 DEF PersistLease
  <2>8. CASE EndUse(c)
    BY <2>0, <2>8 DEF EndUse
  <2>9. CASE Release(c)
    <3> DEFINE n == call[c].name
    <3>1. n \in Names
      BY <2>0, <2>9 DEF Release, Shape, WellShaped, Lone
    <3>2. CASE ~ resources[n].free
      BY <2>0, <2>9, <3>2 DEF Release
    <3>3. CASE resources[n].free
      <4> DEFINE users == [g \in Handles |-> IF g = call[c].handle THEN Less(resources[n].users[g]) ELSE resources[n].users[g]]
                 entry == [resources[n] EXCEPT !.active = Less(@), !.users = users]
      <4>1. resources[n] \in Entry /\ users \in Users /\ Less(resources[n].active) \in Nat
        BY <3>1 DEF Entry, Users, Less
      <4>2. resources' = [resources EXCEPT ![n] = entry]
        BY <2>9, <3>3 DEF Release
      <4>3. entry \in Entry /\ entry.free
        BY <4>1, <3>3 DEF Entry
      <4> HIDE DEF entry
      <4>4. resources' \in [Names -> Entry] /\ \A m \in Names : Blocked(resources'[m])
        BY <4>2, <4>3 DEF Blocked
      <4> QED BY <2>0, <2>9, <4>4 DEF Release
    <3> QED BY <3>2, <3>3
  <2>10. CASE AwaitUsers(c)
    <3>1. cancelled' \subseteq Handles
      BY <2>0, <2>10 DEF AwaitUsers, CallRecord
    <3>2. call' \in [Actors -> CallRecord]
      BY <2>0, <2>10 DEF AwaitUsers, CallRecord
    <3> QED BY <2>10, <3>1, <3>2 DEF AwaitUsers
  <2>11. CASE Finish(c)
    BY <2>0, <2>11, <1>2
  <2>12. CASE RenameRow(c)
    <3>1. \A n, m \in Names : Move(rows, n, m, 0) \in [Names -> Objects] /\ Move(lives, n, m, Permanent) \in [Names -> Nat]
      BY DEF Move, Permanent, Objects
    <3>2. call[c].name \in Names /\ call[c].to \in Names
      BY <2>0, <2>12 DEF RenameRow, Shape, WellShaped, Lone
    <3>3. rows' \in [Names -> Objects] /\ lives' \in [Names -> Nat] /\ faults' \in 0..MaxFaults
      BY <2>12, <3>1, <3>2 DEF RenameRow
    <3>4. call' \in [Actors -> CallRecord]
      BY <2>0, <2>12 DEF RenameRow
    <3> QED BY <2>12, <3>3, <3>4 DEF RenameRow
  <2>13. CASE UndoRow(c)
    <3>1. \A n, m \in Names : Move(rows, n, m, 0) \in [Names -> Objects] /\ Move(lives, n, m, Permanent) \in [Names -> Nat]
      BY DEF Move, Permanent, Objects
    <3>2. call[c].name \in Names /\ call[c].to \in Names
      BY <2>0, <2>13 DEF UndoRow, Shape, WellShaped, Lone
    <3>3. rows' \in [Names -> Objects] /\ lives' \in [Names -> Nat]
      BY <2>13, <3>1, <3>2 DEF UndoRow
    <3>4. call' \in [Actors -> CallRecord]
      BY <2>0, <2>13 DEF UndoRow
    <3> QED BY <2>13, <3>3, <3>4 DEF UndoRow
  <2>14. CASE Undo(c)
    <3>1. call[c].name \in Names /\ call[c].to \in Names
      BY <2>0, <2>14 DEF Undo, Shape, WellShaped, Lone
    <3>2. Freed(resources[call[c].to]) \in Entry /\ Blocked(Freed(resources[call[c].to])) /\ NoResource \in Entry /\ Blocked(NoResource)
      BY <3>1, EntryTypes DEF Blocked
    <3>3. resources' \in [Names -> Entry] /\ \A n \in Names : Blocked(resources'[n])
      BY <2>14, <3>2 DEF Undo
    <3>4. call' \in [Actors -> CallRecord]
      BY <2>0, <2>14 DEF Undo
    <3> QED BY <2>14, <3>3, <3>4 DEF Undo
  <2>15. CASE FinishRename(c)
    <3>1. call[c].to \in Names
      BY <2>0, <2>15 DEF FinishRename, Shape, WellShaped, Lone
    <3>2. Freed(resources[call[c].to]) \in Entry /\ Blocked(Freed(resources[call[c].to]))
      BY <3>1, EntryTypes DEF Blocked
    <3>3. resources' \in [Names -> Entry] /\ \A n \in Names : Blocked(resources'[n])
      BY <2>15, <3>2 DEF FinishRename
    <3> QED BY <2>0, <2>15, <3>3 DEF FinishRename
  <2>16. CASE PersistLifetime(c)
    <3>1. call[c].name \in Names /\ call[c].prev \in Nat /\ call[c].life \in Nat /\ call[c].obj \in Calls
      BY <2>0, <2>16 DEF PersistLifetime, Shape, WellShaped, Lone, CallRecord
    <3>2. lives' \in [Names -> Nat] /\ call' \in [Actors -> CallRecord] /\ faults' \in 0..MaxFaults /\ kept' \subseteq Calls
      BY <2>0, <2>16, <3>1 DEF PersistLifetime
    <3>3. resources' = resources \/ RollBack(c)
      BY <2>16 DEF PersistLifetime
    <3>4. resources' \in [Names -> Entry] /\ \A n \in Names : Blocked(resources'[n])
      BY <3>1, <3>3, RollBackType
    <3> QED BY <2>16, <3>2, <3>4 DEF PersistLifetime
  <2>17. CASE Killed(c)
    <3>1. call' \in [Actors -> CallRecord]
      BY <2>0, <2>17 DEF Killed
    <3>2. objects' \in [Calls -> {"none", "live", "dead", "lost"}]
      BY <2>17 DEF Killed
    <3> QED BY <2>17, <3>1, <3>2 DEF Killed
  <2> QED BY <1>3, <2>1, <2>2, <2>3, <2>4, <2>5, <2>6, <2>7, <2>8, <2>9, <2>10, <2>11, <2>12, <2>13, <2>14, <2>15, <2>16, <2>17 DEF Continue
<1>4. ASSUME NEW n \in Names, BeginExpire(n) PROVE Typed'
  <2>1. call' \in [Actors -> CallRecord]
    <3> DEFINE record == [Idle EXCEPT !.at = "cleanup", !.name = n, !.obj = resources[n].obj]
    <3>1. record \in CallRecord
      BY DEF Idle, CallRecord, Steps, DestroySteps, Permanent, Entry
    <3>2. call' = [call EXCEPT ![Reaper] = record]
      BY <1>4 DEF BeginExpire
    <3> HIDE DEF record
    <3> QED BY <3>1, <3>2
  <2>2. resources' \in [Names -> Entry] /\ \A m \in Names : Blocked(resources'[m])
    BY <1>4, EntryTypes DEF BeginExpire, Blocked
  <2> QED BY <1>4, <2>1, <2>2 DEF BeginExpire, tables, shutdown, world, ghosts
<1>5. ASSUME NEW h \in Handles, CancelThread(h) PROVE Typed'
  BY <1>5 DEF CancelThread, tables, shutdown, world, ghosts
<1>6. CASE StopAccepting
  BY <1>6 DEF StopAccepting, Gates, Creating, tables, world, ghosts
<1>7. CASE MarkAll
  <2>1. resources' \in [Names -> Entry] /\ \A m \in Names : Blocked(resources'[m])
    BY <1>7, EntryTypes DEF MarkAll, Blocked
  <2> QED BY <1>7, <2>1 DEF MarkAll, tables, world, ghosts
<1>8. CASE ShutDown
  BY <1>8 DEF ShutDown, tables, world, ghosts
<1>9. ASSUME NEW n \in Names, EndEntry(n) PROVE Typed'
  <2>1. entries[n] \in Entry /\ NoResource \in Entry
    BY EntryTypes
  <2>2. entries' \in [Names -> Entry]
    <3>1. CASE entries' = [entries EXCEPT ![n] = NoResource]
      BY <3>1, <2>1
    <3>2. ASSUME NEW h \in Handles, entries' = [entries EXCEPT ![n].users[h] = 0]
          PROVE  entries' \in [Names -> Entry]
      <4> DEFINE users == [entries[n].users EXCEPT ![h] = 0]
                 entry == [entries[n] EXCEPT !.users = users]
      <4>1. users \in Users
        BY <2>1 DEF Entry, Users
      <4> HIDE DEF users
      <4>2. entry \in Entry
        BY <2>1, <4>1 DEF Entry
      <4>3. entries' = [entries EXCEPT ![n] = entry]
        BY <3>2 DEF users
      <4> HIDE DEF entry
      <4> QED BY <4>2, <4>3
    <3> QED BY <1>9, <3>1, <3>2 DEF EndEntry
  <2>3. objects' \in [Calls -> {"none", "live", "dead", "lost"}] /\ cancelled' \subseteq Handles /\ faults' \in 0..MaxFaults
    BY <1>9, FaultType DEF EndEntry
  <2> QED BY <1>9, <2>2, <2>3 DEF EndEntry, tables, world, ghosts
<1>10. CASE Restart
  <2>1. call' \in [Actors -> CallRecord]
    BY <1>10, IdleType DEF Restart
  <2>2. resources' \in [Names -> Entry] /\ \A m \in Names : Blocked(resources'[m])
    BY <1>10, EntryTypes DEF Restart, Blocked
  <2>3. entries' \in [Names -> Entry] /\ objects' \in [Calls -> {"none", "live", "dead", "lost"}]
    BY <1>10, EntryTypes DEF Restart
  <2>4. restarts' \in 0..MaxRestarts
    BY <1>10 DEF Restart
  <2> QED BY <1>10, <2>1, <2>2, <2>3, <2>4 DEF Restart, tables
<1>11. CASE Tick
  BY <1>11 DEF Tick, tables, shutdown, ghosts
<1>12. CASE UNCHANGED vars
  BY <1>12 DEF vars, tables, shutdown, world, ghosts
<1> QED BY <1>1, <1>2, <1>3, <1>4, <1>5, <1>6, <1>7, <1>8, <1>9, <1>10, <1>11, <1>12 DEF Next, Shutdown
LEMMA ShapeInit == Init => Shape
BY Constants, EntryTypes DEF Init, Shape, WellShaped, Idle, Lone, CreateSteps, RenameSteps

\* A call that goes to the next step of its operation keeps what it remembers, and
\* one that is done remembers nothing.
LEMMA GotoShape ==
  ASSUME Typed, Shape, NEW c \in Actors, NEW step, Goto(c, step),
         WellShaped(c, [call[c] EXCEPT !.at = step])
  PROVE  \A d \in Actors : WellShaped(d, call'[d])
BY DEF Typed, Shape, Goto

LEMMA DoneShape ==
  ASSUME Typed, Shape, NEW c \in Actors, Done(c)
  PROVE  \A d \in Actors : WellShaped(d, call'[d])
<1>1. WellShaped(Reaper, Idle) /\ (c # Reaper => WellShaped(c, [Idle EXCEPT !.at = "end"]))
  BY Constants DEF WellShaped, Idle, Lone, RenameSteps, CreateSteps
<1> QED BY <1>1 DEF Typed, Shape, Done

LEMMA ShapeNext == Typed /\ Shape /\ [Next]_vars => Shape'
<1> SUFFICES ASSUME Typed, Shape, [Next]_vars PROVE Shape'
  OBVIOUS
<1> USE Constants DEF Lone
<1>r. /\ resources \in [Names -> Entry] /\ call \in [Actors -> CallRecord]
      /\ \A n \in Names : resources[n] \in Entry /\ (resources[n].free => resources[n].obj \in Calls)
  BY DEF Typed, Shape
<1>1. ASSUME NEW c \in Calls, Begin(c) PROVE Shape'
  <2> PICK h \in Handles \cup {NoHandle}, n \in Names :
         \/ Reserve(c, h, n) \/ Acquire(c, h, n) \/ BeginDestroy(c, h, n)
         \/ \E m \in Names : BeginRename(c, h, n, m)
         \/ \E permanent \in BOOLEAN : UpdateLifetime(c, h, n, permanent)
    BY <1>1 DEF Begin
  <2>0. c \in Actors /\ c # Reaper
    OBVIOUS
  <2>1. CASE Reserve(c, h, n)
    <3>1. WellShaped(c, [Idle EXCEPT !.at = "construct", !.handle = h, !.name = n, !.obj = c])
      BY <2>0 DEF WellShaped, Idle, RenameSteps, CreateSteps
    <3> QED BY <1>r, <2>1, <3>1 DEF Reserve, Shape
  <2>2. CASE Acquire(c, h, n)
    <3>1. resources[n].free
      BY <2>2 DEF Acquire, Leasable
    <3>2. WellShaped(c, [Idle EXCEPT !.at = "lease", !.handle = h, !.name = n,
                     !.obj = resources[n].obj, !.life = Expiry(resources[n].life), !.prev = resources[n].life])
      BY <1>r, <2>0, <3>1 DEF WellShaped, Idle, RenameSteps, CreateSteps
    <3>3. \A d \in Actors : WellShaped(d, call'[d])
      BY <1>r, <2>2, <3>2 DEF Acquire, Shape
    <3>4. \A m \in Names : resources'[m].obj = resources[m].obj /\ resources'[m].free = resources[m].free
      BY <1>r, <2>2 DEF Acquire, Entry
    <3> QED BY <1>r, <3>3, <3>4 DEF Shape
  <2>3. CASE BeginDestroy(c, h, n)
    <3>2. WellShaped(c, [Idle EXCEPT !.at = "await", !.handle = h, !.name = n,
                !.obj = resources[n].obj, !.await = {g \in Handles : resources[n].users[g] > 0}])
      BY <1>r, <2>0, <2>3 DEF BeginDestroy, WellShaped, Idle, RenameSteps, CreateSteps
    <3>3. \A d \in Actors : WellShaped(d, call'[d])
      BY <1>r, <2>3, <3>2 DEF BeginDestroy, Shape
    <3>4. \A m \in Names : resources'[m].free => resources'[m] = resources[m]
      BY <1>r, <2>3, EntryTypes DEF BeginDestroy
    <3> QED BY <1>r, <3>3, <3>4 DEF Shape
  <2>4. CASE \E m \in Names : BeginRename(c, h, n, m)
    <3> PICK m \in Names : BeginRename(c, h, n, m)
      BY <2>4
    <3>2. WellShaped(c, [Idle EXCEPT
                 !.at = IF resources[n].obj \in Persistent THEN "rename" ELSE "renamed",
                 !.handle = h, !.name = n, !.to = m, !.obj = resources[n].obj])
      BY <1>r, <2>0 DEF BeginRename, WellShaped, Idle, RenameSteps, CreateSteps
    <3>3. \A d \in Actors : WellShaped(d, call'[d])
      BY <1>r, <3>2 DEF BeginRename, Shape
    <3>4. \A k \in Names : resources'[k].free => resources'[k] = resources[k]
      BY <1>r, EntryTypes DEF BeginRename
    <3> QED BY <1>r, <3>3, <3>4 DEF Shape
  <2>5. CASE \E permanent \in BOOLEAN : UpdateLifetime(c, h, n, permanent)
    <3> PICK permanent \in BOOLEAN : UpdateLifetime(c, h, n, permanent)
      BY <2>5
    <3> DEFINE life == IF permanent THEN Permanent ELSE Expiry(resources[n].life)
    <3> DEFINE record == [Idle EXCEPT
                 !.at = IF permanent THEN "permanent" ELSE "keep", !.handle = h, !.name = n,
                 !.obj = resources[n].obj, !.life = life, !.prev = resources[n].life]
    <3>1. call' = [call EXCEPT ![c] = record]
      BY DEF UpdateLifetime
    <3>2. WellShaped(c, record)
      BY <1>r, <2>0 DEF UpdateLifetime, WellShaped, Idle, RenameSteps, CreateSteps
    <3> HIDE DEF record
    <3>3. \A d \in Actors : WellShaped(d, call'[d])
      BY <1>r, <3>1, <3>2 DEF Shape
    <3>5. resources' = [resources EXCEPT ![n].life = life]
      BY DEF UpdateLifetime
    <3> HIDE DEF life
    <3>4. \A m \in Names : resources'[m].obj = resources[m].obj /\ resources'[m].free = resources[m].free
      BY <1>r, <3>5 DEF Entry
    <3> QED BY <1>r, <3>3, <3>4 DEF Shape
  <2> QED BY <2>1, <2>2, <2>3, <2>4, <2>5
<1>2. ASSUME NEW c \in Actors, Finish(c) PROVE Shape'
  <2>0. WellShaped(c, call[c])
    BY DEF Shape
  <2>1. \A d \in Actors : WellShaped(d, call'[d])
    <3>1. CASE Done(c)
      BY <3>1, DoneShape
    <3>2. CASE \E step \in {"delete", "remove", "restore"} :
                 Goto(c, step) /\ call[c].at \in {"cleanup", "delete"} /\ (step = "delete" => call[c].obj \in Persistent)
      <4> PICK step \in {"delete", "remove", "restore"} :
                 Goto(c, step) /\ call[c].at \in {"cleanup", "delete"} /\ (step = "delete" => call[c].obj \in Persistent)
        BY <3>2
      <4>1. WellShaped(c, [call[c] EXCEPT !.at = step])
        BY <1>r, <2>0 DEF WellShaped, RenameSteps, CreateSteps, CallRecord
      <4> QED BY <4>1, GotoShape
    <3>3. CASE \E life : call' = [call EXCEPT ![c].at = "restorelife", ![c].life = life] /\ call[c].at = "restore"
      <4> PICK life : call' = [call EXCEPT ![c].at = "restorelife", ![c].life = life] /\ call[c].at = "restore"
        BY <3>3
      <4> DEFINE record == [call[c] EXCEPT !.at = "restorelife", !.life = life]
      <4>1. WellShaped(c, record)
        BY <1>r, <2>0 DEF WellShaped, RenameSteps, CreateSteps, CallRecord
      <4>2. call' = [call EXCEPT ![c] = record]
        OBVIOUS
      <4> HIDE DEF record
      <4> QED BY <1>r, <4>1, <4>2 DEF Shape
    <3> QED BY <1>2, <3>1, <3>2, <3>3 DEF Finish, DeleteRow, Cleanup, Remove, Restore, RestoreLife
  <2>2. ASSUME NEW n \in Names, resources'[n].free PROVE resources'[n].obj \in Calls
    <3>1. CASE resources' = resources
      BY <1>r, <2>2, <3>1
    <3>2. CASE Remove(c)
      BY <1>r, <2>2, <3>2, EntryTypes DEF Remove
    <3>3. CASE Restore(c) /\ Registered(call[c].name)
      <4>1. /\ n # call[c].name => resources'[n] = resources[n]
            /\ n = call[c].name => resources'[n].obj = Freed(resources[n]).obj
        <5>1. PICK life : resources' = [resources EXCEPT ![call[c].name] = [Freed(@) EXCEPT !.life = life]]
          BY <3>3 DEF Restore
        <5>2. \A r \in Entry : [Freed(r) EXCEPT !.life = life].obj = Freed(r).obj
          BY EntryTypes DEF Entry
        <5> QED BY <1>r, <5>1, <5>2
      <4>2. n = call[c].name => resources'[n].obj = resources[n].obj /\ resources[n].obj # 0
        BY <1>r, <3>3, <4>1, EntryTypes DEF Registered
      <4> QED BY <1>r, <2>2, <4>1, <4>2 DEF Entry
    <3> QED BY <1>2, <3>1, <3>2, <3>3 DEF Finish, DeleteRow, Cleanup, Restore, RestoreLife
  <2> QED BY <2>1, <2>2 DEF Shape
<1>3. ASSUME NEW c \in Calls, Continue(c) PROVE Shape'
  <2>0. c \in Actors /\ c # Reaper /\ WellShaped(c, call[c]) /\ call[c] \in CallRecord
    BY <1>r DEF Shape
  <2>1. CASE Finish(c)
    BY <1>2, <2>0, <2>1
  <2> SUFFICES ASSUME ~ Finish(c) PROVE Shape'
    BY <2>1
  <2>2. \A d \in Actors : WellShaped(d, call'[d])
    <3>1. CASE Done(c)
      BY <2>0, <3>1, DoneShape
    <3>2. CASE call' = call
      BY <3>2 DEF Shape
    <3>3. CASE AwaitUsers(c)
      <4>1. \A h : WellShaped(c, [call[c] EXCEPT !.await = @ \ {h}])
        BY <2>0 DEF WellShaped, CallRecord
      <4>2. WellShaped(c, [call[c] EXCEPT !.at = "cleanup"])
        BY <2>0, <3>3 DEF AwaitUsers, WellShaped, CallRecord, RenameSteps, CreateSteps
      <4>3. CASE Goto(c, "cleanup")
        BY <2>0, <4>2, <4>3, GotoShape
      <4>4. CASE \E h \in call[c].await : call' = [call EXCEPT ![c].await = @ \ {h}]
        BY <1>r, <2>0, <4>1, <4>4 DEF Shape
      <4> QED BY <3>2, <3>3, <4>3, <4>4 DEF AwaitUsers
    <3>4. CASE Construct(c)
      <4>1. \A life : WellShaped(c, [call[c] EXCEPT !.at = IF c \in Persistent THEN "save" ELSE "register", !.life = life])
        BY <2>0, <3>4 DEF Construct, WellShaped, CallRecord, RenameSteps, CreateSteps
      <4>2. WellShaped(c, [call[c] EXCEPT !.at = "gate"])
        BY <2>0, <3>4 DEF Construct, WellShaped, CallRecord, RenameSteps, CreateSteps
      <4>3. CASE Goto(c, "gate")
        BY <2>0, <4>2, <4>3, GotoShape
      <4>4. CASE \E life \in {Permanent, now + TTL} :
             call' = [call EXCEPT ![c].at = IF c \in Persistent THEN "save" ELSE "register", ![c].life = life]
        <5> PICK life \in {Permanent, now + TTL} :
              call' = [call EXCEPT ![c].at = IF c \in Persistent THEN "save" ELSE "register", ![c].life = life]
          BY <4>4
        <5> DEFINE record == [call[c] EXCEPT !.at = IF c \in Persistent THEN "save" ELSE "register", !.life = life]
        <5>1. call' = [call EXCEPT ![c] = record] /\ WellShaped(c, record)
          BY <4>1
        <5> HIDE DEF record
        <5> QED BY <1>r, <2>0, <5>1 DEF Shape
      <4> QED BY <3>4, <4>3, <4>4 DEF Construct
    <3>5. CASE \E step \in Steps : Goto(c, step) /\ ~ AwaitUsers(c) /\ ~ Construct(c)
      <4> PICK step \in Steps : Goto(c, step) /\ ~ AwaitUsers(c) /\ ~ Construct(c)
        BY <3>5
      <4>1. call'[c].at = step
        BY <1>r, <2>0 DEF Goto, CallRecord
      <4>2. WellShaped(c, [call[c] EXCEPT !.at = step])
        <5>1. CASE /\ call[c].at \in CreateSteps /\ step \in CreateSteps
                   /\ step \in {"save", "savelife", "discard"} => call[c].at \in {"save", "savelife"}
          BY <2>0, <5>1 DEF WellShaped, CallRecord, CreateSteps, RenameSteps
        <5>2. CASE call[c].at \in LeaseSteps /\ step \in LeaseSteps
          BY <2>0, <5>2 DEF WellShaped, CallRecord, CreateSteps, RenameSteps, LeaseSteps
        <5>3. CASE call[c].at \in RenameSteps \ {"renamed"} /\ step \in RenameSteps
          BY <2>0, <5>3 DEF WellShaped, CallRecord, CreateSteps, RenameSteps
        <5>4. ASSUME Done(c) PROVE step = "end"
          BY <1>r, <2>0, <4>1, <5>4 DEF Done, Idle
        <5>5. ASSUME NEW s, Goto(c, s) PROVE step = s
          BY <1>r, <2>0, <4>1, <5>5 DEF Goto, CallRecord
        <5>6. CASE Done(c)
          BY <2>0, <5>4, <5>6, DoneShape DEF Typed, Goto
        <5>7. CASE SaveRow(c) \/ SaveLife(c) \/ Discard(c) \/ Register(c)
          BY <5>1, <5>5, <5>7 DEF SaveRow, SaveLife, Discard, Register, CreateSteps
        <5>8. CASE PersistLease(c) \/ EndUse(c)
          BY <5>2, <5>5, <5>8 DEF PersistLease, EndUse, LeaseSteps
        <5>9. CASE RenameRow(c) \/ UndoRow(c) \/ (Undo(c) /\ ~ Done(c))
          BY <5>3, <5>5, <5>9 DEF RenameRow, UndoRow, Undo, RenameSteps
        <5>10. CASE Killed(c) /\ ~ Done(c)
          BY <5>1, <5>2, <5>3, <5>5, <5>10 DEF Killed, CreateSteps, LeaseSteps, RenameSteps
        <5> QED BY <1>3, <4>1, <3>5, <5>6, <5>7, <5>8, <5>9, <5>10
              DEF Continue, OpenGate, Release, FinishRename, PersistLifetime
      <4> QED BY <2>0, <4>2, GotoShape
    <3> QED BY <1>3, <3>1, <3>2, <3>3, <3>4, <3>5
         DEF Continue, SaveRow, SaveLife, Discard, Register, OpenGate, PersistLease, EndUse, Release,
             RenameRow, UndoRow, Undo, FinishRename, PersistLifetime, Killed, Steps, CreateSteps, LeaseSteps, DestroySteps, RenameSteps
  <2>3. ASSUME NEW n \in Names, resources'[n].free PROVE resources'[n].obj \in Calls
    <3>1. CASE resources' = resources
      BY <1>r, <2>3, <3>1
    <3>2. CASE Register(c)
      BY <1>r, <2>0, <2>3, <3>2, EntryTypes DEF Register, CallRecord
    <3>3. CASE RollBack(c) /\ (PersistLease(c) \/ PersistLifetime(c))
      <4>1. call[c].name \in Names /\ call[c].prev \in Nat
        BY <2>0, <3>3 DEF PersistLease, PersistLifetime, WellShaped, CallRecord
      <4>2. resources'[n].obj = resources[n].obj /\ resources'[n].free = resources[n].free
        BY <2>0, <3>3, <4>1, RollBackType
      <4> QED BY <1>r, <2>3, <4>2
    <3>4. CASE Release(c)
      <4>1. resources'[n].obj = resources[n].obj /\ resources'[n].free = resources[n].free
        BY <1>r, <3>4 DEF Release, Entry
      <4> QED BY <1>r, <2>3, <4>1
    <3>5. CASE Undo(c)
      <4>1. call[c].name \in Names /\ call[c].to \in Names
        BY <2>0, <3>5 DEF Undo, WellShaped, RenameSteps
      <4> DEFINE freed == Freed(resources[call[c].to])
      <4>2. freed.obj = resources[call[c].to].obj /\ resources[call[c].to].obj \in Objects /\ ~ NoResource.free
        BY <1>r, <4>1, EntryTypes DEF Entry
      <4>3. resources' = IF Registered(call[c].to)
                         THEN [resources EXCEPT ![call[c].name] = freed, ![call[c].to] = NoResource] ELSE resources
        BY <3>5 DEF Undo
      <4> HIDE DEF freed
      <4> QED BY <1>r, <2>3, <4>1, <4>2, <4>3 DEF Registered
    <3>6. CASE FinishRename(c)
      <4>1. call[c].to \in Names
        BY <2>0, <3>6 DEF FinishRename, WellShaped, RenameSteps
      <4> DEFINE freed == Freed(resources[call[c].to])
      <4>2. freed.obj = resources[call[c].to].obj /\ resources[call[c].to].obj \in Objects
        BY <1>r, <4>1, EntryTypes DEF Entry
      <4>3. resources' = [resources EXCEPT ![call[c].to] = IF Registered(call[c].to) THEN freed ELSE @]
        BY <3>6 DEF FinishRename
      <4> HIDE DEF freed
      <4> QED BY <1>r, <2>3, <4>1, <4>2, <4>3 DEF Registered
    <3> QED BY <1>3, <3>1, <3>2, <3>3, <3>4, <3>5, <3>6
         DEF Continue, Construct, SaveRow, SaveLife, Discard, OpenGate, PersistLease, EndUse, AwaitUsers,
             RenameRow, UndoRow, PersistLifetime, Killed
  <2> QED BY <2>2, <2>3 DEF Shape
<1>4. ASSUME NEW n \in Names, BeginExpire(n) PROVE Shape'
  <2>1. WellShaped(Reaper, [Idle EXCEPT !.at = "cleanup", !.name = n, !.obj = resources[n].obj])
    BY <1>r, <1>4 DEF BeginExpire, WellShaped, Idle, RenameSteps, CreateSteps
  <2>2. \A d \in Actors : WellShaped(d, call'[d])
    BY <1>r, <1>4, <2>1 DEF BeginExpire, Shape
  <2>3. \A m \in Names : resources'[m].free => resources'[m] = resources[m]
    BY <1>r, <1>4, EntryTypes DEF BeginExpire
  <2> QED BY <1>r, <2>2, <2>3 DEF Shape
<1>5. CASE MarkAll
  <2>1. \A n \in Names : ~ resources'[n].free
    BY <1>r, <1>5, EntryTypes DEF MarkAll
  <2> QED BY <1>5, <2>1 DEF MarkAll, Shape
<1>6. CASE Restart
  <2>1. WellShaped(Reaper, Idle) /\ \A c \in Calls : WellShaped(c, Idle) /\ WellShaped(c, [Idle EXCEPT !.at = "end"])
    BY DEF WellShaped, Idle, RenameSteps, CreateSteps
  <2>2. \A d \in Actors : WellShaped(d, call'[d])
    BY <1>6, <2>1 DEF Restart
  <2>3. \A n \in Names : resources'[n].free => resources'[n].obj \in Calls
    BY <1>6, EntryTypes DEF Restart, Typed
  <2> QED BY <2>2, <2>3 DEF Shape
<1>7. CASE call' = call /\ resources' = resources
  BY <1>7 DEF Shape
<1>8. (\E h \in Handles : CancelThread(h)) \/ StopAccepting \/ ShutDown \/ Tick \/ (\E n \in Names : EndEntry(n)) \/ UNCHANGED vars
        => call' = call /\ resources' = resources
  BY DEF CancelThread, StopAccepting, ShutDown, Tick, EndEntry, vars
<1> QED BY <1>1, <1>2, <1>3, <1>4, <1>5, <1>6, <1>7, <1>8 DEF Next, Shutdown

(***************************************************************************)
(* What a step changes, field by field: the invariants below are proved    *)
(* from these effects, never from the records themselves.                  *)
(***************************************************************************)
Free(n)    == resources[n].free
Held       == {"await", "cleanup", "delete", "remove", "restore",
               "rename", "undorow", "abortrow", "undo", "abort", "renamed"}
Holding(c) == call[c].at \in Held
Spot(c)    == IF call[c].at \in RenameSteps THEN call[c].to ELSE call[c].name

\* The other actors; what the actor of the step remembers after it.
Others(c)    == \A d \in Actors : d # c => call'[d] = call[d]
Remembers(c) == /\ call'[c].name = call[c].name /\ call'[c].to = call[c].to
                /\ call'[c].obj = call[c].obj /\ call'[c].handle = call[c].handle
Forgets(c)   == /\ call'[c].at = IF c = Reaper THEN "idle" ELSE "end"
                /\ call'[c].name = NoName /\ call'[c].to = NoName
                /\ call'[c].obj = 0 /\ call'[c].handle = NoHandle
Begins(c, step, h, n, m, o) ==
  /\ Others(c) /\ call[c].at = "idle" /\ call'[c].at = step
  /\ call'[c].name = n /\ call'[c].to = m /\ call'[c].obj = o /\ call'[c].handle = h

\* The registry.
Placed(n)   == resources'[n].obj = resources[n].obj /\ resources'[n].free = resources[n].free
Same(n)     == Placed(n) /\ resources'[n].users = resources[n].users /\ resources'[n].active = resources[n].active
Steady      == \A n \in Names : Same(n)
SteadyBut(n) == \A m \in Names : m # n => Same(m)
Emptied(n)  == resources'[n].obj = 0 /\ ~ resources'[n].free
Fresh(n, o) == resources'[n].obj = o /\ resources'[n].free /\ resources'[n].users = NoUsers /\ resources'[n].active = 0
Taken(n, o) == resources'[n].obj = o /\ ~ resources'[n].free

Manager == shut' = shut /\ gates' = gates /\ entries' = entries
Outside == Manager /\ (faults' = 0 => faults = 0) /\ (spoiled => spoiled')
Quiet   == Steady /\ rows' = rows /\ Outside

\* Steps that only a call's own progress tells apart.
Follows(s, t) ==
  \/ s = "construct" /\ t = "gate"
  \/ s = "save" /\ t = "discard"
  \/ s = "savelife" /\ t \in {"register", "discard"}
  \/ s = "lease" /\ t \in {"use", "giveup"}
  \/ s = "use" /\ t = "release"
  \/ s = "await" /\ t \in {"await", "cleanup"}
  \/ s \in {"cleanup", "delete"} /\ t = "restore"
  \/ s = "rename" /\ t \in {"undorow", "abortrow"}

Goes(c) ==
  /\ Others(c) /\ Remembers(c) /\ Follows(call[c].at, call'[c].at)
  /\ call'[c].at = "cleanup" => call[c].await = {}
  /\ \A h \in call[c].await : h \in call'[c].await \/ \A d \in Calls : call[d].handle # h
  /\ Quiet /\ objects' = objects

Ends(c) ==
  /\ Others(c) /\ Forgets(c)
  /\ call[c].at \in {"gate", "restorelife", "permanent", "keep", "lease", "giveup", "await", "delete", "remove",
                     "restore", "undone"}
  /\ Quiet /\ objects' = objects

\* Beginnings.
Reserves(c, h, n) ==
  /\ Begins(c, "construct", h, n, NoName, c)
  /\ shut = "no" /\ ~ Occupied(n)
  /\ Quiet /\ objects' = objects

Leased(c, h, n) ==
  /\ Begins(c, "lease", h, n, NoName, resources[n].obj)
  /\ Free(n) /\ SteadyBut(n) /\ Placed(n)
  /\ resources'[n].active = resources[n].active + 1
  /\ resources'[n].users = [g \in Handles |-> IF g = h THEN resources[n].users[g] + 1 ELSE resources[n].users[g]]
  /\ rows' = rows /\ objects' = objects /\ Outside

Doomed(c, h, n) ==
  /\ \/ Begins(c, "await", h, n, NoName, resources[n].obj) /\ Cancellable(resources[n])
     \/ Begins(c, "cleanup", h, n, NoName, resources[n].obj) /\ resources[n].active = 0
  /\ call'[c].await = {g \in Handles : resources[n].users[g] > 0} \/ call'[c].at = "cleanup"
  /\ Free(n) /\ SteadyBut(n) /\ Taken(n, resources[n].obj)
  /\ rows' = rows /\ objects' = objects /\ Outside

Renames(c, h, n, m) ==
  /\ \/ Begins(c, "rename", h, n, m, resources[n].obj) /\ resources[n].obj \in Persistent
     \/ Begins(c, "renamed", h, n, m, resources[n].obj) /\ resources[n].obj \notin Persistent
  /\ Free(n) /\ resources[n].active = 0 /\ n # m /\ ~ Occupied(m)
  /\ \A k \in Names \ {n, m} : Same(k)
  /\ Taken(m, resources[n].obj) /\ Emptied(n)
  /\ rows' = rows /\ objects' = objects /\ Outside

Prolongs(c, h, n, step) ==
  /\ Begins(c, step, h, n, NoName, resources[n].obj) /\ step \in {"permanent", "keep"}
  /\ Free(n)
  /\ Quiet /\ objects' = objects

\* Creation.
Makes(c) ==
  /\ Others(c) /\ Remembers(c)
  /\ call[c].at = "construct" /\ call'[c].at = IF c \in Persistent THEN "save" ELSE "register"
  /\ objects' = [objects EXCEPT ![c] = "live"]
  /\ Quiet

Loses(c) ==
  /\ Others(c) /\ Remembers(c)
  /\ call[c].at = "construct" /\ call'[c].at = "gate"
  /\ objects' = [objects EXCEPT ![c] = "lost"]
  /\ Quiet

Saves(c) ==
  /\ Others(c) /\ Remembers(c)
  /\ call[c].at = "save" /\ call'[c].at = "savelife"
  /\ rows' = [rows EXCEPT ![call[c].name] = c]
  /\ Steady /\ objects' = objects /\ Outside

Discards(c) ==
  /\ Others(c) /\ Remembers(c)
  /\ call[c].at = "discard" /\ call'[c].at = "gate"
  /\ rows' \in {rows, [rows EXCEPT ![call[c].name] = 0]}
  /\ objects' = [objects EXCEPT ![c] = "dead"]
  /\ Steady /\ Outside

Registers(c) ==
  /\ Others(c) /\ Remembers(c)
  /\ call[c].at = "register" /\ call'[c].at = "gate"
  /\ SteadyBut(call[c].name) /\ Fresh(call[c].name, c)
  /\ rows' = rows /\ objects' = objects /\ Outside

\* The end of a lease.
Releases(c) ==
  /\ Others(c) /\ Forgets(c)
  /\ call[c].at \in {"release", "giveup"}
  /\ LET n == call[c].name IN
       /\ SteadyBut(n) /\ Placed(n)
       /\ Free(n) =>
            /\ resources'[n].active = Less(resources[n].active)
            /\ resources'[n].users = [g \in Handles |-> IF g = call[c].handle THEN Less(resources[n].users[g])
                                                                             ELSE resources[n].users[g]]
  /\ rows' = rows /\ objects' = objects /\ Outside

\* Destruction.
Cleans(c) ==
  /\ Others(c) /\ call[c].at = "cleanup"
  /\ \/ Remembers(c) /\ call'[c].at = IF call[c].obj \in Persistent THEN "delete" ELSE "remove"
     \/ Forgets(c)
  /\ objects' \in {objects, [objects EXCEPT ![call[c].obj] = "dead"]}
  /\ Remembers(c) => objects' = [objects EXCEPT ![call[c].obj] = "dead"]
  /\ Quiet

Deletes(c) ==
  /\ Others(c) /\ Remembers(c)
  /\ call[c].at = "delete" /\ call'[c].at = "remove"
  /\ rows' = [rows EXCEPT ![call[c].name] = 0]
  /\ Steady /\ objects' = objects /\ Outside

Removes(c) ==
  /\ Others(c) /\ Forgets(c) /\ call[c].at = "remove"
  /\ SteadyBut(call[c].name) /\ Emptied(call[c].name)
  /\ rows' = rows /\ objects' = objects /\ Outside

Restores(c) ==
  /\ Others(c) /\ Remembers(c)
  /\ call[c].at = "restore" /\ call'[c].at = "restorelife"
  /\ SteadyBut(call[c].name) /\ Fresh(call[c].name, resources[call[c].name].obj) /\ Registered(call[c].name)
  /\ rows' = rows /\ objects' = objects /\ Outside

\* Renaming.
MovesRow(c) ==
  /\ Others(c) /\ Remembers(c)
  /\ call[c].at = "rename" /\ call'[c].at \in {"renamed", "undorow"}
  /\ Movable(call[c].name, call[c].to) /\ rows' = Move(rows, call[c].name, call[c].to, 0)
  /\ ~ spoiled' => rows[call[c].name] = call[c].obj
  /\ Steady /\ objects' = objects /\ Outside

MovesBack(c) ==
  /\ Others(c) /\ Remembers(c)
  /\ \/ call[c].at = "undorow" /\ call'[c].at = "undo"
     \/ call[c].at = "abortrow" /\ call'[c].at = "abort"
  /\ rows' = IF Movable(call[c].to, call[c].name) THEN Move(rows, call[c].to, call[c].name, 0) ELSE rows
  /\ Steady /\ objects' = objects /\ Outside

TakesBack(c) ==
  /\ Others(c)
  /\ \/ call[c].at = "undo" /\ call'[c].at = "undone" /\ Remembers(c)
     \/ call[c].at \in {"undone", "abort"} /\ Forgets(c)
  /\ IF Registered(call[c].to)
     THEN /\ \A k \in Names \ {call[c].name, call[c].to} : Same(k)
          /\ Fresh(call[c].name, resources[call[c].to].obj) /\ Emptied(call[c].to)
          /\ ~ spoiled' => /\ call[c].at # "undone" /\ ~ Occupied(call[c].name)
                           /\ rows[call[c].name] = call[c].obj
     ELSE Steady
  /\ rows' = rows /\ objects' = objects /\ Outside

Renamed(c) ==
  /\ Others(c) /\ Forgets(c) /\ call[c].at = "renamed"
  /\ SteadyBut(call[c].to)
  /\ IF Registered(call[c].to) THEN Fresh(call[c].to, resources[call[c].to].obj) ELSE Same(call[c].to)
  /\ rows' = rows /\ objects' = objects /\ Outside

\* The manager.
Stays == call' = call /\ Quiet /\ objects' = objects

Closes ==
  /\ call' = call /\ Steady /\ rows' = rows /\ objects' = objects
  /\ shut = "no" /\ shut' = "gates" /\ gates' = Creating /\ entries' = entries
  /\ faults' = faults /\ spoiled' = spoiled

Marks ==
  /\ call' = call /\ rows' = rows /\ objects' = objects
  /\ \A n \in Names : Taken(n, resources[n].obj)
  /\ shut = "gates" /\ gates \cap Creating = {} /\ shut' = "entries" /\ entries' = resources
  /\ faults' = faults /\ spoiled' = spoiled

EndsEntry(n) ==
  /\ call' = call /\ Steady /\ rows' = rows /\ shut = "entries" /\ shut' = shut /\ gates' = gates
  /\ \A m \in Names \ {n} : entries'[m].obj = entries[m].obj
  /\ \/ entries'[n].obj = entries[n].obj /\ objects' = objects
     \/ /\ entries[n].obj \in Calls /\ entries'[n].obj = 0
        /\ \/ objects' = [objects EXCEPT ![entries[n].obj] = "dead"] /\ entries[n].obj \notin Persistent
           \/ objects' = objects /\ (entries[n].obj \in Persistent \/ faults' # 0)
  /\ (faults' = 0 => faults = 0) /\ spoiled' = spoiled

Stops ==
  /\ call' = call /\ Steady /\ rows' = rows /\ objects' = objects
  /\ shut = "entries" /\ shut' = "over" /\ gates' = gates /\ entries' = entries
  /\ \A n \in Names : entries[n].obj = 0
  /\ faults' = faults /\ spoiled' = spoiled

Restarts ==
  /\ \A c \in Actors : /\ call'[c].at = IF call[c].at = "idle" \/ c = Reaper THEN "idle" ELSE "end"
                       /\ call'[c].name = NoName /\ call'[c].to = NoName
                       /\ call'[c].obj = 0 /\ call'[c].handle = NoHandle
  /\ \A n \in Names : (rows[n] = 0 => Emptied(n)) /\ (rows[n] # 0 => Fresh(n, rows[n]))
  /\ \A n \in Names : entries'[n].obj = 0
  /\ rows' = rows
  /\ objects' = [o \in Calls |-> IF objects[o] = "live" /\ (o \notin Persistent \/ \A n \in Names : rows[n] # o)
                                 THEN "lost" ELSE objects[o]]
  /\ shut' = "no" /\ gates' = {} /\ spoiled' = FALSE

Opens(c) == \E h \in Handles \cup {NoHandle}, n \in Names :
  \/ Reserves(c, h, n) \/ Leased(c, h, n)
  \/ \E m \in Names : Renames(c, h, n, m)
  \/ \E step \in {"permanent", "keep"} : Prolongs(c, h, n, step)

Effect ==
  \/ \E c \in Actors :
       \/ \E h \in Handles \cup {NoHandle}, n \in Names : Doomed(c, h, n)
       \/ Goes(c) \/ Ends(c)
       \/ Cleans(c) \/ Deletes(c) \/ Removes(c) \/ Restores(c)
  \/ \E c \in Calls :
       \/ Opens(c)
       \/ Makes(c) \/ Loses(c) \/ Saves(c) \/ Discards(c) \/ Registers(c)
       \/ Releases(c)
       \/ MovesRow(c) \/ MovesBack(c) \/ TakesBack(c) \/ Renamed(c)
  \/ Stays
  \/ Closes \/ Marks \/ Stops \/ Restarts \/ \E n \in Names : EndsEntry(n)

\* What a call is after a step of it.
LEMMA GotoFacts ==
  ASSUME Typed, NEW c \in Actors, NEW step, Goto(c, step)
  PROVE  Others(c) /\ Remembers(c) /\ call'[c].at = step /\ call'[c].await = call[c].await
BY DEF Typed, Goto, CallRecord, Others, Remembers

LEMMA DoneFacts ==
  ASSUME Typed, NEW c \in Actors, Done(c)
  PROVE  Others(c) /\ Forgets(c)
BY Constants DEF Typed, Done, Idle, Others, Forgets

\* The registry after a step that leaves it alone, gives a lifetime back, or changes one entry.
LEMMA SteadyFacts ==
  /\ resources' = resources => Steady
  /\ \A c \in Actors : /\ Typed /\ call[c].name \in Names /\ call[c].prev \in Nat
                       /\ resources' = resources \/ RollBack(c)
                       => Steady
BY RollBackType DEF Steady, Same, Placed

LEMMA EntryFacts ==
  ASSUME Typed, NEW n \in Names, NEW r \in Entry, resources' = [resources EXCEPT ![n] = r]
  PROVE  SteadyBut(n) /\ resources'[n] = r
BY DEF Typed, SteadyBut, Same, Placed

LEMMA FaultFacts ==
  ASSUME Typed, NEW kind, Fault(kind) \/ faults' = faults
  PROVE  faults' \in Nat /\ (faults' = 0 => faults = 0)
BY Constants DEF Typed, Fault

LEMMA OpensNext ==
  ASSUME Typed, Shape, NEW c \in Calls, Begin(c)
  PROVE  Opens(c) \/ \E h \in Handles \cup {NoHandle}, n \in Names : Doomed(c, h, n)
<1> PICK h \in Handles \cup {NoHandle}, n \in Names :
         \/ Reserve(c, h, n) \/ Acquire(c, h, n) \/ BeginDestroy(c, h, n)
         \/ \E m \in Names : BeginRename(c, h, n, m)
         \/ \E permanent \in BOOLEAN : UpdateLifetime(c, h, n, permanent)
  BY DEF Begin
<1> USE Constants
<1>0. c \in Actors /\ call \in [Actors -> CallRecord] /\ resources \in [Names -> Entry] /\ resources[n] \in Entry
  BY DEF Typed
<1>1. CASE Reserve(c, h, n)
  <2>1. Begins(c, "construct", h, n, NoName, c)
    BY <1>0, <1>1 DEF Reserve, Starts, Begins, Others, Idle
  <2> QED BY <1>1, <2>1, SteadyFacts DEF Reserve, Opens, Reserves, Quiet, Outside, Manager, tables, shutdown, ghosts
<1>2. CASE Acquire(c, h, n)
  <2>1. Begins(c, "lease", h, n, NoName, resources[n].obj)
    BY <1>0, <1>2 DEF Acquire, Starts, Begins, Others, Idle
  <2> DEFINE users == [g \in Handles |-> IF g = h THEN resources[n].users[g] + 1 ELSE resources[n].users[g]]
             life  == Expiry(resources[n].life)
             entry == [resources[n] EXCEPT !.active = @ + 1, !.life = life, !.users = users]
  <2>2. users \in Users /\ life \in Nat /\ resources[n].active + 1 \in Nat
    BY <1>0 DEF Entry, Users, Expiry, Permanent, Typed
  <2>3. resources' = [resources EXCEPT ![n] = entry]
    BY <1>2 DEF Acquire
  <2> HIDE DEF users, life
  <2>4. entry \in Entry /\ entry.obj = resources[n].obj /\ entry.free = resources[n].free
        /\ entry.users = users /\ entry.active = resources[n].active + 1
    BY <1>0, <2>2 DEF Entry
  <2> HIDE DEF entry
  <2>5. SteadyBut(n) /\ resources'[n] = entry
    BY <2>3, <2>4, EntryFacts
  <2>6. Leased(c, h, n)
    BY <1>2, <2>1, <2>4, <2>5
       DEF Acquire, Leasable, Leased, Free, Placed, Outside, Manager, tables, shutdown, ghosts, users
  <2> QED BY <2>6 DEF Opens
<1>3. CASE BeginDestroy(c, h, n)
  <2>1. Begins(c, "await", h, n, NoName, resources[n].obj) /\ call'[c].await = {g \in Handles : resources[n].users[g] > 0}
    BY <1>0, <1>3 DEF BeginDestroy, Starts, Begins, Others, Idle
  <2>2. SteadyBut(n) /\ resources'[n] = Destroying(resources[n])
    BY <1>0, <1>3, EntryFacts, EntryTypes DEF BeginDestroy
  <2>3. Taken(n, resources[n].obj)
    BY <1>0, <2>2, EntryTypes DEF Taken, Free
  <2> QED BY <1>3, <2>1, <2>2, <2>3 DEF BeginDestroy, Doomed, Free, Outside, Manager, tables, shutdown, ghosts
<1>4. ASSUME NEW m \in Names, BeginRename(c, h, n, m) PROVE Opens(c)
  <2> DEFINE record == [Idle EXCEPT
               !.at = IF resources[n].obj \in Persistent THEN "rename" ELSE "renamed",
               !.handle = h, !.name = n, !.to = m, !.obj = resources[n].obj]
  <2>1. /\ record.at = IF resources[n].obj \in Persistent THEN "rename" ELSE "renamed"
        /\ record.handle = h /\ record.name = n /\ record.to = m /\ record.obj = resources[n].obj
    BY DEF Idle
  <2>2. call' = [call EXCEPT ![c] = record] /\ call[c].at = "idle"
    BY <1>4 DEF BeginRename, Starts
  <2> HIDE DEF record
  <2>3. \/ Begins(c, "rename", h, n, m, resources[n].obj) /\ resources[n].obj \in Persistent
        \/ Begins(c, "renamed", h, n, m, resources[n].obj) /\ resources[n].obj \notin Persistent
    BY <1>0, <2>1, <2>2 DEF Begins, Others
  <2>4. resources' = [resources EXCEPT ![m] = Destroying(resources[n]), ![n] = NoResource] /\ n # m
    BY <1>4 DEF BeginRename
  <2>5. Taken(m, resources[n].obj) /\ Emptied(n) /\ \A k \in Names \ {n, m} : Same(k)
    BY <1>0, <2>4, EntryTypes DEF Taken, Emptied, Free, Same, Placed
  <2>6. Renames(c, h, n, m)
    BY <1>4, <2>3, <2>5 DEF BeginRename, Renames, Free, Outside, Manager, tables, shutdown, ghosts
  <2> QED BY <2>6 DEF Opens
<1>5. ASSUME NEW permanent \in BOOLEAN, UpdateLifetime(c, h, n, permanent) PROVE Opens(c)
  <2> DEFINE life == IF permanent THEN Permanent ELSE Expiry(resources[n].life)
             step == IF permanent THEN "permanent" ELSE "keep"
             record == [Idle EXCEPT !.at = step, !.handle = h, !.name = n,
                          !.obj = resources[n].obj, !.life = life, !.prev = resources[n].life]
             entry == [resources[n] EXCEPT !.life = life]
  <2>1. call' = [call EXCEPT ![c] = record] /\ call[c].at = "idle" /\ resources' = [resources EXCEPT ![n] = entry]
    BY <1>5 DEF UpdateLifetime, Starts
  <2>2. life \in Nat
    BY <1>0 DEF Expiry, Permanent, Typed, Entry
  <2> HIDE DEF life
  <2>3. record.at = step /\ record.handle = h /\ record.name = n /\ record.to = NoName /\ record.obj = resources[n].obj
    BY DEF Idle
  <2>4. entry \in Entry /\ entry.obj = resources[n].obj /\ entry.free = resources[n].free
        /\ entry.users = resources[n].users /\ entry.active = resources[n].active
    BY <1>0, <2>2 DEF Entry
  <2> HIDE DEF record, entry
  <2>5. Begins(c, step, h, n, NoName, resources[n].obj)
    BY <1>0, <2>1, <2>3 DEF Begins, Others
  <2>6. Steady
    BY <2>1, <2>4, EntryFacts DEF Steady, SteadyBut, Same, Placed
  <2>7. Prolongs(c, h, n, step) /\ step \in {"permanent", "keep"}
    BY <1>5, <2>5, <2>6 DEF UpdateLifetime, Prolongs, Free, Quiet, Outside, Manager, tables, shutdown, ghosts
  <2> HIDE DEF step
  <2> QED BY <2>7 DEF Opens
<1> QED BY <1>1, <1>2, <1>3, <1>4, <1>5

LEMMA FinishEffects ==
  ASSUME Typed, Shape, NEW c \in Actors, Finish(c)
  PROVE  Goes(c) \/ Ends(c) \/ Cleans(c) \/ Deletes(c) \/ Removes(c) \/ Restores(c)
<1> USE Constants, FaultFacts, SteadyFacts DEF tables, shutdown, world, ghosts
<1>0. /\ call \in [Actors -> CallRecord] /\ resources \in [Names -> Entry]
      /\ call[c] \in CallRecord /\ WellShaped(c, call[c])
  BY DEF Typed, Shape
<1>1. ASSUME NEW step, Goto(c, step) PROVE Others(c) /\ Remembers(c) /\ call'[c].at = step /\ call'[c].await = call[c].await
  BY <1>1, GotoFacts
<1>2. Done(c) => Others(c) /\ Forgets(c)
  BY DoneFacts
<1>3. CASE DeleteRow(c)
  <2>1. CASE DeleteRows(call[c].name) /\ Goto(c, "remove") /\ UNCHANGED faults
    BY <1>1, <1>3, <2>1 DEF DeleteRow, DeleteRows, Deletes, Outside, Manager
  <2>2. CASE Fault("delete") /\ Goto(c, "restore") /\ UNCHANGED rows
    BY <1>1, <1>3, <2>2 DEF DeleteRow, Goes, Follows, Quiet, Outside, Manager
  <2> QED BY <1>3, <2>1, <2>2 DEF DeleteRow
<1>4. CASE Cleanup(c)
  <2>1. CASE /\ objects' = [objects EXCEPT ![call[c].obj] = "dead"] /\ UNCHANGED faults
             /\ Goto(c, IF call[c].obj \in Persistent THEN "delete" ELSE "remove")
    BY <1>1, <1>4, <2>1 DEF Cleanup, Cleans, Quiet, Outside, Manager
  <2>2. CASE Fault("cleanup") /\ Goto(c, "restore") /\ UNCHANGED objects
    BY <1>1, <1>4, <2>2 DEF Cleanup, Goes, Follows, Quiet, Outside, Manager
  <2> QED BY <1>4, <2>1, <2>2 DEF Cleanup
<1>5. CASE Remove(c)
  <2>1. call[c].name \in Names
    BY <1>0, <1>5 DEF Remove, WellShaped, Lone
  <2>2. resources' = [resources EXCEPT ![call[c].name] = NoResource] /\ NoResource \in Entry
    BY <1>5, EntryTypes DEF Remove
  <2>3. SteadyBut(call[c].name) /\ resources'[call[c].name] = NoResource
    BY <2>1, <2>2, EntryFacts
  <2>4. Emptied(call[c].name)
    BY <2>3, EntryTypes DEF Emptied, Free
  <2> QED BY <1>2, <1>5, <2>3, <2>4 DEF Remove, Removes, Outside, Manager
<1>6. CASE Restore(c)
  <2> DEFINE n == call[c].name
             life == Expiry(resources[n].life)
  <2>1. n \in Names
    BY <1>0, <1>6 DEF Restore, WellShaped, Lone
  <2>2. CASE Registered(n)
    <3> DEFINE entry == [Freed(resources[n]) EXCEPT !.life = life]
               record == [call[c] EXCEPT !.at = "restorelife", !.life = life]
    <3>1. resources' = [resources EXCEPT ![n] = entry] /\ call' = [call EXCEPT ![c] = record]
      BY <1>6, <2>2 DEF Restore
    <3>2. life \in Nat
      BY <1>0, <2>1 DEF Expiry, Permanent, Typed, Entry
    <3> HIDE DEF life
    <3>4. \A r \in Entry : /\ [r EXCEPT !.life = life] \in Entry /\ [r EXCEPT !.life = life].obj = r.obj
                           /\ [r EXCEPT !.life = life].free = r.free /\ [r EXCEPT !.life = life].users = r.users
                           /\ [r EXCEPT !.life = life].active = r.active
      BY <3>2 DEF Entry
    <3>3. entry \in Entry /\ entry.obj = resources[n].obj /\ entry.free /\ entry.users = NoUsers /\ entry.active = 0
      BY <1>0, <2>1, <3>4, EntryTypes
    <3>5. /\ record.at = "restorelife" /\ record.name = call[c].name /\ record.to = call[c].to
          /\ record.obj = call[c].obj /\ record.handle = call[c].handle
      BY <1>0 DEF CallRecord
    <3> HIDE DEF entry, record
    <3>6. Others(c) /\ Remembers(c) /\ call'[c].at = "restorelife"
      BY <1>0, <3>1, <3>5 DEF Others, Remembers
    <3>7. SteadyBut(n) /\ Fresh(n, resources[n].obj)
      <4>1. SteadyBut(n) /\ resources'[n] = entry
        BY <2>1, <3>1, <3>3, EntryFacts
      <4> QED BY <3>3, <4>1 DEF Fresh, Free
    <3> QED BY <1>6, <2>2, <3>6, <3>7 DEF Restore, Restores, Outside, Manager
  <2>3. CASE ~ Registered(n)
    BY <1>2, <1>6, <2>3 DEF Restore, Ends, Quiet, Outside, Manager
  <2> QED BY <2>2, <2>3
<1>7. CASE RestoreLife(c)
  <2>1. faults' = 0 => faults = 0
    BY <1>7 DEF RestoreLife
  <2> QED BY <1>2, <1>7, <2>1 DEF RestoreLife, Ends, Quiet, Outside, Manager
<1> QED BY <1>3, <1>4, <1>5, <1>6, <1>7 DEF Finish

LEMMA ContinueEffects ==
  ASSUME Typed, Shape, NEW c \in Calls, Continue(c)
  PROVE  \/ Goes(c) \/ Ends(c) \/ Cleans(c) \/ Deletes(c) \/ Removes(c) \/ Restores(c)
         \/ Makes(c) \/ Loses(c) \/ Saves(c) \/ Discards(c) \/ Registers(c) \/ Releases(c)
         \/ MovesRow(c) \/ MovesBack(c) \/ TakesBack(c) \/ Renamed(c) \/ Stays
<1> USE Constants, FaultFacts, SteadyFacts DEF tables, shutdown, world, ghosts
<1>0. /\ c \in Actors /\ call \in [Actors -> CallRecord] /\ resources \in [Names -> Entry]
      /\ call[c] \in CallRecord /\ WellShaped(c, call[c])
  BY DEF Typed, Shape
<1>s. ASSUME NEW step, Goto(c, step) PROVE Others(c) /\ Remembers(c) /\ call'[c].at = step /\ call'[c].await = call[c].await
  BY <1>0, <1>s, GotoFacts
<1>d. Done(c) => Others(c) /\ Forgets(c)
  BY <1>0, DoneFacts
<1>n. call[c].at \notin Lone => call[c].name \in Names /\ call[c].obj \in Calls
  BY <1>0 DEF WellShaped
<1>t. call[c].at \in RenameSteps => call[c].to \in Names /\ call[c].name \in Names /\ call[c].to # call[c].name
  BY <1>0 DEF WellShaped, RenameSteps, Lone
<1>1. CASE Construct(c)
  <2>1. CASE Fault("create") /\ Goto(c, "gate") /\ UNCHANGED objects
    BY <1>1, <1>s, <2>1 DEF Construct, Goes, Follows, Quiet, Outside, Manager
  <2>2. ASSUME NEW life \in {Permanent, now + TTL}, objects' = [objects EXCEPT ![c] = "live"], UNCHANGED faults,
               call' = [call EXCEPT ![c].at = IF c \in Persistent THEN "save" ELSE "register", ![c].life = life]
        PROVE  Makes(c)
    <3> DEFINE step == IF c \in Persistent THEN "save" ELSE "register"
               record == [call[c] EXCEPT !.at = step, !.life = life]
    <3>1. /\ record.at = step /\ record.name = call[c].name /\ record.to = call[c].to
          /\ record.obj = call[c].obj /\ record.handle = call[c].handle
      BY <1>0 DEF CallRecord
    <3>2. call' = [call EXCEPT ![c] = record]
      BY <2>2
    <3> HIDE DEF record
    <3>3. Others(c) /\ Remembers(c) /\ call'[c].at = step
      BY <1>0, <3>1, <3>2 DEF Others, Remembers
    <3> QED BY <1>1, <2>2, <3>3 DEF Construct, Makes, Quiet, Outside, Manager
  <2> QED BY <1>1, <2>1, <2>2 DEF Construct
<1>2. CASE SaveRow(c)
  <2>1. CASE Fault("save") /\ Goto(c, "discard") /\ UNCHANGED rows
    BY <1>2, <1>s, <2>1 DEF SaveRow, Goes, Follows, Quiet, Outside, Manager
  <2>2. CASE rows' = [rows EXCEPT ![call[c].name] = c] /\ Goto(c, "savelife") /\ UNCHANGED faults
    BY <1>2, <1>s, <2>2 DEF SaveRow, Saves, Outside, Manager
  <2> QED BY <1>2, <2>1, <2>2 DEF SaveRow
<1>3. CASE SaveLife(c)
  <2>1. \E step \in {"register", "discard"} : Goto(c, step)
    BY <1>3 DEF SaveLife
  <2>2. faults' = 0 => faults = 0
    BY <1>3 DEF SaveLife
  <2> QED BY <1>3, <1>s, <2>1, <2>2 DEF SaveLife, Goes, Follows, Quiet, Outside, Manager
<1>4. CASE Discard(c)
  <2>1. faults' = 0 => faults = 0
    BY <1>4 DEF Discard
  <2>2. Others(c) /\ Remembers(c) /\ call'[c].at = "gate"
    BY <1>4, <1>s DEF Discard
  <2> QED BY <1>4, <2>1, <2>2 DEF Discard, DeleteRows, Discards, Outside, Manager
<1>5. CASE Register(c)
  <2>1. SteadyBut(call[c].name) /\ Fresh(call[c].name, c)
    <3>1. call[c].name \in Names /\ call[c].life \in Nat /\ c \in Objects
      BY <1>0, <1>5, <1>n DEF Register, CallRecord, Lone
    <3> DEFINE entry == Resource(c, call[c].life)
    <3>2. entry \in Entry /\ entry.obj = c /\ entry.free /\ entry.users = NoUsers /\ entry.active = 0
      BY <3>1, EntryTypes
    <3>3. resources' = [resources EXCEPT ![call[c].name] = entry]
      BY <1>5 DEF Register
    <3> HIDE DEF entry
    <3>4. SteadyBut(call[c].name) /\ resources'[call[c].name] = entry
      BY <3>1, <3>2, <3>3, EntryFacts
    <3> QED BY <3>2, <3>4 DEF Fresh, Free
  <2> QED BY <1>5, <1>s, <2>1 DEF Register, Registers, Outside, Manager
<1>6. CASE OpenGate(c)
  BY <1>6, <1>d DEF OpenGate, Ends, Quiet, Outside, Manager
<1>7. CASE PersistLease(c)
  <2>1. faults' = 0 => faults = 0
    BY <1>7 DEF PersistLease
  <2>2. Steady
    BY <1>0, <1>n, <1>7 DEF PersistLease, CallRecord, Lone
  <2>3. \E step \in {"use", "giveup"} : Goto(c, step)
    BY <1>7 DEF PersistLease
  <2>4. call[c].at = "lease"
    BY <1>7 DEF PersistLease
  <2>5. rows' = rows /\ objects' = objects /\ shut' = shut /\ gates' = gates /\ entries' = entries /\ spoiled' = spoiled
    BY <1>7 DEF PersistLease
  <2> QED BY <1>s, <2>1, <2>2, <2>3, <2>4, <2>5 DEF Goes, Follows, Quiet, Outside, Manager
<1>8. CASE EndUse(c)
  BY <1>8, <1>s DEF EndUse, Goes, Follows, Quiet, Outside, Manager
<1>9. CASE Release(c)
  <2> DEFINE n == call[c].name
             users == [g \in Handles |-> IF g = call[c].handle THEN Less(resources[n].users[g]) ELSE resources[n].users[g]]
             entry == [resources[n] EXCEPT !.active = Less(@), !.users = users]
  <2>1. n \in Names
    BY <1>9, <1>n DEF Release, Lone
  <2>2. CASE Free(n)
    <3>1. users \in Users /\ Less(resources[n].active) \in Nat
      BY <1>0, <2>1 DEF Entry, Users, Less
    <3>2. resources' = [resources EXCEPT ![n] = entry]
      BY <1>9, <2>2 DEF Release, Free
    <3> HIDE DEF users
    <3>3. entry \in Entry /\ entry.obj = resources[n].obj /\ entry.free = resources[n].free
          /\ entry.users = users /\ entry.active = Less(resources[n].active)
      BY <1>0, <2>1, <3>1 DEF Entry
    <3> HIDE DEF entry
    <3>4. SteadyBut(n) /\ resources'[n] = entry
      BY <2>1, <3>2, <3>3, EntryFacts
    <3> QED BY <1>9, <1>d, <3>3, <3>4 DEF Release, Releases, Placed, users, Outside, Manager
  <2>3. CASE ~ Free(n)
    BY <1>9, <1>d, <2>3 DEF Release, Releases, Free, SteadyBut, Same, Placed, Outside, Manager
  <2> QED BY <2>2, <2>3
<1>10. CASE AwaitUsers(c)
  <2>1. CASE call' = call
    BY <1>10, <2>1 DEF AwaitUsers, Stays, Quiet, Outside, Manager
  <2>2. CASE call[c].await = {} /\ Goto(c, "cleanup") /\ UNCHANGED cancelled
    BY <1>10, <1>s, <2>2 DEF AwaitUsers, Goes, Follows, Quiet, Outside, Manager
  <2>3. ASSUME NEW h \in call[c].await, Stopped(h), call' = [call EXCEPT ![c].await = @ \ {h}]
        PROVE  Goes(c)
    <3>1. Others(c) /\ Remembers(c) /\ call'[c].at = call[c].at /\ call'[c].await = call[c].await \ {h}
      BY <1>0, <2>3 DEF Others, Remembers, CallRecord
    <3> QED BY <1>10, <2>3, <3>1 DEF AwaitUsers, Stopped, Goes, Follows, Quiet, Outside, Manager
  <2> QED BY <1>10, <2>1, <2>2, <2>3 DEF AwaitUsers
<1>11. CASE Finish(c)
  BY <1>0, <1>11, FinishEffects
<1>12. CASE RenameRow(c)
  <2>1. faults' = 0 => faults = 0
    BY <1>12 DEF RenameRow
  <2>2. CASE rows' = rows /\ Goto(c, "undorow")
    <3>1. Others(c) /\ Remembers(c) /\ call'[c].at = "undorow" /\ call'[c].await = call[c].await
      BY <1>s, <2>2
    <3>2. /\ call[c].at = "rename" /\ Steady /\ objects' = objects /\ (spoiled => spoiled')
          /\ shut' = shut /\ gates' = gates /\ entries' = entries
      BY <1>12 DEF RenameRow
    <3> QED BY <2>1, <2>2, <3>1, <3>2 DEF Goes, Follows, Quiet, Outside, Manager
  <2>3. CASE /\ Movable(call[c].name, call[c].to) /\ rows' = Move(rows, call[c].name, call[c].to, 0)
             /\ Goto(c, "renamed") \/ Goto(c, "undorow")
    BY <1>12, <1>s, <2>1, <2>3 DEF RenameRow, MovesRow, Outside, Manager
  <2> QED BY <1>12, <2>2, <2>3 DEF RenameRow
<1>13. CASE UndoRow(c)
  <2>1. \/ call[c].at = "undorow" /\ Goto(c, "undo")
        \/ call[c].at = "abortrow" /\ Goto(c, "abort")
    BY <1>13 DEF UndoRow
  <2> QED BY <1>13, <1>s, <2>1 DEF UndoRow, MovesBack, Outside, Manager
<1>14. CASE Undo(c)
  <2> DEFINE n == call[c].name
             m == call[c].to
             freed == Freed(resources[m])
  <2>1. n \in Names /\ m \in Names /\ m # n
    BY <1>14, <1>t DEF Undo, RenameSteps
  <2>2. freed \in Entry /\ freed.obj = resources[m].obj /\ freed.free /\ freed.users = NoUsers /\ freed.active = 0
    BY <1>0, <2>1, EntryTypes
  <2>3. resources' = IF Registered(m) THEN [resources EXCEPT ![n] = freed, ![m] = NoResource] ELSE resources
    BY <1>14 DEF Undo
  <2> HIDE DEF freed
  <2>4. IF Registered(m)
        THEN (\A k \in Names \ {n, m} : Same(k)) /\ Fresh(n, resources[m].obj) /\ Emptied(m)
        ELSE Steady
    <3>1. CASE ~ Registered(m)
      BY <2>3, <3>1
    <3>2. CASE Registered(m)
      <4>1. resources' = [resources EXCEPT ![n] = freed, ![m] = NoResource]
        BY <2>3, <3>2
      <4>2. resources'[n] = freed /\ resources'[m] = NoResource
            /\ \A k \in Names \ {n, m} : resources'[k] = resources[k]
        BY <1>0, <2>1, <4>1
      <4> QED BY <2>1, <2>2, <3>2, <4>2, EntryTypes DEF Same, Placed, Fresh, Emptied, Free
    <3> QED BY <3>1, <3>2
  <2>5. \/ call[c].at = "undo" /\ call'[c].at = "undone" /\ Remembers(c)
        \/ call[c].at \in {"undone", "abort"} /\ Forgets(c)
    BY <1>14, <1>s, <1>d DEF Undo
  <2>6. Others(c)
    BY <1>14, <1>s, <1>d DEF Undo
  <2> QED BY <1>14, <2>4, <2>5, <2>6 DEF Undo, TakesBack, Outside, Manager
<1>15. CASE FinishRename(c)
  <2> DEFINE m == call[c].to
             freed == Freed(resources[m])
             entry == IF Registered(m) THEN freed ELSE resources[m]
  <2>1. m \in Names
    BY <1>15, <1>t DEF FinishRename, RenameSteps
  <2>2. freed \in Entry /\ freed.obj = resources[m].obj /\ freed.free /\ freed.users = NoUsers /\ freed.active = 0
    BY <1>0, <2>1, EntryTypes
  <2>3. resources' = [resources EXCEPT ![m] = entry]
    BY <1>15 DEF FinishRename
  <2> HIDE DEF freed
  <2>4. SteadyBut(m) /\ resources'[m] = entry
    BY <1>0, <2>1, <2>2, <2>3, EntryFacts
  <2>5. IF Registered(m) THEN Fresh(m, resources[m].obj) ELSE Same(m)
    <3>1. CASE Registered(m)
      BY <2>2, <2>4, <3>1 DEF Fresh, Free
    <3>2. CASE ~ Registered(m)
      BY <2>4, <3>2 DEF Same, Placed
    <3> QED BY <3>1, <3>2
  <2> QED BY <1>15, <1>d, <2>4, <2>5 DEF FinishRename, Renamed, Outside, Manager
<1>16. CASE PersistLifetime(c)
  <2>1. faults' = 0 => faults = 0
    BY <1>16 DEF PersistLifetime
  <2>2. Steady
    BY <1>0, <1>n, <1>16 DEF PersistLifetime, CallRecord, Lone
  <2> QED BY <1>16, <1>d, <2>1, <2>2 DEF PersistLifetime, Ends, Quiet, Outside, Manager
<1>17. CASE Killed(c)
  <2>1. rows' = rows /\ Quiet
    BY <1>17 DEF Killed, Quiet, Outside, Manager
  <2>2. CASE call[c].at = "construct" /\ objects' \in {objects, [objects EXCEPT ![c] = "lost"]} /\ Goto(c, "gate")
    BY <1>s, <2>1, <2>2 DEF Goes, Follows, Loses
  <2>3. CASE call[c].at \in {"save", "savelife"} /\ Goto(c, "discard") /\ UNCHANGED objects
    BY <1>s, <2>1, <2>3 DEF Goes, Follows
  <2>4. CASE call[c].at = "use" /\ Goto(c, "release") /\ UNCHANGED objects
    BY <1>s, <2>1, <2>4 DEF Goes, Follows
  <2>5. CASE call[c].at = "rename" /\ Goto(c, "abortrow") /\ UNCHANGED objects
    BY <1>s, <2>1, <2>5 DEF Goes, Follows
  <2>6. CASE call[c].at \in Interruptible /\ Done(c) /\ UNCHANGED objects
    BY <1>d, <2>1, <2>6 DEF Ends, Interruptible
  <2>7. CASE call[c].at = "cleanup" /\ objects' \in {objects, [objects EXCEPT ![call[c].obj] = "dead"]} /\ Done(c)
    <3>1. Forgets(c) /\ Others(c) /\ ~ Remembers(c)
      BY <1>d, <1>n, <2>7 DEF Forgets, Remembers, Lone
    <3> QED BY <2>1, <2>7, <3>1 DEF Cleans
  <2> QED BY <1>17, <2>2, <2>3, <2>4, <2>5, <2>6, <2>7 DEF Killed
<1> QED BY <1>1, <1>2, <1>3, <1>4, <1>5, <1>6, <1>7, <1>8, <1>9, <1>10, <1>11, <1>12, <1>13, <1>14, <1>15, <1>16, <1>17 DEF Continue

LEMMA EffectNext == Typed /\ Shape /\ [Next]_vars => Effect
<1> SUFFICES ASSUME Typed, Shape, [Next]_vars PROVE Effect
  OBVIOUS
<1> USE Constants, SteadyFacts DEF tables, shutdown, world, ghosts
<1>0. /\ call \in [Actors -> CallRecord] /\ resources \in [Names -> Entry] /\ entries \in [Names -> Entry]
      /\ rows \in [Names -> Objects] /\ lives \in [Names -> Nat] /\ faults \in Nat /\ objects \in [Calls -> {"none", "live", "dead", "lost"}]
  BY DEF Typed
<1>1. ASSUME NEW c \in Calls, Begin(c) PROVE Effect
  BY <1>1, OpensNext DEF Effect
<1>2. ASSUME NEW c \in Calls, Continue(c) PROVE Effect
  BY <1>2, ContinueEffects DEF Effect
<1>3. CASE Finish(Reaper)
  BY <1>3, FinishEffects DEF Effect
<1>4. ASSUME NEW n \in Names, BeginExpire(n) PROVE Effect
  <2> DEFINE record == [Idle EXCEPT !.at = "cleanup", !.name = n, !.obj = resources[n].obj]
  <2>1. /\ record.at = "cleanup" /\ record.name = n /\ record.obj = resources[n].obj /\ record.to = NoName
        /\ record.handle = NoHandle
    BY DEF Idle
  <2>2. call' = [call EXCEPT ![Reaper] = record] /\ call[Reaper].at = "idle"
    BY <1>4 DEF BeginExpire
  <2> HIDE DEF record
  <2>3. Begins(Reaper, "cleanup", NoHandle, n, NoName, resources[n].obj)
    BY <1>0, <2>1, <2>2 DEF Begins, Others
  <2>4. resources' = [resources EXCEPT ![n] = Destroying(resources[n])] /\ Destroying(resources[n]) \in Entry
    BY <1>0, <1>4, EntryTypes DEF BeginExpire
  <2>5. SteadyBut(n) /\ resources'[n] = Destroying(resources[n])
    BY <2>4, EntryFacts
  <2>6. Taken(n, resources[n].obj)
    BY <1>0, <2>5, EntryTypes DEF Taken
  <2>7. call'[Reaper].at = "cleanup"
    BY <2>3 DEF Begins
  <2>8. Doomed(Reaper, NoHandle, n)
    BY <1>4, <2>3, <2>5, <2>6, <2>7 DEF BeginExpire, Doomed, Free, Outside, Manager
  <2> QED BY <2>8 DEF Effect
<1>5. CASE (\E h \in Handles : CancelThread(h)) \/ Tick \/ UNCHANGED vars
  <2>1. /\ call' = call /\ resources' = resources /\ rows' = rows /\ objects' = objects /\ faults' = faults
        /\ shut' = shut /\ gates' = gates /\ entries' = entries /\ spoiled' = spoiled
    BY <1>5 DEF CancelThread, Tick, vars
  <2> QED BY <2>1 DEF Effect, Stays, Quiet, Outside, Manager
<1>6. CASE StopAccepting
  BY <1>6 DEF StopAccepting, Gates, Effect, Closes
<1>7. CASE MarkAll
  <2>1. \A n \in Names : Taken(n, resources[n].obj)
    <3>1. \A n \in Names : resources[n] \in Entry /\ resources'[n] = Destroying(resources[n])
      BY <1>0, <1>7 DEF MarkAll
    <3> QED BY <3>1, EntryTypes DEF Taken
  <2> QED BY <1>7, <2>1 DEF MarkAll, Effect, Marks
<1>8. CASE ShutDown
  BY <1>8 DEF ShutDown, Effect, Stops
<1>9. ASSUME NEW n \in Names, EndEntry(n) PROVE Effect
  <2>1. /\ call' = call /\ Steady /\ rows' = rows /\ shut = "entries" /\ shut' = shut /\ gates' = gates
        /\ spoiled' = spoiled
    BY <1>9 DEF EndEntry
  <2>2. faults' = 0 => faults = 0
    BY <1>9, FaultFacts DEF EndEntry
  <2>3. CASE \E h \in Handles : entries' = entries \/ entries' = [entries EXCEPT ![n].users[h] = 0]
    <3>1. PICK h \in Handles : entries' = entries \/ entries' = [entries EXCEPT ![n].users[h] = 0]
      BY <2>3
    <3>2. \A m \in Names : entries'[m].obj = entries[m].obj
      <4> DEFINE users == [entries[n].users EXCEPT ![h] = 0]
      <4>1. entries' = entries \/ entries' = [entries EXCEPT ![n] = [entries[n] EXCEPT !.users = users]]
        BY <3>1
      <4> HIDE DEF users
      <4>2. [entries[n] EXCEPT !.users = users].obj = entries[n].obj
        BY <1>0 DEF Entry
      <4> QED BY <1>0, <4>1, <4>2
    <3>3. CASE objects' = objects
      BY <2>1, <2>2, <3>2, <3>3 DEF Effect, EndsEntry
    <3>4. CASE objects' # objects
      <4>1. entries' = [entries EXCEPT ![n] = NoResource] /\ entries[n].obj # 0
        BY <1>9, <3>4 DEF EndEntry
      <4>2. entries'[n].obj = 0
        BY <1>0, <4>1, EntryTypes
      <4> QED BY <3>2, <4>1, <4>2
    <3> QED BY <3>3, <3>4
  <2>4. CASE /\ entries' = [entries EXCEPT ![n] = NoResource] /\ entries[n].obj # 0
             /\ \/ objects' = (IF entries[n].obj \in Persistent THEN objects
                               ELSE [objects EXCEPT ![entries[n].obj] = "dead"]) /\ UNCHANGED faults
                \/ Fault("cleanup") /\ UNCHANGED objects
    <3>1. entries'[n].obj = 0 /\ \A m \in Names \ {n} : entries'[m].obj = entries[m].obj
      BY <1>0, <2>4, EntryTypes
    <3>2. entries[n].obj \in Calls
      BY <1>0, <2>4 DEF Entry
    <3>3. Fault("cleanup") => faults' # 0
      BY <1>0 DEF Fault
    <3>4. EndsEntry(n)
      BY <2>1, <2>2, <2>4, <3>1, <3>2, <3>3 DEF EndsEntry
    <3> QED BY <3>4 DEF Effect
  <2> QED BY <1>9, <2>3, <2>4 DEF EndEntry
<1>10. CASE Restart
  <2>1. \A c \in Actors : /\ call'[c].at = IF call[c].at = "idle" \/ c = Reaper THEN "idle" ELSE "end"
                          /\ call'[c].name = NoName /\ call'[c].to = NoName
                          /\ call'[c].obj = 0 /\ call'[c].handle = NoHandle
    BY <1>10 DEF Restart, Idle
  <2>2. ASSUME NEW n \in Names PROVE (rows[n] = 0 => Emptied(n)) /\ (rows[n] # 0 => Fresh(n, rows[n]))
    <3>1. resources'[n] = IF rows[n] = 0 THEN NoResource ELSE Resource(rows[n], lives[n])
      BY <1>10 DEF Restart
    <3>2. rows[n] \in Objects /\ lives[n] \in Nat
      BY <1>0
    <3>3. CASE rows[n] = 0
      BY <3>1, <3>3, EntryTypes DEF Emptied
    <3>4. CASE rows[n] # 0
      <4> DEFINE entry == Resource(rows[n], lives[n])
      <4>1. entry.free /\ entry.obj = rows[n] /\ entry.users = NoUsers /\ entry.active = 0
        BY <3>2, EntryTypes
      <4>2. resources'[n] = entry
        BY <3>1, <3>4
      <4> HIDE DEF entry
      <4> QED BY <3>4, <4>1, <4>2 DEF Fresh
    <3> QED BY <3>3, <3>4
  <2>3. \A n \in Names : entries'[n].obj = 0
    BY <1>10, EntryTypes DEF Restart
  <2> QED BY <1>10, <2>1, <2>2, <2>3 DEF Restart, Effect, Restarts
<1> QED BY <1>1, <1>2, <1>3, <1>4, <1>5, <1>6, <1>7, <1>8, <1>9, <1>10 DEF Next, Shutdown

(***************************************************************************)
(* Identity: an object a call is still making is nowhere else, and one     *)
(* that is made is at one name of the registry and has one row.            *)
(***************************************************************************)
Unmade(o)  == call[o].at \in {"idle", "construct", "save", "savelife", "register", "discard"}
Unsaved(o) == call[o].at \in {"idle", "construct", "save"}
Unbuilt(o) == call[o].at \in {"idle", "construct"}

Unplaced == \A o \in Calls : Unmade(o) =>
  /\ \A n \in Names : resources[n].obj # o /\ entries[n].obj # o
  /\ \A c \in Actors \ {o} : call[c].obj # o
Unwritten   == \A o \in Calls : Unsaved(o) => \A n \in Names : rows[n] # o
Blank       == \A o \in Calls :
  /\ Unbuilt(o) => objects[o] = "none"
  /\ call[o].at \in {"save", "savelife", "register", "discard"} => objects[o] = "live"
RowsOnce    == \A n, m \in Names : rows[n] = rows[m] /\ rows[n] # 0 => n = m
PlacedOnce  == \A n, m \in Names : resources[n].obj = resources[m].obj /\ resources[n].obj # 0 => n = m
RowsPersist == \A n \in Names : rows[n] # 0 => rows[n] \in Persistent

Identity == Unplaced /\ Unwritten /\ Blank /\ RowsOnce /\ PlacedOnce /\ RowsPersist

LEMMA IdentityInit == Init => Identity
BY Constants, EntryTypes DEF Init, Identity, Unplaced, Unwritten, Blank, RowsOnce, PlacedOnce, RowsPersist,
   Unmade, Unsaved, Unbuilt, Idle

\* The facts of the types that the steps below use.
LEMMA Shapes ==
  ASSUME Typed, Shape
  PROVE  /\ \A c \in Actors : WellShaped(c, call[c]) /\ call[c].obj \in Objects
         /\ \A n \in Names : /\ resources[n].obj \in Objects /\ entries[n].obj \in Objects /\ rows[n] \in Objects
                             /\ (Free(n) => resources[n].obj \in Calls)
         /\ rows \in [Names -> Objects] /\ objects \in [Calls -> {"none", "live", "dead", "lost"}]
BY DEF Typed, Shape, CallRecord, Entry, Free

\* What moving a row does.
LEMMA MoveFacts ==
  ASSUME NEW f \in [Names -> Objects], NEW n \in Names, NEW m \in Names, n # m
  PROVE  /\ Move(f, n, m, 0) \in [Names -> Objects]
         /\ Move(f, n, m, 0)[n] = 0
         /\ Move(f, n, m, 0)[m] = (IF f[n] = 0 THEN f[m] ELSE f[n])
         /\ \A k \in Names \ {n, m} : Move(f, n, m, 0)[k] = f[k]
BY Constants DEF Move

\* The steps that change the rows, the objects in the registry, and the objects.
LEMMA RowsChange ==
  ASSUME Effect, rows' # rows
  PROVE  \/ \E c \in Calls : Saves(c) \/ Discards(c) \/ MovesRow(c) \/ MovesBack(c)
         \/ \E c \in Actors : Deletes(c)
<1> USE DEF Quiet
<1>1. ASSUME NEW c, NEW h, NEW n, NEW m, NEW step
      PROVE  ~ (Reserves(c, h, n) \/ Leased(c, h, n) \/ Doomed(c, h, n) \/ Renames(c, h, n, m) \/ Prolongs(c, h, n, step))
  BY DEF Reserves, Leased, Doomed, Renames, Prolongs
<1>2. ASSUME NEW c
      PROVE  ~ (\/ Goes(c) \/ Ends(c) \/ Cleans(c) \/ Removes(c) \/ Restores(c) \/ Makes(c) \/ Loses(c)
                \/ Registers(c) \/ Releases(c) \/ TakesBack(c) \/ Renamed(c))
  BY DEF Goes, Ends, Cleans, Removes, Restores, Makes, Loses, Registers, Releases, TakesBack, Renamed
<1>3. ~ (Stays \/ Closes \/ Marks \/ Stops \/ Restarts \/ \E n \in Names : EndsEntry(n))
  BY DEF Stays, Closes, Marks, Stops, EndsEntry, Restarts
<1> QED BY <1>1, <1>2, <1>3 DEF Effect, Opens

LEMMA RegistryChange ==
  ASSUME Effect
  PROVE  \/ \A n \in Names : resources'[n].obj = resources[n].obj
         \/ \E c \in Calls : \/ \E h \in Handles \cup {NoHandle}, n, m \in Names : Renames(c, h, n, m)
                             \/ Registers(c) \/ TakesBack(c)
         \/ \E c \in Actors : Removes(c)
         \/ Restarts
<1> DEFINE Kept == \A n \in Names : resources'[n].obj = resources[n].obj
<1> USE DEF Quiet, Steady, SteadyBut, Same, Placed
<1>1. ASSUME NEW c, NEW h, NEW n \in Names, NEW step,
             Reserves(c, h, n) \/ Leased(c, h, n) \/ Doomed(c, h, n) \/ Prolongs(c, h, n, step)
      PROVE  Kept
  BY <1>1 DEF Reserves, Leased, Doomed, Prolongs, Taken
<1>2. ASSUME NEW c, Goes(c) \/ Ends(c) \/ Cleans(c) \/ Deletes(c) \/ Makes(c) \/ Loses(c) \/ Saves(c) \/ Discards(c)
                    \/ MovesRow(c) \/ MovesBack(c)
      PROVE  Kept
  BY <1>2 DEF Goes, Ends, Cleans, Deletes, Makes, Loses, Saves, Discards, MovesRow, MovesBack
<1>3. ASSUME NEW c, Restores(c) \/ Releases(c)
      PROVE  Kept
  BY <1>3 DEF Restores, Releases, Fresh
<1>4. ASSUME NEW c, Renamed(c)
      PROVE  Kept
  BY <1>4 DEF Renamed, Fresh
<1>5. ASSUME Stays \/ Closes \/ Marks \/ Stops \/ \E n \in Names : EndsEntry(n)
      PROVE  Kept
  BY <1>5 DEF Stays, Closes, Marks, Stops, EndsEntry, Taken
<1> HIDE DEF Kept
<1>6. \/ Kept
      \/ \E c \in Calls : \/ \E h \in Handles \cup {NoHandle}, n, m \in Names : Renames(c, h, n, m)
                          \/ Registers(c) \/ TakesBack(c)
      \/ \E c \in Actors : Removes(c)
      \/ Restarts
  BY <1>1, <1>2, <1>3, <1>4, <1>5 DEF Effect, Opens
<1> QED BY <1>6 DEF Kept

LEMMA ObjectsChange ==
  ASSUME Effect, objects' # objects
  PROVE  \/ \E c \in Calls : Makes(c) \/ Loses(c) \/ Discards(c)
         \/ \E c \in Actors : Cleans(c)
         \/ \E n \in Names : EndsEntry(n)
         \/ Restarts
<1>1. ASSUME NEW c, NEW h, NEW n, NEW m, NEW step
      PROVE  ~ (Reserves(c, h, n) \/ Leased(c, h, n) \/ Doomed(c, h, n) \/ Renames(c, h, n, m) \/ Prolongs(c, h, n, step))
  BY DEF Reserves, Leased, Doomed, Renames, Prolongs
<1>2. ASSUME NEW c
      PROVE  ~ (\/ Goes(c) \/ Ends(c) \/ Deletes(c) \/ Removes(c) \/ Restores(c) \/ Saves(c)
                \/ Registers(c) \/ Releases(c) \/ MovesRow(c) \/ MovesBack(c) \/ TakesBack(c) \/ Renamed(c))
  BY DEF Goes, Ends, Deletes, Removes, Restores, Saves, Registers, Releases, MovesRow, MovesBack, TakesBack, Renamed
<1>3. ~ (Stays \/ Closes \/ Marks \/ Stops)
  BY DEF Stays, Closes, Marks, Stops
<1> QED BY <1>1, <1>2, <1>3 DEF Effect, Opens

\* A call that is making its object after a step was making it before.
LEMMA UnmadeBefore ==
  ASSUME Typed, Shape, Effect, NEW o \in Calls
  PROVE  /\ Unmade(o)' => Unmade(o)
         /\ Unsaved(o)' => Unsaved(o)
         /\ Unbuilt(o)' => Unbuilt(o)
         /\ Unbuilt(o) /\ Unmade(o)' => Unbuilt(o)' \/ Makes(o)
<1> DEFINE Before == /\ Unmade(o)' => Unmade(o)
                     /\ Unsaved(o)' => Unsaved(o)
                     /\ Unbuilt(o)' => Unbuilt(o)
                     /\ Unbuilt(o) /\ Unmade(o)' => Unbuilt(o)' \/ Makes(o)
<1> SUFFICES Before
  OBVIOUS
<1> USE Constants DEF Unmade, Unsaved, Unbuilt, Others
<1>1. ASSUME NEW c \in Actors, NEW h, NEW n, NEW m, NEW step,
             Reserves(c, h, n) \/ Leased(c, h, n) \/ Doomed(c, h, n) \/ Renames(c, h, n, m) \/ Prolongs(c, h, n, step)
      PROVE  Before
  BY <1>1 DEF Reserves, Leased, Doomed, Renames, Prolongs, Begins
<1>2. ASSUME NEW c \in Actors, Goes(c)
      PROVE  Before
  BY <1>2 DEF Goes, Follows
<1>3. ASSUME NEW c \in Actors, Ends(c) \/ Removes(c) \/ Restores(c) \/ Cleans(c) \/ Deletes(c)
      PROVE  Before
  BY <1>3 DEF Ends, Removes, Restores, Cleans, Deletes, Forgets
<1>4. ASSUME NEW c \in Calls, Makes(c) \/ Loses(c) \/ Saves(c) \/ Discards(c) \/ Registers(c)
      PROVE  Before
  BY <1>4 DEF Makes, Loses, Saves, Discards, Registers
<1>5. ASSUME NEW c \in Calls, Releases(c) \/ MovesRow(c) \/ MovesBack(c) \/ TakesBack(c) \/ Renamed(c)
      PROVE  Before
  BY <1>5 DEF Releases, MovesRow, MovesBack, TakesBack, Renamed, Forgets
<1>6. ASSUME Stays \/ Closes \/ Marks \/ Stops \/ \E n \in Names : EndsEntry(n)
      PROVE  Before
  BY <1>6 DEF Stays, Closes, Marks, Stops, EndsEntry
<1>7. ASSUME Restarts
      PROVE  Before
  BY <1>7 DEF Restarts
<1> HIDE DEF Before
<1> QED BY <1>1, <1>2, <1>3, <1>4, <1>5, <1>6, <1>7 DEF Effect, Opens

LEMMA UnplacedNext == Typed /\ Shape /\ Identity /\ Effect => Unplaced'
<1> DEFINE Nowhere(o) == /\ \A n \in Names : resources'[n].obj # o /\ entries'[n].obj # o
                         /\ \A d \in Actors \ {o} : call'[d].obj # o
<1> SUFFICES ASSUME Typed, Shape, Identity, Effect, NEW o \in Calls, Unmade(o)'
             PROVE  Nowhere(o)
  BY DEF Unplaced
<1> USE Constants DEF Others, Outside, Manager, Quiet, Steady, SteadyBut, Same, Placed
<1>0. Unmade(o)
  BY UnmadeBefore
<1>a. \A n \in Names : resources[n].obj # o /\ entries[n].obj # o
  BY <1>0 DEF Identity, Unplaced
<1>b. \A d \in Actors \ {o} : call[d].obj # o
  BY <1>0 DEF Identity, Unplaced
<1>1. ASSUME NEW c \in Actors, NEW h, NEW n \in Names, NEW m \in Names, NEW step,
             Reserves(c, h, n) \/ Leased(c, h, n) \/ Doomed(c, h, n) \/ Renames(c, h, n, m) \/ Prolongs(c, h, n, step)
      PROVE  Nowhere(o)
  BY <1>1, <1>a, <1>b DEF Reserves, Leased, Doomed, Renames, Prolongs, Begins, Taken, Emptied
<1>2. ASSUME NEW c \in Actors, Goes(c) \/ Makes(c) \/ Loses(c) \/ Saves(c) \/ Discards(c) \/ Deletes(c) \/ MovesRow(c)
                               \/ MovesBack(c)
      PROVE  Nowhere(o)
  BY <1>2, <1>a, <1>b DEF Goes, Makes, Loses, Saves, Discards, Deletes, MovesRow, MovesBack, Remembers
<1>3. ASSUME NEW c \in Actors, Ends(c) \/ Cleans(c) \/ Releases(c)
      PROVE  Nowhere(o)
  BY <1>3, <1>a, <1>b DEF Ends, Cleans, Releases, Remembers, Forgets
<1>4. ASSUME NEW c \in Actors, Removes(c) \/ Restores(c) \/ Renamed(c)
      PROVE  Nowhere(o)
  <2>1. \A n \in Names : resources'[n].obj \in {0, resources[n].obj} /\ entries'[n] = entries[n]
    BY <1>4 DEF Removes, Restores, Renamed, Emptied, Fresh
  <2>2. \A d \in Actors : call'[d].obj \in {0, call[d].obj}
    BY <1>4 DEF Removes, Restores, Renamed, Remembers, Forgets
  <2> QED BY <1>a, <1>b, <2>1, <2>2
<1>5. ASSUME NEW c \in Calls, Registers(c)
      PROVE  Nowhere(o)
  <2>1. c # o
    BY <1>5 DEF Registers, Unmade
  <2> QED BY <1>5, <1>a, <1>b, <2>1 DEF Registers, Remembers, Fresh
<1>6. ASSUME NEW c \in Calls, TakesBack(c)
      PROVE  Nowhere(o)
  <2>1. call[c].name \in Names /\ call[c].to \in Names
    BY <1>6, Shapes DEF TakesBack, WellShaped, RenameSteps, Lone
  <2>2. \A n \in Names : resources'[n].obj \in {0, resources[n].obj, resources[call[c].to].obj} /\ entries'[n] = entries[n]
    BY <1>6, <2>1 DEF TakesBack, Emptied, Fresh
  <2>3. \A d \in Actors : call'[d].obj \in {0, call[d].obj}
    BY <1>6 DEF TakesBack, Remembers, Forgets
  <2> QED BY <1>a, <1>b, <2>1, <2>2, <2>3
<1>7. ASSUME Stays \/ Closes \/ Marks \/ Stops \/ \E n \in Names : EndsEntry(n)
      PROVE  Nowhere(o)
  BY <1>7, <1>a, <1>b DEF Stays, Closes, Marks, Stops, EndsEntry, Taken
<1>8. CASE Restarts
  <2>1. \A n \in Names : rows[n] # o
    BY <1>0, <1>8 DEF Restarts, Identity, Unwritten, Unmade, Unsaved
  <2> QED BY <1>8, <2>1 DEF Restarts, Emptied, Fresh
<1> HIDE DEF Nowhere
<1> QED BY <1>1, <1>2, <1>3, <1>4, <1>5, <1>6, <1>7, <1>8 DEF Effect, Opens

\* The names a renaming moves rows between.
LEMMA MovedRows ==
  ASSUME Typed, Shape, NEW c \in Calls, MovesRow(c) \/ MovesBack(c) \/ TakesBack(c)
  PROVE  /\ call[c].name \in Names /\ call[c].to \in Names /\ call[c].name # call[c].to
         /\ call[c].obj \in Persistent
         /\ MovesRow(c) \/ MovesBack(c) =>
              \E n, m \in {call[c].name, call[c].to} :
                /\ n # m /\ (rows[n] = 0 \/ rows[m] = 0 \/ rows' = rows)
                /\ \/ rows' = rows
                   \/ /\ rows'[n] = 0 /\ rows'[m] = (IF rows[n] = 0 THEN rows[m] ELSE rows[n])
                      /\ \A k \in Names \ {n, m} : rows'[k] = rows[k]
<1> USE Constants
<1>1. /\ call[c].name \in Names /\ call[c].to \in Names /\ call[c].name # call[c].to /\ call[c].obj \in Persistent
      /\ rows \in [Names -> Objects]
  BY Shapes DEF MovesRow, MovesBack, TakesBack, WellShaped, RenameSteps, Lone
<1>2. CASE MovesRow(c)
  BY <1>1, <1>2, MoveFacts DEF MovesRow, Movable
<1>3. CASE MovesBack(c)
  BY <1>1, <1>3, MoveFacts DEF MovesBack, Movable
<1>4. CASE TakesBack(c) /\ ~ MovesRow(c) /\ ~ MovesBack(c)
  BY <1>1, <1>4
<1> QED BY <1>2, <1>3, <1>4

LEMMA UnwrittenNext == Typed /\ Shape /\ Identity /\ Effect => Unwritten'
<1> SUFFICES ASSUME Typed, Shape, Identity, Effect, NEW o \in Calls, Unsaved(o)', NEW n \in Names
             PROVE  rows'[n] # o
  BY DEF Unwritten
<1> USE Constants
<1>0. Unsaved(o)
  BY UnmadeBefore
<1>a. \A m \in Names : rows[m] # o
  BY <1>0 DEF Identity, Unwritten
<1>r. rows \in [Names -> Objects]
  BY Shapes
<1>1. ASSUME NEW c \in Calls, Saves(c) PROVE rows'[n] # o
  <2>1. c # o
    BY <1>1 DEF Saves, Unsaved
  <2> QED BY <1>1, <1>a, <1>r, <2>1 DEF Saves
<1>2. ASSUME NEW c \in Actors, Discards(c) \/ Deletes(c) PROVE rows'[n] # o
  BY <1>2, <1>a, <1>r DEF Discards, Deletes
<1>3. ASSUME NEW c \in Calls, MovesRow(c) \/ MovesBack(c) PROVE rows'[n] # o
  BY <1>3, <1>a, MovedRows
<1> QED BY <1>1, <1>2, <1>3, <1>a, RowsChange

LEMMA BlankNext == Typed /\ Shape /\ Identity /\ Effect => Blank'
<1> DEFINE Right(o) == IF call'[o].at \in {"idle", "construct"} THEN objects'[o] = "none" ELSE objects'[o] = "live"
<1> SUFFICES ASSUME Typed, Shape, Identity, Effect, NEW o \in Calls, Unmade(o)'
             PROVE  Right(o)
  BY DEF Blank, Unmade, Unbuilt
<1> USE Constants DEF Others
<1>0. Unmade(o) /\ o \in Actors
  BY UnmadeBefore
<1>a. IF call[o].at \in {"idle", "construct"} THEN objects[o] = "none" ELSE objects[o] = "live"
  BY <1>0 DEF Identity, Blank, Unmade, Unbuilt
<1>b. /\ \A d \in Actors : d # o => call[d].obj # o
      /\ \A n \in Names : entries[n].obj # o
  BY <1>0 DEF Identity, Unplaced
<1>t. objects \in [Calls -> {"none", "live", "dead", "lost"}]
  BY Shapes
<1>1. ASSUME NEW c \in Calls, Makes(c) \/ Loses(c) \/ Discards(c) PROVE Right(o)
  BY <1>1, <1>0, <1>a, <1>t DEF Makes, Loses, Discards, Unmade
<1>2. ASSUME NEW c \in Actors, Cleans(c) PROVE Right(o)
  BY <1>2, <1>0, <1>a, <1>b, <1>t DEF Cleans, Unmade
<1>3. ASSUME NEW n \in Names, EndsEntry(n) PROVE Right(o)
  BY <1>3, <1>0, <1>a, <1>b, <1>t DEF EndsEntry
<1>4. CASE Restarts
  BY <1>4, <1>0, <1>a, <1>t DEF Restarts, Unmade
<1>5. ASSUME objects' = objects PROVE Right(o)
  <2>1. ~ Makes(o)
    BY <1>t, <1>5 DEF Makes, Identity, Blank, Unbuilt
  <2>2. Unbuilt(o)' <=> Unbuilt(o)
    BY <2>1, UnmadeBefore
  <2> QED BY <1>5, <1>a, <2>2 DEF Unbuilt
<1> HIDE DEF Right
<1> QED BY <1>1, <1>2, <1>3, <1>4, <1>5, ObjectsChange

LEMMA RowsOnceNext == Typed /\ Shape /\ Identity /\ Effect => RowsOnce' /\ RowsPersist'
<1> SUFFICES ASSUME Typed, Shape, Identity, Effect PROVE RowsOnce' /\ RowsPersist'
  OBVIOUS
<1> USE Constants
<1>a. RowsOnce /\ RowsPersist /\ rows \in [Names -> Objects]
  BY Shapes DEF Identity
<1>1. CASE rows' = rows
  BY <1>1, <1>a DEF RowsOnce, RowsPersist
<1>2. ASSUME NEW c \in Calls, Saves(c) PROVE RowsOnce' /\ RowsPersist'
  <2>1. call[c].name \in Names /\ c \in Persistent /\ \A n \in Names : rows[n] # c
    BY <1>2, Shapes DEF Saves, WellShaped, Lone, Identity, Unwritten, Unsaved
  <2> QED BY <1>2, <1>a, <2>1 DEF Saves, RowsOnce, RowsPersist
<1>3. ASSUME NEW c \in Actors, Discards(c) \/ Deletes(c) PROVE RowsOnce' /\ RowsPersist'
  <2>1. call[c].name \in Names
    BY <1>3, Shapes DEF Discards, Deletes, WellShaped, Lone
  <2> QED BY <1>3, <1>a, <2>1 DEF Discards, Deletes, RowsOnce, RowsPersist
<1>4. ASSUME NEW c \in Calls, MovesRow(c) \/ MovesBack(c) PROVE RowsOnce' /\ RowsPersist'
  BY <1>4, <1>a, MovedRows DEF RowsOnce, RowsPersist
<1> QED BY <1>1, <1>2, <1>3, <1>4, RowsChange

LEMMA PlacedOnceNext == Typed /\ Shape /\ Identity /\ Effect => PlacedOnce'
<1> SUFFICES ASSUME Typed, Shape, Identity, Effect PROVE PlacedOnce'
  OBVIOUS
<1> USE Constants DEF SteadyBut, Same, Placed
<1>a. PlacedOnce
  BY DEF Identity
<1>1. ASSUME \A n \in Names : resources'[n].obj = resources[n].obj PROVE PlacedOnce'
  BY <1>1, <1>a DEF PlacedOnce
<1>2. ASSUME NEW c \in Calls, NEW h, NEW n \in Names, NEW m \in Names, Renames(c, h, n, m) PROVE PlacedOnce'
  <2>1. \A k \in Names : resources'[k].obj = (IF k = m THEN resources[n].obj ELSE IF k = n THEN 0 ELSE resources[k].obj)
    BY <1>2 DEF Renames, Taken, Emptied
  <2> QED BY <1>a, <2>1 DEF PlacedOnce
<1>3. ASSUME NEW c \in Calls, Registers(c) PROVE PlacedOnce'
  <2>1. \A n \in Names : resources[n].obj # c
    BY <1>3 DEF Registers, Identity, Unplaced, Unmade
  <2>2. \A k \in Names : resources'[k].obj = (IF k = call[c].name THEN c ELSE resources[k].obj)
    BY <1>3 DEF Registers, Fresh
  <2> QED BY <1>a, <2>1, <2>2 DEF PlacedOnce
<1>4. ASSUME NEW c \in Calls, TakesBack(c) PROVE PlacedOnce'
  <2>0. call[c].name \in Names /\ call[c].to \in Names /\ call[c].name # call[c].to
    BY <1>4, MovedRows
  <2>1. CASE Registered(call[c].to)
    <3>1. \A k \in Names : resources'[k].obj = (IF k = call[c].name THEN resources[call[c].to].obj
                                               ELSE IF k = call[c].to THEN 0 ELSE resources[k].obj)
      BY <1>4, <2>0, <2>1 DEF TakesBack, Fresh, Emptied
    <3> QED BY <1>a, <2>0, <3>1 DEF PlacedOnce
  <2>2. CASE ~ Registered(call[c].to)
    BY <1>1, <1>4, <2>2 DEF TakesBack, Steady
  <2> QED BY <2>1, <2>2
<1>5. ASSUME NEW c \in Actors, Removes(c) PROVE PlacedOnce'
  <2>1. \A k \in Names : resources'[k].obj = (IF k = call[c].name THEN 0 ELSE resources[k].obj)
    BY <1>5 DEF Removes, Emptied
  <2> QED BY <1>a, <2>1 DEF PlacedOnce
<1>6. CASE Restarts
  <2>1. \A n \in Names : resources'[n].obj = rows[n]
    BY <1>6 DEF Restarts, Fresh, Emptied
  <2> QED BY <2>1 DEF Identity, RowsOnce, PlacedOnce
<1> QED BY <1>1, <1>2, <1>3, <1>4, <1>5, <1>6, RegistryChange

LEMMA IdentityNext == Typed /\ Shape /\ Identity /\ [Next]_vars => Identity'
BY EffectNext, UnplacedNext, UnwrittenNext, BlankNext, RowsOnceNext, PlacedOnceNext DEF Identity

(***************************************************************************)
(* Soundness of the registry while no renaming has met another call at its *)
(* names: names apart, what is blocked is blocked by one call, rows follow *)
(* the registry, and every live object is known.                           *)
(***************************************************************************)
Naming(c) == call[c].at \in CreateSteps \ {"gate"}

\* A call relies on the row of the object that it works on.
Relies(c, n) ==
  /\ call[c].obj \in Persistent
  /\ \/ call[c].at \in {"await", "cleanup", "delete", "restore", "savelife", "register"} /\ n = call[c].name
     \/ call[c].at = "renamed" /\ n = call[c].to

\* A row that the registry does not have is the business of a call.
Answers(c, n) ==
  /\ call[c].name = n
  /\ \/ /\ call[c].at \in {"savelife", "register", "discard", "rename", "undorow", "abortrow"}
        /\ call[c].obj = rows[n]
     \/ call[c].at \in {"undo", "abort"}

NamesApart == \A c \in Calls : Naming(c) =>
  /\ ~ Registered(call[c].name)
  /\ \A d \in Creating \ {c} : call[d].name # call[c].name
HeldApart ==
  /\ \A c \in Actors : Holding(c) => resources[Spot(c)].obj = call[c].obj /\ ~ Free(Spot(c))
  /\ \A c, d \in Actors : Holding(c) /\ Holding(d) /\ call[c].obj = call[d].obj => c = d
RowsFollow ==
  /\ \A n \in Names : Free(n) /\ resources[n].obj \in Persistent => rows[n] = resources[n].obj
  /\ \A c \in Actors, n \in Names : Relies(c, n) => rows[n] = call[c].obj
StraysAnswered == \A n \in Names :
  rows[n] # 0 /\ rows[n] # resources[n].obj /\ objects[rows[n]] # "dead" => \E c \in Calls : Answers(c, n)
LiveKnown ==
  /\ \A c \in Actors : call[c].at \in {"delete", "remove"} => objects[call[c].obj] = "dead"
  /\ \A o \in Calls : objects[o] = "live" =>
       (\E n \in Names : resources[n].obj = o) \/ call[o].at \in {"save", "savelife", "register", "discard"}

Sound == NamesApart /\ HeldApart /\ RowsFollow /\ StraysAnswered /\ LiveKnown

LEMMA SoundInit == Init => Sound
BY Constants, EntryTypes
   DEF Init, Sound, NamesApart, HeldApart, RowsFollow, StraysAnswered, LiveKnown, Naming, Creating, CreateSteps,
       Holding, Held, Relies, Free, Idle

\* What happens before renamings met anybody happened so, unless the process restarts.
LEMMA UnspoiledBefore == Effect /\ ~ spoiled' /\ ~ Restarts => ~ spoiled
<1> SUFFICES ASSUME Effect, spoiled, ~ Restarts PROVE spoiled'
  BY DEF Restarts
<1> USE DEF Quiet, Outside
<1>1. ASSUME NEW c, NEW h, NEW n, NEW m, NEW step,
             Reserves(c, h, n) \/ Leased(c, h, n) \/ Doomed(c, h, n) \/ Renames(c, h, n, m) \/ Prolongs(c, h, n, step)
      PROVE  spoiled'
  BY <1>1 DEF Reserves, Leased, Doomed, Renames, Prolongs
<1>2. ASSUME NEW c,
             \/ Goes(c) \/ Ends(c) \/ Cleans(c) \/ Deletes(c) \/ Removes(c) \/ Restores(c) \/ Makes(c) \/ Loses(c)
             \/ Saves(c) \/ Discards(c) \/ Registers(c) \/ Releases(c) \/ MovesRow(c) \/ MovesBack(c)
             \/ TakesBack(c) \/ Renamed(c)
      PROVE  spoiled'
  BY <1>2 DEF Goes, Ends, Cleans, Deletes, Removes, Restores, Makes, Loses, Saves, Discards, Registers, Releases,
              MovesRow, MovesBack, TakesBack, Renamed
<1>3. ASSUME Stays \/ Closes \/ Marks \/ Stops \/ \E n \in Names : EndsEntry(n) PROVE spoiled'
  BY <1>3 DEF Stays, Closes, Marks, Stops, EndsEntry
<1> QED BY <1>1, <1>2, <1>3 DEF Effect, Opens

\* Who is creating after a step was creating before, or reserves a name.
LEMMA CreatingBefore ==
  ASSUME Typed, Shape, Effect, NEW c \in Calls, c \in Creating', ~ Restarts
  PROVE  \/ c \in Creating /\ call'[c].name = call[c].name /\ (Naming(c)' => Naming(c))
         \/ \E h \in Handles \cup {NoHandle}, n \in Names : Reserves(c, h, n)
<1> DEFINE Before == c \in Creating /\ call'[c].name = call[c].name /\ (Naming(c)' => Naming(c))
<1> USE Constants DEF Creating, Naming, CreateSteps, Others
<1>1. ASSUME NEW d \in Actors, NEW h, NEW n, NEW m, NEW step,
             Leased(d, h, n) \/ Doomed(d, h, n) \/ Renames(d, h, n, m) \/ Prolongs(d, h, n, step)
      PROVE  Before
  BY <1>1 DEF Leased, Doomed, Renames, Prolongs, Begins
<1>2. ASSUME NEW d \in Calls, NEW h, NEW n, Reserves(d, h, n), d # c PROVE Before
  BY <1>2 DEF Reserves, Begins
<1>3. ASSUME NEW d \in Actors, Goes(d) PROVE Before
  BY <1>3 DEF Goes, Follows, Remembers
<1>4. ASSUME NEW d \in Actors, Ends(d) \/ Removes(d) \/ Restores(d) \/ Cleans(d) \/ Deletes(d) PROVE Before
  BY <1>4 DEF Ends, Removes, Restores, Cleans, Deletes, Forgets
<1>5. ASSUME NEW d \in Calls, Makes(d) \/ Loses(d) \/ Saves(d) \/ Discards(d) \/ Registers(d) PROVE Before
  BY <1>5 DEF Makes, Loses, Saves, Discards, Registers, Remembers
<1>6. ASSUME NEW d \in Calls, Releases(d) \/ MovesRow(d) \/ MovesBack(d) \/ TakesBack(d) \/ Renamed(d) PROVE Before
  BY <1>6 DEF Releases, MovesRow, MovesBack, TakesBack, Renamed, Forgets
<1>7. ASSUME Stays \/ Closes \/ Marks \/ Stops \/ \E n \in Names : EndsEntry(n) PROVE Before
  BY <1>7 DEF Stays, Closes, Marks, Stops, EndsEntry
<1> HIDE DEF Before
<1>8. Before \/ \E h \in Handles \cup {NoHandle}, n \in Names : Reserves(c, h, n)
  BY <1>1, <1>2, <1>3, <1>4, <1>5, <1>6, <1>7 DEF Effect, Opens
<1> QED BY <1>8 DEF Before

\* Who blocks a resource after a step blocked it before, or begins to.
LEMMA HoldingBefore ==
  ASSUME Typed, Shape, Effect, NEW c \in Actors, Holding(c)', ~ Restarts
  PROVE  \/ Holding(c) /\ Spot(c)' = Spot(c) /\ call'[c].obj = call[c].obj
         \/ \E h \in Handles \cup {NoHandle}, n \in Names : Doomed(c, h, n)
         \/ \E h \in Handles \cup {NoHandle}, n, m \in Names : Renames(c, h, n, m)
<1> DEFINE Before == Holding(c) /\ Spot(c)' = Spot(c) /\ call'[c].obj = call[c].obj
<1> SUFFICES ASSUME ~ \E h \in Handles \cup {NoHandle}, n \in Names : Doomed(c, h, n),
                    ~ \E h \in Handles \cup {NoHandle}, n, m \in Names : Renames(c, h, n, m)
             PROVE  Before
  OBVIOUS
<1> USE Constants DEF Holding, Held, Spot, RenameSteps, Others
<1>1. ASSUME NEW d \in Actors, NEW h, NEW n, NEW step, Reserves(d, h, n) \/ Leased(d, h, n) \/ Prolongs(d, h, n, step)
      PROVE  Before
  BY <1>1 DEF Reserves, Leased, Prolongs, Begins
<1>2. ASSUME NEW d \in Actors, NEW h \in Handles \cup {NoHandle}, NEW n \in Names, NEW m \in Names,
             Doomed(d, h, n) \/ Renames(d, h, n, m)
      PROVE  Before
  BY <1>2 DEF Doomed, Renames, Begins
<1>3. ASSUME NEW d \in Actors, Goes(d) PROVE Before
  BY <1>3 DEF Goes, Follows, Remembers
<1>4. ASSUME NEW d \in Actors, Ends(d) \/ Removes(d) \/ Restores(d) \/ Cleans(d) \/ Deletes(d) PROVE Before
  BY <1>4 DEF Ends, Removes, Restores, Cleans, Deletes, Forgets, Remembers
<1>5. ASSUME NEW d \in Calls, Makes(d) \/ Loses(d) \/ Saves(d) \/ Discards(d) \/ Registers(d) PROVE Before
  BY <1>5 DEF Makes, Loses, Saves, Discards, Registers, Remembers
<1>6. ASSUME NEW d \in Calls, Releases(d) \/ TakesBack(d) \/ Renamed(d) PROVE Before
  BY <1>6 DEF Releases, TakesBack, Renamed, Forgets
<1>7. ASSUME NEW d \in Calls, MovesRow(d) \/ MovesBack(d) PROVE Before
  BY <1>7 DEF MovesRow, MovesBack, Remembers
<1>8. ASSUME Stays \/ Closes \/ Marks \/ Stops \/ \E n \in Names : EndsEntry(n) PROVE Before
  BY <1>8 DEF Stays, Closes, Marks, Stops, EndsEntry
<1> HIDE DEF Before
<1> QED BY <1>1, <1>2, <1>3, <1>4, <1>5, <1>6, <1>7, <1>8 DEF Effect, Opens

\* What can be leased after a step could be leased before, or has just been put there.
LEMMA FreeBefore ==
  ASSUME Typed, Shape, Effect, NEW n \in Names, resources'[n].free, ~ Restarts
  PROVE  \/ Placed(n)
         \/ \E c \in Calls : Registers(c) /\ n = call[c].name
         \/ \E c \in Actors : Restores(c) /\ n = call[c].name
         \/ \E c \in Calls : TakesBack(c) /\ Registered(call[c].to) /\ n = call[c].name
         \/ \E c \in Calls : Renamed(c) /\ Registered(call[c].to) /\ n = call[c].to
<1> DEFINE Put == \/ \E c \in Calls : Registers(c) /\ n = call[c].name
                  \/ \E c \in Actors : Restores(c) /\ n = call[c].name
                  \/ \E c \in Calls : TakesBack(c) /\ Registered(call[c].to) /\ n = call[c].name
                  \/ \E c \in Calls : Renamed(c) /\ Registered(call[c].to) /\ n = call[c].to
<1> SUFFICES ASSUME ~ Put PROVE Placed(n)
  OBVIOUS
<1> USE DEF Quiet, Steady, SteadyBut, Same
<1>1. ASSUME NEW d \in Actors, NEW h, NEW k \in Names, NEW m \in Names, NEW step,
             \/ Reserves(d, h, k) \/ Leased(d, h, k) \/ Doomed(d, h, k)
             \/ Renames(d, h, k, m) \/ Prolongs(d, h, k, step)
      PROVE  Placed(n)
  BY <1>1 DEF Reserves, Leased, Doomed, Renames, Prolongs, Taken, Emptied
<1>2. ASSUME NEW d, Goes(d) \/ Ends(d) \/ Cleans(d) \/ Deletes(d) \/ Makes(d) \/ Loses(d) \/ Saves(d) \/ Discards(d)
                    \/ MovesRow(d) \/ MovesBack(d)
      PROVE  Placed(n)
  BY <1>2 DEF Goes, Ends, Cleans, Deletes, Makes, Loses, Saves, Discards, MovesRow, MovesBack
<1>3. ASSUME NEW d, Releases(d) \/ Removes(d)
      PROVE  Placed(n)
  BY <1>3 DEF Releases, Removes, Emptied
<1>4. ASSUME NEW d \in Actors, Restores(d) \/ (d \in Calls /\ Registers(d))
      PROVE  Placed(n)
  BY <1>4 DEF Restores, Registers
<1>5. ASSUME NEW d \in Calls, Renamed(d)
      PROVE  Placed(n)
  BY <1>5 DEF Renamed
<1>6. ASSUME NEW d \in Calls, TakesBack(d)
      PROVE  Placed(n)
  BY <1>6 DEF TakesBack, Emptied
<1>7. ASSUME Stays \/ Closes \/ Marks \/ Stops \/ \E m \in Names : EndsEntry(m)
      PROVE  Placed(n)
  BY <1>7 DEF Stays, Closes, Marks, Stops, EndsEntry, Taken
<1> HIDE DEF Put
<1> QED BY <1>1, <1>2, <1>3, <1>4, <1>5, <1>6, <1>7, Constants DEF Effect, Opens

\* After a restart nobody is creating, blocking or moving anything, and the registry is the rows.
LEMMA SoundRestart == Typed /\ Shape /\ Identity /\ Restarts => Sound'
<1> SUFFICES ASSUME Typed, Shape, Identity, Restarts PROVE Sound'
  OBVIOUS
<1> USE Constants
<1>1. \A c \in Actors : call'[c].at \in Lone
  BY DEF Restarts, Lone
<1>2. \A n \in Names : resources'[n].obj = rows'[n] /\ rows'[n] = rows[n]
  BY DEF Restarts, Emptied, Fresh
<1>3. \A c \in Actors : ~ Naming(c)' /\ ~ Holding(c)' /\ call'[c].at \notin {"delete", "remove"} /\ \A n : ~ Relies(c, n)'
  BY <1>1 DEF Naming, CreateSteps, Holding, Held, Relies, Lone
<1>4. ASSUME NEW o \in Calls, objects'[o] = "live" PROVE \E n \in Names : resources'[n].obj = o
  <2>1. \E n \in Names : rows[n] = o
    BY <1>4, Shapes DEF Restarts
  <2> QED BY <1>2, <2>1
<1>5. NamesApart' /\ HeldApart'
  BY <1>3 DEF NamesApart, HeldApart
<1>6. RowsFollow'
  BY <1>2, <1>3 DEF RowsFollow
<1>7. StraysAnswered'
  BY <1>2 DEF StraysAnswered
<1>8. LiveKnown'
  BY <1>3, <1>4 DEF LiveKnown
<1> QED BY <1>5, <1>6, <1>7, <1>8 DEF Sound

LEMMA NamesApartNext ==
  ASSUME Typed, Shape, Identity, Sound, Effect, ~ spoiled', ~ Restarts
  PROVE  NamesApart'
<1> USE Constants
<1>a. /\ \A c \in Calls : Naming(c) => /\ ~ Registered(call[c].name)
                                      /\ \A d \in Creating \ {c} : call[d].name # call[c].name
      /\ \A c \in Calls : Naming(c) => c \in Creating
  BY DEF Sound, NamesApart, Naming, Creating
<1>1. ASSUME NEW c \in Calls, Naming(c)' PROVE ~ Registered(call[c].name)'
  <2>1. CASE \E h \in Handles \cup {NoHandle}, n \in Names : Reserves(c, h, n)
    BY <2>1 DEF Reserves, Begins, Quiet, Steady, Same, Placed, Occupied, Registered
  <2>2. CASE c \in Creating /\ call'[c].name = call[c].name /\ Naming(c)
    <3> DEFINE n == call[c].name
    <3>1. ~ Registered(n) /\ n \in Names
      BY <1>a, <2>2, Shapes DEF Creating, WellShaped, CreateSteps, Lone
    <3>2. CASE resources'[n].obj = resources[n].obj
      BY <2>2, <3>1, <3>2 DEF Registered
    <3>3. ASSUME NEW d \in Calls, NEW h, NEW k \in Names, NEW m \in Names, Renames(d, h, k, m)
          PROVE  resources'[n].obj \in {0, resources[n].obj}
      <4>1. n # m
        BY <2>2, <3>3 DEF Renames, Occupied
      <4> QED BY <3>1, <3>3, <4>1 DEF Renames, Same, Placed, Emptied
    <3>4. ASSUME NEW d \in Calls, Registers(d)
          PROVE  resources'[n].obj \in {0, resources[n].obj}
      <4>1. d \in Creating /\ d # c
        BY <1>1, <3>4 DEF Registers, Creating, CreateSteps, Naming
      <4>2. call[d].name # n
        BY <1>a, <2>2, <4>1
      <4> QED BY <3>1, <3>4, <4>2 DEF Registers, SteadyBut, Same, Placed
    <3>5. ASSUME NEW d \in Calls, TakesBack(d)
          PROVE  resources'[n].obj \in {0, resources[n].obj}
      <4>1. CASE Registered(call[d].to)
        <5>1. ~ Occupied(call[d].name)
          BY <3>5, <4>1 DEF TakesBack
        <5>2. n # call[d].name
          BY <2>2, <5>1 DEF Occupied
        <5> QED BY <3>1, <3>5, <4>1, <5>2 DEF TakesBack, Same, Placed, Emptied
      <4>2. CASE ~ Registered(call[d].to)
        BY <3>1, <3>5, <4>2 DEF TakesBack, Steady, Same, Placed
      <4> QED BY <4>1, <4>2
    <3>6. ASSUME NEW d \in Actors, Removes(d)
          PROVE  resources'[n].obj \in {0, resources[n].obj}
      BY <3>1, <3>6 DEF Removes, SteadyBut, Same, Placed, Emptied
    <3>7. resources'[n].obj \in {0, resources[n].obj}
      BY <3>1, <3>3, <3>4, <3>5, <3>6, RegistryChange
    <3> QED BY <2>2, <3>1, <3>7 DEF Registered
  <2> QED BY <1>1, <2>1, <2>2, CreatingBefore DEF Naming, Creating
<1>2. ASSUME NEW c \in Calls, Naming(c)', NEW d \in Calls, d \in Creating', d # c PROVE call'[d].name # call'[c].name
  <2>0. c \in Creating'
    BY <1>2 DEF Naming, Creating
  <2>1. CASE \E h \in Handles \cup {NoHandle}, n \in Names : Reserves(c, h, n)
    BY <1>2, <2>1 DEF Reserves, Begins, Others, Occupied, Creating
  <2>2. CASE \E h \in Handles \cup {NoHandle}, n \in Names : Reserves(d, h, n)
    BY <1>2, <2>0, <2>2 DEF Reserves, Begins, Others, Occupied, Creating
  <2>3. CASE /\ c \in Creating /\ call'[c].name = call[c].name /\ Naming(c)
             /\ d \in Creating /\ call'[d].name = call[d].name
    BY <1>a, <1>2, <2>3
  <2> QED BY <1>2, <2>0, <2>1, <2>2, <2>3, CreatingBefore
<1> QED BY <1>1, <1>2 DEF NamesApart, Creating

\* A call works on what it blocks.
LEMMA Workers ==
  ASSUME Typed, Shape, NEW c \in Actors
  PROVE  /\ Holding(c) => Spot(c) \in Names /\ call[c].obj \in Calls
         /\ Removes(c) \/ Restores(c) \/ Cleans(c) \/ Deletes(c) => Holding(c) /\ Spot(c) = call[c].name
         /\ MovesRow(c) \/ MovesBack(c) \/ Renamed(c) => Holding(c) /\ Spot(c) = call[c].to
         /\ TakesBack(c) /\ call[c].at # "undone" => Holding(c) /\ Spot(c) = call[c].to
         /\ Removes(c) \/ Restores(c) \/ Renamed(c) \/ TakesBack(c) => ~ Holding(c)'
<1> USE Constants DEF Holding, Held, Spot, RenameSteps
<1>1. Holding(c) => Spot(c) \in Names /\ call[c].obj \in Calls
  BY Shapes DEF WellShaped, Lone
<1>2. Removes(c) \/ Restores(c) \/ Cleans(c) \/ Deletes(c) => Holding(c) /\ Spot(c) = call[c].name
  BY DEF Removes, Restores, Cleans, Deletes
<1>3. MovesRow(c) \/ MovesBack(c) \/ Renamed(c) => Holding(c) /\ Spot(c) = call[c].to
  BY DEF MovesRow, MovesBack, Renamed
<1>4. TakesBack(c) /\ call[c].at # "undone" => Holding(c) /\ Spot(c) = call[c].to
  BY DEF TakesBack
<1>5. Removes(c) \/ Restores(c) \/ Renamed(c) \/ TakesBack(c) => ~ Holding(c)'
  BY DEF Removes, Restores, Renamed, TakesBack, Forgets
<1> QED BY <1>1, <1>2, <1>3, <1>4, <1>5

\* Only the call that blocks a resource changes its place.
LEMMA HeldStays ==
  ASSUME Typed, Shape, Identity, Sound, Effect, ~ spoiled', ~ Restarts, NEW c \in Actors, Holding(c), Holding(c)'
  PROVE  resources'[Spot(c)].obj = resources[Spot(c)].obj /\ ~ resources'[Spot(c)].free
<1> USE Constants DEF SteadyBut, Same, Placed
<1> DEFINE n == Spot(c)
<1>a. n \in Names /\ Registered(n) /\ ~ Free(n) /\ resources[n].obj = call[c].obj
  BY Workers, Shapes DEF Sound, HeldApart, Registered
<1>b. ASSUME NEW d \in Actors, Holding(d), Spot(d) = n PROVE d = c
  BY <1>a, <1>b DEF Sound, HeldApart
<1>1. ASSUME NEW d \in Calls, NEW h, NEW k \in Names, NEW m \in Names, Renames(d, h, k, m)
      PROVE  Same(n)
  BY <1>1, <1>a DEF Renames, Occupied
<1>2. ASSUME NEW d \in Calls, Registers(d)
      PROVE  Same(n)
  <2>1. ~ Registered(call[d].name)
    BY <1>2 DEF Registers, Sound, NamesApart, Naming, CreateSteps
  <2> QED BY <1>2, <1>a, <2>1 DEF Registers
<1>3. ASSUME NEW d \in Calls, TakesBack(d)
      PROVE  Same(n)
  <2>1. CASE Registered(call[d].to)
    <3>1. ~ Registered(call[d].name) /\ call[d].at # "undone"
      BY <1>3, <2>1 DEF TakesBack, Occupied
    <3>2. n # call[d].to
      BY <1>3, <1>b, <3>1, Workers
    <3> QED BY <1>3, <1>a, <2>1, <3>1, <3>2 DEF TakesBack
  <2>2. CASE ~ Registered(call[d].to)
    BY <1>3, <1>a, <2>2 DEF TakesBack, Steady
  <2> QED BY <2>1, <2>2
<1>4. ASSUME NEW d \in Actors, Removes(d) \/ Restores(d)
      PROVE  Same(n)
  <2>1. n # call[d].name
    BY <1>4, <1>b, Workers
  <2> QED BY <1>4, <1>a, <2>1 DEF Removes, Restores
<1>5. ASSUME NEW d \in Calls, Renamed(d)
      PROVE  Same(n)
  <2>1. n # call[d].to
    BY <1>5, <1>b, Workers
  <2> QED BY <1>5, <1>a, <2>1 DEF Renamed
<1>6. resources'[n].obj = resources[n].obj
  BY <1>a, <1>1, <1>2, <1>3, <1>4, RegistryChange
<1>7. ~ resources'[n].free
  BY <1>a, <1>2, <1>3, <1>4, <1>5, FreeBefore DEF Free
<1> QED BY <1>6, <1>7

LEMMA HeldApartNext ==
  ASSUME Typed, Shape, Identity, Sound, Effect, ~ spoiled', ~ Restarts
  PROVE  HeldApart'
<1> USE Constants
<1> DEFINE Taking(c, n) == \/ \E h \in Handles \cup {NoHandle} : Doomed(c, h, n)
                           \/ \E h \in Handles \cup {NoHandle}, k \in Names : Renames(c, h, k, n)
           Kept(c) == Holding(c) /\ Spot(c)' = Spot(c) /\ call'[c].obj = call[c].obj
<1>1. ASSUME NEW c \in Actors, NEW n \in Names, Taking(c, n)
      PROVE  /\ Spot(c)' = n /\ resources'[n].obj = call'[c].obj /\ ~ resources'[n].free
             /\ \E k \in Names : Free(k) /\ resources[k].obj = call'[c].obj
             /\ \A d \in Actors : d # c => call'[d] = call[d]
  <2>1. CASE \E h \in Handles \cup {NoHandle} : Doomed(c, h, n)
    BY <2>1 DEF Doomed, Begins, Spot, RenameSteps, Taken, Others
  <2>2. CASE \E h \in Handles \cup {NoHandle}, k \in Names : Renames(c, h, k, n)
    BY <2>2 DEF Renames, Begins, Spot, RenameSteps, Taken, Others
  <2> QED BY <1>1, <2>1, <2>2
<1>2. ASSUME NEW c \in Actors, Holding(c)' PROVE Kept(c) \/ \E n \in Names : Taking(c, n)
  BY <1>2, HoldingBefore
<1>3. ASSUME NEW c \in Actors, Holding(c), NEW k \in Names, Free(k) PROVE resources[k].obj # call[c].obj
  BY <1>3, Workers DEF Sound, HeldApart, Identity, PlacedOnce
<1>4. ASSUME NEW c \in Actors, Holding(c)' PROVE resources'[Spot(c)'].obj = call'[c].obj /\ ~ resources'[Spot(c)'].free
  <2>1. CASE Kept(c)
    BY <1>4, <2>1, HeldStays DEF Sound, HeldApart
  <2>2. CASE \E n \in Names : Taking(c, n)
    BY <1>1, <2>2
  <2> QED BY <1>2, <1>4, <2>1, <2>2
<1>5. ASSUME NEW c \in Actors, NEW d \in Actors, Holding(c)', Holding(d)', call'[c].obj = call'[d].obj PROVE c = d
  <2>1. CASE Kept(c) /\ Kept(d)
    BY <1>5, <2>1 DEF Sound, HeldApart
  <2>2. CASE c # d /\ ((\E n \in Names : Taking(c, n)) \/ \E n \in Names : Taking(d, n))
    <3>1. ASSUME NEW a \in Actors, NEW b \in Actors, NEW n \in Names, a # b, Taking(a, n), Holding(b)',
                 call'[a].obj = call'[b].obj
          PROVE  FALSE
      <4>1. call'[b] = call[b]
        BY <1>1, <3>1
      <4>2. Holding(b)
        BY <3>1, <4>1 DEF Holding
      <4> QED BY <1>1, <1>3, <3>1, <4>1, <4>2
    <3> QED BY <1>5, <2>2, <3>1
  <2> HIDE DEF Kept, Taking
  <2> QED BY <1>2, <1>5, <2>1, <2>2
<1>6. \A c \in Actors : Holding(c)' => resources'[Spot(c)'].obj = call'[c].obj /\ ~ Free(Spot(c))'
  BY <1>4 DEF Free
<1> QED BY <1>5, <1>6 DEF HeldApart

\* Who relies on a row after a step relied on it before, or begins to.
LEMMA ReliesBefore ==
  ASSUME Typed, Shape, Effect, NEW c \in Actors, NEW n \in Names, Relies(c, n)', ~ Restarts
  PROVE  \/ Relies(c, n) /\ call'[c].obj = call[c].obj
         \/ \E h \in Handles \cup {NoHandle} : Doomed(c, h, n)
         \/ c \in Calls /\ Saves(c) /\ n = call[c].name
         \/ c \in Calls /\ MovesRow(c) /\ n = call[c].to
<1> DEFINE Before == Relies(c, n) /\ call'[c].obj = call[c].obj
<1> SUFFICES ASSUME ~ \E h \in Handles \cup {NoHandle} : Doomed(c, h, n),
                    ~ (c \in Calls /\ Saves(c) /\ n = call[c].name),
                    ~ (c \in Calls /\ MovesRow(c) /\ n = call[c].to)
             PROVE  Before
  OBVIOUS
<1> USE Constants DEF Relies, Others
<1>1. ASSUME NEW d \in Actors, NEW h, NEW k, NEW m, NEW step,
             Reserves(d, h, k) \/ Leased(d, h, k) \/ Prolongs(d, h, k, step) \/ Renames(d, h, k, m)
      PROVE  Before
  BY <1>1 DEF Reserves, Leased, Prolongs, Renames, Begins
<1>2. ASSUME NEW d \in Actors, NEW h \in Handles \cup {NoHandle}, NEW k \in Names, Doomed(d, h, k)
      PROVE  Before
  BY <1>2 DEF Doomed, Begins
<1>3. ASSUME NEW d \in Actors, Goes(d) PROVE Before
  BY <1>3 DEF Goes, Follows, Remembers
<1>4. ASSUME NEW d \in Actors, Ends(d) \/ Removes(d) \/ Restores(d) \/ Deletes(d) PROVE Before
  BY <1>4 DEF Ends, Removes, Restores, Deletes, Forgets, Remembers
<1>5. ASSUME NEW d \in Actors, Cleans(d) PROVE Before
  BY <1>5 DEF Cleans, Forgets, Remembers
<1>6. ASSUME NEW d \in Calls, Makes(d) \/ Loses(d) \/ Discards(d) \/ Registers(d) PROVE Before
  <2>1. call[d].at = "construct" => call[d].obj = d
    BY Shapes DEF WellShaped, CreateSteps
  <2> QED BY <1>6, <2>1 DEF Makes, Loses, Discards, Registers, Remembers
<1>7. ASSUME NEW d \in Calls, Saves(d) \/ MovesRow(d) PROVE Before
  BY <1>7 DEF Saves, MovesRow, Remembers
<1>8. ASSUME NEW d \in Calls, Releases(d) \/ MovesBack(d) \/ TakesBack(d) \/ Renamed(d) PROVE Before
  BY <1>8 DEF Releases, MovesBack, TakesBack, Renamed, Forgets, Remembers
<1>9. ASSUME Stays \/ Closes \/ Marks \/ Stops \/ \E m \in Names : EndsEntry(m) PROVE Before
  BY <1>9 DEF Stays, Closes, Marks, Stops, EndsEntry
<1> QED BY <1>1, <1>2, <1>3, <1>4, <1>5, <1>6, <1>7, <1>8, <1>9 DEF Effect, Opens

\* A row stays as long as a resource that can be leased, or a call, relies on it.
LEMMA RowsKept ==
  ASSUME Typed, Shape, Identity, Sound, Effect, ~ spoiled', ~ Restarts,
         NEW n \in Names, NEW o \in Persistent, rows[n] = o,
         \/ Free(n) /\ resources[n].obj = o
         \/ \E c \in Actors : Relies(c, n) /\ call[c].obj = o /\ Relies(c, n)'
  PROVE  rows'[n] = rows[n]
<1> USE Constants
<1> DEFINE Registry == resources[n].obj = o /\ \A d \in Actors : Holding(d) /\ Spot(d) = n => Relies(d, n)'
           Creation == \E c \in Calls : call[c].at \in {"savelife", "register"} /\ call[c].name = n /\ c = o
<1>0. Registry \/ Creation
  <2>1. CASE Free(n) /\ resources[n].obj = o
    BY <2>1 DEF Sound, HeldApart
  <2>2. ASSUME NEW c \in Actors, Relies(c, n), call[c].obj = o, Relies(c, n)'
        PROVE  Registry \/ Creation
    <3>1. CASE Holding(c) /\ Spot(c) = n
      BY <2>2, <3>1 DEF Sound, HeldApart
    <3>2. CASE call[c].at \in {"savelife", "register"} /\ call[c].name = n
      BY <2>2, <3>2, Shapes DEF WellShaped, CreateSteps
    <3>3. (Holding(c) /\ Spot(c) = n) \/ (call[c].at \in {"savelife", "register"} /\ call[c].name = n)
      BY <2>2 DEF Relies, Holding, Held, Spot, RenameSteps
    <3> QED BY <3>1, <3>2, <3>3
  <2> QED BY <2>1, <2>2
<1>r. rows \in [Names -> Objects] /\ o # 0
  BY Shapes
<1>n. \A d \in Calls : Naming(d) => ~ Registered(call[d].name)
  BY DEF Sound, NamesApart
<1>h. \A d \in Actors : Holding(d) => resources[Spot(d)].obj = call[d].obj /\ resources[Spot(d)].obj # 0
  BY Workers DEF Sound, HeldApart
<1>c. ASSUME Creation
      PROVE  /\ resources[n].obj = 0 /\ \A d \in Actors \ {o} : call[d].obj # o
             /\ \A d \in Creating : call[d].name = n => d = o /\ call[d].at \in {"savelife", "register"}
  BY <1>c DEF Registered, Sound, NamesApart, Naming, CreateSteps, Creating, Identity, Unplaced, Unmade
<1> HIDE DEF Creation
<1>1. ASSUME NEW d \in Calls, Saves(d) \/ Discards(d) PROVE rows'[n] = rows[n]
  <2>1. Naming(d) /\ d \in Creating /\ call[d].at \notin {"savelife", "register"}
    BY <1>1 DEF Saves, Discards, Naming, Creating, CreateSteps
  <2>2. call[d].name # n
    BY <1>0, <1>c, <1>n, <1>r, <2>1 DEF Registered
  <2> QED BY <1>1, <1>r, <2>2 DEF Saves, Discards
<1>2. ASSUME NEW d \in Actors, Deletes(d) PROVE rows'[n] = rows[n]
  <2>1. Holding(d) /\ Spot(d) = call[d].name
    BY <1>2, Workers
  <2>2. ~ Relies(d, n)'
    BY <1>2 DEF Deletes, Relies
  <2>3. call[d].name # n
    BY <1>0, <1>c, <1>h, <2>1, <2>2
  <2> QED BY <1>2, <1>r, <2>3 DEF Deletes
<1>3. ASSUME NEW d \in Calls, MovesRow(d) \/ MovesBack(d) PROVE n # call[d].to
  <2>1. Holding(d) /\ Spot(d) = call[d].to
    BY <1>3, Workers
  <2>2. CASE ~ Relies(d, n)'
    <3>1. ASSUME n = call[d].to PROVE FALSE
      <4>1. ~ Registry
        BY <2>1, <2>2, <3>1
      <4> HIDE DEF Registry
      <4>2. resources[n].obj = 0
        BY <1>0, <1>c, <4>1
      <4> QED BY <1>h, <2>1, <3>1, <4>2
    <3> QED BY <3>1
  <2>3. CASE Relies(d, n)' /\ n = call[d].to
    <3>1. MovesRow(d) /\ call[d].at = "rename"
      BY <1>3, <2>3 DEF MovesRow, MovesBack, Relies
    <3>2. ~ Relies(d, n)
      BY <3>1 DEF Relies
    <3>3. ~ Free(n)
      BY <2>1, <2>3 DEF Sound, HeldApart
    <3>4. PICK c \in Actors : Relies(c, n) /\ call[c].obj = o
      BY <3>3
    <3>5. CASE Creation
      BY <1>c, <1>h, <2>1, <2>3, <3>5
    <3>6. CASE Registry /\ ~ Creation
      <4>1. Holding(c) /\ call[c].obj = o
        <5>1. call[c].at \in {"savelife", "register"} => c = o /\ call[c].name = n
          BY <3>4, Shapes DEF WellShaped, CreateSteps, Relies
        <5>2. call[c].at \notin {"savelife", "register"}
          BY <3>6, <5>1 DEF Creation
        <5> QED BY <3>4, <5>2 DEF Relies, Holding, Held
      <4>2. call[d].obj = o
        BY <1>h, <2>1, <2>3, <3>6
      <4>3. c = d
        BY <2>1, <4>1, <4>2 DEF Sound, HeldApart
      <4> QED BY <3>2, <3>4, <4>3
    <3> QED BY <1>0, <3>5, <3>6
  <2> QED BY <2>2, <2>3
<1>4. ASSUME NEW d \in Calls, MovesRow(d) PROVE rows'[n] = rows[n]
  <2>1. /\ call[d].name \in Names /\ call[d].to \in Names /\ call[d].name # call[d].to
        /\ Holding(d) /\ Spot(d) = call[d].to
    BY <1>4, MovedRows, Workers
  <2>2. rows[call[d].name] = call[d].obj
    BY <1>4 DEF MovesRow
  <2>3. n # call[d].name
    <3>1. ASSUME n = call[d].name PROVE FALSE
      <4>1. call[d].obj = o
        BY <2>2, <3>1
      <4>2. CASE Registry
        BY <1>h, <1>r, <2>1, <3>1, <4>1, <4>2 DEF Identity, PlacedOnce
      <4>3. CASE Creation
        <5>1. d = o /\ call[d].at = "rename"
          BY <1>4, <1>c, <4>1, <4>3 DEF MovesRow
        <5> QED BY <4>3, <5>1 DEF Creation
      <4> QED BY <1>0, <4>2, <4>3
    <3> QED BY <3>1
  <2> QED BY <1>3, <1>4, <1>r, <2>1, <2>3, MoveFacts DEF MovesRow
<1>5. ASSUME NEW d \in Calls, MovesBack(d) PROVE rows'[n] = rows[n]
  <2>1. call[d].name \in Names /\ call[d].to \in Names /\ call[d].name # call[d].to
    BY <1>5, MovedRows
  <2> QED BY <1>3, <1>5, <1>r, <2>1, MoveFacts DEF MovesBack, Movable
<1> QED BY <1>1, <1>2, <1>4, <1>5, RowsChange

LEMMA RowsFollowNext ==
  ASSUME Typed, Shape, Identity, Sound, Effect, ~ spoiled', ~ Restarts
  PROVE  RowsFollow'
<1> USE Constants
<1>1. ASSUME NEW n \in Names, resources'[n].free, resources'[n].obj \in Persistent
      PROVE  rows'[n] = resources'[n].obj
  <2>1. CASE Placed(n)
    <3>1. Free(n) /\ resources[n].obj = resources'[n].obj /\ rows[n] = resources[n].obj
      BY <1>1, <2>1 DEF Placed, Free, Sound, RowsFollow
    <3> QED BY <1>1, <3>1, RowsKept
  <2>2. ASSUME NEW c \in Calls, Registers(c), n = call[c].name PROVE rows'[n] = resources'[n].obj
    <3>1. Relies(c, n) /\ call[c].obj = c
      BY <1>1, <2>2, Shapes DEF Registers, Relies, WellShaped, CreateSteps, Fresh
    <3> QED BY <2>2, <3>1 DEF Registers, Fresh, Sound, RowsFollow
  <2>3. ASSUME NEW c \in Actors, Restores(c), n = call[c].name PROVE rows'[n] = resources'[n].obj
    <3>1. resources[n].obj = call[c].obj
      BY <2>3, Workers DEF Sound, HeldApart
    <3>2. Relies(c, n)
      BY <1>1, <2>3, <3>1 DEF Restores, Relies, Fresh
    <3> QED BY <2>3, <3>1, <3>2 DEF Restores, Fresh, Sound, RowsFollow
  <2>4. ASSUME NEW c \in Calls, TakesBack(c), Registered(call[c].to), n = call[c].name PROVE rows'[n] = resources'[n].obj
    <3>1. call[c].at # "undone" /\ rows[n] = call[c].obj
      BY <2>4 DEF TakesBack
    <3>2. resources[call[c].to].obj = call[c].obj
      BY <2>4, <3>1, Workers DEF Sound, HeldApart
    <3> QED BY <2>4, <3>1, <3>2 DEF TakesBack, Fresh
  <2>5. ASSUME NEW c \in Calls, Renamed(c), Registered(call[c].to), n = call[c].to PROVE rows'[n] = resources'[n].obj
    <3>1. resources[n].obj = call[c].obj
      BY <2>5, Workers DEF Sound, HeldApart
    <3>2. Relies(c, n)
      BY <1>1, <2>5, <3>1 DEF Renamed, Relies, Fresh
    <3> QED BY <2>5, <3>1, <3>2 DEF Renamed, Fresh, Sound, RowsFollow
  <2> QED BY <1>1, <2>1, <2>2, <2>3, <2>4, <2>5, FreeBefore
<1>2. ASSUME NEW c \in Actors, NEW n \in Names, Relies(c, n)' PROVE rows'[n] = call'[c].obj
  <2>1. CASE Relies(c, n) /\ call'[c].obj = call[c].obj
    <3>1. rows[n] = call[c].obj /\ call[c].obj \in Persistent
      BY <2>1 DEF Sound, RowsFollow, Relies
    <3> QED BY <1>2, <2>1, <3>1, RowsKept
  <2>2. ASSUME NEW h \in Handles \cup {NoHandle}, Doomed(c, h, n) PROVE rows'[n] = call'[c].obj
    <3>1. call'[c].obj = resources[n].obj /\ Free(n) /\ rows' = rows /\ resources[n].obj \in Persistent
      BY <1>2, <2>2 DEF Doomed, Begins, Relies
    <3> QED BY <3>1 DEF Sound, RowsFollow
  <2>3. CASE c \in Calls /\ Saves(c) /\ n = call[c].name
    BY <2>3, Shapes DEF Saves, Remembers, WellShaped, CreateSteps
  <2>4. CASE c \in Calls /\ MovesRow(c) /\ n = call[c].to
    <3>1. call[c].name \in Names /\ call[c].to \in Names /\ call[c].name # call[c].to /\ rows \in [Names -> Objects]
      BY <2>4, MovedRows, Shapes
    <3>2. rows[call[c].name] = call[c].obj /\ call[c].obj # 0 /\ call'[c].obj = call[c].obj
      BY <2>4, MovedRows DEF MovesRow, Remembers
    <3> QED BY <2>4, <3>1, <3>2, MoveFacts DEF MovesRow
  <2> QED BY <1>2, <2>1, <2>2, <2>3, <2>4, ReliesBefore
<1>3. \A n \in Names : Free(n)' /\ resources'[n].obj \in Persistent => rows'[n] = resources'[n].obj
  BY <1>1 DEF Free
<1> QED BY <1>2, <1>3 DEF RowsFollow

\* A dead object stays dead.
LEMMA DeadStays ==
  ASSUME Typed, Shape, Identity, Effect, NEW o \in Calls, objects[o] = "dead"
  PROVE  objects'[o] = "dead"
<1> USE Constants
<1>a. objects \in [Calls -> {"none", "live", "dead", "lost"}]
  BY Shapes
<1>1. ASSUME NEW c \in Calls, Makes(c) \/ Loses(c) PROVE objects'[o] = "dead"
  <2>1. objects[c] = "none"
    BY <1>1 DEF Makes, Loses, Identity, Blank, Unbuilt
  <2> QED BY <1>1, <1>a, <2>1 DEF Makes, Loses
<1>2. ASSUME NEW c \in Calls, Discards(c) PROVE objects'[o] = "dead"
  BY <1>2, <1>a DEF Discards
<1>3. ASSUME NEW c \in Actors, Cleans(c) PROVE objects'[o] = "dead"
  BY <1>3, <1>a DEF Cleans
<1>4. ASSUME NEW n \in Names, EndsEntry(n) PROVE objects'[o] = "dead"
  BY <1>4, <1>a DEF EndsEntry
<1>5. CASE Restarts
  BY <1>5 DEF Restarts
<1> QED BY <1>1, <1>2, <1>3, <1>4, <1>5, ObjectsChange

\* Who answers for a stray row answers for it after a step, or has acted.
LEMMA AnswersAfter ==
  ASSUME Typed, Shape, Effect, ~ Restarts, NEW c \in Calls, NEW n \in Names, Answers(c, n), rows'[n] = rows[n]
  PROVE  Answers(c, n)' \/ Registers(c) \/ Discards(c) \/ TakesBack(c) \/ MovesRow(c)
<1> SUFFICES ASSUME ~ Registers(c), ~ Discards(c), ~ TakesBack(c), ~ MovesRow(c) PROVE Answers(c, n)'
  OBVIOUS
<1> USE Constants DEF Answers, Others
<1>1. ASSUME NEW d \in Actors, NEW h, NEW k, NEW m, NEW step,
             Reserves(d, h, k) \/ Leased(d, h, k) \/ Doomed(d, h, k) \/ Prolongs(d, h, k, step) \/ Renames(d, h, k, m)
      PROVE  Answers(c, n)'
  BY <1>1 DEF Reserves, Leased, Doomed, Prolongs, Renames, Begins
<1>2. ASSUME NEW d \in Actors, Goes(d) PROVE Answers(c, n)'
  BY <1>2 DEF Goes, Follows, Remembers
<1>3. ASSUME NEW d \in Actors, Ends(d) \/ Removes(d) \/ Restores(d) \/ Deletes(d) \/ Cleans(d) PROVE Answers(c, n)'
  BY <1>3 DEF Ends, Removes, Restores, Deletes, Cleans
<1>4. ASSUME NEW d \in Calls, Makes(d) \/ Loses(d) \/ Saves(d) \/ Releases(d) \/ Renamed(d) PROVE Answers(c, n)'
  BY <1>4 DEF Makes, Loses, Saves, Releases, Renamed
<1>5. ASSUME NEW d \in Calls, d # c, Registers(d) \/ Discards(d) \/ TakesBack(d) \/ MovesRow(d) PROVE Answers(c, n)'
  BY <1>5 DEF Registers, Discards, TakesBack, MovesRow
<1>6. ASSUME NEW d \in Calls, MovesBack(d) PROVE Answers(c, n)'
  BY <1>6 DEF MovesBack, Remembers
<1>7. ASSUME Stays \/ Closes \/ Marks \/ Stops \/ \E m \in Names : EndsEntry(m) PROVE Answers(c, n)'
  BY <1>7 DEF Stays, Closes, Marks, Stops, EndsEntry
<1> QED BY <1>1, <1>2, <1>3, <1>4, <1>5, <1>6, <1>7 DEF Effect, Opens

LEMMA StraysAnsweredNext ==
  ASSUME Typed, Shape, Identity, Sound, Effect, ~ spoiled', ~ Restarts
  PROVE  StraysAnswered'
<1> USE Constants
<1> SUFFICES ASSUME NEW n \in Names, rows'[n] # 0, rows'[n] # resources'[n].obj, objects'[rows'[n]] # "dead"
             PROVE  \E c \in Calls : Answers(c, n)'
  BY DEF StraysAnswered
<1>r. rows \in [Names -> Objects] /\ RowsPersist
  BY Shapes DEF Identity
<1>1. CASE rows'[n] = rows[n]
  <2>0. rows[n] \in Persistent /\ rows[n] \in Calls /\ objects[rows[n]] # "dead"
    BY <1>1, <1>r, DeadStays DEF RowsPersist
  <2>1. CASE rows[n] # resources[n].obj
    <3>1. PICK c \in Calls : Answers(c, n)
      BY <1>1, <2>0, <2>1 DEF Sound, StraysAnswered
    <3>2. ASSUME Registers(c) PROVE FALSE
      BY <1>1, <3>1, <3>2, Shapes DEF Registers, Answers, Fresh, WellShaped, CreateSteps
    <3>3. ASSUME Discards(c) PROVE FALSE
      <4>1. rows[n] = c
        BY <3>1, <3>3, Shapes DEF Discards, Answers, WellShaped, CreateSteps
      <4> QED BY <1>1, <2>0, <3>3, <4>1, Shapes DEF Discards
    <3>4. ASSUME TakesBack(c) PROVE FALSE
      <4>1. call[c].name = n /\ call[c].at # "undone"
        BY <3>1, <3>4 DEF TakesBack, Answers
      <4>4. Holding(c) /\ Spot(c) = call[c].to /\ call[c].obj # 0
        BY <3>4, <4>1, Workers
      <4>2. resources[call[c].to].obj = call[c].obj /\ call[c].obj # 0
        BY <4>4 DEF Sound, HeldApart
      <4>3. rows[n] = call[c].obj /\ resources'[n].obj = call[c].obj
        BY <3>4, <4>1, <4>2 DEF TakesBack, Registered, Fresh
      <4> QED BY <1>1, <4>3
    <3>5. ASSUME MovesRow(c) PROVE FALSE
      <4>1. call[c].name = n
        BY <3>1 DEF Answers
      <4>2. call[c].to \in Names /\ call[c].to # n
        BY <3>5, <4>1, MovedRows
      <4>3. rows' = Move(rows, n, call[c].to, 0)
        BY <3>5, <4>1 DEF MovesRow
      <4> QED BY <1>r, <4>2, <4>3, MoveFacts
    <3> QED BY <1>1, <3>1, <3>2, <3>3, <3>4, <3>5, AnswersAfter
  <2>2. CASE rows[n] = resources[n].obj
    <3>0. resources'[n].obj # resources[n].obj /\ resources[n].obj # 0
      BY <1>1, <2>2
    <3>1. ASSUME NEW c \in Calls, NEW h, NEW k \in Names, NEW m \in Names, Renames(c, h, k, m)
          PROVE  Answers(c, n)'
      <4>1. n # m
        BY <2>2, <3>0, <3>1 DEF Renames, Occupied, Registered
      <4>2. n = k
        BY <3>0, <3>1, <4>1 DEF Renames, Same, Placed
      <4> QED BY <1>1, <2>0, <2>2, <3>1, <4>2 DEF Renames, Begins, Answers
    <3>2. ASSUME NEW c \in Calls, Registers(c) PROVE FALSE
      <4>1. ~ Registered(call[c].name)
        BY <3>2 DEF Registers, Sound, NamesApart, Naming, CreateSteps
      <4> QED BY <3>0, <3>2, <4>1 DEF Registers, Registered, SteadyBut, Same, Placed
    <3>3. ASSUME NEW c \in Calls, TakesBack(c) PROVE FALSE
      <4>1. Registered(call[c].to)
        BY <3>0, <3>3 DEF TakesBack, Steady, Same, Placed
      <4>2. call[c].at # "undone" /\ ~ Occupied(call[c].name) /\ rows[call[c].name] = call[c].obj
        BY <3>3, <4>1 DEF TakesBack
      <4>3. n = call[c].to
        BY <3>0, <3>3, <4>1, <4>2 DEF TakesBack, Same, Placed, Occupied, Registered
      <4>4. resources[n].obj = call[c].obj
        BY <3>3, <4>2, <4>3, Workers DEF Sound, HeldApart
      <4> QED BY <2>2, <3>0, <3>3, <4>2, <4>3, <4>4, MovedRows DEF Identity, RowsOnce
    <3>4. ASSUME NEW c \in Actors, Removes(c) PROVE FALSE
      <4>1. n = call[c].name
        BY <3>0, <3>4 DEF Removes, SteadyBut, Same, Placed
      <4>2. resources[n].obj = call[c].obj
        BY <3>4, <4>1, Workers DEF Sound, HeldApart
      <4>3. objects[call[c].obj] = "dead"
        BY <3>4 DEF Removes, Sound, LiveKnown
      <4> QED BY <2>0, <2>2, <4>2, <4>3
    <3> QED BY <3>0, <3>1, <3>2, <3>3, <3>4, RegistryChange
  <2> QED BY <2>1, <2>2
<1>2. CASE rows'[n] # rows[n]
  <2>1. ASSUME NEW c \in Calls, Saves(c) PROVE Answers(c, n)'
    BY <1>2, <1>r, <2>1, Shapes DEF Saves, Remembers, Answers, WellShaped, CreateSteps
  <2>2. ASSUME NEW c \in Actors, Discards(c) \/ Deletes(c) PROVE FALSE
    BY <1>2, <1>r, <2>2 DEF Discards, Deletes
  <2>3. ASSUME NEW c \in Calls, MovesRow(c) PROVE FALSE
    <3>1. call[c].name \in Names /\ call[c].to \in Names /\ call[c].name # call[c].to /\ Spot(c) = call[c].to /\ Holding(c)
      BY <2>3, MovedRows, Workers
    <3>2. n = call[c].to /\ rows'[n] = rows[call[c].name]
      BY <1>2, <1>r, <2>3, <3>1, MoveFacts DEF MovesRow
    <3>3. resources'[n].obj = call[c].obj
      BY <2>3, <3>1, <3>2 DEF MovesRow, Steady, Same, Placed, Sound, HeldApart
    <3> QED BY <2>3, <3>2, <3>3 DEF MovesRow
  <2>4. ASSUME NEW c \in Calls, MovesBack(c) PROVE Answers(c, n)'
    <3>1. call[c].name \in Names /\ call[c].to \in Names /\ call[c].name # call[c].to
      BY <2>4, MovedRows
    <3>2. n = call[c].name
      BY <1>2, <1>r, <2>4, <3>1, MoveFacts DEF MovesBack
    <3> QED BY <2>4, <3>2 DEF MovesBack, Remembers, Answers
  <2> QED BY <1>2, <2>1, <2>2, <2>3, <2>4, RowsChange
<1> QED BY <1>1, <1>2

\* What lives after a step lived before, or was just made.
LEMMA LiveBefore ==
  ASSUME Typed, Shape, Effect, NEW o \in Calls, objects'[o] = "live"
  PROVE  Makes(o) \/ objects[o] = "live"
<1> USE Constants
<1>1. CASE objects'[o] = objects[o]
  BY <1>1
<1>2. ASSUME NEW c \in Calls, Makes(c) \/ Loses(c) \/ Discards(c) PROVE Makes(o) \/ objects[o] = "live"
  BY <1>2, Shapes DEF Makes, Loses, Discards
<1>3. ASSUME NEW c \in Actors, Cleans(c) PROVE objects[o] = "live"
  BY <1>3, Shapes DEF Cleans
<1>4. ASSUME NEW n \in Names, EndsEntry(n) PROVE objects[o] = "live"
  BY <1>4, Shapes DEF EndsEntry
<1>5. Restarts => objects[o] = "live"
  BY DEF Restarts
<1> QED BY <1>1, <1>2, <1>3, <1>4, <1>5, ObjectsChange

LEMMA LiveKnownNext ==
  ASSUME Typed, Shape, Identity, Sound, Effect, ~ spoiled', ~ Restarts
  PROVE  LiveKnown'
<1> USE Constants
<1> DEFINE Making(o) == call[o].at \in {"save", "savelife", "register", "discard"}
           Dying(c)  == call[c].at \in {"delete", "remove"}
<1>1. ASSUME NEW c \in Actors, Dying(c)' PROVE objects'[call'[c].obj] = "dead"
  <2>1. CASE Dying(c) /\ call'[c].obj = call[c].obj
    <3>1. objects[call[c].obj] = "dead" /\ call[c].obj \in Calls
      BY <2>1, Shapes DEF Sound, LiveKnown, WellShaped, Lone
    <3> QED BY <2>1, <3>1, DeadStays
  <2>2. CASE Cleans(c)
    <3>1. Remembers(c) /\ call[c].obj \in Calls
      BY <1>1, <2>2, Workers DEF Cleans, Forgets
    <3> QED BY <2>2, <3>1, Shapes DEF Cleans, Remembers
  <2>3. (Dying(c) /\ call'[c].obj = call[c].obj) \/ Cleans(c)
    <3> SUFFICES ASSUME ~ Cleans(c) PROVE Dying(c) /\ call'[c].obj = call[c].obj
      OBVIOUS
    <3> USE DEF Others
    <3>1. ASSUME NEW d \in Actors, NEW h, NEW k, NEW m, NEW step,
                 Reserves(d, h, k) \/ Leased(d, h, k) \/ Doomed(d, h, k) \/ Prolongs(d, h, k, step) \/ Renames(d, h, k, m)
          PROVE  Dying(c) /\ call'[c].obj = call[c].obj
      BY <1>1, <3>1 DEF Reserves, Leased, Doomed, Prolongs, Renames, Begins
    <3>2. ASSUME NEW d \in Actors, Goes(d) PROVE Dying(c) /\ call'[c].obj = call[c].obj
      BY <1>1, <3>2 DEF Goes, Follows, Remembers
    <3>3. ASSUME NEW d \in Actors, Ends(d) \/ Removes(d) \/ Restores(d) \/ Deletes(d)
          PROVE  Dying(c) /\ call'[c].obj = call[c].obj
      BY <1>1, <3>3 DEF Ends, Removes, Restores, Deletes, Forgets, Remembers
    <3>4. ASSUME NEW d \in Actors, Cleans(d) PROVE Dying(c) /\ call'[c].obj = call[c].obj
      BY <1>1, <3>4 DEF Cleans
    <3>5. ASSUME NEW d \in Calls, Makes(d) \/ Loses(d) \/ Saves(d) \/ Discards(d) \/ Registers(d) \/ Releases(d)
          PROVE  Dying(c) /\ call'[c].obj = call[c].obj
      BY <1>1, <3>5 DEF Makes, Loses, Saves, Discards, Registers, Releases, Forgets, Remembers
    <3>6. ASSUME NEW d \in Calls, MovesRow(d) \/ MovesBack(d) \/ TakesBack(d) \/ Renamed(d)
          PROVE  Dying(c) /\ call'[c].obj = call[c].obj
      BY <1>1, <3>6 DEF MovesRow, MovesBack, TakesBack, Renamed, Forgets, Remembers
    <3>7. ASSUME Stays \/ Closes \/ Marks \/ Stops \/ \E m \in Names : EndsEntry(m)
          PROVE  Dying(c) /\ call'[c].obj = call[c].obj
      BY <1>1, <3>7 DEF Stays, Closes, Marks, Stops, EndsEntry
    <3> HIDE DEF Dying
    <3> QED BY <3>1, <3>2, <3>3, <3>4, <3>5, <3>6, <3>7 DEF Effect, Opens
  <2> QED BY <2>1, <2>2, <2>3
<1>2. ASSUME NEW o \in Calls, objects'[o] = "live"
      PROVE  (\E n \in Names : resources'[n].obj = o) \/ Making(o)'
  <2>1. CASE Makes(o)
    BY <2>1 DEF Makes
  <2>2. CASE objects[o] = "live" /\ Making(o)
    <3> SUFFICES ASSUME ~ Making(o)' PROVE \E n \in Names : resources'[n].obj = o
      OBVIOUS
    <3> USE <2>2 DEF Others
    <3>1. ASSUME NEW d \in Actors, NEW h, NEW k, NEW m, NEW step,
                 Reserves(d, h, k) \/ Leased(d, h, k) \/ Doomed(d, h, k) \/ Prolongs(d, h, k, step) \/ Renames(d, h, k, m)
          PROVE  Making(o)'
      BY <3>1 DEF Reserves, Leased, Doomed, Prolongs, Renames, Begins
    <3>2. ASSUME NEW d \in Actors, Goes(d) PROVE Making(o)'
      BY <3>2 DEF Goes, Follows
    <3>3. ASSUME NEW d \in Actors, Ends(d) \/ Removes(d) \/ Restores(d) \/ Deletes(d) \/ Cleans(d) PROVE Making(o)'
      BY <3>3 DEF Ends, Removes, Restores, Deletes, Cleans
    <3>4. ASSUME NEW d \in Calls, Makes(d) \/ Loses(d) \/ Saves(d) \/ Releases(d) PROVE Making(o)'
      BY <3>4 DEF Makes, Loses, Saves, Releases
    <3>5. ASSUME NEW d \in Calls, Discards(d) PROVE Making(o)'
      <4>1. objects'[d] = "dead"
        BY <3>5, Shapes DEF Discards
      <4> QED BY <1>2, <3>5, <4>1 DEF Discards
    <3>6. ASSUME NEW d \in Calls, Registers(d) PROVE Making(o)' \/ \E n \in Names : resources'[n].obj = o
      <4>1. call[d].name \in Names
        BY <3>6, Shapes DEF Registers, WellShaped, Lone
      <4> QED BY <3>6, <4>1 DEF Registers, Fresh
    <3>7. ASSUME NEW d \in Calls, MovesRow(d) \/ MovesBack(d) \/ TakesBack(d) \/ Renamed(d) PROVE Making(o)'
      BY <3>7 DEF MovesRow, MovesBack, TakesBack, Renamed
    <3>8. ASSUME Stays \/ Closes \/ Marks \/ Stops \/ \E m \in Names : EndsEntry(m) PROVE Making(o)'
      BY <3>8 DEF Stays, Closes, Marks, Stops, EndsEntry
    <3> HIDE DEF Making
    <3> QED BY <3>1, <3>2, <3>3, <3>4, <3>5, <3>6, <3>7, <3>8 DEF Effect, Opens
  <2>3. ASSUME objects[o] = "live", NEW n \in Names, resources[n].obj = o
        PROVE  \E k \in Names : resources'[k].obj = o
    <3>1. CASE resources'[n].obj = resources[n].obj
      BY <2>3, <3>1
    <3>2. CASE resources'[n].obj # resources[n].obj
      <4>1. ASSUME NEW c \in Calls, NEW h, NEW k \in Names, NEW m \in Names, Renames(c, h, k, m)
            PROVE  \E j \in Names : resources'[j].obj = o
        <5>1. n # m
          BY <2>3, <4>1 DEF Renames, Occupied, Registered
        <5>2. n = k
          BY <3>2, <4>1, <5>1 DEF Renames, Same, Placed
        <5> QED BY <2>3, <4>1, <5>2 DEF Renames, Taken
      <4>2. ASSUME NEW c \in Calls, Registers(c) PROVE FALSE
        <5>1. ~ Registered(call[c].name)
          BY <4>2 DEF Registers, Sound, NamesApart, Naming, CreateSteps
        <5> QED BY <2>3, <3>2, <4>2, <5>1 DEF Registers, Registered, SteadyBut, Same, Placed
      <4>3. ASSUME NEW c \in Calls, TakesBack(c) PROVE \E j \in Names : resources'[j].obj = o
        <5>1. Registered(call[c].to)
          BY <3>2, <4>3 DEF TakesBack, Steady, Same, Placed
        <5>2. ~ Registered(call[c].name) /\ call[c].name \in Names
          BY <4>3, <5>1, MovedRows DEF TakesBack, Occupied
        <5>3. n = call[c].to
          BY <2>3, <3>2, <4>3, <5>1, <5>2 DEF TakesBack, Same, Placed, Registered
        <5> QED BY <2>3, <4>3, <5>1, <5>2, <5>3 DEF TakesBack, Fresh
      <4>4. ASSUME NEW c \in Actors, Removes(c) PROVE FALSE
        <5>1. n = call[c].name
          BY <3>2, <4>4 DEF Removes, SteadyBut, Same, Placed
        <5>2. resources[n].obj = call[c].obj
          BY <4>4, <5>1, Workers DEF Sound, HeldApart
        <5> QED BY <2>3, <4>4, <5>2 DEF Removes, Sound, LiveKnown
      <4> QED BY <3>2, <4>1, <4>2, <4>3, <4>4, RegistryChange
    <3> QED BY <3>1, <3>2
  <2>4. Makes(o) \/ objects[o] = "live"
    BY <1>2, LiveBefore
  <2> QED BY <2>1, <2>2, <2>3, <2>4 DEF Sound, LiveKnown
<1> QED BY <1>1, <1>2 DEF LiveKnown

SoundUnlessSpoiled == ~ spoiled => Sound

LEMMA SoundNext == Typed /\ Shape /\ Identity /\ SoundUnlessSpoiled /\ [Next]_vars => SoundUnlessSpoiled'
<1> SUFFICES ASSUME Typed, Shape, Identity, SoundUnlessSpoiled, [Next]_vars, ~ spoiled' PROVE Sound'
  BY DEF SoundUnlessSpoiled
<1>1. Effect
  BY EffectNext
<1>2. CASE Restarts
  BY <1>2, SoundRestart
<1>3. CASE ~ Restarts
  <2>1. Sound
    BY <1>1, <1>3, UnspoiledBefore DEF SoundUnlessSpoiled
  <2> QED BY <1>1, <1>3, <2>1, NamesApartNext, HeldApartNext, RowsFollowNext, StraysAnsweredNext, LiveKnownNext DEF Sound
<1> QED BY <1>2, <1>3

(***************************************************************************)
(* The uses of a resource, one number per handle, and their sum: the sum   *)
(* is the number of bars of the chart, so that it changes with one part.   *)
(***************************************************************************)
Bars(f, U) == {p \in U \X Nat : p[2] \in 1..f[p[1]]}

LEMMA BarsOfOne ==
  ASSUME NEW S, NEW f \in [S -> Nat], NEW x \in S
  PROVE  IsFiniteSet(Bars(f, {x})) /\ Cardinality(Bars(f, {x})) = f[x]
<1> DEFINE b == [k \in 1..f[x] |-> <<x, k>>]
<1>1. f[x] \in Nat
  OBVIOUS
<1>2. b \in [1..f[x] -> Bars(f, {x})]
  BY <1>1 DEF Bars
<1>3. \A k, m \in 1..f[x] : b[k] = b[m] => k = m
  OBVIOUS
<1>4. \A p \in Bars(f, {x}) : \E k \in 1..f[x] : b[k] = p
  <2> TAKE p \in Bars(f, {x})
  <2>1. p \in {x} \X Nat /\ p[2] \in 1..f[p[1]]
    BY DEF Bars
  <2>2. p[1] = x /\ p = <<x, p[2]>>
    BY <2>1
  <2> QED BY <2>1, <2>2
<1> HIDE DEF b
<1>5. ExistsBijection(1..f[x], Bars(f, {x}))
  BY <1>2, <1>3, <1>4 DEF ExistsBijection, Bijection, Injection, Surjection, IsInjective
<1> QED BY <1>1, <1>5, FS_CountingElements, FS_NatBijection

LEMMA BarsStep ==
  ASSUME NEW S, NEW f \in [S -> Nat], NEW U \in SUBSET S, NEW x \in U, IsFiniteSet(Bars(f, U \ {x}))
  PROVE  IsFiniteSet(Bars(f, U)) /\ Cardinality(Bars(f, U)) = f[x] + Cardinality(Bars(f, U \ {x}))
<1>1. Bars(f, U) = Bars(f, {x}) \cup Bars(f, U \ {x})
  BY DEF Bars
<1>2. Bars(f, {x}) \cap Bars(f, U \ {x}) = {}
  BY DEF Bars
<1>3. IsFiniteSet(Bars(f, {x})) /\ Cardinality(Bars(f, {x})) = f[x] /\ f[x] \in Nat
  BY BarsOfOne
<1>4. Cardinality(Bars(f, U \ {x})) \in Nat
  BY FS_CardinalityType
<1> HIDE DEF Bars
<1>5. ASSUME NEW A, NEW B, IsFiniteSet(A), IsFiniteSet(B), A \cap B = {}
      PROVE  IsFiniteSet(A \cup B) /\ Cardinality(A \cup B) = Cardinality(A) + Cardinality(B) - Cardinality({})
  <2>1. /\ IsFiniteSet(A \cup B)
        /\ Cardinality(A \cup B) = Cardinality(A) + Cardinality(B) - Cardinality(A \cap B)
    BY ONLY <1>5, FS_Union
  <2> QED BY <2>1, <1>5
<1>6. Cardinality({}) = 0
  BY FS_EmptySet
<1> DEFINE A == Bars(f, {x})
           B == Bars(f, U \ {x})
<1>7. IsFiniteSet(A) /\ IsFiniteSet(B) /\ A \cap B = {} /\ Cardinality(A) = f[x] /\ Cardinality(B) \in Nat
  BY <1>2, <1>3, <1>4
<1> HIDE DEF A, B
<1>8. IsFiniteSet(A \cup B) /\ Cardinality(A \cup B) = Cardinality(A) + Cardinality(B) - Cardinality({})
  BY ONLY <1>5, <1>7
<1>9. Cardinality(A \cup B) = f[x] + Cardinality(B)
  BY <1>3, <1>6, <1>7, <1>8
<1> QED BY <1>1, <1>8, <1>9 DEF A, B

LEMMA BarsFinite ==
  ASSUME NEW S, IsFiniteSet(S), NEW f \in [S -> Nat], NEW U \in SUBSET S
  PROVE  IsFiniteSet(Bars(f, U))
<1> DEFINE T == {s \in SUBSET S : ~ IsFiniteSet(Bars(f, s))}
<1>1. IsWellFoundedOn(StrictSubsetOrdering(S), SUBSET S)
  BY FS_StrictSubsetOrderingWellFounded, FS_FiniteSubsetsOfFinite
<1> SUFFICES ASSUME T # {} PROVE FALSE
  OBVIOUS
<1>2. PICK s \in T : \A y \in T : <<y, s>> \notin StrictSubsetOrdering(S)
  BY <1>1, WFMin
<1>3. CASE s = {}
  BY <1>3, FS_EmptySet DEF Bars
<1>4. CASE s # {}
  <2>1. PICK x \in s : TRUE
    BY <1>4
  <2>2. <<s \ {x}, s>> \in StrictSubsetOrdering(S)
    BY <2>1 DEF StrictSubsetOrdering
  <2>3. IsFiniteSet(Bars(f, s \ {x}))
    BY <1>2, <2>2
  <2> QED BY <2>1, <2>3, BarsStep
<1> QED BY <1>3, <1>4

LEMMA SumIsBars ==
  ASSUME NEW S, IsFiniteSet(S), NEW f \in [S -> Nat]
  PROVE  SumFunction(f) = Cardinality(Bars(f, S))
<1> DEFINE Pick(s) == CHOOSE x \in s : TRUE
           Rec(g) == [s \in SUBSET S |-> IF s = {} THEN 0 ELSE f[Pick(s)] + g[s \ {Pick(s)}]]
           iter == CHOOSE g : g = Rec(g)
           count == [s \in SUBSET S |-> Cardinality(Bars(f, s))]
<1>1. SumFunction(f) = iter[S]
  BY DEF SumFunction, SumFunctionOnSet, FoldFunctionOnSet, MapThenFoldSet
<1>2. \A s \in SUBSET S : s # {} => Pick(s) \in s
  OBVIOUS
<1> HIDE DEF Pick
<1>3. \A s \in SUBSET S : s # {} => Cardinality(Bars(f, s)) = f[Pick(s)] + Cardinality(Bars(f, s \ {Pick(s)}))
  BY <1>2, BarsStep, BarsFinite
<1>4. Cardinality(Bars(f, {})) = 0
  BY FS_EmptySet DEF Bars
<1>5. count = Rec(count)
  BY <1>2, <1>3, <1>4
<1>6. iter = Rec(iter)
  BY <1>5
<1> HIDE DEF iter
<1> DEFINE T == {s \in SUBSET S : iter[s] # Cardinality(Bars(f, s))}
<1>7. IsWellFoundedOn(StrictSubsetOrdering(S), SUBSET S)
  BY FS_StrictSubsetOrderingWellFounded, FS_FiniteSubsetsOfFinite
<1>8. ASSUME T # {} PROVE FALSE
  <2>1. PICK s \in T : \A y \in T : <<y, s>> \notin StrictSubsetOrdering(S)
    BY <1>7, <1>8, WFMin
  <2>2. s # {}
    BY <2>1, <1>4, <1>6
  <2>3. <<s \ {Pick(s)}, s>> \in StrictSubsetOrdering(S)
    BY <1>2, <2>2 DEF StrictSubsetOrdering
  <2>4. s \ {Pick(s)} \notin T /\ s \ {Pick(s)} \in SUBSET S
    BY <2>1, <2>3
  <2>5. iter[s \ {Pick(s)}] = Cardinality(Bars(f, s \ {Pick(s)}))
    BY <2>4
  <2>6. iter[s] = f[Pick(s)] + iter[s \ {Pick(s)}]
    BY <1>6, <2>2
  <2> QED BY <2>1, <2>2, <2>5, <2>6, <1>3
<1> QED BY <1>1, <1>8

\* What the rest of a sum is when one part of it changes.
LEMMA SumOfChange ==
  ASSUME NEW S, IsFiniteSet(S), NEW f \in [S -> Nat], NEW g \in [S -> Nat], NEW x \in S, \A y \in S \ {x} : f[y] = g[y]
  PROVE  /\ SumFunction(f) \in Nat /\ SumFunction(g) \in Nat
         /\ f[x] <= SumFunction(f)
         /\ SumFunction(g) + f[x] = SumFunction(f) + g[x]
<1>1. Bars(f, S \ {x}) = Bars(g, S \ {x})
  BY DEF Bars
<1>2. IsFiniteSet(Bars(f, S \ {x})) /\ IsFiniteSet(Bars(g, S \ {x}))
  BY BarsFinite
<1>3. /\ Cardinality(Bars(f, S)) = f[x] + Cardinality(Bars(f, S \ {x}))
      /\ Cardinality(Bars(g, S)) = g[x] + Cardinality(Bars(g, S \ {x}))
  BY <1>2, BarsStep
<1>4. Cardinality(Bars(f, S \ {x})) \in Nat
  BY <1>2, FS_CardinalityType
<1>5. SumFunction(f) = Cardinality(Bars(f, S)) /\ SumFunction(g) = Cardinality(Bars(g, S))
  BY SumIsBars
<1>6. f[x] \in Nat /\ g[x] \in Nat
  OBVIOUS
<1> HIDE DEF Bars
<1> QED BY <1>1, <1>3, <1>4, <1>5, <1>6

LEMMA SumOfNothing ==
  ASSUME NEW S, IsFiniteSet(S), NEW f \in [S -> Nat], \A y \in S : f[y] = 0
  PROVE  SumFunction(f) = 0
<1>1. Bars(f, S) = {}
  BY DEF Bars
<1> QED BY <1>1, SumIsBars, FS_EmptySet

LEMMA SumType ==
  ASSUME NEW S, IsFiniteSet(S), NEW f \in [S -> Nat]
  PROVE  SumFunction(f) \in Nat
BY SumIsBars, BarsFinite, FS_CardinalityType

LEMMA CardinalityFacts ==
  ASSUME NEW A, NEW B, IsFiniteSet(B), A \subseteq B
  PROVE  IsFiniteSet(A) /\ Cardinality(A) \in Nat /\ Cardinality(B) \in Nat /\ Cardinality(A) <= Cardinality(B)
BY FS_Subset, FS_CardinalityType

LEMMA CardinalityOfFewer ==
  ASSUME NEW A, NEW B, IsFiniteSet(B), NEW c \in B, A \subseteq B \ {c}
  PROVE  Cardinality(A) \in Nat /\ Cardinality(B) \in Nat /\ Cardinality(A) + 1 <= Cardinality(B)
<1>1. IsFiniteSet(B \ {c}) /\ Cardinality(B \ {c}) = Cardinality(B) - 1
  BY FS_RemoveElement
<1>2. Cardinality(A) \in Nat /\ Cardinality(A) <= Cardinality(B \ {c})
  BY <1>1, CardinalityFacts
<1>3. Cardinality(B) \in Nat
  BY FS_CardinalityType
<1> QED BY <1>1, <1>2, <1>3

LEMMA CardinalityOfMore ==
  ASSUME NEW A, NEW B, IsFiniteSet(B), NEW c, A \subseteq B \cup {c}
  PROVE  Cardinality(A) \in Nat /\ Cardinality(B) \in Nat /\ Cardinality(A) <= Cardinality(B) + 1
<1>1. IsFiniteSet(B \cup {c}) /\ (Cardinality(B \cup {c}) = Cardinality(B) \/ Cardinality(B \cup {c}) = Cardinality(B) + 1)
  BY FS_AddElement
<1>2. Cardinality(A) \in Nat /\ Cardinality(A) <= Cardinality(B \cup {c})
  BY <1>1, CardinalityFacts
<1>3. Cardinality(B) \in Nat
  BY FS_CardinalityType
<1> QED BY <1>1, <1>2, <1>3

(***************************************************************************)
(* Leases, while no renaming has met another call at its names and the     *)
(* manager runs: the resource of a lease stays where it is and its uses    *)
(* count it, so that a destruction awaits the handles of all its leases;   *)
(* and an object is only destroyed before its resource can be leased when  *)
(* its row says so.                                                        *)
(***************************************************************************)
Leases(n, h) == {c \in Calls : Leasing(c) /\ call[c].name = n /\ call[c].handle = h}

LeasesStay    == \A c \in Calls : Leasing(c) => resources[call[c].name].obj = call[c].obj
LeasesCounted == \A n \in Names : Free(n) =>
  /\ \A h \in Handles : Cardinality(Leases(n, h)) <= resources[n].users[h]
  /\ SumFunction(resources[n].users) + Cardinality(Leases(n, NoHandle)) <= resources[n].active
LeasesAwaited == \A c \in Calls, d \in Actors : Leasing(c) /\ Holding(d) /\ call[c].name = Spot(d) =>
  call[d].at = "await" /\ call[c].handle \in call[d].await
LeasesWritten == \A c \in Calls : Leasing(c) /\ call[c].obj \in Persistent => rows[call[c].name] = call[c].obj
DeadPersist ==
  /\ \A n \in Names : Free(n) /\ objects[resources[n].obj] = "dead" => resources[n].obj \in Persistent
  /\ \A c \in Calls : Leasing(c) /\ objects[call[c].obj] = "dead" => call[c].obj \in Persistent
  /\ \A c \in Actors : Holding(c) /\ call[c].at \notin {"delete", "remove"} /\ objects[call[c].obj] = "dead"
                       => call[c].obj \in Persistent

Lent == LeasesStay /\ LeasesCounted /\ LeasesAwaited /\ LeasesWritten /\ DeadPersist

Runs == ~ spoiled /\ shut \in {"no", "gates"}

LentWhileItRuns == Runs => Lent

LEMMA LentInit == Init => Lent
<1> SUFFICES ASSUME Init PROVE Lent
  OBVIOUS
<1>1. \A c \in Actors : call[c].at = "idle"
  BY DEF Init, Idle
<1>2. \A n \in Names : ~ Free(n)
  BY EntryTypes DEF Init, Free
<1>3. \A c \in Actors : ~ Leasing(c) /\ ~ Holding(c)
  BY <1>1 DEF Leasing, LeaseSteps, Holding, Held
<1> QED BY <1>2, <1>3, Constants DEF Lent, LeasesStay, LeasesCounted, LeasesAwaited, LeasesWritten, DeadPersist

LEMMA LentRestart == Typed /\ Shape /\ Identity /\ Restarts => Lent'
<1> SUFFICES ASSUME Typed, Shape, Identity, Restarts PROVE Lent'
  OBVIOUS
<1>1. \A c \in Actors : ~ Leasing(c)' /\ ~ Holding(c)'
  BY DEF Restarts, Leasing, LeaseSteps, Holding, Held
<1>2. \A n \in Names : Free(n)' => /\ resources'[n].users = NoUsers /\ resources'[n].active = 0
                                   /\ resources'[n].obj \in Persistent
  BY DEF Free, Restarts, Emptied, Fresh, Identity, RowsPersist
<1> USE Constants
<1>3. ASSUME NEW n, NEW h PROVE Cardinality(Leases(n, h))' = 0
  <2>1. Leases(n, h)' = {}
    BY <1>1 DEF Leases
  <2> QED BY <2>1, FS_EmptySet
<1>4. SumFunction(NoUsers) = 0 /\ \A h \in Handles : NoUsers[h] = 0
  BY SumOfNothing DEF NoUsers
<1>5. LeasesCounted'
  <2> SUFFICES ASSUME NEW n \in Names, Free(n)'
               PROVE  /\ \A h \in Handles : Cardinality(Leases(n, h))' <= resources'[n].users[h]
                      /\ SumFunction(resources'[n].users) + Cardinality(Leases(n, NoHandle))' <= resources'[n].active
    BY DEF LeasesCounted
  <2>1. resources'[n].users = NoUsers /\ resources'[n].active = 0
    BY <1>2
  <2> QED BY <1>3, <1>4, <2>1
<1> QED BY <1>1, <1>2, <1>5 DEF Lent, LeasesStay, LeasesAwaited, LeasesWritten, DeadPersist

\* What runs after a step ran before, unless the process restarts.
LEMMA RunsBefore ==
  ASSUME Effect, Runs', ~ Restarts
  PROVE  Runs /\ ~ Marks /\ ~ Stops /\ ~ \E n \in Names : EndsEntry(n)
<1>0. ~ spoiled /\ ~ spoiled' /\ shut' \in {"no", "gates"}
  BY UnspoiledBefore DEF Runs
<1> USE DEF Quiet, Outside, Manager
<1>1. ASSUME NEW c, NEW h, NEW n, NEW m, NEW step,
             Reserves(c, h, n) \/ Leased(c, h, n) \/ Doomed(c, h, n) \/ Renames(c, h, n, m) \/ Prolongs(c, h, n, step)
      PROVE  shut' = shut
  BY <1>1 DEF Reserves, Leased, Doomed, Renames, Prolongs
<1>2. ASSUME NEW c,
             \/ Goes(c) \/ Ends(c) \/ Cleans(c) \/ Deletes(c) \/ Removes(c) \/ Restores(c) \/ Makes(c) \/ Loses(c)
             \/ Saves(c) \/ Discards(c) \/ Registers(c) \/ Releases(c) \/ MovesRow(c) \/ MovesBack(c)
             \/ TakesBack(c) \/ Renamed(c)
      PROVE  shut' = shut
  BY <1>2 DEF Goes, Ends, Cleans, Deletes, Removes, Restores, Makes, Loses, Saves, Discards, Registers, Releases,
              MovesRow, MovesBack, TakesBack, Renamed
<1>3. Stays => shut' = shut
  BY DEF Stays
<1>4. Closes => shut = "no"
  BY DEF Closes
<1>5. ~ Marks /\ ~ Stops /\ ~ \E n \in Names : EndsEntry(n)
  BY <1>0 DEF Marks, Stops, EndsEntry
<1>6. shut \in {"no", "gates"}
  BY <1>0, <1>1, <1>2, <1>3, <1>4, <1>5 DEF Effect, Opens
<1> QED BY <1>0, <1>5, <1>6 DEF Runs

\* Who leases after a step leased the same before, or begins to.
LEMMA LeasingBefore ==
  ASSUME Typed, Shape, Effect, NEW c \in Calls, Leasing(c)', ~ Restarts
  PROVE  \/ /\ Leasing(c) /\ call'[c].name = call[c].name /\ call'[c].obj = call[c].obj
            /\ call'[c].handle = call[c].handle /\ ~ Releases(c)
         \/ \E h \in Handles \cup {NoHandle}, n \in Names : Leased(c, h, n)
<1> DEFINE Before == /\ Leasing(c) /\ call'[c].name = call[c].name /\ call'[c].obj = call[c].obj
                     /\ call'[c].handle = call[c].handle
<1> USE Constants DEF Leasing, LeaseSteps, Others
<1>1. ASSUME NEW d \in Actors, NEW h, NEW n, NEW m, NEW step,
             Reserves(d, h, n) \/ Doomed(d, h, n) \/ Renames(d, h, n, m) \/ Prolongs(d, h, n, step)
      PROVE  Before
  BY <1>1 DEF Reserves, Doomed, Renames, Prolongs, Begins
<1>2. ASSUME NEW d \in Calls, NEW h \in Handles \cup {NoHandle}, NEW n \in Names, Leased(d, h, n)
      PROVE  d = c \/ Before
  BY <1>2 DEF Leased, Begins
<1>3. ASSUME NEW d \in Actors, Goes(d) PROVE Before
  BY <1>3 DEF Goes, Follows, Remembers
<1>4. ASSUME NEW d \in Actors, Ends(d) \/ Removes(d) \/ Restores(d) \/ Cleans(d) \/ Deletes(d) PROVE Before
  BY <1>4 DEF Ends, Removes, Restores, Cleans, Deletes, Forgets
<1>5. ASSUME NEW d \in Calls, Makes(d) \/ Loses(d) \/ Saves(d) \/ Discards(d) \/ Registers(d) PROVE Before
  BY <1>5 DEF Makes, Loses, Saves, Discards, Registers
<1>6. ASSUME NEW d \in Calls, Releases(d) \/ MovesRow(d) \/ MovesBack(d) \/ TakesBack(d) \/ Renamed(d) PROVE Before
  BY <1>6 DEF Releases, MovesRow, MovesBack, TakesBack, Renamed, Forgets
<1>7. ASSUME Stays \/ Closes \/ Marks \/ Stops \/ \E n \in Names : EndsEntry(n) PROVE Before
  BY <1>7 DEF Stays, Closes, Marks, Stops, EndsEntry
<1>8. ~ Releases(c)
  BY DEF Releases, Forgets
<1> HIDE DEF Before
<1>9. Before \/ \E h \in Handles \cup {NoHandle}, n \in Names : Leased(c, h, n)
  BY <1>1, <1>2, <1>3, <1>4, <1>5, <1>6, <1>7 DEF Effect, Opens
<1> QED BY <1>8, <1>9 DEF Before

\* What is leased is in the registry, is counted, and is only held by a destruction that waits.
LEMMA LeaseFacts ==
  ASSUME Typed, Shape, Lent, NEW c \in Calls, Leasing(c)
  PROVE  LET n == call[c].name IN
         /\ n \in Names /\ Registered(n) /\ resources[n].obj = call[c].obj /\ call[c].obj \in Calls
         /\ Free(n) => resources[n].active # 0
         /\ Free(n) /\ call[c].handle \in Handles => resources[n].users[call[c].handle] # 0
         /\ \A d \in Actors : Holding(d) /\ Spot(d) = n => call[d].at = "await" /\ call[c].handle \in call[d].await
<1> USE Constants
<1> DEFINE n == call[c].name
           h == call[c].handle
<1>1. n \in Names /\ Registered(n) /\ resources[n].obj = call[c].obj /\ call[c].obj \in Calls
  BY Shapes DEF Lent, LeasesStay, Leasing, LeaseSteps, WellShaped, Lone, Registered
<1>2. h \in Handles \cup {NoHandle} /\ resources[n].active \in Nat /\ resources[n].users \in [Handles -> Nat]
  BY <1>1 DEF Typed, CallRecord, Entry, Users
<1>3. c \in Leases(n, h) /\ \A k : IsFiniteSet(Leases(n, k))
  BY CardinalityFacts DEF Leases
<1>4. Cardinality(Leases(n, h)) # 0 /\ \A k : Cardinality(Leases(n, k)) \in Nat
  BY <1>3, FS_EmptySet, FS_CardinalityType
<1>5. ASSUME Free(n) PROVE resources[n].active # 0 /\ (h \in Handles => resources[n].users[h] # 0)
  <2> DEFINE u == resources[n].users
  <2>1. /\ \A k \in Handles : Cardinality(Leases(n, k)) <= u[k]
        /\ SumFunction(u) + Cardinality(Leases(n, NoHandle)) <= resources[n].active
    BY <1>1, <1>5 DEF Lent, LeasesCounted
  <2>2. SumFunction(u) \in Nat /\ \A k \in Handles : u[k] <= SumFunction(u)
    BY <1>2, SumType, SumOfChange
  <2> HIDE DEF u, h, n
  <2>3. CASE h = NoHandle
    BY <1>2, <1>4, <2>1, <2>2, <2>3
  <2>4. CASE h \in Handles
    <3>1. u[h] \in Nat /\ Cardinality(Leases(n, h)) <= u[h] /\ u[h] <= SumFunction(u)
      BY <1>2, <2>1, <2>2, <2>4 DEF u
    <3>2. u[h] # 0 /\ SumFunction(u) # 0
      BY <1>4, <2>2, <3>1
    <3>3. Cardinality(Leases(n, NoHandle)) \in Nat /\ SumFunction(u) + Cardinality(Leases(n, NoHandle)) <= resources[n].active
      BY <1>4, <2>1
    <3>4. resources[n].active # 0
      BY <1>2, <2>2, <3>2, <3>3
    <3> QED BY <3>2, <3>4 DEF u
  <2> QED BY <1>2, <2>3, <2>4
<1>6. \A d \in Actors : Holding(d) /\ Spot(d) = n => call[d].at = "await" /\ h \in call[d].await
  BY DEF Lent, LeasesAwaited
<1> QED BY <1>1, <1>5, <1>6

LEMMA LeasesStayNext ==
  ASSUME Typed, Shape, Identity, Sound, Lent, Effect, ~ spoiled', ~ Restarts
  PROVE  LeasesStay'
<1> USE Constants
<1> SUFFICES ASSUME NEW c \in Calls, Leasing(c)' PROVE resources'[call'[c].name].obj = call'[c].obj
  BY DEF LeasesStay
<1>1. ASSUME NEW h \in Handles \cup {NoHandle}, NEW n \in Names, Leased(c, h, n)
      PROVE  resources'[call'[c].name].obj = call'[c].obj
  BY <1>1 DEF Leased, Begins, Placed
<1>2. CASE Leasing(c) /\ call'[c].name = call[c].name /\ call'[c].obj = call[c].obj
  <2> DEFINE n == call[c].name
  <2>a. n \in Names /\ Registered(n) /\ resources[n].obj = call[c].obj /\ (Free(n) => resources[n].active # 0)
    BY <1>2, LeaseFacts
  <2>b. \A d \in Actors : Holding(d) /\ Spot(d) = n => call[d].at = "await"
    BY <1>2, LeaseFacts
  <2>1. ASSUME NEW d \in Calls, NEW h, NEW k \in Names, NEW m \in Names, Renames(d, h, k, m)
        PROVE  resources'[n].obj = resources[n].obj
    <3>1. n # k /\ n # m
      BY <2>a, <2>1 DEF Renames, Occupied
    <3> QED BY <2>1, <2>a, <3>1 DEF Renames, Same, Placed
  <2>2. ASSUME NEW d \in Calls, Registers(d)
        PROVE  resources'[n].obj = resources[n].obj
    <3>1. ~ Registered(call[d].name)
      BY <2>2 DEF Registers, Sound, NamesApart, Naming, CreateSteps
    <3> QED BY <2>2, <2>a, <3>1 DEF Registers, SteadyBut, Same, Placed
  <2>3. ASSUME NEW d \in Calls, TakesBack(d)
        PROVE  resources'[n].obj = resources[n].obj
    <3>1. CASE Registered(call[d].to)
      <4>1. ~ Registered(call[d].name) /\ call[d].at # "undone"
        BY <2>3, <3>1 DEF TakesBack, Occupied
      <4>2. n # call[d].to
        <5>1. Holding(d) /\ Spot(d) = call[d].to /\ call[d].at # "await"
          BY <2>3, <4>1, Workers DEF TakesBack
        <5> QED BY <2>b, <5>1
      <4> QED BY <2>3, <2>a, <3>1, <4>1, <4>2 DEF TakesBack, Same, Placed
    <3>2. CASE ~ Registered(call[d].to)
      BY <2>3, <2>a, <3>2 DEF TakesBack, Steady, Same, Placed
    <3> QED BY <3>1, <3>2
  <2>4. ASSUME NEW d \in Actors, Removes(d)
        PROVE  resources'[n].obj = resources[n].obj
    <3>1. Holding(d) /\ Spot(d) = call[d].name /\ call[d].at # "await"
      BY <2>4, Workers DEF Removes
    <3>2. n # call[d].name
      BY <2>b, <3>1
    <3> QED BY <2>4, <2>a, <3>2 DEF Removes, SteadyBut, Same, Placed
  <2>5. resources'[n].obj = resources[n].obj
    BY <2>a, <2>1, <2>2, <2>3, <2>4, RegistryChange
  <2> QED BY <1>2, <2>a, <2>5
<1> QED BY <1>1, <1>2, LeasingBefore

LEMMA LeasesWrittenNext ==
  ASSUME Typed, Shape, Identity, Sound, Lent, Effect, ~ spoiled', ~ Restarts
  PROVE  LeasesWritten'
<1> USE Constants
<1> SUFFICES ASSUME NEW c \in Calls, Leasing(c)', call'[c].obj \in Persistent PROVE rows'[call'[c].name] = call'[c].obj
  BY DEF LeasesWritten
<1>1. ASSUME NEW h \in Handles \cup {NoHandle}, NEW n \in Names, Leased(c, h, n)
      PROVE  rows'[call'[c].name] = call'[c].obj
  BY <1>1 DEF Leased, Begins, Sound, RowsFollow
<1>2. CASE Leasing(c) /\ call'[c].name = call[c].name /\ call'[c].obj = call[c].obj
  <2> DEFINE n == call[c].name
             o == call[c].obj
  <2>a. n \in Names /\ Registered(n) /\ resources[n].obj = o /\ rows[n] = o /\ o # 0 /\ rows \in [Names -> Objects]
    BY <1>2, LeaseFacts, Shapes DEF Lent, LeasesWritten
  <2>b. \A d \in Actors : Holding(d) /\ Spot(d) = n => call[d].at = "await"
    BY <1>2, LeaseFacts
  <2>1. ASSUME NEW d \in Calls, Saves(d) \/ Discards(d) PROVE rows'[n] = rows[n]
    <3>1. ~ Registered(call[d].name)
      BY <2>1 DEF Saves, Discards, Sound, NamesApart, Naming, CreateSteps
    <3>2. n # call[d].name
      BY <2>a, <3>1
    <3> QED BY <2>1, <2>a, <3>2 DEF Saves, Discards
  <2>2. ASSUME NEW d \in Actors, Deletes(d) PROVE rows'[n] = rows[n]
    <3>1. Holding(d) /\ Spot(d) = call[d].name /\ call[d].at # "await"
      BY <2>2, Workers DEF Deletes
    <3>2. n # call[d].name
      BY <2>b, <3>1
    <3> QED BY <2>2, <2>a, <3>2 DEF Deletes
  <2>3. ASSUME NEW d \in Calls, MovesRow(d) \/ MovesBack(d)
        PROVE  /\ n # call[d].to /\ resources[call[d].to].obj = call[d].obj
               /\ call[d].name \in Names /\ call[d].to \in Names /\ call[d].name # call[d].to
    <3>1. Holding(d) /\ Spot(d) = call[d].to /\ call[d].at # "await"
      BY <2>3, Workers DEF MovesRow, MovesBack
    <3>2. n # call[d].to
      BY <2>b, <3>1
    <3> QED BY <2>3, <3>1, <3>2, MovedRows DEF Sound, HeldApart
  <2>4. ASSUME NEW d \in Calls, MovesRow(d) PROVE rows'[n] = rows[n]
    <3>1. rows[call[d].name] = call[d].obj
      BY <2>4 DEF MovesRow
    <3>2. n # call[d].name
      BY <2>a, <2>3, <2>4, <3>1 DEF Identity, PlacedOnce
    <3>3. rows' = Move(rows, call[d].name, call[d].to, 0)
      BY <2>4 DEF MovesRow
    <3>4. n \in Names \ {call[d].name, call[d].to} /\ call[d].name \in Names /\ call[d].to \in Names
      BY <2>3, <2>4, <2>a, <3>2
    <3>5. Move(rows, call[d].name, call[d].to, 0)[n] = rows[n]
      BY <2>3, <2>4, <2>a, <3>4, MoveFacts
    <3> QED BY <3>3, <3>5
  <2>5. ASSUME NEW d \in Calls, MovesBack(d) PROVE rows'[n] = rows[n]
    <3>1. rows' = IF Movable(call[d].to, call[d].name) THEN Move(rows, call[d].to, call[d].name, 0) ELSE rows
      BY <2>5 DEF MovesBack
    <3>2. CASE Movable(call[d].to, call[d].name)
      <4>1. /\ Move(rows, call[d].to, call[d].name, 0)[call[d].name] =
                 (IF rows[call[d].to] = 0 THEN rows[call[d].name] ELSE rows[call[d].to])
            /\ \A k \in Names \ {call[d].to, call[d].name} : Move(rows, call[d].to, call[d].name, 0)[k] = rows[k]
        BY <2>a, <2>3, <2>5, MoveFacts
      <4>2. n = call[d].name => rows[call[d].to] = 0
        BY <2>a, <3>2 DEF Movable
      <4> QED BY <2>a, <2>3, <2>5, <3>1, <3>2, <4>1, <4>2
    <3> QED BY <3>1, <3>2
  <2>6. rows'[n] = rows[n]
    BY <2>1, <2>2, <2>4, <2>5, RowsChange
  <2> QED BY <1>2, <2>a, <2>6
<1> QED BY <1>1, <1>2, LeasingBefore

\* A destruction that waits goes on waiting, or stops blocking the resource.
LEMMA AwaitAfter ==
  ASSUME Typed, Shape, Effect, NEW c \in Actors, call[c].at = "await", Holding(c)', ~ Restarts
  PROVE  call'[c] = call[c] \/ Goes(c)
<1> SUFFICES ASSUME ~ Goes(c) PROVE call'[c] = call[c]
  OBVIOUS
<1> USE Constants DEF Holding, Held, Others
<1>1. ASSUME NEW d \in Actors, NEW h, NEW k, NEW m, NEW step,
             Reserves(d, h, k) \/ Leased(d, h, k) \/ Doomed(d, h, k) \/ Prolongs(d, h, k, step) \/ Renames(d, h, k, m)
      PROVE  call'[c] = call[c]
  BY <1>1 DEF Reserves, Leased, Doomed, Prolongs, Renames, Begins
<1>2. ASSUME NEW d \in Actors, Goes(d) PROVE call'[c] = call[c]
  BY <1>2 DEF Goes
<1>3. ASSUME NEW d \in Actors, Ends(d) \/ Removes(d) \/ Restores(d) \/ Deletes(d) \/ Cleans(d) PROVE call'[c] = call[c]
  BY <1>3 DEF Ends, Removes, Restores, Deletes, Cleans, Forgets
<1>4. ASSUME NEW d \in Calls, Makes(d) \/ Loses(d) \/ Saves(d) \/ Discards(d) \/ Registers(d) \/ Releases(d)
      PROVE  call'[c] = call[c]
  BY <1>4 DEF Makes, Loses, Saves, Discards, Registers, Releases
<1>5. ASSUME NEW d \in Calls, MovesRow(d) \/ MovesBack(d) \/ TakesBack(d) \/ Renamed(d) PROVE call'[c] = call[c]
  BY <1>5 DEF MovesRow, MovesBack, TakesBack, Renamed
<1>6. ASSUME Stays \/ Closes \/ Marks \/ Stops \/ \E m \in Names : EndsEntry(m) PROVE call'[c] = call[c]
  BY <1>6 DEF Stays, Closes, Marks, Stops, EndsEntry
<1> QED BY <1>1, <1>2, <1>3, <1>4, <1>5, <1>6 DEF Effect, Opens

LEMMA LeasesAwaitedNext ==
  ASSUME Typed, Shape, Identity, Sound, Lent, Effect, ~ spoiled', ~ Restarts
  PROVE  LeasesAwaited'
<1> USE Constants
<1> DEFINE Awaited(c, d) == call'[d].at = "await" /\ call'[c].handle \in call'[d].await
<1> SUFFICES ASSUME NEW c \in Calls, NEW d \in Actors, Leasing(c)', Holding(d)', call'[c].name = Spot(d)'
             PROVE  Awaited(c, d)
  BY DEF LeasesAwaited
<1>1. ASSUME NEW h \in Handles \cup {NoHandle}, NEW n \in Names, Leased(c, h, n) PROVE FALSE
  <2>1. d # c /\ call'[d] = call[d]
    BY <1>1 DEF Leased, Begins, Others, Holding, Held
  <2>2. Holding(d) /\ Spot(d) = Spot(d)'
    BY <2>1 DEF Holding, Spot
  <2> QED BY <1>1, <2>2 DEF Leased, Begins, Sound, HeldApart
<1>2. CASE Leasing(c) /\ call'[c].name = call[c].name /\ call'[c].handle = call[c].handle
  <2> DEFINE n == call[c].name
             h == call[c].handle
  <2>1. CASE Holding(d) /\ Spot(d)' = Spot(d)
    <3>1. call[d].at = "await" /\ h \in call[d].await
      BY <1>2, <2>1, LeaseFacts
    <3>2. CASE call'[d] = call[d]
      BY <1>2, <3>1, <3>2
    <3>3. CASE Goes(d)
      <4>1. h \in call'[d].await /\ call'[d].at # "cleanup"
        BY <3>1, <3>3 DEF Goes
      <4> QED BY <1>2, <3>1, <3>3, <4>1 DEF Goes, Follows
    <3> QED BY <3>1, <3>2, <3>3, AwaitAfter
  <2>2. ASSUME NEW g \in Handles \cup {NoHandle}, NEW k \in Names, Doomed(d, g, k) PROVE Awaited(c, d)
    <3>1. k = n /\ Free(n) /\ d # c
      BY <1>2, <2>2 DEF Doomed, Begins, Spot, RenameSteps, Leasing, LeaseSteps
    <3>2. /\ n \in Names /\ resources[n].active # 0 /\ (h \in Handles => resources[n].users[h] # 0)
          /\ h \in Handles \cup {NoHandle} /\ resources[n].active \in Nat /\ resources[n].users \in [Handles -> Nat]
      BY <1>2, <3>1, LeaseFacts DEF Typed, CallRecord, Entry, Users
    <3>3. call'[d].at = "await" /\ Cancellable(resources[n]) /\ call'[d].await = {f \in Handles : resources[n].users[f] > 0}
      BY <2>2, <3>1, <3>2 DEF Doomed, Begins
    <3>4. h # NoHandle
      <4> SUFFICES ASSUME h = NoHandle PROVE FALSE
        OBVIOUS
      <4>1. c \in Leases(n, NoHandle) /\ IsFiniteSet(Leases(n, NoHandle))
        BY <1>2, CardinalityFacts DEF Leases
      <4>2. Cardinality(Leases(n, NoHandle)) # 0 /\ Cardinality(Leases(n, NoHandle)) \in Nat
        BY <4>1, FS_EmptySet, FS_CardinalityType
      <4>3. SumFunction(resources[n].users) \in Nat
        BY <3>2, SumType
      <4>4. SumFunction(resources[n].users) + Cardinality(Leases(n, NoHandle)) <= resources[n].active
        BY <3>1, <3>2 DEF Lent, LeasesCounted
      <4>5. resources[n].active = SumFunction(resources[n].users)
        BY <3>3 DEF Cancellable
      <4> QED BY <4>2, <4>3, <4>4, <4>5
    <3>5. resources[n].users[h] > 0
      BY <3>2, <3>4
    <3> QED BY <1>2, <3>2, <3>3, <3>4, <3>5
  <2>3. ASSUME NEW g, NEW k \in Names, NEW m \in Names, Renames(d, g, k, m) PROVE FALSE
    <3>1. m = n
      BY <1>2, <2>3 DEF Renames, Begins, Spot, RenameSteps
    <3> QED BY <1>2, <2>3, <3>1, LeaseFacts DEF Renames, Occupied
  <2> HIDE DEF Awaited
  <2> QED BY <2>1, <2>2, <2>3, HoldingBefore
<1> HIDE DEF Awaited
<1> QED BY <1>1, <1>2, LeasingBefore

\* The uses of what can be leased are those of before, one more, one less, or none.
LEMMA UsersBefore ==
  ASSUME Typed, Shape, Effect, NEW n \in Names, resources'[n].free, ~ Restarts
  PROVE  \/ Same(n)
         \/ \E c \in Calls : \/ \E h \in Handles \cup {NoHandle} : Leased(c, h, n)
                             \/ Releases(c) /\ n = call[c].name
         \/ \E c \in Calls : Registers(c) /\ n = call[c].name
         \/ \E c \in Actors : Restores(c) /\ n = call[c].name
         \/ \E c \in Calls : TakesBack(c) /\ Registered(call[c].to) /\ n = call[c].name
         \/ \E c \in Calls : Renamed(c) /\ Registered(call[c].to) /\ n = call[c].to
<1> DEFINE Put == \/ \E c \in Calls : \/ \E h \in Handles \cup {NoHandle} : Leased(c, h, n)
                                      \/ Releases(c) /\ n = call[c].name
                  \/ \E c \in Calls : Registers(c) /\ n = call[c].name
                  \/ \E c \in Actors : Restores(c) /\ n = call[c].name
                  \/ \E c \in Calls : TakesBack(c) /\ Registered(call[c].to) /\ n = call[c].name
                  \/ \E c \in Calls : Renamed(c) /\ Registered(call[c].to) /\ n = call[c].to
<1> SUFFICES ASSUME ~ Put PROVE Same(n)
  OBVIOUS
<1> USE DEF Quiet, Steady, SteadyBut
<1>1. ASSUME NEW d \in Actors, NEW h, NEW k \in Names, NEW m \in Names, NEW step,
             Reserves(d, h, k) \/ Doomed(d, h, k) \/ Renames(d, h, k, m) \/ Prolongs(d, h, k, step)
      PROVE  Same(n)
  BY <1>1 DEF Reserves, Doomed, Renames, Prolongs, Taken, Emptied
<1>2. ASSUME NEW d \in Calls, NEW h \in Handles \cup {NoHandle}, NEW k \in Names, Leased(d, h, k)
      PROVE  Same(n)
  BY <1>2 DEF Leased
<1>3. ASSUME NEW d, Goes(d) \/ Ends(d) \/ Cleans(d) \/ Deletes(d) \/ Makes(d) \/ Loses(d) \/ Saves(d) \/ Discards(d)
                    \/ MovesRow(d) \/ MovesBack(d)
      PROVE  Same(n)
  BY <1>3 DEF Goes, Ends, Cleans, Deletes, Makes, Loses, Saves, Discards, MovesRow, MovesBack
<1>4. ASSUME NEW d \in Actors, (d \in Calls /\ Releases(d)) \/ Removes(d)
      PROVE  Same(n)
  BY <1>4 DEF Releases, Removes, Emptied
<1>5. ASSUME NEW d \in Actors, Restores(d) \/ (d \in Calls /\ Registers(d))
      PROVE  Same(n)
  BY <1>5 DEF Restores, Registers
<1>6. ASSUME NEW d \in Calls, Renamed(d)
      PROVE  Same(n)
  BY <1>6 DEF Renamed
<1>7. ASSUME NEW d \in Calls, TakesBack(d)
      PROVE  Same(n)
  BY <1>7 DEF TakesBack, Emptied
<1>8. ASSUME Stays \/ Closes \/ Marks \/ Stops \/ \E m \in Names : EndsEntry(m)
      PROVE  Same(n)
  BY <1>8 DEF Stays, Closes, Marks, Stops, EndsEntry, Taken
<1> HIDE DEF Put
<1> QED BY <1>1, <1>2, <1>3, <1>4, <1>5, <1>6, <1>7, <1>8, Constants DEF Effect, Opens

\* The leases of a name after a step: no more than before unless it is leased.
LEMMA LeasesBefore ==
  ASSUME Typed, Shape, Effect, NEW n \in Names, NEW h, ~ Restarts
  PROVE  /\ IsFiniteSet(Leases(n, h)) /\ IsFiniteSet(Leases(n, h))'
         /\ \A c \in Calls : ~ (\E g \in Handles \cup {NoHandle}, k \in Names : Leased(c, g, k))
              => (c \in Leases(n, h)' => c \in Leases(n, h) /\ ~ Releases(c))
         /\ \A c \in Calls, d \in Calls, g \in Handles \cup {NoHandle}, k \in Names :
              Leased(d, g, k) /\ c \in Leases(n, h)' => c \in Leases(n, h) \/ (c = d /\ n = k /\ h = g)
<1> USE Constants
<1>1. IsFiniteSet(Leases(n, h)) /\ IsFiniteSet(Leases(n, h))'
  <2>1. Leases(n, h) \subseteq Calls /\ Leases(n, h)' \subseteq Calls
    BY DEF Leases
  <2> QED BY <2>1, FS_Subset
<1>2. ASSUME NEW c \in Calls, ~ \E g \in Handles \cup {NoHandle}, k \in Names : Leased(c, g, k), c \in Leases(n, h)'
      PROVE  c \in Leases(n, h) /\ ~ Releases(c)
  BY <1>2, LeasingBefore DEF Leases
<1>3. ASSUME NEW c \in Calls, NEW d \in Calls, NEW g \in Handles \cup {NoHandle}, NEW k \in Names,
             Leased(d, g, k), c \in Leases(n, h)'
      PROVE  c \in Leases(n, h) \/ (c = d /\ n = k /\ h = g)
  <2>1. CASE c = d
    BY <1>3, <2>1 DEF Leased, Begins, Leases
  <2>2. CASE c # d
    BY <1>3, <2>2 DEF Leased, Begins, Others, Leases, Leasing
  <2> QED BY <2>1, <2>2
<1> QED BY <1>1, <1>2, <1>3

LEMMA LeasesCountedNext ==
  ASSUME Typed, Shape, Identity, Sound, Lent, Effect, ~ spoiled', ~ Restarts
  PROVE  LeasesCounted'
<1> USE Constants
<1> SUFFICES ASSUME NEW n \in Names, Free(n)'
             PROVE  /\ \A h \in Handles : Cardinality(Leases(n, h))' <= resources'[n].users[h]
                    /\ SumFunction(resources'[n].users) + Cardinality(Leases(n, NoHandle))' <= resources'[n].active
  BY DEF LeasesCounted
<1> DEFINE u == resources[n].users
           v == resources'[n].users
           a == resources[n].active
           b == resources'[n].active
           Counted == /\ \A h \in Handles : Cardinality(Leases(n, h))' <= v[h]
                      /\ SumFunction(v) + Cardinality(Leases(n, NoHandle))' <= b
<1>a. u \in [Handles -> Nat] /\ a \in Nat /\ SumFunction(u) \in Nat
  <2>1. u \in [Handles -> Nat] /\ a \in Nat
    BY DEF Typed, Entry, Users
  <2> QED BY <2>1, SumType
<1>b. Free(n) => /\ \A h \in Handles : Cardinality(Leases(n, h)) <= u[h]
                 /\ SumFunction(u) + Cardinality(Leases(n, NoHandle)) <= a
  BY DEF Lent, LeasesCounted
<1>c. ASSUME NEW h PROVE IsFiniteSet(Leases(n, h)) /\ Cardinality(Leases(n, h)) \in Nat
  BY LeasesBefore, FS_CardinalityType
<1>d. ASSUME ~ \E c \in Calls, h \in Handles \cup {NoHandle}, k \in Names : Leased(c, h, k), NEW h
      PROVE  Cardinality(Leases(n, h))' \in Nat /\ Cardinality(Leases(n, h))' <= Cardinality(Leases(n, h))
  <2>1. Leases(n, h)' \subseteq Leases(n, h)
    <3>1. Leases(n, h)' \subseteq Calls
      BY DEF Leases
    <3> QED BY <1>d, <3>1, LeasesBefore
  <2> QED BY <1>c, <2>1, CardinalityFacts
<1>e. ASSUME \A c \in Calls : Leasing(c) => call[c].name # n,
             ~ \E c \in Calls, h \in Handles \cup {NoHandle}, k \in Names : Leased(c, h, k),
             v = NoUsers, b = 0
      PROVE  Counted
  <2>1. ASSUME NEW h PROVE Cardinality(Leases(n, h))' = 0
    <3>1. Leases(n, h) = {}
      BY <1>e DEF Leases
    <3>2. Cardinality(Leases(n, h)) = 0
      BY <3>1, FS_EmptySet
    <3> QED BY <1>d, <1>e, <3>2
  <2>2. SumFunction(v) = 0 /\ \A h \in Handles : v[h] = 0
    BY <1>e, SumOfNothing DEF NoUsers
  <2> QED BY <1>e, <2>1, <2>2
<1> HIDE DEF u, v, a, b
<1>1. ASSUME NEW c \in Calls, NEW h \in Handles \cup {NoHandle}, NEW k \in Names, Leased(c, h, k)
      PROVE  Counted
  <2>1. ASSUME NEW g PROVE /\ Cardinality(Leases(n, g))' \in Nat
                           /\ Cardinality(Leases(n, g))' <= Cardinality(Leases(n, g)) + 1
                           /\ ~ (n = k /\ g = h) => Cardinality(Leases(n, g))' <= Cardinality(Leases(n, g))
    <3>0. Leases(n, g)' \subseteq Calls
      BY DEF Leases
    <3>1. Leases(n, g)' \subseteq Leases(n, g) \cup {c} /\ (~ (n = k /\ g = h) => Leases(n, g)' \subseteq Leases(n, g))
      BY <1>1, <3>0, LeasesBefore
    <3> QED BY <1>c, <3>1, CardinalityOfMore, CardinalityFacts
  <2>2. CASE n # k
    <3>1. Free(n) /\ v = u /\ b = a
      BY <1>1, <2>2 DEF Leased, SteadyBut, Same, Placed, Free, u, v, a, b
    <3> QED BY <1>a, <1>b, <1>c, <2>1, <2>2, <3>1
  <2>3. CASE n = k
    <3>1. /\ Free(n) /\ b = a + 1
          /\ v = [g \in Handles |-> IF g = h THEN u[g] + 1 ELSE u[g]]
      BY <1>1, <2>3 DEF Leased, u, v, a, b
    <3>2. v \in [Handles -> Nat]
      BY <1>a, <3>1
    <3>3. ASSUME NEW g \in Handles PROVE Cardinality(Leases(n, g))' <= v[g]
      <4>1. Cardinality(Leases(n, g)) <= u[g] /\ Cardinality(Leases(n, g)) \in Nat /\ u[g] \in Nat
        BY <1>a, <1>b, <1>c, <3>1
      <4>2. v[g] = IF g = h THEN u[g] + 1 ELSE u[g]
        BY <3>1
      <4> QED BY <2>1, <4>1, <4>2
    <3>4. CASE h = NoHandle
      <4>1. v = u
        BY <1>a, <3>1, <3>2, <3>4
      <4>2. Cardinality(Leases(n, NoHandle))' <= Cardinality(Leases(n, NoHandle)) + 1
        BY <2>1
      <4>3. SumFunction(v) + Cardinality(Leases(n, NoHandle))' <= b
        BY <1>a, <1>b, <1>c, <2>1, <3>1, <4>1, <4>2
      <4> QED BY <3>3, <4>3
    <3>5. CASE h \in Handles
      <4>1. SumFunction(v) + u[h] = SumFunction(u) + v[h] /\ SumFunction(v) \in Nat
        <5>1. \A y \in Handles \ {h} : u[y] = v[y]
          BY <3>1
        <5> QED BY <1>a, <3>2, <3>5, <5>1, SumOfChange
      <4>2. v[h] = u[h] + 1 /\ u[h] \in Nat
        BY <1>a, <3>1, <3>5
      <4>3. SumFunction(v) = SumFunction(u) + 1
        BY <1>a, <4>1, <4>2
      <4>4. Cardinality(Leases(n, NoHandle))' <= Cardinality(Leases(n, NoHandle))
        BY <2>1, <3>5
      <4>5. SumFunction(v) + Cardinality(Leases(n, NoHandle))' <= b
        BY <1>a, <1>b, <1>c, <2>1, <3>1, <4>3, <4>4
      <4> QED BY <3>3, <4>5
    <3> QED BY <3>4, <3>5
  <2> QED BY <2>2, <2>3
<1> HIDE DEF Counted
<1>2. ASSUME ~ \E c \in Calls, h \in Handles \cup {NoHandle}, k \in Names : Leased(c, h, k) PROVE Counted
  <2>1. CASE Same(n)
    <3>1. Free(n) /\ v = u /\ b = a
      BY <2>1 DEF Same, Placed, Free, u, v, a, b
    <3>2. ASSUME NEW h PROVE Cardinality(Leases(n, h))' \in Nat /\ Cardinality(Leases(n, h))' <= Cardinality(Leases(n, h))
      BY <1>2, <1>d
    <3>3. ASSUME NEW h \in Handles PROVE Cardinality(Leases(n, h))' <= v[h]
      <4>1. Cardinality(Leases(n, h)) <= u[h] /\ Cardinality(Leases(n, h)) \in Nat /\ u[h] \in Nat
        BY <1>a, <1>b, <1>c, <3>1
      <4>2. Cardinality(Leases(n, h))' \in Nat /\ Cardinality(Leases(n, h))' <= Cardinality(Leases(n, h))
        BY <3>2
      <4> QED BY <3>1, <4>1, <4>2
    <3>4. SumFunction(v) + Cardinality(Leases(n, NoHandle))' <= b
      BY <1>a, <1>b, <1>c, <3>1, <3>2
    <3> QED BY <3>3, <3>4 DEF Counted
  <2>2. ASSUME NEW c \in Calls, Releases(c), n = call[c].name PROVE Counted
    <3>0. PICK h \in Handles \cup {NoHandle} : h = call[c].handle
      BY DEF Typed, CallRecord
    <3>1. /\ Free(n) /\ b = Less(a)
          /\ v = [g \in Handles |-> IF g = h THEN Less(u[g]) ELSE u[g]]
      BY <2>2, <3>0 DEF Releases, Placed, Free, u, v, a, b
    <3>2. Leasing(c)
      BY <2>2 DEF Releases, Leasing, LeaseSteps
    <3>3. a # 0 /\ (h \in Handles => u[h] # 0)
      BY <2>2, <3>0, <3>1, <3>2, LeaseFacts DEF a, u
    <3>4. c \in Leases(n, h)
      BY <2>2, <3>0, <3>2 DEF Leases
    <3>5. b = a - 1 /\ v = [g \in Handles |-> IF g = h THEN u[g] - 1 ELSE u[g]] /\ v \in [Handles -> Nat]
      <4>1. \A k \in Nat : k # 0 => Less(k) = k - 1 /\ k - 1 \in Nat
        BY DEF Less
      <4>2. \A g \in Handles : (IF g = h THEN Less(u[g]) ELSE u[g]) = IF g = h THEN u[g] - 1 ELSE u[g]
        BY <1>a, <3>3, <4>1
      <4>3. v = [g \in Handles |-> IF g = h THEN u[g] - 1 ELSE u[g]]
        BY <3>1, <4>2
      <4>4. v \in [Handles -> Nat]
        BY <1>a, <3>3, <4>1, <4>3
      <4> QED BY <1>a, <3>1, <3>3, <4>1, <4>3, <4>4
    <3>6. Cardinality(Leases(n, h))' \in Nat /\ Cardinality(Leases(n, h))' + 1 <= Cardinality(Leases(n, h))
      <4>0. Leases(n, h)' \subseteq Calls
        BY DEF Leases
      <4>1. Leases(n, h)' \subseteq Leases(n, h) \ {c}
        BY <1>2, <2>2, <4>0, LeasesBefore
      <4> QED BY <1>c, <3>4, <4>1, CardinalityOfFewer
    <3>7. ASSUME NEW g \in Handles PROVE Cardinality(Leases(n, g))' <= v[g]
      <4>1. Cardinality(Leases(n, g)) <= u[g] /\ Cardinality(Leases(n, g)) \in Nat /\ u[g] \in Nat
        BY <1>a, <1>b, <1>c, <3>1
      <4>2. Cardinality(Leases(n, g))' \in Nat /\ Cardinality(Leases(n, g))' <= Cardinality(Leases(n, g))
        BY <1>2, <1>d
      <4>3. v[g] = IF g = h THEN u[g] - 1 ELSE u[g]
        BY <3>5
      <4> QED BY <3>6, <4>1, <4>2, <4>3
    <3>8. CASE h = NoHandle
      <4>1. v = u
        BY <1>a, <3>5, <3>8
      <4>2. SumFunction(v) + Cardinality(Leases(n, NoHandle))' <= b
        BY <1>a, <1>b, <1>c, <3>1, <3>5, <3>6, <3>8, <4>1
      <4> QED BY <3>7, <4>2 DEF Counted
    <3>9. CASE h \in Handles
      <4>1. SumFunction(v) + u[h] = SumFunction(u) + v[h] /\ SumFunction(v) \in Nat
        <5>1. \A y \in Handles \ {h} : u[y] = v[y]
          BY <3>5
        <5> QED BY <1>a, <3>5, <3>9, <5>1, SumOfChange
      <4>2. v[h] = u[h] - 1 /\ u[h] \in Nat
        BY <1>a, <3>5, <3>9
      <4>3. SumFunction(v) = SumFunction(u) - 1
        BY <1>a, <4>1, <4>2
      <4>4. Cardinality(Leases(n, NoHandle))' \in Nat /\ Cardinality(Leases(n, NoHandle))' <= Cardinality(Leases(n, NoHandle))
        BY <1>2, <1>d
      <4>5. SumFunction(v) + Cardinality(Leases(n, NoHandle))' <= b
        BY <1>a, <1>b, <1>c, <3>1, <3>5, <4>3, <4>4
      <4> QED BY <3>7, <4>5 DEF Counted
    <3> QED BY <3>8, <3>9
  <2>3. ASSUME NEW c \in Calls, Registers(c), n = call[c].name PROVE Counted
    <3>1. ~ Registered(n)
      BY <2>3 DEF Registers, Sound, NamesApart, Naming, CreateSteps
    <3>2. \A d \in Calls : Leasing(d) => call[d].name # n
      BY <3>1, LeaseFacts
    <3>3. v = NoUsers /\ b = 0
      BY <2>3 DEF Registers, Fresh, v, b
    <3> QED BY <1>2, <1>e, <3>2, <3>3
  <2>4. ASSUME NEW c \in Actors, Restores(c), n = call[c].name PROVE Counted
    <3>1. Holding(c) /\ Spot(c) = n /\ call[c].at # "await"
      BY <2>4, Workers DEF Restores
    <3>2. \A d \in Calls : Leasing(d) => call[d].name # n
      BY <3>1, LeaseFacts
    <3>3. v = NoUsers /\ b = 0
      BY <2>4 DEF Restores, Fresh, v, b
    <3> QED BY <1>2, <1>e, <3>2, <3>3
  <2>5. ASSUME NEW c \in Calls, TakesBack(c), Registered(call[c].to), n = call[c].name PROVE Counted
    <3>1. ~ Registered(n)
      BY <2>5 DEF TakesBack, Occupied
    <3>2. \A d \in Calls : Leasing(d) => call[d].name # n
      BY <3>1, LeaseFacts
    <3>3. v = NoUsers /\ b = 0
      BY <2>5 DEF TakesBack, Fresh, v, b
    <3> QED BY <1>2, <1>e, <3>2, <3>3
  <2>6. ASSUME NEW c \in Calls, Renamed(c), Registered(call[c].to), n = call[c].to PROVE Counted
    <3>1. Holding(c) /\ Spot(c) = n /\ call[c].at # "await"
      BY <2>6, Workers DEF Renamed
    <3>2. \A d \in Calls : Leasing(d) => call[d].name # n
      BY <3>1, LeaseFacts
    <3>3. v = NoUsers /\ b = 0
      BY <2>6 DEF Renamed, Fresh, v, b
    <3> QED BY <1>2, <1>e, <3>2, <3>3
  <2>7. resources'[n].free
    BY DEF Free
  <2>8. ~ \E c \in Calls : \E h \in Handles \cup {NoHandle} : Leased(c, h, n)
    BY <1>2
  <2> QED BY <2>1, <2>2, <2>3, <2>4, <2>5, <2>6, <2>7, <2>8, UsersBefore
<1>3. Counted
  BY <1>1, <1>2
<1> QED BY <1>3 DEF Counted, v, b

\* What dies while the manager runs is discarded or cleaned up.
LEMMA DiesBy ==
  ASSUME Typed, Shape, Identity, Effect, Runs', ~ Restarts, NEW o \in Calls, objects'[o] = "dead"
  PROVE  \/ objects[o] = "dead"
         \/ Discards(o)
         \/ \E c \in Actors : Cleans(c) /\ o = call[c].obj
<1> USE Constants
<1>1. CASE objects' = objects
  BY <1>1
<1>2. ASSUME NEW c \in Calls, Makes(c) \/ Loses(c) PROVE objects[o] = "dead"
  BY <1>2, Shapes DEF Makes, Loses
<1>3. ASSUME NEW c \in Calls, Discards(c) PROVE objects[o] = "dead" \/ Discards(o)
  BY <1>3, Shapes DEF Discards
<1>4. ASSUME NEW c \in Actors, Cleans(c) PROVE objects[o] = "dead" \/ o = call[c].obj
  BY <1>4, Shapes DEF Cleans
<1> QED BY <1>1, <1>2, <1>3, <1>4, ObjectsChange, RunsBefore

\* What is discarded or cleaned up is not leased, and cannot be.
LEMMA DyingApart ==
  ASSUME Typed, Shape, Identity, Sound, Lent, NEW o \in Calls,
         Discards(o) \/ \E c \in Actors : Cleans(c) /\ o = call[c].obj
  PROVE  /\ \A n \in Names : Free(n) => resources[n].obj # o
         /\ \A c \in Calls : Leasing(c) => call[c].obj # o
         /\ \A c \in Actors : Holding(c) /\ call[c].obj = o => Cleans(c)
<1> USE Constants
<1>1. CASE Discards(o)
  <2>1. call[o].at = "discard" /\ Unmade(o)
    BY <1>1 DEF Discards, Unmade
  <2>2. \A n \in Names : resources[n].obj # o
    BY <2>1 DEF Identity, Unplaced
  <2>3. \A c \in Actors : call[c].obj = o => c = o
    BY <2>1 DEF Identity, Unplaced
  <2> QED BY <2>1, <2>2, <2>3 DEF Leasing, LeaseSteps, Holding, Held
<1>2. ASSUME NEW c \in Actors, Cleans(c), o = call[c].obj
      PROVE  /\ \A n \in Names : Free(n) => resources[n].obj # o
             /\ \A d \in Calls : Leasing(d) => call[d].obj # o
             /\ \A d \in Actors : Holding(d) /\ call[d].obj = o => Cleans(d)
  <2>1. Holding(c) /\ call[c].at = "cleanup" /\ resources[Spot(c)].obj = o /\ ~ Free(Spot(c)) /\ Spot(c) \in Names
    BY <1>2, Workers DEF Cleans, Sound, HeldApart
  <2>2. \A n \in Names : resources[n].obj = o => n = Spot(c)
    BY <2>1 DEF Identity, PlacedOnce
  <2>3. ASSUME NEW d \in Calls, Leasing(d), call[d].obj = o PROVE FALSE
    <3>1. call[d].name = Spot(c)
      BY <2>2, <2>3, LeaseFacts
    <3>2. call[c].at = "await"
      BY <2>1, <2>3, <3>1, LeaseFacts
    <3> QED BY <2>1, <3>2
  <2>4. \A d \in Actors : Holding(d) /\ call[d].obj = o => d = c
    BY <1>2, <2>1 DEF Sound, HeldApart
  <2> QED BY <1>2, <2>1, <2>2, <2>3, <2>4
<1> QED BY <1>1, <1>2

\* A destruction that is past the row leaves the resource, or stays where it is.
LEMMA RemoveAfter ==
  ASSUME Typed, Shape, Effect, NEW c \in Actors, call[c].at = "remove", Holding(c)', ~ Restarts
  PROVE  call'[c] = call[c]
<1> USE Constants DEF Holding, Held, Others
<1>1. ASSUME NEW d \in Actors, NEW h, NEW k, NEW m, NEW step,
             Reserves(d, h, k) \/ Leased(d, h, k) \/ Doomed(d, h, k) \/ Prolongs(d, h, k, step) \/ Renames(d, h, k, m)
      PROVE  call'[c] = call[c]
  BY <1>1 DEF Reserves, Leased, Doomed, Prolongs, Renames, Begins
<1>2. ASSUME NEW d \in Actors, Goes(d) PROVE call'[c] = call[c]
  BY <1>2 DEF Goes, Follows
<1>3. ASSUME NEW d \in Actors, Ends(d) \/ Removes(d) \/ Restores(d) \/ Deletes(d) \/ Cleans(d) PROVE call'[c] = call[c]
  BY <1>3 DEF Ends, Removes, Restores, Deletes, Cleans, Forgets
<1>4. ASSUME NEW d \in Calls, Makes(d) \/ Loses(d) \/ Saves(d) \/ Discards(d) \/ Registers(d) \/ Releases(d)
      PROVE  call'[c] = call[c]
  BY <1>4 DEF Makes, Loses, Saves, Discards, Registers, Releases
<1>5. ASSUME NEW d \in Calls, MovesRow(d) \/ MovesBack(d) \/ TakesBack(d) \/ Renamed(d) PROVE call'[c] = call[c]
  BY <1>5 DEF MovesRow, MovesBack, TakesBack, Renamed
<1>6. ASSUME Stays \/ Closes \/ Marks \/ Stops \/ \E m \in Names : EndsEntry(m) PROVE call'[c] = call[c]
  BY <1>6 DEF Stays, Closes, Marks, Stops, EndsEntry
<1> QED BY <1>1, <1>2, <1>3, <1>4, <1>5, <1>6 DEF Effect, Opens

LEMMA DeadPersistNext ==
  ASSUME Typed, Shape, Identity, Sound, Lent, Effect, Runs', ~ Restarts
  PROVE  DeadPersist'
<1> USE Constants
<1>0. ~ spoiled'
  BY DEF Runs
<1>a. ASSUME NEW o \in Calls, objects'[o] = "dead",
             \/ \E n \in Names : Free(n) /\ resources[n].obj = o
             \/ \E c \in Calls : Leasing(c) /\ call[c].obj = o
             \/ \E c \in Actors : Holding(c) /\ call[c].obj = o /\ ~ Cleans(c)
      PROVE  objects[o] = "dead"
  BY <1>a, DiesBy, DyingApart
<1>1. ASSUME NEW n \in Names, Free(n)', objects'[resources'[n].obj] = "dead" PROVE resources'[n].obj \in Persistent
  <2>1. CASE Placed(n)
    <3>1. Free(n) /\ resources'[n].obj = resources[n].obj /\ resources[n].obj \in Calls
      BY <1>1, <2>1, Shapes DEF Placed, Free
    <3> QED BY <1>1, <1>a, <3>1 DEF Lent, DeadPersist
  <2>2. ASSUME NEW c \in Calls, Registers(c), n = call[c].name PROVE FALSE
    <3>1. objects[c] = "live" /\ objects' = objects /\ resources'[n].obj = c
      BY <2>2 DEF Registers, Fresh, Identity, Blank
    <3> QED BY <1>1, <3>1
  <2>3. ASSUME NEW c \in Actors, n \in {call[c].name, call[c].to},
               (Restores(c) /\ n = call[c].name) \/ (c \in Calls /\ Renamed(c) /\ Registered(call[c].to) /\ n = call[c].to)
        PROVE  resources'[n].obj \in Persistent
    <3>1. Holding(c) /\ Spot(c) = n /\ call[c].at \notin {"delete", "remove"}
      BY <2>3, Workers DEF Restores, Renamed
    <3>2. resources'[n].obj = call[c].obj /\ objects' = objects
      BY <2>3, <3>1 DEF Restores, Renamed, Fresh, Sound, HeldApart
    <3> QED BY <1>1, <3>1, <3>2 DEF Lent, DeadPersist
  <2>4. ASSUME NEW c \in Calls, TakesBack(c), Registered(call[c].to), n = call[c].name PROVE resources'[n].obj \in Persistent
    <3>1. call[c].at # "undone"
      BY <1>0, <2>4 DEF TakesBack
    <3>2. resources[call[c].to].obj = call[c].obj
      BY <2>4, <3>1, Workers DEF Sound, HeldApart
    <3> QED BY <2>4, <3>2, MovedRows DEF TakesBack, Fresh
  <2> QED BY <1>1, <2>1, <2>2, <2>3, <2>4, FreeBefore DEF Free
<1>2. ASSUME NEW c \in Calls, Leasing(c)', objects'[call'[c].obj] = "dead" PROVE call'[c].obj \in Persistent
  <2>1. ASSUME NEW h \in Handles \cup {NoHandle}, NEW n \in Names, Leased(c, h, n) PROVE call'[c].obj \in Persistent
    BY <1>2, <2>1 DEF Leased, Begins, Lent, DeadPersist
  <2>2. CASE Leasing(c) /\ call'[c].obj = call[c].obj
    <3>1. call[c].obj \in Calls
      BY <2>2, LeaseFacts
    <3> QED BY <1>2, <1>a, <2>2, <3>1 DEF Lent, DeadPersist
  <2> QED BY <1>2, <2>1, <2>2, LeasingBefore
<1>3. ASSUME NEW c \in Actors, Holding(c)', call'[c].at \notin {"delete", "remove"}, objects'[call'[c].obj] = "dead"
      PROVE  call'[c].obj \in Persistent
  <2>1. CASE Holding(c) /\ call'[c].obj = call[c].obj
    <3>1. call[c].obj \in Calls
      BY <2>1, Workers
    <3>2. ~ Cleans(c)
      BY <1>3 DEF Cleans, Forgets, Holding, Held
    <3>3. CASE call[c].at \notin {"delete", "remove"}
      BY <1>3, <1>a, <2>1, <3>1, <3>2, <3>3 DEF Lent, DeadPersist
    <3>4. CASE call[c].at = "delete"
      BY <2>1, <3>4, Shapes DEF WellShaped
    <3>5. CASE call[c].at = "remove"
      BY <1>3, <3>5, RemoveAfter
    <3> QED BY <3>3, <3>4, <3>5
  <2>2. ASSUME NEW h \in Handles \cup {NoHandle}, NEW n \in Names, Doomed(c, h, n) PROVE call'[c].obj \in Persistent
    BY <1>3, <2>2 DEF Doomed, Begins, Lent, DeadPersist
  <2>3. ASSUME NEW h, NEW n \in Names, NEW m \in Names, Renames(c, h, n, m) PROVE call'[c].obj \in Persistent
    BY <1>3, <2>3 DEF Renames, Begins, Lent, DeadPersist
  <2> QED BY <1>3, <2>1, <2>2, <2>3, HoldingBefore
<1> QED BY <1>1, <1>2, <1>3 DEF DeadPersist

LEMMA LentNext == Typed /\ Shape /\ Identity /\ SoundUnlessSpoiled /\ LentWhileItRuns /\ [Next]_vars => LentWhileItRuns'
<1> SUFFICES ASSUME Typed, Shape, Identity, SoundUnlessSpoiled, LentWhileItRuns, [Next]_vars, Runs' PROVE Lent'
  BY DEF LentWhileItRuns
<1>1. Effect
  BY EffectNext
<1>2. CASE Restarts
  BY <1>2, LentRestart
<1>3. CASE ~ Restarts
  <2>1. Sound /\ Lent /\ ~ spoiled'
    BY <1>1, <1>3, RunsBefore DEF SoundUnlessSpoiled, LentWhileItRuns, Runs
  <2> QED BY <1>1, <1>3, <2>1, LeasesStayNext, LeasesCountedNext, LeasesAwaitedNext, LeasesWrittenNext, DeadPersistNext
          DEF Lent
<1> QED BY <1>2, <1>3

(***************************************************************************)
(* The shutdown: it waits until nobody creates a resource, and what lives  *)
(* on then is among the entries it has still to end.                       *)
(***************************************************************************)
GatesWaited == /\ shut = "gates" => Creating \subseteq gates
               /\ shut \in {"entries", "over"} => Creating = {}
LiveEntered == shut \in {"entries", "over"} /\ faults = 0 /\ ~ spoiled =>
                 \A o \in Calls \ Persistent : objects[o] = "live" => \E n \in Names : entries[n].obj = o
AllEnded    == shut = "over" => \A n \in Names : entries[n].obj = 0

Ending == GatesWaited /\ LiveEntered /\ AllEnded

LEMMA EndingInit == Init => Ending
BY DEF Init, Ending, GatesWaited, LiveEntered, AllEnded

\* The manager is left alone, or moves on.
LEMMA ManagerChange ==
  ASSUME Effect
  PROVE  \/ Outside
         \/ Closes \/ Marks \/ Stops \/ Restarts \/ \E n \in Names : EndsEntry(n)
<1> USE DEF Quiet
<1>1. ASSUME NEW c, NEW h, NEW n, NEW m, NEW step,
             Reserves(c, h, n) \/ Leased(c, h, n) \/ Doomed(c, h, n) \/ Renames(c, h, n, m) \/ Prolongs(c, h, n, step)
      PROVE  Outside
  BY <1>1 DEF Reserves, Leased, Doomed, Renames, Prolongs
<1>2. ASSUME NEW c,
             \/ Goes(c) \/ Ends(c) \/ Cleans(c) \/ Deletes(c) \/ Removes(c) \/ Restores(c) \/ Makes(c) \/ Loses(c)
             \/ Saves(c) \/ Discards(c) \/ Registers(c) \/ Releases(c) \/ MovesRow(c) \/ MovesBack(c)
             \/ TakesBack(c) \/ Renamed(c)
      PROVE  Outside
  BY <1>2 DEF Goes, Ends, Cleans, Deletes, Removes, Restores, Makes, Loses, Saves, Discards, Registers, Releases,
              MovesRow, MovesBack, TakesBack, Renamed
<1>3. Stays => Outside
  BY DEF Stays
<1> QED BY <1>1, <1>2, <1>3 DEF Effect, Opens

LEMMA GatesWaitedNext ==
  ASSUME Typed, Shape, Ending, Effect, ~ Restarts
  PROVE  GatesWaited'
<1> USE Constants
<1>1. Creating' \subseteq Creating \/ (shut = "no" /\ shut' = "no")
  <2>1. CASE \E c \in Calls, h \in Handles \cup {NoHandle}, n \in Names : Reserves(c, h, n)
    BY <2>1 DEF Reserves, Quiet, Outside, Manager
  <2>2. CASE ~ \E c \in Calls, h \in Handles \cup {NoHandle}, n \in Names : Reserves(c, h, n)
    <3>1. ASSUME NEW c, c \in Creating' PROVE c \in Creating
      <4>1. c \in Calls
        BY <3>1 DEF Creating
      <4> QED BY <2>2, <3>1, <4>1, CreatingBefore
    <3> QED BY <3>1
  <2> QED BY <2>1, <2>2
<1>2. Creating \subseteq Calls
  BY DEF Creating
<1>3. CASE Outside
  BY <1>1, <1>3 DEF Outside, Manager, Ending, GatesWaited
<1>4. CASE Closes
  <2>1. Creating' = Creating
    BY <1>4 DEF Closes, Creating
  <2> QED BY <1>4, <2>1 DEF Closes, GatesWaited
<1>5. CASE Marks
  <2>1. Creating' = Creating /\ Creating = {}
    BY <1>5 DEF Marks, Creating, Ending, GatesWaited
  <2> QED BY <1>5, <2>1 DEF Marks, GatesWaited
<1>6. CASE Stops \/ \E n \in Names : EndsEntry(n)
  BY <1>1, <1>6 DEF Stops, EndsEntry, Ending, GatesWaited
<1> QED BY <1>3, <1>4, <1>5, <1>6, ManagerChange

LEMMA LiveEnteredNext ==
  ASSUME Typed, Shape, Identity, SoundUnlessSpoiled, Ending, Effect, ~ Restarts
  PROVE  LiveEntered'
<1> USE Constants
<1> SUFFICES ASSUME shut' \in {"entries", "over"}, faults' = 0, ~ spoiled', NEW o \in Calls \ Persistent, objects'[o] = "live"
             PROVE  \E n \in Names : entries'[n].obj = o
  BY DEF LiveEntered
<1>0. ~ spoiled
  BY UnspoiledBefore
<1>1. CASE Marks
  <2>1. shut = "gates" /\ gates \cap Creating = {} /\ entries' = resources /\ objects' = objects
    BY <1>1 DEF Marks
  <2>2. Creating = {}
    BY <2>1 DEF Ending, GatesWaited
  <2>3. call[o].at \notin {"save", "savelife", "register", "discard"}
    BY <2>2 DEF Creating, CreateSteps
  <2>4. \E n \in Names : resources[n].obj = o
    BY <1>0, <2>1, <2>3 DEF SoundUnlessSpoiled, Sound, LiveKnown
  <2> QED BY <2>1, <2>4
<1>2. CASE ~ Marks
  <2>1. shut \in {"entries", "over"} /\ faults = 0
    <3>1. CASE Outside
      BY <3>1 DEF Outside, Manager
    <3>2. CASE Closes
      BY <3>2 DEF Closes
    <3>3. CASE Stops \/ \E n \in Names : EndsEntry(n)
      BY <3>3 DEF Stops, EndsEntry
    <3> QED BY <1>2, <3>1, <3>2, <3>3, ManagerChange
  <2>2. objects[o] = "live"
    <3>1. ~ Makes(o)
      BY <2>1 DEF Makes, Creating, CreateSteps, Ending, GatesWaited
    <3> QED BY <3>1, LiveBefore
  <2>3. PICK n \in Names : entries[n].obj = o
    BY <1>0, <2>1, <2>2 DEF Ending, LiveEntered
  <2>4. CASE Outside \/ Stops
    BY <2>3, <2>4 DEF Outside, Manager, Stops
  <2>5. CASE Closes
    BY <2>1, <2>5 DEF Closes
  <2>6. ASSUME NEW m \in Names, EndsEntry(m) PROVE entries'[n].obj = o
    <3>1. CASE n # m
      BY <2>3, <2>6, <3>1 DEF EndsEntry
    <3>2. CASE n = m
      <4>1. objects'[o] # "dead"
        OBVIOUS
      <4> QED BY <2>3, <2>6, <3>2, <4>1, Shapes DEF EndsEntry
    <3> QED BY <3>1, <3>2
  <2> QED BY <1>2, <2>3, <2>4, <2>5, <2>6, ManagerChange
<1> QED BY <1>1, <1>2

LEMMA EndingNext == Typed /\ Shape /\ Identity /\ SoundUnlessSpoiled /\ Ending /\ [Next]_vars => Ending'
<1> SUFFICES ASSUME Typed, Shape, Identity, SoundUnlessSpoiled, Ending, [Next]_vars PROVE Ending'
  OBVIOUS
<1>1. Effect
  BY EffectNext
<1>2. CASE Restarts
  BY <1>2 DEF Restarts, Ending, GatesWaited, LiveEntered, AllEnded
<1>3. CASE ~ Restarts
  <2>1. AllEnded'
    <3>1. Outside => AllEnded'
      BY DEF Outside, Manager, Ending, AllEnded
    <3>2. Closes \/ Marks \/ Stops \/ (\E n \in Names : EndsEntry(n)) => AllEnded'
      BY DEF Closes, Marks, Stops, EndsEntry, AllEnded
    <3> QED BY <1>1, <1>3, <3>1, <3>2, ManagerChange
  <2> QED BY <1>1, <1>3, <2>1, GatesWaitedNext, LiveEnteredNext DEF Ending
<1> QED BY <1>2, <1>3

(***************************************************************************)
(* The invariant of the specification and what it says.                    *)
(***************************************************************************)
IInv == Typed /\ Shape /\ Identity /\ SoundUnlessSpoiled /\ LentWhileItRuns /\ Ending

LEMMA IInvInit == Init => IInv
BY TypedInit, ShapeInit, IdentityInit, SoundInit, LentInit, EndingInit DEF IInv, SoundUnlessSpoiled, LentWhileItRuns

LEMMA IInvNext == IInv /\ [Next]_vars => IInv'
BY TypedNext, ShapeNext, IdentityNext, SoundNext, LentNext, EndingNext DEF IInv

\* In every state of an execution the registry, the calls, the rows, the leases and the shutdown
\* are as they should be.
THEOREM Invariance == Spec => []IInv
<1>1. Init => IInv
  BY IInvInit
<1>2. IInv /\ [Next]_vars => IInv'
  BY IInvNext
<1> QED BY <1>1, <1>2, PTL DEF Spec

LEMMA TypesFollow == Typed => TypeOK
BY DEF Typed, TypeOK, CallRecord, Blocked

LEMMA NamesFollow == IInv => NamesAreUnique
<1> SUFFICES ASSUME IInv, ~ spoiled PROVE UniqueNames
  BY DEF NamesAreUnique
<1>0. Typed /\ Shape /\ Sound
  BY DEF IInv, SoundUnlessSpoiled
<1>1. ASSUME NEW c \in Creating, call[c].at # "gate"
      PROVE  ~ Registered(call[c].name) /\ \A d \in Creating \ {c} : call[d].name # call[c].name
  <2>1. c \in Calls /\ Naming(c)
    BY <1>1 DEF Creating, Naming
  <2> QED BY <1>0, <2>1 DEF Sound, NamesApart
<1>2. ASSUME NEW o \in Calls, objects[o] = "live" PROVE Owned(o)
  BY <1>0, <1>2 DEF Sound, LiveKnown, Owned, CreateSteps
<1> QED BY <1>1, <1>2 DEF UniqueNames

LEMMA RowsFollowed == IInv => RowsMatchRegistry
<1> SUFFICES ASSUME IInv, ~ spoiled, NEW n \in Names
             PROVE  /\ resources[n].free /\ resources[n].obj \in Persistent => rows[n] = resources[n].obj
                    /\ rows[n] # 0 /\ rows[n] # resources[n].obj =>
                         objects[rows[n]] = "dead" \/ \E c \in Actors : Works(c, n)
  BY DEF RowsMatchRegistry
<1>0. Sound
  BY DEF IInv, SoundUnlessSpoiled
<1>1. resources[n].free /\ resources[n].obj \in Persistent => rows[n] = resources[n].obj
  BY <1>0 DEF Sound, RowsFollow, Free
<1>2. ASSUME rows[n] # 0, rows[n] # resources[n].obj, objects[rows[n]] # "dead" PROVE \E c \in Actors : Works(c, n)
  <2>1. PICK c \in Calls : Answers(c, n)
    BY <1>0, <1>2 DEF Sound, StraysAnswered
  <2>2. Works(c, n)
    BY <2>1 DEF Answers, Works
  <2> QED BY <2>1, <2>2, Constants
<1> QED BY <1>1, <1>2

LEMMA UsesFollow == IInv => NoUseOfTheDestroyed
<1> SUFFICES ASSUME IInv, Runs, NEW c \in Calls, Leasing(c)
             PROVE  /\ \A d \in Actors : Destroys(d) => call[d].obj # call[c].obj
                    /\ objects[call[c].obj] = "dead" => \E n \in Names : rows[n] = call[c].obj
  BY DEF NoUseOfTheDestroyed, Runs
<1>0. Typed /\ Shape /\ Identity /\ Sound /\ Lent
  BY DEF IInv, SoundUnlessSpoiled, LentWhileItRuns, Runs
<1>a. /\ call[c].name \in Names /\ resources[call[c].name].obj = call[c].obj /\ call[c].obj \in Calls
      /\ \A d \in Actors : Holding(d) /\ Spot(d) = call[c].name => call[d].at = "await"
  BY <1>0, LeaseFacts
<1>1. ASSUME NEW d \in Actors, Destroys(d) PROVE call[d].obj # call[c].obj
  <2>1. Holding(d) /\ call[d].at # "await"
    BY <1>1 DEF Destroys, Holding, Held
  <2>2. Spot(d) \in Names /\ resources[Spot(d)].obj = call[d].obj /\ call[d].obj # 0
    BY <1>0, <2>1, Workers, Constants DEF Sound, HeldApart
  <2>3. Spot(d) # call[c].name
    BY <1>a, <2>1
  <2> QED BY <1>0, <1>a, <2>2, <2>3 DEF Identity, PlacedOnce
<1>2. ASSUME objects[call[c].obj] = "dead" PROVE \E n \in Names : rows[n] = call[c].obj
  <2>1. call[c].obj \in Persistent
    BY <1>0, <1>2 DEF Lent, DeadPersist
  <2> QED BY <1>0, <1>a, <2>1 DEF Lent, LeasesWritten
<1> QED BY <1>1, <1>2

LEMMA EndFollows == IInv => ShutdownLeavesNothing
<1> SUFFICES ASSUME IInv, shut = "over", faults = 0, ~ spoiled, NEW o \in Calls \ Persistent, objects[o] = "live"
             PROVE  FALSE
  BY DEF ShutdownLeavesNothing
<1>1. PICK n \in Names : entries[n].obj = o
  BY DEF IInv, Ending, LiveEntered
<1>2. entries[n].obj = 0
  BY DEF IInv, Ending, AllEnded
<1> QED BY <1>1, <1>2, Constants

\* No two resources have one name and none is pushed out of the registry, and the rows agree with
\* the registry, whatever fails and whoever is cancelled, unless a renaming meets another call.
THEOREM RegistrySoundness == Spec => []RegistryIsSound
<1>1. IInv => RegistryIsSound
  BY TypesFollow, NamesFollow, RowsFollowed DEF IInv, RegistryIsSound
<1> QED BY <1>1, Invariance, PTL

\* While the manager runs, no call uses an object that somebody destroys.
THEOREM LeaseSafety == Spec => []NoUseOfTheDestroyed
<1> QED BY UsesFollow, Invariance, PTL

\* A shutdown in which nothing failed leaves no live object that ends with the process.
THEOREM CompleteShutdown == Spec => []ShutdownLeavesNothing
<1> QED BY EndFollows, Invariance, PTL
=============================================================================
